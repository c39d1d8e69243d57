-------------------------- MODULE SessionOwnership --------------------------
(***************************************************************************)
(* Who holds a device: the relay's SessionManager with the RelayServer     *)
(* handlers that call it.  A session is one device.  One client holds it   *)
(* at a time, others may watch one that an AI client drives, and a device  *)
(* somebody left counts down to a shutdown during which it waits for the   *)
(* person who left it.                                                     *)
(*                                                                         *)
(* Ownership is by client key, not by socket: a client that reconnects     *)
(* has a new socket and the same key, and the old socket's close may be    *)
(* processed after the new one joined.                                     *)
(***************************************************************************)
EXTENDS Integers, FiniteSets

CONSTANTS
  Sessions,
  Sockets,          \* client connections; one is used again once it is closed
  KeyOf,            \* the owner key of each socket (ownerRecord)
  UserOf,           \* the signed-in user behind it
  Ai,               \* the sockets whose client declares an AI kind (isAiClientKind)
  Minted,           \* the keys the relay made up for clients that sent none
  MayWatch,         \* the sockets permitted to watch
  None,
  MaxWatchers,      \* MAX_WATCHERS_PER_SESSION
  IdleTimeout,      \* idleTimeoutMs
  Flaky,            \* sessions whose agent may drop or whose device may be unplugged
  MaxAsked,         \* bound on unanswered shutdowns per session, for model checking
  MaxTime           \* bound on the clock, for model checking

Keys == {KeyOf[w] : w \in Sockets}
Users == {UserOf[w] : w \in Sockets}

ASSUME OwnershipAssumption ==
  /\ DOMAIN KeyOf = Sockets /\ DOMAIN UserOf = Sockets
  /\ None \notin Sockets /\ None \notin Keys /\ None \notin Users /\ None \notin Nat
  /\ Ai \subseteq Sockets
  /\ \A v, w \in Sockets : KeyOf[v] = KeyOf[w] =>
       UserOf[v] = UserOf[w] /\ (v \in Ai <=> w \in Ai)
  /\ MaxWatchers \in Nat /\ IdleTimeout \in Nat /\ MaxAsked \in Nat /\ MaxTime \in Nat

VARIABLES
  conn,     \* each socket: off, open, silent (open, no pong in time) or closing
  ses,      \* SessionManager.sessions
  held,     \* browserSocketIndex
  watch,    \* watchers: the key each watching socket was admitted under, or None
  agent,    \* whether each session's agent socket is open
  asked,    \* how many shutdowns each session's agent was sent and has not answered
  now

vars == <<conn, ses, held, watch, agent, asked, now>>

-----------------------------------------------------------------------------
(* One session's record.                                                    *)

NoWait == [user |-> None, deadline |-> 0]
NoUndo == [wait |-> NoWait, ended |-> None]

NewSession ==
  [live |-> TRUE, holder |-> None, owner |-> None, ai |-> FALSE, countdown |-> None,
   resume |-> FALSE, lastAi |-> FALSE, waiting |-> NoWait, ended |-> None,
   afterDown |-> "none", undo |-> NoUndo, gone |-> FALSE]

NoSession == [NewSession EXCEPT !.live = FALSE]

Awaits(x) == x.waiting.user # None
Speaks(w) == conn[w] \in {"open", "silent"}
Owns(w, s) == ses[s].live /\ ses[s].owner = KeyOf[w]
Watching(w, s) == watch[s][w] # None
NoWatchers == [w \in Sockets |-> None]

(* browserSocketIndex without the sessions S, each under its own socket.    *)
Unindexed(S) == [v \in Sockets |-> held[v] \ {s \in S : ses[s].holder = v}]

(* A faulty index that a client already in it does not enter again (#507).  *)
IndexedOnce(w, s) == IF Owns(w, s) THEN held ELSE [Unindexed({s}) EXCEPT ![w] = @ \cup {s}]
Indexed(w, s) == [Unindexed({s}) EXCEPT ![w] = @ \cup {s}]

(* A faulty join that evicts no watcher.                                   *)
KeptAlways(s, w) == watch[s]
KeptWatchers(s, w) ==
  [v \in Sockets |-> IF watch[s][v] = KeyOf[w] /\ w \in Ai THEN watch[s][v] ELSE None]

-----------------------------------------------------------------------------
(* SessionManager.                                                          *)

(* A person who joins ends the wait. Whoever was waited for is told, unless *)
(* it is the joiner; then an earlier notice of somebody else's stays.       *)
EndedByJoin(x, u) ==
  LET told == IF Awaits(x) /\ x.waiting.user # u THEN x.waiting.user ELSE x.ended
  IN  IF told = u THEN None ELSE told

(* A faulty join that forgets to note a borrowed countdown.                 *)
JoinedNoResume(x, w) ==
  [x EXCEPT !.resume = FALSE,
            !.countdown = None, !.holder = w, !.owner = KeyOf[w], !.ai = w \in Ai,
            !.ended = IF w \in Ai THEN @ ELSE EndedByJoin(x, UserOf[w]),
            !.waiting = IF w \in Ai THEN @ ELSE NoWait]

(* A faulty join that ends the wait whoever joins.                          *)
JoinedEndsWait(x, w) ==
  [x EXCEPT !.resume = IF x.countdown # None THEN w \in Ai ELSE @ /\ w \in Ai,
            !.countdown = None, !.holder = w, !.owner = KeyOf[w], !.ai = w \in Ai,
            !.ended = IF w \in Ai THEN @ ELSE EndedByJoin(x, UserOf[w]),
            !.waiting = NoWait]

(* A faulty join that leaves the notice for a person who is back.           *)
JoinedStillTold(x, w) ==
  [x EXCEPT !.resume = IF x.countdown # None THEN w \in Ai ELSE @ /\ w \in Ai,
            !.countdown = None, !.holder = w, !.owner = KeyOf[w], !.ai = w \in Ai,
            !.ended = IF w \in Ai \/ x.waiting.user \in {None, UserOf[w]} THEN @
                      ELSE x.waiting.user,
            !.waiting = IF w \in Ai THEN @ ELSE NoWait]

Joined(x, w) ==
  [x EXCEPT !.resume = IF x.countdown # None THEN w \in Ai ELSE @ /\ w \in Ai,
            !.countdown = None, !.holder = w, !.owner = KeyOf[w], !.ai = w \in Ai,
            !.ended = IF w \in Ai THEN @ ELSE EndedByJoin(x, UserOf[w]),
            !.waiting = IF w \in Ai THEN @ ELSE NoWait]

(* Whose countdown a release leaves behind: an AI client that borrowed a    *)
(* person's hands it back as the person's.                                  *)
LastAi(x) == IF x.owner = None THEN x.lastAi ELSE x.ai /\ (~x.resume \/ x.lastAi)

(* A faulty wait, for the client that left and not for its user.            *)
WaitAfterKey(x, deadline) ==
  IF x.owner # None /\ ~x.ai THEN [user |-> x.owner, deadline |-> deadline]
  ELSE IF Awaits(x) /\ ~LastAi(x) THEN [x.waiting EXCEPT !.deadline = deadline]
  ELSE NoWait

WaitAfter(x, deadline) ==
  IF x.owner # None /\ ~x.ai THEN [user |-> UserOf[x.holder], deadline |-> deadline]
  ELSE IF Awaits(x) /\ ~LastAi(x) THEN [x.waiting EXCEPT !.deadline = deadline]
  ELSE NoWait

(* A faulty release that counts down only where somebody is waited for.     *)
ReleasedUncounted(x, restart) ==
  LET deadline == now + IdleTimeout
      wait == IF restart THEN WaitAfter(x, deadline) ELSE x.waiting IN
  [x EXCEPT !.holder = None, !.owner = None, !.ai = FALSE, !.lastAi = LastAi(x),
            !.resume = FALSE,
            !.countdown = IF restart /\ wait # NoWait THEN deadline ELSE None,
            !.waiting = wait]

(* clearBrowser, with the idleResumeOnLeave reset its callers add.          *)
Released(x, restart) ==
  LET deadline == now + IdleTimeout IN
  [x EXCEPT !.holder = None, !.owner = None, !.ai = FALSE, !.lastAi = LastAi(x),
            !.resume = FALSE,
            !.countdown = IF restart THEN deadline ELSE None,
            !.waiting = IF restart THEN WaitAfter(x, deadline) ELSE @]

NoteShutdown(x, u) ==
  IF ~Awaits(x) THEN [x EXCEPT !.afterDown = "out", !.undo = NoUndo]
  ELSE [x EXCEPT !.afterDown = "out",
                 !.undo = [wait |-> x.waiting, ended |-> x.ended],
                 !.ended = IF x.waiting.user = u THEN @ ELSE x.waiting.user,
                 !.waiting = NoWait]

UndoShutdown(x) ==
  LET settled == [x EXCEPT !.afterDown = "none", !.undo = NoUndo]
  IN  IF /\ x.undo.wait.user # None /\ ~Awaits(x)
         /\ x.afterDown = "out" /\ x.countdown # None
      THEN [settled EXCEPT !.waiting = x.undo.wait, !.ended = x.undo.ended]
      ELSE settled

SettleShutdown(x) ==
  LET settled == [x EXCEPT !.afterDown = "none"]
  IN  IF x.afterDown = "booted" THEN settled
      ELSE [settled EXCEPT !.countdown = None, !.waiting = NoWait]

ShutdownSent(x) == [x EXCEPT !.afterDown = "out"]
BootSent(x) == [x EXCEPT !.afterDown = IF @ = "out" THEN "booted" ELSE @]

Vacant(s) ==
  /\ ses[s].owner = None /\ ses[s].holder = None /\ ses[s].countdown = None
  /\ watch[s] = NoWatchers

(* removeSession of every session of S.                                     *)
Remove(S) ==
  /\ ses' = [s \in Sessions |-> IF s \in S THEN NoSession ELSE ses[s]]
  /\ held' = Unindexed(S)
  /\ watch' = [s \in Sessions |-> IF s \in S THEN NoWatchers ELSE watch[s]]
  /\ asked' = [s \in Sessions |-> IF s \in S THEN 0 ELSE asked[s]]

-----------------------------------------------------------------------------
(* The connections.                                                         *)

Connect(w) ==
  /\ conn[w] = "off"
  /\ conn' = [conn EXCEPT ![w] = "open"]
  /\ UNCHANGED <<ses, held, watch, agent, asked, now>>

(* No pong for longer than isAlive allows, or a late one after all.         *)
FallSilent(w) ==
  /\ conn[w] \in {"open", "silent"}
  /\ conn' = [conn EXCEPT ![w] = IF @ = "open" THEN "silent" ELSE "open"]
  /\ UNCHANGED <<ses, held, watch, agent, asked, now>>

(* The client goes, or closeForAuth revokes it: no longer OPEN, its close   *)
(* not yet processed, nothing it sends counts.                              *)
StartClosing(w) ==
  /\ Speaks(w)
  /\ conn' = [conn EXCEPT ![w] = "closing"]
  /\ UNCHANGED <<ses, held, watch, agent, asked, now>>

(* runHeartbeat: silent sockets are terminated, and sessions of devices     *)
(* that are gone are removed unless a boot is pending on them.              *)
Heartbeat(booting) ==
  /\ conn' = [w \in Sockets |-> IF conn[w] = "silent" THEN "closing" ELSE conn[w]]
  /\ Remove({s \in Sessions \ booting : ses[s].live /\ ses[s].gone /\ Vacant(s)})
  /\ UNCHANGED <<agent, now>>

(* The socket's close event.                                                *)
Close(w) ==
  /\ conn[w] = "closing"
  /\ conn' = [conn EXCEPT ![w] = "off"]
  /\ ses' = [s \in Sessions |-> IF s \in held[w] THEN Released(ses[s], TRUE) ELSE ses[s]]
  /\ held' = Unindexed(held[w])
  /\ watch' = [s \in Sessions |-> [watch[s] EXCEPT ![w] = None]]
  /\ UNCHANGED <<agent, asked, now>>

-----------------------------------------------------------------------------
(* What clients ask for.                                                    *)

(* join and handleSessionStart refuse only for a holder that is answering.  *)
HeldByAnother(s, w) ==
  /\ ses[s].holder # None /\ ses[s].owner # None /\ ses[s].owner # KeyOf[w]
  /\ conn[ses[s].holder] = "open"

(* session:start, where the Mac's load does not refuse it.                  *)
SessionStart(w, s) ==
  /\ Speaks(w) /\ ses[s].live
  /\ ~Watching(w, s) /\ ~HeldByAnother(s, w)
  /\ ses[s].gone => ses[s].owner = KeyOf[w] \/ ses[s].waiting.user = UserOf[w]
  /\ ses' = [ses EXCEPT ![s] = Joined(@, w)]
  /\ held' = Indexed(w, s)
  /\ watch' = [watch EXCEPT ![s] = KeptWatchers(s, w)]
  /\ UNCHANGED <<conn, agent, asked, now>>

SessionLeave(w, s) ==
  /\ Speaks(w) /\ Owns(w, s)
  /\ ses' = [ses EXCEPT ![s] = Released(@, @.resume)]
  /\ held' = Unindexed({s})
  /\ watch' = [watch EXCEPT ![s] = NoWatchers]
  /\ UNCHANGED <<conn, agent, asked, now>>

SessionEnd(w, s) ==
  /\ Speaks(w) /\ Owns(w, s)
  /\ Remove({s})
  /\ UNCHANGED <<conn, agent, now>>

(* Watching again renews the key it is admitted under.                      *)
WatchStart(w, s) ==
  /\ Speaks(w) /\ w \in MayWatch
  /\ ses[s].live /\ ses[s].owner # None /\ ses[s].ai /\ ~Owns(w, s)
  /\ Watching(w, s) \/ Cardinality({v \in Sockets : Watching(v, s)}) < MaxWatchers
  /\ watch' = [watch EXCEPT ![s][w] = ses[s].owner]
  /\ UNCHANGED <<conn, ses, held, agent, asked, now>>

WatchStop(w, s) ==
  /\ Speaks(w)
  /\ watch' = [watch EXCEPT ![s][w] = None]
  /\ UNCHANGED <<conn, ses, held, agent, asked, now>>

MayShutDown(w, s) ==
  \/ ses[s].owner \in {None, KeyOf[w]}
  \/ ses[s].owner \in Minted /\ UserOf[ses[s].holder] = UserOf[w]

Ask(s) == asked' = [asked EXCEPT ![s] = @ + 1]

(* device:shutdown, forwarded.                                              *)
Shutdown(w, s) ==
  /\ Speaks(w) /\ ses[s].live /\ ~Watching(w, s) /\ MayShutDown(w, s) /\ agent[s]
  /\ asked[s] < MaxAsked
  /\ ses' = [ses EXCEPT ![s] = NoteShutdown(@, UserOf[w])]
  /\ Ask(s)
  /\ UNCHANGED <<conn, held, watch, agent, now>>

(* device:boot, forwarded (forwardBoot asks for ownership again).           *)
Boot(w, s) ==
  /\ Speaks(w) /\ Owns(w, s) /\ agent[s]
  /\ ses' = [ses EXCEPT ![s] = BootSent(@)]
  /\ UNCHANGED <<conn, held, watch, agent, asked, now>>

-----------------------------------------------------------------------------
(* Timers, capacity and the agent.                                          *)

(* The countdown ends.  An agent that is away is asked nothing.             *)
IdleFires(s) ==
  /\ ses[s].countdown # None /\ now >= ses[s].countdown
  /\ agent[s] => asked[s] < MaxAsked
  /\ LET ended == [ses[s] EXCEPT !.countdown = None, !.waiting = NoWait] IN
       ses' = [ses EXCEPT ![s] = IF agent[s] THEN ShutdownSent(ended) ELSE ended]
  /\ IF agent[s] THEN Ask(s) ELSE UNCHANGED asked
  /\ UNCHANGED <<conn, held, watch, agent, now>>

(* evictForCapacity of a device nobody uses or waits for.                   *)
EvictForCapacity(s) ==
  /\ ses[s].live /\ agent[s] /\ asked[s] < MaxAsked
  /\ ses[s].owner = None /\ ~Awaits(ses[s]) /\ watch[s] = NoWatchers
  /\ ses' = [ses EXCEPT ![s] = ShutdownSent(@)]
  /\ Ask(s)
  /\ UNCHANGED <<conn, held, watch, agent, now>>

(* The agent answers one of the shutdowns it was sent.                      *)
Answered(s) == asked[s] > 0 /\ asked' = [asked EXCEPT ![s] = @ - 1]

ShutdownDone(s) ==
  /\ agent[s] /\ ses[s].live
  /\ ses' = [ses EXCEPT ![s] = SettleShutdown(@)]
  /\ Answered(s)
  /\ UNCHANGED <<conn, held, watch, agent, now>>

ShutdownError(s) ==
  /\ agent[s] /\ ses[s].live
  /\ ses' = [ses EXCEPT ![s] = UndoShutdown(@)]
  /\ Answered(s)
  /\ UNCHANGED <<conn, held, watch, agent, now>>

AgentAway(s) ==
  /\ s \in Flaky /\ ses[s].live /\ agent[s]
  /\ agent' = [agent EXCEPT ![s] = FALSE]
  /\ UNCHANGED <<conn, ses, held, watch, asked, now>>

(* The agent is back: the session is rebound, and what the old process had  *)
(* not answered is answered by the new connection or never.                 *)
AgentBack(s, keep) ==
  /\ ses[s].live /\ ~agent[s]
  /\ agent' = [agent EXCEPT ![s] = TRUE]
  /\ ses' = [ses EXCEPT ![s].gone = FALSE]
  /\ asked' = IF keep THEN asked ELSE [asked EXCEPT ![s] = 0]
  /\ UNCHANGED <<conn, held, watch, now>>

(* It did not come back within its grace, or came back without the device.  *)
AgentLost(s) ==
  /\ ses[s].live /\ ~agent[s]
  /\ Remove({s})
  /\ agent' = [agent EXCEPT ![s] = TRUE]
  /\ UNCHANGED <<conn, now>>

(* agent:devices, for one session: the device is listed, or it is gone.     *)
DeviceListed(s) ==
  /\ s \in Flaky /\ ses[s].live /\ agent[s]
  /\ ses' = [ses EXCEPT ![s].gone = FALSE]
  /\ UNCHANGED <<conn, held, watch, agent, asked, now>>

DeviceGone(s, booting) ==
  /\ s \in Flaky /\ ses[s].live /\ agent[s]
  /\ IF Vacant(s) /\ ~booting THEN Remove({s})
     ELSE ses' = [ses EXCEPT ![s].gone = TRUE] /\ UNCHANGED <<held, watch, asked>>
  /\ UNCHANGED <<conn, agent, now>>

(* A device is registered: a new session, whose id nothing has referred to. *)
Create(s) ==
  /\ ~ses[s].live
  /\ ses' = [ses EXCEPT ![s] = NewSession]
  /\ UNCHANGED <<conn, held, watch, agent, asked, now>>

Advance ==
  /\ now < MaxTime
  /\ now' = now + 1
  /\ UNCHANGED <<conn, ses, held, watch, agent, asked>>

-----------------------------------------------------------------------------
Init ==
  /\ conn = [w \in Sockets |-> "off"]
  /\ ses = [s \in Sessions |-> NewSession]
  /\ held = [w \in Sockets |-> {}]
  /\ watch = [s \in Sessions |-> NoWatchers]
  /\ agent = [s \in Sessions |-> TRUE]
  /\ asked = [s \in Sessions |-> 0]
  /\ now = 0

Next ==
  \/ \E w \in Sockets :
       \/ Connect(w) \/ FallSilent(w) \/ StartClosing(w) \/ Close(w)
       \/ \E s \in Sessions :
            \/ SessionStart(w, s) \/ SessionLeave(w, s) \/ SessionEnd(w, s)
            \/ WatchStart(w, s) \/ WatchStop(w, s)
            \/ Shutdown(w, s) \/ Boot(w, s)
  \/ \E s \in Sessions :
       \/ IdleFires(s) \/ EvictForCapacity(s)
       \/ ShutdownDone(s) \/ ShutdownError(s)
       \/ AgentAway(s) \/ AgentLost(s) \/ DeviceListed(s) \/ Create(s)
       \/ \E b \in BOOLEAN : AgentBack(s, b) \/ DeviceGone(s, b)
  \/ \E booting \in SUBSET Sessions : Heartbeat(booting)
  \/ Advance

Spec == Init /\ [][Next]_vars

(* The relay's own steps happen: its heartbeat runs, close events are       *)
(* processed, timers fire; an agent answers, and one that dropped returns.  *)
Fairness ==
  /\ WF_vars(Heartbeat({}))
  /\ \A w \in Sockets : WF_vars(Close(w))
  /\ \A s \in Sessions : WF_vars(IdleFires(s))
  /\ \A s \in Sessions : WF_vars(AgentBack(s, FALSE) \/ AgentBack(s, TRUE) \/ AgentLost(s))
  /\ \A s \in Sessions : WF_vars(ShutdownDone(s) \/ ShutdownError(s))
  /\ WF_vars(Advance)

FairSpec == Spec /\ Fairness

-----------------------------------------------------------------------------
(* Properties.                                                              *)

WaitType == [user : Users \cup {None}, deadline : Nat]
UndoType == [wait : WaitType, ended : Users \cup {None}]

SessionType ==
  [live : BOOLEAN, holder : Sockets \cup {None}, owner : Keys \cup {None}, ai : BOOLEAN,
   countdown : Nat \cup {None}, resume : BOOLEAN, lastAi : BOOLEAN, waiting : WaitType,
   ended : Users \cup {None}, afterDown : {"none", "out", "booted"},
   undo : UndoType, gone : BOOLEAN]

\* Every variable has its type.
TypeOK ==
  /\ conn \in [Sockets -> {"off", "open", "silent", "closing"}]
  /\ ses \in [Sessions -> SessionType]
  /\ held \in [Sockets -> SUBSET Sessions]
  /\ watch \in [Sessions -> [Sockets -> Keys \cup {None}]]
  /\ agent \in [Sessions -> BOOLEAN]
  /\ asked \in [Sessions -> Nat]
  /\ now \in Nat

\* The index the close handler reads names exactly the sessions each socket
\* holds: a socket that holds several loses none of them, and one replaced by a
\* newer socket of the same client keeps none (#507).
IndexAgrees == \A w \in Sockets, s \in Sessions : s \in held[w] <=> ses[s].holder = w

\* No session is held by a connection whose close has been processed, nor owned
\* by a client without a connection: nothing stays busy for the life of the relay.
HolderConnected ==
  \A s \in Sessions :
    /\ (ses[s].holder = None) <=> (ses[s].owner = None)
    /\ ses[s].holder # None => /\ conn[ses[s].holder] # "off"
                               /\ ses[s].owner = KeyOf[ses[s].holder]

\* Holder, owner, connection and index say the same of every session, through
\* take-overs, reconnects, leaves and late closes.
HoldersAgree == IndexAgrees /\ HolderConnected

\* A device somebody holds never counts down to its shutdown.
HeldDoesNotCount == \A s \in Sessions : ses[s].holder # None => ses[s].countdown = None

\* A device waits for a person only while it counts down, or while an AI client
\* has it that will start the countdown again when it goes: "A release with no
\* countdown cannot find a wait to end" (clearBrowser).
WaitIsCounted ==
  \A s \in Sessions : Awaits(ses[s]) =>
    \/ ses[s].countdown # None
    \/ ses[s].holder # None /\ ses[s].ai /\ ses[s].resume

\* A countdown runs where it may, and where a person was promised one.
CountdownIsRight == HeldDoesNotCount /\ WaitIsCounted

\* Nobody is told both that a device waits for them and that somebody ended that
\* wait, through joins, drops, shutdowns and their failures in any order.
NotToldBoth ==
  \A s \in Sessions : Awaits(ses[s]) => ses[s].ended # ses[s].waiting.user

\* Everyone who watches a held session was admitted under the client that holds
\* it now, and that client is an AI: "A watch follows the holder, not the session".
WatchFollowsHolder ==
  \A s \in Sessions, w \in Sockets :
    (Watching(w, s) /\ ses[s].holder # None) => ses[s].ai /\ watch[s][w] = ses[s].owner

\* A watching connection never owns what it watches, although ownership is by
\* client key: whatever it sends to the device is refused.
WatcherHasNoControl ==
  \A s \in Sessions, w \in Sockets : Watching(w, s) => ~Owns(w, s)

\* A watch is of the client that holds the device now, and gives no hold on it.
WatchesFollow == WatchFollowsHolder /\ WatcherHasNoControl

\* 5 minutes after the browser disconnects, the relay asks the agent to shut the
\* device down, unless somebody takes it first (docs/troubleshooting/streaming.md).
LeftDeviceIsShutDown ==
  \A s \in Sessions, w \in Sockets :
    (ses[s].holder = w /\ conn[w] = "closing")
      ~> \/ asked[s] > 0 \/ ~ses[s].live
         \/ ses[s].holder # None /\ Speaks(ses[s].holder)

KeyUser == [k \in Keys |-> UserOf[CHOOSE w \in Sockets : KeyOf[w] = k]]

Promise == INSTANCE DevicePromise WITH
  Devices <- Sessions, Clients <- Keys, AiClients <- {KeyOf[w] : w \in Ai},
  UserOfClient <- KeyUser, Nobody <- None,
  live <- [s \in Sessions |-> ses[s].live],
  owner <- [s \in Sessions |-> ses[s].owner],
  answering <- [s \in Sessions |-> ses[s].holder # None /\ conn[ses[s].holder] = "open"],
  promised <- [s \in Sessions |-> ses[s].waiting.user],
  firm <- [s \in Sessions |-> ~ses[s].lastAi]

\* The relay keeps what it promises about each device: the handlers, with their
\* sockets, countdowns and shutdowns, implement DevicePromise.
KeepsPromise == Promise!Spec
=============================================================================
