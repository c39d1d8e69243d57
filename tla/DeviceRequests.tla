-------------------------- MODULE DeviceRequests --------------------------
(* What is asked of one device through one session: boots, installs and
   shutdowns, from the relay's handlers (packages/relay/src/RelayServer.ts) to
   the iOS agent that carries them out (packages/ios-agent/src/IOSAgent.ts),
   while the holder changes, the agent's link drops and the device goes down.

   The relay keeps two records by what the agent answers: who brought the
   device up, which the lease and the automation cap go by, and the build that
   is on it, by which an install may be skipped.  The relay's handlers here do
   not await; on the agent each step below ends at an await.

   Left out: the boot gate, which here lets every boot through at once
   (BootGate); service tiers; the Mac's other devices, but for what counting or
   making room among them does to this one; a simulator whose data is missing,
   which is erased on its way up; and what a process that died had already asked
   of the device.                                                           *)
EXTENDS Naturals, Sequences, FiniteSets

CONSTANTS
    Boots,         \* request ids of the boots
    Installs,      \* request ids of the installs
    Builds,        \* builds of one app: installing one replaces the other
    None,
    MaxJoins,      \* (bound) how often somebody takes the session
    MaxRequests,   \* (bound) how many boots and installs are asked for
    MaxTrouble     \* (bound) how many shutdowns, lost links, late answers and
                   \* devices gone off outside tapflow there are

VARIABLES
    sess,      \* the relay's session
    up,        \* the relay's view of the agent's socket: open or not
    tracked,   \* pendingBoots
    toAgent,   \* frames on their way to the agent
    toRelay,   \* frames on their way to the relay
    link,      \* the agent's view of its socket
    task,      \* the boots the agent is carrying out
    cur,       \* the boot that holds the session's current bootSeq
    place,     \* the installs the agent is carrying out
    off,       \* the agent is carrying out a shutdown
    power,     \* the device
    app,       \* the build on the device
    owed,      \* (history) what each request has been answered
    asker,     \* (history) who asked for each boot
    theirs,    \* (history) a person's boot brought the device up and has been
               \* answered, and it has not gone since; not where automation held
               \* it by then and the relay had no record of that boot
    crossed,   \* (history) "install": one was sent beside another or a wipe;
               \* "boot": one was sent beside another
    spent      \* (bound) joins and troubles so far

relayVars == <<sess, up, tracked>>
agentVars == <<link, task, cur, place, off>>
history == <<asker, crossed>>
vars == <<relayVars, agentVars, toAgent, toRelay, power, app, owed, theirs,
          history, spent>>

Kinds   == {"ai", "person"}

\* Request ids are told apart across kinds, and None is none of them.
ASSUME RequestsAssumption ==
    /\ Boots \cap Installs = {}
    /\ None \notin Boots \cup Installs \cup Builds \cup Kinds
    /\ {MaxJoins, MaxRequests, MaxTrouble} \subseteq Nat

NoPend  == [req |-> None, prev |-> None, late |-> FALSE]
NoInst  == [req |-> None, build |-> None, waiters |-> {}]
NoExp   == [req |-> None, by |-> None]
NoTask  == [stage |-> "none"]

Session ==
    [on     : BOOLEAN,
     holder : Kinds \cup {None},
     wait   : {"no", "ai", "person"},   \* the countdown that runs, or is lent
     waited : BOOLEAN,                  \* waitingOwner
     undo   : BOOLEAN,                  \* shutdownUndo
     again  : {"none", "no", "yes"},    \* bootAfterShutdown
     status : {"shutdown", "unknown", "booted"},
     last   : Kinds \cup {None},        \* lastBoot
     pend   : [req : Boots \cup {None}, prev : Kinds \cup {None},  \* lastBootPending
               late : BOOLEAN],            \* older than the TTL
     exp    : [req : Boots \cup {None}, by : Kinds \cup {None}],   \* lastBootExpired
     evict  : {"no", "fresh", "past"},  \* evictingAt and its grace
     inst   : Builds \cup {None},       \* installed
     going  : [req : Installs \cup {None}, build : Builds \cup {None},
               waiters : SUBSET Installs]]

BootTask ==
    [stage : {"listing", "stopping", "erasing", "starting", "resetting",
              "opening"},
     erase : BOOLEAN, reset : BOOLEAN, cold : BOOLEAN,
     mute : BOOLEAN]

TypeOK ==
    /\ sess \in Session
    /\ up \in BOOLEAN /\ link \in BOOLEAN /\ off \in {"no", "asked", "done"}
    /\ tracked \subseteq Boots
    /\ task \in [Boots -> BootTask \cup {NoTask}]
    /\ cur \in Boots \cup {None}
    /\ place \in [Installs -> [stage : {"none", "fetching", "placing"},
                               build : Builds \cup {None}]]
    /\ power \in {"off", "booting", "on", "stopping"}
    /\ app \in Builds \cup {None}
    /\ owed \in [Boots \cup Installs ->
                   {"none", "sent", "open", "answered", "excused", "twice"}]
    /\ theirs \in BOOLEAN
    /\ asker \in [Boots -> Kinds \cup {None}]
    /\ crossed \subseteq {"install", "boot"}

Unheld ==
    [on |-> TRUE, holder |-> None, wait |-> "no", waited |-> FALSE,
     undo |-> FALSE, again |-> "none", status |-> "shutdown", last |-> None,
     pend |-> NoPend, exp |-> NoExp, evict |-> "no", inst |-> None,
     going |-> NoInst]

\* The agent has registered with the device off, or already up.
Init ==
    /\ power \in {"off", "on"}
    /\ sess = [Unheld EXCEPT !.status = IF power = "on" THEN "booted" ELSE @]
    /\ up = TRUE /\ link = TRUE /\ off = "no"
    /\ tracked = {} /\ toAgent = <<>> /\ toRelay = <<>>
    /\ task = [b \in Boots |-> NoTask] /\ cur = None
    /\ place = [i \in Installs |-> [stage |-> "none", build |-> None]]
    /\ app = None
    /\ owed = [r \in Boots \cup Installs |-> "none"]
    /\ theirs = FALSE /\ crossed = {}
    /\ asker = [b \in Boots |-> None]
    /\ spent = [joins |-> 0, trouble |-> 0]

-----------------------------------------------------------------------------
(* What the handlers share, as functions of the session's record.           *)

\* forgetInstall, dropPendingInstall: who waited on it is answered by Answer.
InstallDropped(s)   == [s EXCEPT !.going = NoInst]
InstallForgotten(s) == [InstallDropped(s) EXCEPT !.inst = None]

\* A boot that did not bring the device up says nothing about who started it.
UndoneKept(s, b) ==
    IF b # None /\ s.pend.req = b THEN [s EXCEPT !.pend = NoPend] ELSE s

Undone(s, b) ==
    IF b # None /\ s.pend.req = b
    THEN [s EXCEPT !.last = s.pend.prev, !.pend = NoPend]
    ELSE s

\* settleLastBoot
BootSettled(s, b, cold) ==
    IF s.pend.req = b
    THEN [s EXCEPT !.last = IF cold THEN @ ELSE s.pend.prev, !.pend = NoPend]
    ELSE IF ~cold THEN s
    ELSE LET by == IF s.exp.req = b THEN s.exp.by
                   ELSE IF s.holder = "ai" THEN "ai" ELSE "person"
         IN  [s EXCEPT !.last = by,
                       !.pend.prev = IF s.pend = NoPend THEN @ ELSE by]

\* An answer to the requests R, sent to whoever holds the session.
Answered(o, R) ==
    [r \in DOMAIN o |->
        IF r \notin R THEN o[r]
        ELSE CASE o[r] = "open" -> "answered"
               [] o[r] = "answered" -> "twice"
               [] OTHER -> o[r]]

Excused(o) == [r \in DOMAIN o |-> IF o[r] \in {"open", "sent"} THEN "excused" ELSE o[r]]

Deliver(m) == toRelay' = IF link THEN Append(toRelay, m) ELSE toRelay

-----------------------------------------------------------------------------
(* The clients' side of the relay.                                          *)

Joined(s, k) ==
    [s EXCEPT !.holder = k,
              !.wait   = IF k = "person" THEN "no" ELSE @,
              !.waited = IF k = "person" THEN FALSE ELSE @]

Join(k) ==
    /\ sess.on /\ sess.holder = None
    /\ spent.joins < MaxJoins
    /\ sess' = Joined(sess, k)
    /\ spent' = [spent EXCEPT !.joins = @ + 1]
    /\ UNCHANGED <<up, tracked, agentVars, toAgent, toRelay, power, app, owed,
                   theirs, history>>

\* The holder's socket closes: a countdown starts, or the borrowed one again.
Drop ==
    /\ sess.on /\ sess.holder # None
    /\ sess' = [sess EXCEPT
         !.holder = None,
         !.wait   = IF sess.holder = "person" THEN "person"
                    ELSE IF @ = "no" THEN "ai" ELSE @,
         !.waited = sess.holder = "person" \/ (@ /\ sess.wait = "person")]
    /\ owed' = Excused(owed)
    /\ UNCHANGED <<up, tracked, agentVars, toAgent, toRelay, power, app,
                   theirs, history, spent>>

\* session:leave, which only automation sends: it keeps the device up.
Leave ==
    /\ sess.on /\ sess.holder = "ai"
    /\ sess' = [sess EXCEPT !.holder = None, !.waited = @ /\ sess.wait = "person"]
    /\ tracked' = {}
    /\ owed' = Excused(owed)
    /\ UNCHANGED <<up, agentVars, toAgent, toRelay, power, app, theirs,
                   history, spent>>

\* capacityDevices: a record nobody answered within the TTL is undone, and kept
\* in case a ready comes after all.
Ripened(s) ==
    IF s.pend.late /\ s.last # None
    THEN Undone([s EXCEPT !.exp = [req |-> s.pend.req, by |-> s.last]], s.pend.req)
    ELSE s

\* What an install record does not survive: a full erase, and a run's reset.
WipesAll(erase, reset) == erase
Wipes(erase, reset) == erase \/ reset

\* forwardBoot, for a boot the gate lets through at once (BootGate has the rest).
Forwarded(s, b, erase, reset) ==
    LET cold == s.status # "booted" \/ erase
        s1 == IF cold
              THEN [s EXCEPT !.last = s.holder,
                             !.pend = [req |-> b, late |-> FALSE,
                                       prev |-> IF s.pend = NoPend THEN s.last
                                                ELSE s.pend.prev]]
              ELSE s
        s2 == [s1 EXCEPT !.again = IF @ = "no" THEN "yes" ELSE @]
    IN  IF Wipes(erase, reset) THEN InstallForgotten(s2) ELSE s2

\* Installs the agent has not answered, in the order it was asked.
Unplaced ==
    {i \in Installs : \/ place[i].stage # "none"
                      \/ \E n \in 1..Len(toAgent) :
                            toAgent[n].t = "install" /\ toAgent[n].i = i}

\* Boots whose answer the relay has not read, or will never.
Unanswered ==
    {b \in Boots : \/ task[b] # NoTask
                   \/ \E n \in 1..Len(toAgent) :
                         toAgent[n].t = "boot" /\ toAgent[n].b = b
                   \/ \E n \in 1..Len(toRelay) :
                         toRelay[n].t \in {"ready", "boot-error"} /\ toRelay[n].b = b}

\* A boot that wipes, or a run's reset, is on its way or being carried out.
Wiping ==
    \/ \E b \in Boots : task[b] # NoTask /\ (task[b].erase \/ task[b].reset)
    \/ \E n \in 1..Len(toAgent) :
          toAgent[n].t = "boot" /\ (toAgent[n].erase \/ toAgent[n].reset)

Forward(s, b, erase, reset) ==
    /\ sess' = Forwarded(s, b, erase, reset)
    /\ tracked' = tracked \cup {b}
    /\ owed' = [Answered(owed, IF Wipes(erase, reset) THEN s.going.waiters ELSE {})
                  EXCEPT ![b] = "open"]
    /\ toAgent' = Append(toAgent, [t |-> "boot", b |-> b,
                                   erase |-> erase, reset |-> reset])
    /\ asker' = [asker EXCEPT ![b] = s.holder]
    /\ crossed' = crossed
         \cup (IF (erase \/ reset) /\ Unplaced # {} THEN {"install"} ELSE {})
         \cup (IF Unanswered # {} THEN {"boot"} ELSE {})

\* A request id is used once; MaxRequests of them are.
Fresh(r) ==
    /\ owed[r] = "none"
    /\ Cardinality({q \in DOMAIN owed : owed[q] # "none"}) < MaxRequests

SendBoot(b, erase, reset) ==
    /\ sess.on /\ sess.holder # None
    /\ Fresh(b)
    /\ reset => sess.holder = "ai" /\ ~erase      \* a full reset leaves it nothing
    /\ IF up
       THEN Forward(IF sess.holder = "ai" /\ (erase \/ sess.status # "booted")
                    THEN Ripened(sess) ELSE sess, b, erase, reset)
       ELSE /\ owed' = [owed EXCEPT ![b] = "answered"]
            /\ UNCHANGED <<sess, tracked, toAgent, history>>
    /\ UNCHANGED <<up, agentVars, toRelay, power, app, theirs, spent>>

Leasable(s) ==
    /\ up /\ s.holder = None
    /\ s.evict # "fresh"
    /\ s.pend = NoPend
    /\ s.wait # "person"
    /\ s.status = "shutdown" \/ (s.status = "booted" /\ s.last = "ai")

\* device:lease of this device: the join and the boot in one call.
Lease(b, reset) ==
    LET s == Ripened(sess) IN
    /\ sess.on /\ Fresh(b) /\ spent.joins < MaxJoins
    /\ Leasable(s)
    /\ Forward(Joined(s, "ai"), b, FALSE, reset)
    /\ spent' = [spent EXCEPT !.joins = @ + 1]
    /\ UNCHANGED <<up, agentVars, toRelay, power, app, theirs>>

\* The cap counts this device too when automation boots another one of its Mac.
CountedForAnother ==
    /\ sess.on /\ sess.pend.late
    /\ sess' = Ripened(sess)
    /\ UNCHANGED <<up, tracked, agentVars, toAgent, toRelay, power, app, owed,
                   theirs, history, spent>>

\* The record of a boot is as old as its timer: no younger, and older when a
\* leave has cleared the timer.
RecordAges ==
    /\ sess.pend # NoPend /\ ~sess.pend.late
    /\ sess.pend.req \notin tracked
    /\ sess' = [sess EXCEPT !.pend.late = TRUE]
    /\ UNCHANGED <<up, tracked, agentVars, toAgent, toRelay, power, app, owed,
                   theirs, history, spent>>

\* The timer of pendingBoots; the client's own deadline is as long.
RunsOut(b) ==
    /\ b \in tracked /\ spent.trouble < MaxTrouble
    /\ tracked' = tracked \ {b}
    /\ spent' = [spent EXCEPT !.trouble = @ + 1]
    /\ owed' = [owed EXCEPT ![b] = IF @ = "open" THEN "excused" ELSE @]
    /\ UNCHANGED <<sess, up, agentVars, toAgent, toRelay, power, app, theirs,
                   history>>

Install(i, build, keep) ==
    /\ sess.on /\ sess.holder # None
    /\ Fresh(i)
    /\ IF ~up
       THEN /\ owed' = [owed EXCEPT ![i] = "answered"]
            /\ UNCHANGED <<sess, toAgent, crossed>>
       ELSE IF keep /\ sess.going # NoInst /\ sess.going.build = build
       THEN /\ sess' = [sess EXCEPT !.going.waiters = @ \cup {i}]
            /\ owed' = [owed EXCEPT ![i] = "open"]
            /\ UNCHANGED <<toAgent, crossed>>
       ELSE IF keep /\ sess.going = NoInst /\ sess.inst = build
       THEN /\ owed' = [owed EXCEPT ![i] = "answered"]
            /\ UNCHANGED <<sess, toAgent, crossed>>
       ELSE /\ sess' = [InstallForgotten(sess) EXCEPT
                          !.going = [req |-> i, build |-> build, waiters |-> {}]]
            /\ owed' = [Answered(owed, sess.going.waiters) EXCEPT ![i] = "sent"]
            /\ toAgent' = Append(toAgent, [t |-> "install", i |-> i, build |-> build])
            /\ crossed' = crossed \cup
                 (IF Unplaced # {} \/ Wiping THEN {"install"} ELSE {})
    /\ UNCHANGED <<up, tracked, agentVars, toRelay, power, app, theirs, asker,
                   spent>>

-----------------------------------------------------------------------------
(* Shutdowns the relay sends: asked for, at the end of a countdown, or to make
   room for another of automation's boots.                                  *)

SendShutdown ==
    /\ up /\ spent.trouble < MaxTrouble
    /\ toAgent' = Append(toAgent, [t |-> "shutdown"])
    /\ spent' = [spent EXCEPT !.trouble = @ + 1]
    /\ UNCHANGED <<up, tracked, agentVars, toRelay, power, app, owed, theirs,
                   history>>

\* device:shutdown from the holder, or from anybody while nobody holds it.
AskShutdown ==
    /\ sess.on
    /\ sess' = [sess EXCEPT !.again = "no", !.undo = sess.waited, !.waited = FALSE]
    /\ SendShutdown

IdleShutdown ==
    /\ sess.on /\ sess.holder = None /\ sess.wait # "no"
    /\ sess' = [sess EXCEPT !.wait = "no", !.waited = FALSE, !.again = "no"]
    /\ SendShutdown

\* The countdown runs out while the agent is away: idleShutdown returns.
IdleUnsent ==
    /\ sess.on /\ sess.holder = None /\ sess.wait # "no" /\ ~up
    /\ sess' = [sess EXCEPT !.wait = "no", !.waited = FALSE]
    /\ UNCHANGED <<up, tracked, agentVars, toAgent, toRelay, power, app, owed,
                   theirs, history, spent>>

\* planCapacity and idleToFree choose only among what capacityDevices reports
\* as automation's, up, and free.
Evictable(s) ==
    /\ s.evict # "fresh" /\ s.last = "ai" /\ s.pend = NoPend
    /\ s.status = "booted" \/ s.evict = "past"
    /\ s.holder = None /\ ~s.waited

Evict ==
    LET s == Ripened(sess) IN
    /\ sess.on /\ Evictable(s)
    /\ sess' = [s EXCEPT !.evict = "fresh", !.status = "shutdown", !.again = "no"]
    /\ SendShutdown

EvictionGraceEnds ==
    /\ sess.evict = "fresh"
    /\ sess' = [sess EXCEPT !.evict = "past"]
    /\ UNCHANGED <<up, tracked, agentVars, toAgent, toRelay, power, app, owed,
                   theirs, history, spent>>

-----------------------------------------------------------------------------
(* The relay reads the agent's answers.                                     *)

Received(m) ==
    /\ up /\ toRelay # <<>> /\ Head(toRelay) = m
    /\ toRelay' = Tail(toRelay)
    /\ UNCHANGED <<up, agentVars, toAgent, power, app, history, spent>>

Ready(b, cold) ==
    /\ Received([t |-> "ready", b |-> b, cold |-> cold])
    /\ tracked' = tracked \ {b}
    /\ sess' = [BootSettled([sess EXCEPT !.inst = IF cold THEN None ELSE @], b, cold)
                  EXCEPT !.status = "booted"]
    /\ owed' = Answered(owed, {b})
    /\ theirs' = (theirs \/ (/\ cold /\ power = "on"
                             /\ asker[b] = "person"
                             /\ sess.holder = "ai" => b \in {sess.pend.req, sess.exp.req}))

BootError(b) ==
    /\ Received([t |-> "boot-error", b |-> b])
    /\ tracked' = tracked \ {b}
    /\ sess' = Undone(sess, b)
    /\ owed' = Answered(owed, {b})
    /\ UNCHANGED theirs

ShutdownDone ==
    /\ Received([t |-> "shutdown-done"])
    /\ LET stale == sess.again = "yes" IN
       sess' = [InstallForgotten(sess) EXCEPT
                  !.status = "shutdown", !.again = "none",
                  !.wait   = IF stale \/ sess.holder # None THEN @ ELSE "no",
                  !.waited = stale /\ @,
                  !.last   = IF sess.pend = NoPend THEN None ELSE @,
                  !.exp    = NoExp, !.evict = "no"]
    /\ owed' = Answered(owed, sess.going.waiters)
    /\ UNCHANGED <<tracked, theirs>>

ShutdownError ==
    /\ Received([t |-> "shutdown-error"])
    /\ LET untouched == sess.again = "no" /\ sess.holder = None /\ sess.wait # "no" IN
       sess' = [sess EXCEPT
                  !.status = IF sess.evict = "no" THEN @ ELSE "booted",
                  !.evict = "no", !.again = "none", !.undo = FALSE,
                  !.waited = @ \/ (sess.undo /\ untouched)]
    /\ UNCHANGED <<tracked, owed, theirs>>

\* settleInstall, and the agent's reply handed on to the holder.
InstallReply(i, done) ==
    /\ Received([t |-> "installed", i |-> i, done |-> done])
    /\ LET ours == sess.going.req = i IN
       /\ sess' = IF ours
                  THEN [InstallDropped(sess) EXCEPT
                          !.inst = IF done THEN sess.going.build ELSE None]
                  ELSE sess
       /\ owed' = Answered(owed, IF ours THEN sess.going.waiters ELSE {})
    /\ UNCHANGED <<tracked, theirs>>

-----------------------------------------------------------------------------
(* The agent.  A boot superseded, shut down or cut off loses the current
   bootSeq; at its next step it stops, and answers if its session is held.  *)

Current(b) == cur = b

Stopped(b) ==
    /\ task' = [task EXCEPT ![b] = NoTask]
    /\ cur' = IF cur = b THEN None ELSE cur
    /\ IF task[b].mute THEN UNCHANGED toRelay
       ELSE Deliver([t |-> "boot-error", b |-> b])

Goes(b, stage) ==
    /\ task' = [task EXCEPT ![b].stage = stage]
    /\ UNCHANGED <<cur, toRelay>>

StopOr(b, stage) == IF Current(b) THEN Goes(b, stage) ELSE Stopped(b)

\* CoreSimulatorService takes a device's requests in order, so what is asked of
\* the device shows at once in the next reading of it.
ToStop == power' = IF power = "off" THEN power ELSE "stopping"

ToBoot ==
    /\ power' = IF power = "off" THEN "booting" ELSE power
    /\ theirs' = (theirs /\ power = "on")

AtAgent(m) ==
    /\ link /\ toAgent # <<>> /\ Head(toAgent) = m
    /\ toAgent' = Tail(toAgent)
    /\ UNCHANGED <<relayVars, link, toRelay, owed, spent>>

TakeBoot ==
    /\ toAgent # <<>> /\ Head(toAgent).t = "boot"
    /\ LET m == Head(toAgent) IN
       /\ AtAgent(m)
       /\ cur' = m.b
       /\ task' = [task EXCEPT ![m.b] =
             [stage |-> "listing", erase |-> m.erase, reset |-> m.reset,
              cold |-> FALSE, mute |-> FALSE]]
    /\ UNCHANGED <<place, off, power, app, theirs, history>>

TakeInstall ==
    /\ toAgent # <<>> /\ Head(toAgent).t = "install"
    /\ LET m == Head(toAgent) IN
       /\ AtAgent(m)
       /\ place' = [place EXCEPT ![m.i] = [stage |-> "fetching", build |-> m.build]]
    /\ UNCHANGED <<task, cur, off, power, app, theirs, history>>

\* (bound) one at a time.
TakeShutdown ==
    /\ off = "no"
    /\ AtAgent([t |-> "shutdown"])
    /\ cur' = None
    /\ off' = IF power = "off" THEN "done" ELSE "asked"
    /\ ToStop
    /\ UNCHANGED <<task, place, app, theirs, history>>

BootStep(b, stage) ==
    /\ task[b].stage = stage
    /\ UNCHANGED <<relayVars, link, place, off, toAgent, owed, history, spent>>

BootLists(b) ==
    /\ BootStep(b, "listing")
    /\ IF ~Current(b)
       THEN /\ Stopped(b)
            /\ UNCHANGED <<power, theirs>>
       ELSE /\ task' = [task EXCEPT
                  ![b].cold = power # "on",
                  ![b].stage = IF task[b].erase THEN "stopping" ELSE "starting"]
            /\ IF task[b].erase THEN ToStop /\ UNCHANGED theirs ELSE ToBoot
            /\ UNCHANGED <<cur, toRelay>>
    /\ UNCHANGED app

\* A full reset takes the device down first: simctl erases only one that is off.
BootErases(b) ==
    /\ BootStep(b, "stopping") /\ power # "stopping"
    /\ app' = IF Current(b) /\ power = "off" THEN None ELSE app
    /\ IF power = "off" THEN StopOr(b, "erasing") ELSE Stopped(b)
    /\ UNCHANGED <<power, theirs>>

\* The erase fails: a device that was up is put back as it was found.
BootNotErased(b) ==
    /\ BootStep(b, "stopping") /\ power = "off" /\ Current(b)
    /\ IF task[b].cold THEN UNCHANGED <<power, theirs>> ELSE ToBoot
    /\ Stopped(b)
    /\ UNCHANGED app

\* No check between the erase and the boot that follows it.
BootStarts(b) ==
    /\ BootStep(b, "erasing")
    /\ ToBoot
    /\ StopOr(b, "starting")
    /\ UNCHANGED app

\* waitUntilBooted, which ends early for a boot that is no longer current; and
\* what a run's reset uninstalls.
BootSettles(b) ==
    /\ BootStep(b, "starting")
    /\ power = "on" \/ ~Current(b)
    /\ StopOr(b, IF task[b].reset THEN "resetting" ELSE "opening")
    /\ app' = IF task[b].reset /\ power = "on" /\ Current(b) THEN None ELSE app
    /\ UNCHANGED <<power, theirs>>

\* simctl refuses the boot, as it does while the device is shutting down, or the
\* device does not come up.
BootFails(b) ==
    /\ BootStep(b, "starting")
    /\ power # "on"
    /\ Stopped(b)
    /\ UNCHANGED <<power, app, theirs>>

BootResets(b) ==
    /\ BootStep(b, "resetting")
    /\ StopOr(b, "opening")
    /\ UNCHANGED <<power, app, theirs>>

BootReady(b) ==
    /\ BootStep(b, "opening")
    /\ IF Current(b)
       THEN /\ task' = [task EXCEPT ![b] = NoTask]
            /\ Deliver([t |-> "ready", b |-> b, cold |-> task[b].cold \/ task[b].erase])
            /\ UNCHANGED cur
       ELSE Stopped(b)
    /\ UNCHANGED <<power, app, theirs>>

ShutdownLands ==
    /\ off = "done" /\ off' = "no"
    /\ Deliver([t |-> "shutdown-done"])
    /\ UNCHANGED <<relayVars, link, task, cur, place, toAgent, power, app, owed,
                   theirs, history, spent>>

ShutdownFails ==
    /\ off = "asked" /\ off' = "no"
    /\ power = "stopping" /\ power' = "on"
    /\ Deliver([t |-> "shutdown-error"])
    /\ UNCHANGED <<relayVars, link, task, cur, place, toAgent, app, owed,
                   theirs, history, spent>>

InstallStep(i, stage) ==
    /\ place[i].stage = stage
    /\ UNCHANGED <<relayVars, link, task, cur, off, toAgent, power, owed,
                   theirs, history, spent>>

\* The build is here, so the app it replaces is uninstalled.
InstallClears(i) ==
    /\ InstallStep(i, "fetching")
    /\ app' = IF power = "on" THEN None ELSE app
    /\ place' = [place EXCEPT ![i].stage = "placing"]
    /\ UNCHANGED toRelay

InstallEnds(i, done) ==
    /\ InstallStep(i, "placing") \/ (~done /\ InstallStep(i, "fetching"))
    /\ done => power = "on"
    /\ app' = IF done THEN place[i].build ELSE app
    /\ place' = [place EXCEPT ![i] = [stage |-> "none", build |-> None]]
    /\ Deliver([t |-> "installed", i |-> i, done |-> done])

-----------------------------------------------------------------------------
(* The device and the link.                                                 *)

DeviceComesUp ==
    /\ power = "booting"
    /\ power' = "on"
    /\ UNCHANGED <<relayVars, agentVars, toAgent, toRelay, app, owed, theirs,
                   history, spent>>

DeviceGoesDown ==
    /\ power = "stopping"
    /\ power' = "off" /\ theirs' = FALSE
    /\ off' = IF off = "asked" THEN "done" ELSE off
    /\ UNCHANGED <<relayVars, link, task, cur, place, toAgent, toRelay, app, owed,
                   history, spent>>

GoesOffOutside ==
    /\ power = "on" /\ spent.trouble < MaxTrouble
    /\ power' = "off" /\ theirs' = FALSE
    /\ spent' = [spent EXCEPT !.trouble = @ + 1]
    /\ UNCHANGED <<relayVars, agentVars, toAgent, toRelay, app, owed, history>>

\* _scheduleReconnect: every boot is retired and its session's state dropped.
\* What the process was doing goes on; if the process died it does not.
LinkLost(died) ==
    /\ link /\ spent.trouble < MaxTrouble
    /\ link' = FALSE
    /\ cur' = None
    /\ task' = [b \in Boots |->
                  IF died \/ task[b] = NoTask THEN NoTask
                  ELSE [task[b] EXCEPT !.mute = TRUE]]
    /\ IF died
       THEN /\ off' = "no"
            /\ place' = [i \in Installs |-> [stage |-> "none", build |-> None]]
       ELSE UNCHANGED <<off, place>>
    /\ toAgent' = <<>>
    /\ spent' = [spent EXCEPT !.trouble = @ + 1]
    /\ UNCHANGED <<relayVars, toRelay, power, app, owed, theirs, history>>

\* holdAgentSocket
Hold ==
    /\ ~link /\ up /\ sess.on
    /\ up' = FALSE
    /\ toRelay' = <<>> /\ toAgent' = <<>>
    /\ sess' = InstallDropped(sess)
    /\ owed' = Answered(owed, sess.going.waiters)
    /\ UNCHANGED <<tracked, agentVars, power, app, theirs, history, spent>>

\* handleAgentRegister of the agent that was behind the session: the rebind,
\* rejectPending, and invalidateBootsFor.
Rebound(s) ==
    LET s1 == InstallDropped(s)
        s2 == IF s1.pend.req \in tracked THEN Undone(s1, s1.pend.req) ELSE s1
    IN  [s2 EXCEPT !.status = CASE power = "on" -> "booted"
                                [] OTHER -> "shutdown"]

\* Whom the returning agent will not answer.
StrandedInstalls == sess.going.waiters
Stranded == sess.going.waiters \cup tracked

Return ==
    /\ ~link /\ sess.on
    /\ link' = TRUE /\ up' = TRUE
    /\ toRelay' = <<>> /\ toAgent' = <<>>
    /\ sess' = Rebound(sess)
    /\ tracked' = {}
    /\ owed' = Answered(owed, Stranded)
    /\ UNCHANGED <<task, cur, place, off, power, app, theirs, history, spent>>

\* The hold ends: evictAgentSocket.  Who holds it is told the session is over.
HoldEnds ==
    /\ ~up /\ ~link /\ sess.on
    /\ sess' = [Unheld EXCEPT !.on = FALSE]
    /\ tracked' = {}
    /\ owed' = Excused(owed)
    /\ UNCHANGED <<up, agentVars, toAgent, toRelay, power, app, theirs,
                   history, spent>>

Next ==
    \/ \E k \in Kinds : Join(k)
    \/ Drop \/ Leave
    \/ \E b \in Boots, erase, reset \in BOOLEAN : SendBoot(b, erase, reset)
    \/ \E b \in Boots, reset \in BOOLEAN : Lease(b, reset)
    \/ \E b \in Boots : RunsOut(b)
    \/ CountedForAnother \/ RecordAges
    \/ \E i \in Installs, build \in Builds, keep \in BOOLEAN : Install(i, build, keep)
    \/ AskShutdown \/ IdleShutdown \/ IdleUnsent \/ Evict \/ EvictionGraceEnds
    \/ \E b \in Boots, cold \in BOOLEAN : Ready(b, cold)
    \/ \E b \in Boots : BootError(b)
    \/ ShutdownDone \/ ShutdownError
    \/ \E i \in Installs, done \in BOOLEAN : InstallReply(i, done)
    \/ TakeBoot \/ TakeInstall \/ TakeShutdown
    \/ \E b \in Boots : \/ BootLists(b) \/ BootErases(b) \/ BootNotErased(b) \/ BootStarts(b)
                        \/ BootSettles(b) \/ BootFails(b) \/ BootResets(b)
                        \/ BootReady(b)
    \/ ShutdownLands \/ ShutdownFails
    \/ \E i \in Installs : \/ InstallClears(i)
                           \/ \E done \in BOOLEAN : InstallEnds(i, done)
    \/ DeviceComesUp \/ DeviceGoesDown \/ GoesOffOutside
    \/ \E died \in BOOLEAN : LinkLost(died)
    \/ Hold \/ Return \/ HoldEnds

Spec == Init /\ [][Next]_vars

-----------------------------------------------------------------------------
(* Properties.                                                              *)

\* Nothing is on its way between the two sides and the agent is idle.
Quiet ==
    /\ link /\ up
    /\ toAgent = <<>> /\ toRelay = <<>> /\ off = "no"
    /\ \A b \in Boots : task[b] = NoTask
    /\ \A i \in Installs : place[i].stage = "none"

\* Whoever boots the device, or joins an install already under way, hears back
\* exactly once while they hold the session: from the agent, or from the relay
\* when the agent's link was lost, another install took over, the device is reset
\* or goes down.  An install the relay sent on is not counted here: its sender
\* learns of a lost agent otherwise.
RequestsInv ==
    /\ TypeOK
    /\ \A r \in Boots \cup Installs : owed[r] # "twice"
    /\ Quiet => \A r \in Boots \cup Installs : owed[r] # "open"

RecordIsReal == sess.inst # None => app = sess.inst

\* The build an install is skipped for is the one on the device: a reset, a cold
\* boot, a shutdown and a replaced install all take the record away in time, as
\* long as no install was sent beside another or beside a wipe.
InstalledAlone == "install" \notin crossed => RecordIsReal

\* The same for any installs, once both sides have come to rest: "a reply to an
\* older one says nothing about what is on the device now" (SessionManager.ts:104).
InstalledIsReal == Quiet => RecordIsReal

\* A device a person's boot brought up is neither offered to automation as its
\* own nor shut down to make room for automation, for as long as it stays up:
\* whatever boots failed, expired, were cut off or answered late, and whoever has
\* held it since.  Except where a boot was sent beside another of the device:
\* there the record is a guess (settleLastBoot).
AutomationsOwn ==
    LET s == Ripened(sess) IN
    /\ sess.on /\ up /\ power = "on" /\ theirs /\ "boot" \notin crossed
    => ~Evictable(s) /\ ~(Leasable(s) /\ s.status = "booted")
=============================================================================
