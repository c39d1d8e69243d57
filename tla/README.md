# tapflow: specifications and proofs

tapflow lets people and AI clients use the iOS simulators and Android emulators of a team's
Macs from a browser. This directory holds TLA+ models of the parts of it where time, failures
and several actors meet, the TLC configurations that check them on small instances, and proofs
that TLAPS checks for every instance. All paths below are under `src/packages/` unless they
start with `docs/`; RS is `relay/src/RelayServer.ts`, SM `relay/src/SessionManager.ts`.

## 1. The system

```
 browser / flow runner / MCP server  <--websocket, HTTP-->  relay  <--websocket-->  agent (one per
 (holder or watcher of a session)                     SessionManager                 platform and Mac)
                                                      HostBootGate                     simctl, adb,
                                                      API + SQLite                     encoders
```

An **agent** runs on a Mac, registers its devices with the relay and carries out what it is sent:
boots, shutdowns, input, installs, a video stream. The **relay** keeps one session per device,
decides who holds it, forwards commands and frames, and serves the HTTP API. A **client** is a
person's browser tab, the flow runner or the MCP server; a client's *kind* tells people from AI
clients. The relay is one Node.js process: a handler runs to its first `await` without
interruption, so concurrency comes from the order in which messages, close events, timers and
awaited calls of several sockets are handled.

| component | state | operations | interacts with | what is hard | what makes it correct |
|---|---|---|---|---|---|
| Boot gate (`relay/src/admission/HostBootGate.ts`, `settle.ts`; RS `applyGate`, `forwardBoot`) | per Mac: slot, reservation, streak of people served, ageing window, memory pressure; one timer | `admit`, `event` (sample, pressure, boot-error, browser-closed, session-gone, rebound), `tick`, `nextDeadline`, `wouldRefuseAutomated` | RS calls it on every boot, answer, close and resource report, and carries out what it returns | deadlines with one timer; pressure that freezes a window; boots lost between hold and send | a person's wait is bounded; the slot is; whatever waits has a cause and a deadline the timer covers |
| Session ownership (SM; RS `handleSessionStart`, `session:leave`, close handler, shutdown handlers, `runHeartbeat`) | per session: holder, owner, waiting person, idle countdown, shutdown notes, watchers; index by socket | `join`, `clearBrowser`, `remove`, `noteShutdown`/`undoShutdown`/`settleShutdown`, `addWatcher`, `evictWatchers`, idle timer | boot gate (a close withdraws a held boot), lease (countdowns), agent (shutdown, done, error) | take-overs of silent sockets, closes processed late, shutdowns that fail or are answered late | one holder who is connected; a held device is never counted down; a wait has a countdown |
| Agent registration and hold (RS `handleAgentRegister`, `holdAgentSocket`, `evictAgentSocket`) | sessions by agent socket, hold timers, requests in flight to an agent | register, rebind, hold, evict, reject pending | every request in flight to the agent | an agent that restarts while boots, installs and shutdowns are in flight | each caller is answered once; a session's identity survives |
| Device list (`agent-core/src/utils/deviceListWatcher.ts`; RS `handleAgentDevices`, `sweepGoneDevices`) | the watcher's baseline, marks, generation and read in flight; per session the last report and `deviceGone` | start, stop, tick; diff, sweep, rebind | agent registration, session ownership | reads that fail, miss a device, or outlive their connection | the relay comes to show the Mac as it is; a held session is not lost to a list |
| Capacity and lease (RS `handleLease`, `capacityDevices`, `evictForCapacity`, `settleLastBoot`; `admission/`) | the record of the last boot of each device | lease, evict, settle or undo a record | boot gate (`wouldRefuseAutomated`), session ownership | two leases at once; records settled by late answers | an AI client gets a device nobody uses or waits for |
| Installs (RS `handleBrowserAppInstall` ff., `lib/buildTickets.ts`) | install in flight per session with its waiters; what is on the device; tickets | install, join, settle, forget; issue, redeem | agent, HTTP download | joined callers, erased devices, agents that go | each caller answered once; a ticket used once |
| Video path (`agent-core/src/utils/stream.ts`; RS stream relay, `idrRequester`; `lib/trailingRequester.ts`) | per sender: dropping or not; per session a throttle | send or drop a frame, ask for a keyframe | encoder, viewers' sockets | frames refer to frames; sockets fill and drain | no broken picture; a stalled one resumes; bounded memory |
| Flow capture (`relay/src/capture/CaptureStore.ts`) | per session: recorded steps, pauses, byte budgets | note, pause, seal, trim | session ownership | one person's input in another's record | a record is one person's and bounded |
| Flow runs and videos (`relay/src/api/runs.ts`, `runVideos.ts`) | rows, chunks on disk | upsert, finish, abandon, upload | client sockets' closes | retries, a finish racing an abandon | one final state; chunks in place |
| Credential revalidation (RS `revalidateSockets`, `lib/connectionAuth.ts`) | what each socket came in with | periodic check, close | account store | a credential revoked half way | a revoked socket is closed |
| HTTP API, configuration, certificates, webhooks | SQLite rows, files | synchronous CRUD | outside services | little: one statement each | covered by tests |
| iOS agent, Android agent | per device: boot generation, helpers, streams | boot, shutdown, input, install | simctl, adb, emulators | boots superseded while awaiting | only the newest boot owns the device, each caller answered |
| iOS network control (`ios-agent/src/SimulatorNetwork.ts`) | intents per simulator | set, reconcile | packet filter | reconciliation while intents change | the filter ends up as intended |
| Keyed serial queue (`agent-core/src/utils/serialQueue.ts`) | tail promise per key | enqueue | iOS agent | little | order per key |
| Agent claim (`cli/src/lib/agent-singleton.ts`) | a socket file per Mac and platform | claim, probe, unlink, release | other starters | starters that overlap; leftovers of killed ones | one agent per Mac, refused only for another |
| Flow runner, MCP server | requests by correlator | send, await, retry while held | relay | answers late, or lost with a connection | each request settles once |
| CLI, wire protocol, dashboard, audio tap helper | - | - | - | one-shot steps, schemas, React, a native helper | not modelled |

`PROJECT.json` lists every component with its status, and the hazards of the code at the lines
where they bite, with the properties that watch them.

## 2. The modules

| module | models | proofs |
|---|---|---|
| `BootGate` (`MCBootGate`) | the gate, its timer, and the relay's side of it | `BootGateProofs` |
| `BootGateTurns` (`MCBootGateTurns`) | `BootGate` with a history of who took the slot past a waiting automation | |
| `SessionOwnership` (`MCSessionOwnership`) | SM and the handlers that call it | `SessionOwnershipProofs` |
| `DevicePromise` | what the relay promises about a device: the abstract specification `SessionOwnership` implements | `KeepsPromise`, proved in `SessionOwnershipProofs` |
| `AgentClaim` (`MCAgentClaim`) | the CLI's claim of a Mac's one agent slot | `AgentClaimProofs` |
| `FrameRelay` (`MCFrameRelay`) | one device's video from its encoder to its viewers | `FrameRelayProofs` |
| `DeviceList` (`MCDeviceList`) | a Mac's device list on its way to the relay's sessions | `DeviceListProofs` |
| `DeviceRequests` (`MCDeviceRequests`) | boots, installs and shutdowns of one device, from the relay's handlers through the iOS agent's | `DeviceRequestsProofs` |
| `RunRows` | the rows of flow runs: what `FlowRuns` and `RunVideos` extend | with `FlowRuns` |
| `FlowRuns` (`MCFlowRuns`) | the record of a flow run: reports, screenshots, devices, and the ways a run ends | `FlowRunsProofs` |
| `RunVideos` (`MCRunVideos`) | a flow's video from the runner's lane to the relay's disk | `RunVideosProofs` |

Some operators are wrong versions of the one that follows them, which nothing uses (in some modules
their comment begins with "Mutant" or "A faulty"). Each is a plausible bug, and `PROJECT.json` lists
them under "mutants" with the property of a run that each breaks.

### BootGate

`host[m]` is one `HostState`; `now` is the clock in scaled milliseconds; `timer` is the relay's
single `bootGateTimer`; `ask[r]` says where a boot request is: with nobody, held by the gate, at the
agent. Every gate call is an operator from a Mac's record to a result (new record, boots sent, boots
answered), as the code returns a state change and effects; `Apply` carries the effects out, turns
a boot whose holder or agent is gone into a boot-error as `forwardBoot` does, and arms the timer.
Actions: a boot asked for by a person or by an AI client, its answer (ready, error), a leave, a
session's end, an agent's return, a resource report, the timer, and time passing. Boot correlators
come from a small set and are reused only when nothing refers to them. Timeouts are constants.

`BootGateTurns` adds a history, `turn`, and no behaviour. It counts, from the slots that change hands
and not from the gate's `humanStreak`, the people who took the slot of a Mac since automation's last turn (a
boot of its own or a window, used or not): `passed` those past an automation that waited all along,
`through` everybody, and the held boots that were answered without being sent, which the gate counts when
they found no session to go to.

### SessionOwnership and DevicePromise

`ses[s]` is one `Session` (holder = `browserSocket`, owner, ai, resume, waiting, countdown, the
shutdown notes, gone); `held` is `browserSocketIndex`; `watch[s][w]` the owner key under which
`w` was admitted to watch; `conn[w]` a client's socket as the relay knows it: open, silent (open,
but no pong in time, `isAlive`), closing (no longer OPEN, close event not processed) or off;
`asked[s]` counts the shutdowns sent and unanswered. Every handler
is one action, with the gating `ownsSession`, `mayShutDown` and `heldByAnother` do. What the gate
does with a boot is left out here, as is the label shown for a holder. `Flaky` names the sessions
whose agent may drop or whose device may vanish, so that a run can exclude that.

`DevicePromise` has no sockets, timers or shutdowns: a device is free, owned, lent to an AI client
with a promise on it, or awaits a person. `KeepsPromise` is the refinement: each step of the handlers
is a step of the promise or leaves it alone.

### AgentClaim

`pc[p]` is a starting process's place in `claimAgentSlot`, `file` what the socket path names
(nothing, a dead socket, another program's file, or the socket of a process). bind(2), listen(2),
unlink(2) and connect(2) are steps of their own, since the kernel interleaves them between processes.
`overlap`, fixed at the start, says whether starters may overlap, so that one run has both worlds. A
process may be killed anywhere, and may release.

### FrameRelay

A frame is what it refers to (a keyframe: nothing; any other: the frame before it). `enc` is the
agent's sender and its throttle, `up` its socket, `buf[v]` a viewer's socket, `hdrop` and `wdrop` the
`dropping` flags of the senders, `asked` and `spent` the relay's throttled request for a keyframe,
`pic[v]` what a viewer's decoder has. `KeepAlive` says whether the encoder repeats a still screen
(the iOS helper does, the Android emulator does not). Any frame may be a keyframe that nobody asked
for (`Periodic`: the iOS helper's come every two seconds or sooner, `screencapture-helper.swift:373`), and none
need be but the first. The encoder, decoder and sockets are external.
Not modelled: JPEG and audio messages, the drop warnings, `registerStreamWs`.

### DeviceList

`world` is what there is on the Mac; `sent`, `missing`, `generation`, `reading` are the watcher's
fields (its timer is on exactly while `conn`); `offer` is the list `connectOnce` reads before it
opens the socket; `wire` and `replies` are the two directions of the connection; `session[d]` the
relay's session of a device; `knows` the agent's `deviceStates`. `held` stands for everything
`goneAndVacant` asks for. A read takes three steps (tick, the command's sample, its return), so it
may outlive its connection; it may fail, or miss devices. After the agent has lost its connection
the relay may still process what was on the wire, until the agent registers again.
Two agents with the same device, and an agent without an identity, are not modelled.

### DeviceRequests

One device, one session, one agent, and what is asked of them: `sess` is the relay's `Session` with
the fields that boots, installs and shutdowns read and write (the holder's kind, the countdown, the
shutdown notes, `status`, `lastBoot` with its pending and its expired half, `evictingAt`, `installed`,
the install in flight with its waiters); `up` the relay's view of the agent's socket, `link` the
agent's; `tracked` is `pendingBoots`. `toAgent` and `toRelay` are the two directions of the socket.
On the agent, `task[b]` is a boot in `handleBoot` with the await it is at, `cur` the one that holds
the session's `bootSeq` (a boot that finds itself superseded answers nothing or fails), `place[i]` an
install, `off` a shutdown. `power` and `app` are the device, which is external: simctl carries
out what it is asked for in order, one shutdown at a time. None of
the following is state of the code: `owed[r]` records how often a request has been answered, `asker[b]`
who asked for a boot; `theirs` says that a person's boot brought the device up and was answered, and
that the device has not gone since.

Actions: somebody takes, drops or leaves the session; a boot (by its holder, cold or with an erase, or
by a lease), an install, a shutdown (asked for, on a countdown, or to make room); every answer; every
stage of a boot, an install and a shutdown on the agent; the device coming up, going down, or
going off on its own; a lost link, the agent's death, the hold, the return and the end of the hold;
a pending record passing its TTL. The boot gate is left out (it lets every boot through at once),
and so are service tiers, the recovery of a simulator whose data is missing, and the Mac's other devices,
but for what counting or making room among them does to this one (`CountedForAnother`, `Evict`).
`crossed` remembers two histories in which the code's records are guesses, which `InstalledAlone` and
`AutomationsOwn` exclude by name: an install sent beside another, or beside a boot that wipes (section
6), and a boot sent while another of the device has yet to be answered. `theirs` excludes a third: a
person's boot that the relay had let through warm, of which it keeps no record, is answered as cold when
automation already holds the session.

### RunRows, FlowRuns

`row[r]` is a run's row: its status, who ended it, and the only two questions the code asks of its
times (`quiet`: nothing reported for the orphan grace; `recent`: ended within the grace for video).
`started` is `startedFlows`, which is in memory; `flow`, `device` and `disk` are the flows' rows, the
devices in `device_reset_json`, and the screenshots directory. `req[q]` is a request between its first
judgement, made on the headers, and its answer: every handler judges the run, awaits the body, and
only then writes, so everything may happen in between. The relay closes a run itself when its holder's last
socket closes (`abandonRunsOf`) or when it is quiet and a read or the daily purge looks
(`settleOrphanedRuns`); rows go with their build or past their expiry; a restart loses the memory and
the requests. A transaction is one step. What the read handlers answer is not modelled.

### RunVideos

One video per run. `lane[r]` is the runner's lane (`cli/src/lib/videoLane.ts`): what it sends next, the call
it waits for, and whether it skips to a keyframe after a gap; `tap[r]` how many chunks the flow's tap has
cut. On the relay, `video`, `chunks` and `file` are the row, the index and the file, in cells that hold
the number of the chunk that wrote them; `queue[r]` is `serialised`'s queue; `req[q]` a call, which
goes on at the relay after its lane has given it up. A chunk's write takes a step per cell, between the
transaction that reserves room (settling runs and evicting older videos on the way) and the one that
commits. Faults (a call given up, a refused write, a deleted run, a stopped lane, a socket lost early, a
restart) are counted against `MaxFaults` and hit the runs in `Faulty`. `SumFunction` adds up the
videos as `videoUsage`'s SQL does. Which videos `makeRoom` evicts is the smallest start of its order
that is enough; no two videos have the same place in it (`born` counts the videos opened before). A file
outlives its name while a write or a player (`PlayVideo`, the range requests of the dashboard) has it
open: `inode[r]` keeps its cells, `seen` those of them a room check counts and `unseen` those that none
can have counted, since they were written when the run was gone, or were taken for freed by the eviction that
unlinked them. Not modelled: how frames become
chunks and the kept group of pictures, a flow cut by its own size limit or cancelled, JPEG flows, and
the run record's own queue.

## 3. The runs

| run | question | bounds, and why they are enough |
|---|---|---|
| `gate_queue` | Is every wait bounded and every hold justified? Has automation its turn when it is due, and no sooner? | 1 Mac, 3 sessions, 3 requests, clock to 4, window after 1 person: slot, reservation and a third waiter at once, and every timeout falls inside the clock. Macs are independent but for the timer, which the theorems cover for any number. With a window after 1 person, a count that is off by one either way shows |
| `gate_pressure` | Does pressure break deadlines, reasons or the lease's mirror? Can several agents' samples settle a slot early? | 2 sessions, every deadline one unit away, clock to 2, timer one unit late, so a reading can lapse before its tick; the slot needs one kept sample after the dropped first, and readings can come from two agents at one instant |
| `own_device` | One device's holder, wait, countdown, watchers and shutdowns, and the refinement of `DevicePromise` | a person on two sockets of one client, another person and an AI client, so a reconnect, a take-over and a borrower meet; 1 watcher allowed, so the limit is reached; 1 unanswered shutdown; agent and device may go; the clock stands still and countdowns have length zero, so one may fire at any time. Several sessions on one socket meet only in the index, which the theorem covers for any number |
| `own_left` | Is a device left behind shut down? (liveness) | as `own_device` with one socket each and no watchers, agent stays; the clock ticks once, so a countdown may be armed before or after a tick and its deadline be met late |
| `claim` | One agent per Mac when starts keep apart; refused only for an agent when they do not | 3 starters, any leftover: two contenders and a third that meets either's leftovers |
| `claim_race` | (violation) One agent when starts overlap | 2 starters |
| `frames` | No broken reference; does a stalled viewer resume, by requests alone where its sender makes them? (liveness) | 2 viewers (a holder and a watcher, or two holders in turn), 2 frames on the way to the relay, 1 on the way to a viewer, keyframes at any time or never: a gap can open, be noticed and close in every socket, and a request be lost to the throttle or its keyframe to a full socket |
| `devices` | Names and versions, sessions and agent agree; no session lost to one bad read, none held lost to a list; the relay catches up (liveness) | 1 device (devices are diffed one by one), 2 names, version or none, 2 changes, 2 bad reads, 2 connections, 2 lists on the wire: a change, a glitch and a reconnect in any order |
| `requests` | Is each boot and each joined install answered once? Are the records of the build on the device and of who started it true? | 2 boots, 2 installs of 2 builds, the session taken twice, one trouble (a shutdown, a lost link, a late answer, the device off on its own), the device off or up at first: a boot superseded by another, an install replaced by another, and either of them under a lost link or a shutdown |
| `installs_overlap` | (violation) Is the record of the build true once all is quiet, whatever overlapped? | as `requests` |
| `flow_runs` | Does the first account of a run stand? Does every file have a row, and a dead runner's run end (liveness)? | 1 run of 1 flow, 2 sockets, 2 requests at once, 3 screenshot files: two uploads race over a third file, and every pair of handlers meets between its two halves; runs share only the files |
| `run_videos` | Are committed chunks whole, playable and kept, under the cap and above the floor? | 2 runs of at most 2 and 1 chunks (2 cells and a keyframe, then 1 cell), cap 3, disk 4, 1 fault: a torn write, a retry that meets its own first try, two writers over the last of the room, an eviction, a run deleted under its write; the video of the run of one chunk, which passes and can be evicted, may be played at any time, by one player (a player beside a write of the same video is left to the theorem). The chunks add up to `MaxVideo`, so an end on `size-limit` is not exercised |

Bounds on the environment are named constants: `MaxTime`, `MaxAsked` (unanswered shutdowns),
`MaxChanges`, `MaxGlitches`, `MaxConnects`, `MaxWire`, `MaxJoins`, `MaxRequests`, `MaxTrouble`,
`MaxFaults`, and the sets `Faulty` and `Watched` of `RunVideos`. Symmetry is used only in the `gate_*`, `claim*`, `requests` and `installs_overlap` runs,
which have no liveness. Deadlock is checked except in `devices`, where the agent may be gone for
good, and in `requests`, `installs_overlap`, `flow_runs` and `run_videos`, where runners, clients and
requests run out.

### Fairness

- `SessionOwnership`: the heartbeat runs (`setInterval`), close events are processed, countdowns
  fire (`setTimeout`), time passes, an agent answers a shutdown or is lost, an agent that dropped
  returns or its grace ends. Nothing is assumed of clients.
- `FrameRelay`: sockets drain, the encoder answers a request it was sent, the throttle's window ends,
  and with `KeepAlive` frames go on. An Android screen need not move, so nothing says that it does; and nothing
  says that a keyframe comes unasked. `PeriodicRepairs` has that as its premise, `DroppingEnds` does without.
- `DeviceList`: the interval ticks, a read returns (its command has a timeout), an open socket
  delivers, and the heartbeat sweeps (`setInterval`). `ListCatchesUp` asks only for behaviours in which the agent stays connected from some
  time on.
- `FlowRuns`: a run of which nothing is heard becomes quiet (time passes), and the purge's interval timer
  fires. No read is assumed, nor that a runner or its socket goes on.
- `DeviceRequests` and `RunVideos` have safety properties only.
- `BootGate` and `AgentClaim` have no liveness property: the gate's promises are bounds in time, hence
  safety, and a claim is a straight line of calls.

## 4. What the passing runs show

- **A person is never refused and never waits too long** (`HumanWaitBounded`), and no lost answer
  wedges a Mac (`SlotBounded`); a slot belongs to a boot that was asked for and a held request is in
  the reservation and the other way round (`BootsAreAccounted`), and whatever waits has something in
  its way that will end (`WaitHasCause`). The window that people's boots open is automation's
  (`WindowIsForAutomation`). It opens after `AgingCount` people were let past an automation that waits, and no sooner;
  without memory pressure nobody after them takes the slot before it (`AutomationHasItsTurn`). Under pressure people
  do: one whose wait ran out, or a second one who waits, boots regardless (`HostBootGate.ts:401`). The single timer covers every
  deadline of every Mac and a tick leaves none in the past (`TimerCoversDeadlines`,
  `TickNeverSpins`). What a waiting viewer was told is still the reason (`ToldReasonIsCurrent`), and
  the lease's preview of the gate says what the gate then says (`LeaseMirrorsAdmit`). The samples of
  several agents on one Mac do not settle a slot early (`SettleTakesItsTime`).
- **A device is one client's** (`HoldersAgree`: the index and the sessions name the same holder, who is
  connected), a held one is not counted down and a wait has a countdown or a borrower that will start
  it again (`CountdownIsRight`), nobody is told two contradictory things (`NotToldBoth`), watchers belong to the
  AI client that is watched and have no control (`WatchesFollow`).
  All of it together implements `DevicePromise` (`KeepsPromise`). A device left behind is shut down
  while its agent stays connected (`LeftDeviceIsShutDown`).
- **One agent per Mac and platform** when starts keep apart (`OneAgentApart`, `ClaimInv`); in every interleaving no starter is refused over the leftover of a dead one
  (`RefusedByAnAgent`).
- **No decoder is given a frame whose reference it missed** (`NoBrokenReference`) because a sender
  that skipped a frame knows it (`StreamInv`). On an encoder that repeats a still screen a stalled viewer resumes
  (`StalledViewerResumes`): the requests of the agent's sender and of the holder's end every dropping, however many of
  them the throttle swallows and whatever becomes of the keyframes on the way (`DroppingEnds`); a watcher's sender asks
  for nothing and a joining request is made once, so those two need keyframes that come unasked, and get
  by with them (`PeriodicRepairs`).
- **The relay's devices are the Mac's** in the end (`ListCatchesUp`); no read from before a reconnect
  shows (`SentListIsReal`); devices that left are swept once nobody is on them; the watcher's baseline and the relay agree whenever nothing is on the way, so
  nothing is left unsent for good, and the agent knows each session it is sent commands for
  (`ListsAgree`); one bad read costs nothing and no list ends a held session (`EndsAreJust`). The list of a *register* is taken at its word: a device that
  `connectOnce`'s read misses loses its session, held or not, which the code says it means.
- **Each boot, and each install that joined another, is answered once** while its sender holds the
  session, by the agent or by the relay when the link was lost, another install took over, or the device
  went down (`RequestsInv`). The build for which an install is skipped is the one on the device, where no
  install overlapped (`InstalledAlone`); a device that automation may be offered, or that may be shut down
  for it, is not one that a person's boot brought up (`AutomationsOwn`), whatever boots expired, failed
  or were answered late, and whoever held it in between.
- **A run's first account stands** against retries, closing sockets and settling reads
  (`FirstAccountStands`); a flow is shown as running on a device only while its run is, and a device
  report that was acknowledged is kept whatever reported beside it (`FlowRunsInv`). Each screenshot
  on disk has one row or is being written, but for what a failed write or a crash left
  (`ShotFilesMatch`). A run whose runner is gone for good is closed (`OrphanIsClosed`): by no timer of
  its own, but at the latest by the purge.
- **A kept video is whole**: committed chunks lie end to end and hold their own bytes alone
  (`BytesAreWhole`), every gap is followed by a keyframe and a chunk the lane was told is kept is
  kept (`PlayableAndKept`). Two writers never pass the cap together, and no reservation outlives its write. They pass
  the floor by no more than what is kept of files without a name that no room check can have counted (`VideosInv`;
  section 6).

## 5. What is proved

Assumptions on the constants are the named `ASSUME`s of the modules (timeouts are naturals, the
absent value is none of the values, each session has a Mac, keys of people and AI clients are apart);
nothing bounds the sets (the runs of `RunVideos`, over which storage is summed, are
finitely many, and the first chunk of a flow is a keyframe). `MaxTime` and `MaxAsked` occur in guards only, so the theorems hold for every
value of them.

- `BootGateProofs`. The invariant `GateInv`: types; for each Mac `SoundHost`, the shape of its slot
  and *every deadline is at most `TimerLag` in the past*; `Cause`, a held boot waits behind a slot, a
  window or a pressure reading; `Armed`, the timer is on and no later than any of those deadlines.
  `HumanWaitBounded` alone is not inductive: that time cannot pass a deadline unless the timer goes
  off needs `Armed`, and that the timer exists at all needs `Cause`. An ageing window's deadline is
  kept apart, since it stands still under pressure. Each gate operator has one lemma (it preserves
  `SoundHost` and `Cause`), each action one step. Theorems: `TypeCorrect`, `WaitBounded`,
  `SlotIsBounded`, `HeldHasCause`, `TimerIsEnough`.
- `SessionOwnershipProofs`. `OwnInv`: types, the index, holders are connected, watchers are the AI
  holder's, and `SoundSession` of each record (the holder's fields go together; a held device is not
  counted down; a wait has a countdown or a borrower who will resume it; who waits was not told that
  the wait ended, *also in the note a shutdown may restore*). The last clause is why `NotToldBoth` is
  not inductive: `undoShutdown` brings back an older record. Theorems: `TypeCorrect`, `IndexIsRight`,
  `HolderIsConnected` (together `HoldersAreRight`), `HeldIsKeptUp`, `WaitHasCountdown` (together
  `CountdownsAreRight`), `ToldOneThing`, `WatchIsTheHolders`, `WatcherIsNoOwner` (together
  `WatchesAreRight`), and the refinement `PromiseIsKept`.
- `AgentClaimProofs`. `ClaimInv` says that without overlap at most one process is between its
  probe and its answer, and that past the probe nobody holds the slot. Theorems `ClaimInvariance`,
  `HolderSeen`, `OneAgent`; the last two say nothing of starters that overlap, and `claim_race` shows why.
- `FrameRelayProofs`. `StreamInv` adds to `NoBrokenReference` and `GapIsKnown` that the holder does
  not watch (each viewer has one sender) and that the agent's last frame was sent or dropped, not both. Theorems `StreamInvariance`, `ReferencesHold`,
  `SenderKnows`.
- `FlowRunsProofs`. Everything of a flow run but its liveness. `FlowRunsInv` carries `ClientsEnd` (what a client
  finished has a final status), which is why no closing socket or settling pass undoes a finish;
  `ShotFilesMatch` carries that a file being written has one request and no row, without which naming it
  could take it from another. Theorems `RecordIsRight`, `FirstAccount`, `ShotsAreRight`.
- `BootGateProofs` goes on from `GateInv`. `AccountInv` pairs the gate's record with the requests:
  a reservation names a held request of its session, a held request is in its Mac's reservation, and a
  slot that boots has its request at the agent unless the agent restarted under it. `BootsAreAccounted` follows
  from it; that the names go both ways is what keeps an answer from releasing another's slot.
  `ToldInv` adds to `ToldReasonIsCurrent` that a person told of pressure is at a Mac that still has a
  pressure deadline, which the lapse of a reading needs; `CountInv` counts a slot's readings in gaps
  since its ready (`ReadingsCounted`), from which `SettleTakesItsTime` follows with no bound on the agents.
  `LeaseIsAdmit` and `TimerDoesNotSpin` follow from `GateInv` alone, by one lemma per gate operator.
  `WindowBarsPeople` goes through every step that can give a slot; one of its exceptions is a history of
  its own: a window resumed from pressure with nothing left ends in the step that resumes it.
  Theorems: `AccountHolds`, `BootsAccountedFor`, `ReasonIsCurrent`, `LeaseIsAdmit`, `TimerDoesNotSpin`,
  `ReadingsCounted`, `SettlingTakesItsTime`, `WindowBarsPeople`.
- `AgentClaimProofs` also proves `RefusedOnlyByAgents`, for overlapping starters too. `RefusalInv`:
  a path that names a starter's socket means that it listens or holds, and a claimer meets
  another's socket there, or anything at all at its second bind, only with `saw` set, which stays set up to its refusal.
- `DeviceListProofs`. All of it but its liveness. `RealInv` says of everything that carries a report
  (the world, the offer, the read in flight of this connection's generation, the baseline, each list on the
  wire, each session) that it was so since the connection's own read; of a read of an earlier generation it
  says nothing, which is why `readGeneration` is compared. `TrailInv` gives `OneMissIsNotGone` and the
  first half of `ListsAgree` at once: there is a chain of baselines, one per list on the wire, from what the relay
  shows to what the watcher holds, and each link drops a device only if it was missed twice. `KnowInv` is the
  same chain for the answers on the way back. Without the chain neither property is inductive: two lists
  on the wire can each be right only after the one before. Theorems: `TypesHold`,
  `SentListsAreReal`, `ListsComeToAgree`, `EndsAreAlwaysJust` (from `OneMissIsForgiven` and `HeldSessionsStay`).
- `RunVideosProofs`. All three properties of flow videos, for any runs, chunks, lengths and limits, from one
  invariant, `VideoInv`, since the parts need each other: `CallInv` (a queue holds the calls of its video that
  have their bodies, each once, and only the first is past its wait: `serialised`), `LaneInv` (a lane waits for a
  call of the item it is at, and no two for one call), `StoreInv` (a live video's index lies in its file;
  a call that writes does so at the end of what is committed, so a torn write is overwritten and never counted; a
  call that outlived its lane's wait carries a number below the lane's), `RoomHolds`, and `LaneOk`
  (what is not yet sent, after a gap, begins at a keyframe; nothing is taken before the video is open; what
  was taken is in the index; a reservation is that of the first of its queue).
  `BytesAreWhole` is not inductive without the order of the calls, `PlayableAndKept` not without the lane's, and
  `RoomHolds` not without `ReserveOk`, from which a restart gives back what it must. The floor's half of
  `RoomHolds` bounds files, open unlinked ones and writes in flight together by the disk and the `unseen` cells, so it
  says exactly how far a delete under a write or an eviction under a player can take the disk below the floor. Each step is shown
  once to be one of a few kinds of change per video (`Shapes`), and each part of the invariant is kept by
  each kind. The sums are over any finite set of runs: their laws (`SumTakes`, `SumAdds`, ...) are proved by a
  smallest counterexample among the subsets. Theorems: `VideosHold`, `FilesAreWhole`, `VideosPlay`.

- `DeviceRequestsProofs`. All three properties, for any boots, installs and builds (`RequestsAssumption`:
  the ids of boots and of installs are apart, and the absent value is none of the values) and any bound on joins,
  requests and troubles. None of them is inductive. `IInv` is six parts.
  `BootInv` and `InstallInv` give each request one place: once in a frame to the agent, or with the
  agent, or once in a frame to the relay; a request whose caller is owed an answer is one the relay tracks
  (a boot in `pendingBoots`, an install among the waiters of the one under way), and while the
  link holds, the request that will bring that answer is in one of those places. A lost link breaks the
  last clause only, and the relay's own answers (`Stranded`, `HoldEnds`) close what it then owes.
  `LinkInv`: a boot cut off with the link is mute, and never current again.
  `RecordInv` is what `InstalledAlone` needs of the time before the answer: the install under way is the only one
  on its way or with the agent, of the recorded build, no wipe is anywhere while one is under way or recorded, and an
  answer that says done means that the build is on the device by now.
  `OwnInv` looks past the record to what the answers in flight will make of it: the record that is left when a
  pending boot is undone does not name automation either, no answer on its way or to come says that the
  device came up once more, and the record of a boot that is not yet answered, pending or expired, is its
  asker's. Each step is first shown to be of one of a few kinds (`Steps`), which say what it changes
  and leaves alone, and each part of the invariant is kept by each kind. Theorems: `RequestsStand` (the invariant), `RequestsAnswered`,
  `InstalledAloneHolds`, `AutomationsOwnHolds`.

Only model-checked: the liveness properties (`LeftDeviceIsShutDown`, `StalledViewerResumes`, `ListCatchesUp`,
`OrphanIsClosed`), since liveness under fairness is out of the provers' reach, and `AutomationHasItsTurn`, whose
history would need an invariant of its own over every call of the gate. Every other property of a passing run is a
theorem.

## 6. Where the code and its words disagree

Each of these has a run in which TLC finds the behaviour.

| run | what happens | against |
|---|---|---|
| `claim_race` | two starters that overlap over a dead socket both take the slot | `cli/src/__tests__/lib/agentSingleton.test.ts:89` |
| `installs_overlap` | of two installs carried out side by side, the older one's uninstall or install comes last, and the relay goes on naming the newer build as the one on the device (RS 3715) | SM 103 |

Others were met while modelling, are in the modules' behaviour, and have no run of their own:

- Boot gate. A window opened under pressure is given the rest of an earlier, frozen one; and a
  critical report between the lapse of the last reading and the tick that notices it recomputes what a
  frozen window had left from a deadline that stood still (`HostBootGate.ts:279`). Both are against
  `HostBootGate.ts:394`.
- Shutdowns. A countdown that ends while the agent is away for a moment is spent, and the device stays
  up (RS 3234), against `docs/troubleshooting/streaming.md:59`. A failed shutdown may restore a wait on a
  countdown an AI client left, which a lease may then take (SM 524, against SM 73), or with
  the deadline of an earlier countdown (SM 528, against 518). `noteShutdown` clears the note of an
  earlier shutdown (SM 510), so that when both fail the person is no longer waited for (against 125).
  `bootAfterShutdown` is one flag (SM 549): the second of two `shutdown-done`s sent before one boot ends
  the countdown and the wait of the later pick-up (against 543).
- Video. On an Android emulator with a still screen a throttled keyframe request is lost for good
  (RS 1158), against RS 1173.
- Who started a device. The cold `ready` of a boot that matches neither the pending nor the expired
  record is put down to whoever holds the session now (`settleLastBoot`, RS 3248). That is a guess when boots of
  one device are sent side by side; when a person's boot is let through warm, the device goes off outside tapflow, and
  automation has taken the session by the time it came up again; and when a `shutdown-done` in between cleared the
  expired record (RS 1835). A boot that failed after it had started the device (RS 1818), or whose `ready` was lost
  with the link, is undone as if it had started nothing, although SM 78 has `lastBoot` name who cold-booted the
  device.
- Full resets. One cut off between the erase and the boot does not check `bootSeq` (`IOSAgent.ts:1158`), so it
  brings the device up after its shutdown was answered as done. One that fails to boot leaves the agent's device at
  "booted".
- Flow videos. When no room can be made, the videos marked on the way stay marked although nothing
  was gained (`runVideos.ts:273`), and their files stay until the next sweep. A chunk that is being written when the relay closes its run is
  still committed (`runVideos.ts:443`). The last chunk is sent again only when its flow has failed by the
  time the answer is missing (`videoLane.ts:14`): an outcome that comes later neither retries the chunk nor
  says that it is lost. The floor is passed in two ways. A run deleted under a write takes its reservation with its row
  (`runVideos.ts:261`, by the cascade), while the write goes on filling a file that has no name; the next room check counts
  neither. And an eviction takes the bytes of a video for freed when it unlinks it, which they are not while a player
  has it open (`runVideos.ts:451`).

## 7. What is not modelled, and the plan

HTTP handlers that are one SQL statement, configuration, certificates, webhooks, the CLI's one-shot
commands, the dashboard and the wire schemas have no behaviour over time of their own. Simulators,
adb, encoders, kernels and networks are external: modelled by what they may do, where a module
needs them. The rest is planned, in this order:

1. `BootHolders`, `BootGate` and `SessionOwnership` together: what a take-over of a silent holder
   does to a boot the gate holds for them (`join` raises no `browser-closed`), and each module shown
   to be implemented by the composition.
2. `DeviceRequests` with several devices behind one socket: the sums of `planCapacity`, the order of
   `chooseLease`, two leases at once. Worth stating abstractly: every request is answered exactly once,
   by the agent or the relay.
3. `CaptureStore`, one person's input in one record, bounded; the single-use build tickets.
4. `TrailingRequester` and the network report; `RunnerClient`, the flow runner's and the MCP
   server's correlation of requests against the gate's answers.
5. The Android agent's boots, which share the iOS agent's generation scheme but not its stages;
   `SimulatorNetwork`; credential revalidation.

## 8. Running it

`tlc -config OwnershipDevice.cfg MCSessionOwnership` checks a run (its module and configuration are in
`PROJECT.json`), `tlapm SessionOwnershipProofs.tla` a module's proofs. The longest run takes
about three minutes on two cores; `RunVideosProofs` takes about ten, `DeviceRequestsProofs` four, the others less.
