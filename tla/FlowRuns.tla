----------------------------- MODULE FlowRuns -----------------------------
(* The record of a flow run on the relay (packages/relay/src/api/runs.ts):
   the handlers the flow runner calls while it runs, each of which judges the
   run, awaits a body, and only then writes; the relay's own closing of runs;
   the deletion of a run under a request; and a restart.

   A request is a member of Requests from its first judgement to its answer.
   What a body says is in the request, chosen when it arrives.              *)
EXTENDS RunRows

CONSTANTS
    Flows,     \* the flow indices of a run
    Devices,   \* the sessions whose boots are reported
    Shots,     \* names of screenshot files
    Requests,  \* requests in flight at once
    NoShot

ASSUME NoShotAssumption == NoShot \notin Shots

Idle   == [op |-> "none"]
Absent == [on |-> FALSE, flows |-> {}]

VARIABLES
    started,   \* startedFlows: the flows each run said it started, in memory
    flow,      \* the rows of flow_run_flows
    device,    \* the devices in device_reset_json
    disk,      \* the files in the screenshots directory
    req,       \* the requests in flight
    acked,     \* (history) device reports that were answered 200
    stray      \* (history) files a failed write or a crash left behind

vars == <<row, open, started, flow, device, disk, req, acked, stray>>
work == <<started, flow, device, disk, req, acked, stray>>

FlowRow   == [status : {"none", "ran", "skipped"},  \* ran: passed or failed
              shot   : Shots \cup {NoShot}]
NoFlowRow == [status |-> "none", shot |-> NoShot]
NoFlows   == [f \in Flows |-> NoFlowRow]

Request ==
    [op : {"report"}, run : Runs, idx : Flows, says : {"ran", "skipped"}]
        \cup [op : {"start"}, run : Runs, idx : Flows]
        \cup [op : {"shot"}, run : Runs, idx : Flows, file : Shots \cup {NoShot}]
        \cup [op : {"device"}, run : Runs, session : Devices]
        \cup [op : {"finish"}, run : Runs, says : Outcomes]

TypeOK ==
    /\ row \in [Runs -> Row]
    /\ open \in [Runs -> SUBSET Sockets]
    /\ started \in [Runs -> [on : BOOLEAN, flows : SUBSET Flows]]
    /\ flow \in [Runs -> [Flows -> FlowRow]]
    /\ device \in [Runs -> SUBSET Devices]
    /\ disk \subseteq Shots
    /\ req \in [Requests -> Request \cup {Idle}]
    /\ acked \in [Runs -> SUBSET Devices]
    /\ stray \subseteq Shots

Init ==
    /\ RowsInit
    /\ started = [r \in Runs |-> Absent]
    /\ flow = [r \in Runs |-> NoFlows]
    /\ device = [r \in Runs |-> {}]
    /\ disk = {}
    /\ req = [q \in Requests |-> Idle]
    /\ acked = [r \in Runs |-> {}]
    /\ stray = {}

-----------------------------------------------------------------------------
(* Files and requests *)

Named(rows) == {rows[r][f].shot : r \in Runs, f \in Flows} \ {NoShot}
FileOf(q) == IF req[q].op = "shot" THEN req[q].file ELSE NoShot
Writing == {FileOf(q) : q \in Requests} \ {NoShot}
FreshShot == CHOOSE s \in Shots : s \notin disk \cup Named(flow) \cup Writing

Answer(q) == req' = [req EXCEPT ![q] = Idle]

(* A map entry for a run that is no longer running is let go. *)
Forgotten(rows) ==
    [r \in Runs |-> IF rows[r].status = "running" THEN started[r] ELSE Absent]

(* Only the runs a pass closed, which is what abandonRunsOf and
   settleOrphanedRuns delete as they go. *)
ForgottenOf(closed) == [r \in Runs |-> IF r \in closed THEN Absent ELSE started[r]]

-----------------------------------------------------------------------------
(* The handlers *)

(* handleCreateRun. *)
CreateRun(r, b) ==
    /\ row[r].status = "none"
    /\ row' = [row EXCEPT ![r] = NewRow(b)]
    /\ UNCHANGED <<open, work>>

(* The judgement before the body: ownRun, and for a screenshot the flow's
   own row. *)
Accepts(rq) ==
    /\ OwnRun(row[rq.run], FALSE)
    /\ rq.op = "shot" =>
         /\ flow[rq.run][rq.idx].status \notin {"none", "skipped"}
         /\ rq.file = NoShot

Arrive(q, rq) ==
    /\ req[q] = Idle
    /\ Accepts(rq)
    /\ req' = [req EXCEPT ![q] = rq]
    /\ UNCHANGED <<row, open, started, flow, device, disk, acked, stray>>

(* A body the relay refuses (too large, not JSON), or a runner that hung up
   before the body was there: nothing is written. *)
Refuse(q) ==
    /\ req[q] # Idle
    /\ req[q].op = "shot" => req[q].file = NoShot
    /\ Answer(q)
    /\ UNCHANGED <<row, open, started, flow, device, disk, acked, stray>>

(* handleReportFlow after its body: the transaction judges the run again. *)
ReportJudged(r, f, says) ==
    /\ Exists(row[r])
    /\ row[r].by # "client"
    /\ says = "skipped" => flow[r][f].status \in {"none", "skipped"}

ReportFlow(q) ==
    LET r == req[q].run  f == req[q].idx  says == req[q].says IN
    /\ req[q].op = "report"
    /\ IF ReportJudged(r, f, says)
         THEN /\ flow' = [flow EXCEPT ![r][f].status = says]
              /\ row' = [row EXCEPT ![r] = Touched(@)]
         ELSE UNCHANGED <<flow, row>>
    /\ Answer(q)
    /\ UNCHANGED <<open, started, device, disk, acked, stray>>

(* handleStartFlow after its body: noted only while the run is running. *)
NoteStartAnyhow(r, f) == [started EXCEPT ![r] = [on |-> TRUE, flows |-> @.flows \cup {f}]]
NoteStart(r, f) ==
    IF row[r].status = "running"
      THEN [started EXCEPT ![r] = [on |-> TRUE, flows |-> @.flows \cup {f}]]
      ELSE started

StartFlow(q) ==
    LET r == req[q].run IN
    /\ req[q].op = "start"
    /\ IF Exists(row[r])
         THEN /\ started' = NoteStart(r, req[q].idx)
              /\ row' = [row EXCEPT ![r] = Touched(@)]
         ELSE UNCHANGED <<started, row>>
    /\ Answer(q)
    /\ UNCHANGED <<open, flow, device, disk, acked, stray>>

(* handleUploadFlowScreenshot: the body is in, and writeFile has begun. *)
WriteShot(q) ==
    /\ req[q].op = "shot" /\ req[q].file = NoShot
    /\ disk \cup Named(flow) \cup Writing # Shots
    /\ req' = [req EXCEPT ![q].file = FreshShot]
    /\ disk' = disk \cup {FreshShot}
    /\ UNCHANGED <<row, open, started, flow, device, acked, stray>>

(* What is unlinked: the file the row named, or the new one with no row. *)
SupersededOnly(r, f, s) == flow[r][f].shot
Superseded(r, f, s) ==
    IF Exists(row[r]) /\ flow[r][f].status # "none" THEN flow[r][f].shot ELSE s

(* The file is written: the row is read again and updated with nothing
   awaited between, and the file it named before goes. *)
NameShot(q) ==
    LET r == req[q].run  f == req[q].idx  s == req[q].file IN
    /\ req[q].op = "shot" /\ s # NoShot
    /\ IF Exists(row[r]) /\ flow[r][f].status # "none"
         THEN flow' = [flow EXCEPT ![r][f].shot = s]
         ELSE UNCHANGED flow
    /\ disk' = disk \ {Superseded(r, f, s)}
    /\ Answer(q)
    /\ UNCHANGED <<row, open, started, device, acked, stray>>

(* writeFile rejects, on a full disk for one: the handler ends there, and
   what was written stays. *)
ShotWriteFails(q) ==
    /\ req[q].op = "shot" /\ req[q].file # NoShot
    /\ stray' = stray \cup {req[q].file}
    /\ Answer(q)
    /\ UNCHANGED <<row, open, started, flow, device, disk, acked>>

(* handleReportDevice after its body: merged into the row as it is now. *)
MergeDevice(r, s) == device[r] \cup {s}

ReportDevice(q) ==
    LET r == req[q].run  s == req[q].session IN
    /\ req[q].op = "device"
    /\ IF Exists(row[r])
         THEN /\ device' = [device EXCEPT ![r] = MergeDevice(r, s)]
              /\ acked' = [acked EXCEPT ![r] = @ \cup {s}]
              /\ row' = [row EXCEPT ![r] = Touched(@)]
         ELSE UNCHANGED <<device, acked, row>>
    /\ Answer(q)
    /\ UNCHANGED <<open, started, flow, disk, stray>>

(* handleFinishRun after its body: the state is checked in the update. *)
MayFinishAgain(x) == Exists(x)
MayFinish(x) == Exists(x) /\ x.by \in {"none", "relay"}

FinishRun(q) ==
    LET r == req[q].run IN
    /\ req[q].op = "finish"
    /\ IF MayFinish(row[r])
         THEN /\ row' = [row EXCEPT ![r] = Finished(@, req[q].says)]
              /\ started' = [started EXCEPT ![r] = Absent]
         ELSE UNCHANGED <<row, started>>
    /\ Answer(q)
    /\ UNCHANGED <<open, flow, device, disk, acked, stray>>

-----------------------------------------------------------------------------
(* The relay's own steps *)

(* A socket of the holder closes (abandonRunsOf): its running run is over
   unless another of its sockets is open. *)
SocketCloses(r, s) ==
    LET left == open[r] \ {s}
        over == row[r].status = "running" /\ left = {} IN
    /\ s \in open[r]
    /\ open' = [open EXCEPT ![r] = left]
    /\ row' = IF over THEN [row EXCEPT ![r] = Abandoned(@)] ELSE row
    /\ started' = IF over THEN [started EXCEPT ![r] = Absent] ELSE started
    /\ UNCHANGED <<flow, device, disk, req, acked, stray>>

(* A read path settles first (handleListRuns, handleGetRun), and handleGetRun
   lets go of the starts of the run it shows when that is not running. *)
ReadRun(r) ==
    /\ Exists(row[r])
    /\ row' = Settled
    /\ started' = [ForgottenOf({x \in Runs : OrphanIn(x, open)}) EXCEPT
                     ![r] = IF row'[r].status = "running" THEN @ ELSE Absent]
    /\ UNCHANGED <<open, flow, device, disk, req, acked, stray>>

DeletedFiles(gone) == {flow[r][f].shot : r \in gone, f \in Flows}

Delete(gone, rows) ==
    /\ row' = [r \in Runs |-> IF r \in gone THEN Gone ELSE rows[r]]
    /\ flow' = [r \in Runs |-> IF r \in gone THEN NoFlows ELSE flow[r]]
    /\ device' = [r \in Runs |-> IF r \in gone THEN {} ELSE device[r]]
    /\ acked' = [r \in Runs |-> IF r \in gone THEN {} ELSE acked[r]]
    /\ disk' = disk \ DeletedFiles(gone)

(* deleteBuildsWithDependents: the build's runs go with it. *)
DeleteBuildOf(r) ==
    /\ Exists(row[r]) /\ row[r].build
    /\ Delete({r}, row)
    /\ UNCHANGED <<open, started, req, stray>>

(* purgeExpiredRuns, once a day and at start: settle, forget, then delete
   the runs past their expiry. *)
PurgeRuns(expired) ==
    /\ expired \subseteq Expirable
    /\ Delete(expired, Settled)
    /\ started' = Forgotten(Settled)
    /\ UNCHANGED <<open, req, stray>>

(* The relay dies and starts again: its memory and its sockets go, the rows
   and the files stay, and the first purge runs before any request.  A run is
   not closed by the restart; its runner may still report and finish. *)
Restart(expired) ==
    LET none == [r \in Runs |-> {}] IN
    /\ expired \subseteq Expirable
    /\ open' = none
    /\ Delete(expired, SettledWith(none))
    /\ started' = [r \in Runs |-> Absent]
    /\ req' = [q \in Requests |-> Idle]
    /\ stray' = stray \cup Writing

-----------------------------------------------------------------------------
Handle(q) ==
    \/ Refuse(q) \/ ReportFlow(q) \/ StartFlow(q) \/ NameShot(q)
    \/ WriteShot(q) \/ ShotWriteFails(q) \/ ReportDevice(q) \/ FinishRun(q)

Next ==
    \/ \E q \in Requests : Handle(q) \/ \E rq \in Request : Arrive(q, rq)
    \/ \E r \in Runs :
         \/ (\E b \in BOOLEAN : CreateRun(r, b)) \/ ReadRun(r) \/ DeleteBuildOf(r)
         \/ (GoesQuiet(r) \/ GraceOver(r)) /\ UNCHANGED work
         \/ \E s \in Sockets :
              \/ Connect(r, s) /\ UNCHANGED work
              \/ SocketCloses(r, s)
    \/ \E expired \in SUBSET Expirable : PurgeRuns(expired) \/ Restart(expired)

(* Time passes, and the purge's interval timer fires. *)
Fairness ==
    /\ \A r \in Runs : WF_vars(GoesQuiet(r) /\ UNCHANGED work)
    /\ WF_vars(\E expired \in SUBSET Expirable : PurgeRuns(expired))

Spec == Init /\ [][Next]_vars /\ Fairness
-----------------------------------------------------------------------------
(* Properties *)

(* A flow is shown on a device only while its run runs.  The map is in memory
   and the run in the database, and a late start report, a finish, a closing
   socket and a read each change one of them; only a run deleted under the
   map (runs.ts:61) keeps its entry, until the next purge. *)
StartsAreLive ==
    \A r \in Runs : started[r].on => row[r].status \in {"running", "gone"}

(* A device report that was answered 200 is in the record: the devices of a
   parallel run report at once (runs.ts:561), and none may undo another. *)
DevicesKept == \A r \in Runs : acked[r] \subseteq device[r]

(* What a client finished stays ended, so nothing closes it again. *)
ClientsEnd == \A r \in Runs : row[r].by = "client" => row[r].status \in Final

FlowRunsInv == TypeOK /\ StartsAreLive /\ DevicesKept /\ ClientsEnd

(* Nothing sweeps the screenshots directory (runs.ts:508): but for what a
   failed write or a crash left, a file on it is named by exactly one row or
   is being written by exactly one request, and a row names a file that is
   there. *)
ShotFilesMatch ==
    /\ disk \ stray \subseteq Named(flow) \cup Writing
    /\ Named(flow) \subseteq disk
    /\ \A r1, r2 \in Runs, f1, f2 \in Flows :
         (flow[r1][f1].shot = flow[r2][f2].shot /\ flow[r1][f1].shot # NoShot)
            => r1 = r2 /\ f1 = f2
    /\ Writing \subseteq disk \ Named(flow)
    /\ \A p, q \in Requests :
         p # q /\ FileOf(p) = FileOf(q) => FileOf(p) = NoShot

(* The first account of its client stands: while the row exists, a finish is
   overwritten by no second finish, no closing socket and no settling read
   (runs.ts:605), and a flow that ran never becomes one that was skipped
   (runs.ts:410), whatever two requests awaited their bodies together. *)
FirstAccountStands ==
    [][\A r \in Runs : row'[r].status # "gone" =>
         /\ row[r].by = "client" =>
              row'[r].by = "client" /\ row'[r].status = row[r].status
         /\ \A f \in Flows :
              flow[r][f].status = "ran" => flow'[r][f].status = "ran"]_vars

(* A run whose runner is gone for good does not stay running: no timer closes
   it, but its last socket's close, a read or the purge does (runs.ts:239),
   also when a restart took the socket.  A runner without a socket that goes
   on reporting keeps its run. *)
RunnerGone(r) ==
    open[r] = {} /\ \A q \in Requests : req[q] = Idle \/ req[q].run # r

OrphanIsClosed ==
    \A r \in Runs : <>[]RunnerGone(r) => <>[](row[r].status # "running")
=============================================================================
