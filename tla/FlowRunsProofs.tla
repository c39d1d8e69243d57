-------------------------- MODULE FlowRunsProofs --------------------------
(***************************************************************************)
(* A run's record under its handlers, for any number of runs, flows,        *)
(* requests and sockets: the first account of a client stands, a flow is    *)
(* shown as running only while its run is, and every screenshot on disk has *)
(* exactly one owner.                                                       *)
(***************************************************************************)
EXTENDS FlowRuns, TLAPS

USE NoShotAssumption, OutcomesAssumption

-----------------------------------------------------------------------------
(* Requests and rows *)

\* What a request says has the type of its kind.
LEMMA RequestKinds ==
  ASSUME TypeOK, NEW q \in Requests
  PROVE  /\ req[q].op \in {"report", "start", "shot", "device", "finish"} =>
              req[q] \in Request /\ req[q].run \in Runs
         /\ req[q].op \in {"report", "start", "shot"} => req[q].idx \in Flows
         /\ req[q].op = "report" => req[q].says \in {"ran", "skipped"}
         /\ req[q].op = "shot" => req[q].file \in Shots \cup {NoShot}
         /\ req[q].op = "device" => req[q].session \in Devices
         /\ req[q].op = "finish" => req[q].says \in Outcomes
<1>1. req[q] \in Request \cup {Idle}
  BY DEF TypeOK
<1> QED BY <1>1 DEF Request, Idle

\* The rows the relay's own steps write.
LEMMA RowTypes ==
  ASSUME NEW x \in Row
  PROVE  /\ Abandoned(x) \in Row /\ Touched(x) \in Row /\ Gone \in Row
         /\ \A b \in BOOLEAN : NewRow(b) \in Row
         /\ \A s \in Outcomes : Finished(x, s) \in Row /\ Finished(x, s).status \in Final
         /\ Touched(x).status = x.status /\ Touched(x).by = x.by
BY DEF Row, Abandoned, Touched, Gone, NewRow, NoRow, Finished, Final

\* A flow's row with another outcome or another file.
LEMMA FlowRowTypes ==
  ASSUME NEW x \in FlowRow, NEW says \in {"ran", "skipped"}, NEW s \in Shots \cup {NoShot}
  PROVE  [x EXCEPT !.status = says] \in FlowRow /\ [x EXCEPT !.shot = s] \in FlowRow
BY DEF FlowRow

\* A report changes no run's status, nor who ended it.
LEMMA TouchedRow ==
  ASSUME TypeOK, NEW r \in Runs,
         row' = [row EXCEPT ![r] = Touched(@)] \/ UNCHANGED row
  PROVE  /\ row' \in [Runs -> Row]
         /\ \A x \in Runs : row'[x].status = row[x].status /\ row'[x].by = row[x].by
<1>1. \A x \in Runs : row[x] \in Row
  BY DEF TypeOK
<1>2. /\ Touched(row[r]) \in Row
      /\ Touched(row[r]).status = row[r].status /\ Touched(row[r]).by = row[r].by
  BY <1>1, RowTypes
<1>3. \A x \in Runs : row'[x] = row[x] \/ (x = r /\ row'[x] = Touched(row[r]))
  BY DEF TypeOK
<1>4. row' \in [Runs -> Row]
  BY <1>2 DEF TypeOK
<1> QED BY <1>2, <1>3, <1>4

\* A settling pass closes running runs and leaves the others alone.
LEMMA SettledRows ==
  ASSUME TypeOK, ClientsEnd, NEW sockets
  PROVE  LET rows == SettledWith(sockets) IN
         /\ rows \in [Runs -> Row]
         /\ \A r \in Runs : /\ rows[r].by = "client" => rows[r].status \in Final
                            /\ row[r].by = "client" => rows[r] = row[r]
                            /\ OrphanIn(r, sockets) => rows[r].status = "aborted"
                            /\ ~ OrphanIn(r, sockets) => rows[r] = row[r]
<1>1. \A r \in Runs : row[r] \in Row /\ Abandoned(row[r]) \in Row
  BY RowTypes DEF TypeOK
<1>2. \A r \in Runs : row[r].by = "client" => row[r].status # "running"
  BY DEF ClientsEnd, Final
<1>3. \A r \in Runs : OrphanIn(r, sockets) => row[r].status = "running"
  BY DEF OrphanIn
<1>4. \A r \in Runs : Abandoned(row[r]).by = "relay" /\ Abandoned(row[r]).status = "aborted"
  BY <1>1 DEF Abandoned, Row
<1> QED BY <1>1, <1>2, <1>3, <1>4 DEF SettledWith, ClientsEnd
-----------------------------------------------------------------------------
(* The record: FlowRunsInv under each handler *)

LEMMA RecordInit == Init => FlowRunsInv
<1> SUFFICES ASSUME Init PROVE FlowRunsInv
  OBVIOUS
<1>1. NoRow \in Row /\ NoRow.by = "none"
  BY DEF NoRow, Row, Final
<1>2. NoFlowRow \in FlowRow /\ NoFlows \in [Flows -> FlowRow]
  BY DEF NoFlowRow, NoFlows, FlowRow
<1>3. Absent \in [on : BOOLEAN, flows : SUBSET Flows] /\ Absent.on = FALSE
  BY DEF Absent
<1>4. TypeOK
  BY <1>1, <1>2, <1>3 DEF Init, RowsInit, TypeOK
<1>5. StartsAreLive /\ DevicesKept /\ ClientsEnd
  BY <1>1, <1>3 DEF Init, RowsInit, StartsAreLive, DevicesKept, ClientsEnd
<1> QED BY <1>4, <1>5 DEF FlowRunsInv

\* Created, a run is running and nobody has reported on it.
LEMMA CreateKeeps ==
  ASSUME FlowRunsInv, NEW r \in Runs, NEW b \in BOOLEAN, CreateRun(r, b)
  PROVE  FlowRunsInv'
<1>1. NewRow(b) \in Row /\ NewRow(b).by = "none" /\ NewRow(b).status = "running"
  BY DEF NewRow, NoRow, Row, Final
<1>2. TypeOK'
  BY <1>1 DEF FlowRunsInv, CreateRun, work, TypeOK
<1>3. StartsAreLive' /\ DevicesKept' /\ ClientsEnd'
  BY <1>1 DEF FlowRunsInv, CreateRun, work, TypeOK, StartsAreLive, DevicesKept, ClientsEnd
<1> QED BY <1>2, <1>3 DEF FlowRunsInv

\* A request that arrives, is refused, or fails to write its file changes no row.
LEMMA OnlyRequests ==
  ASSUME FlowRunsInv, UNCHANGED <<row, open, started, flow, device, acked>>,
         req' \in [Requests -> Request \cup {Idle}], disk' \subseteq Shots, stray' \subseteq Shots
  PROVE  FlowRunsInv'
<1>1. TypeOK'
  BY DEF FlowRunsInv, TypeOK
<1>2. StartsAreLive' /\ DevicesKept' /\ ClientsEnd'
  BY DEF FlowRunsInv, StartsAreLive, DevicesKept, ClientsEnd
<1> QED BY <1>1, <1>2 DEF FlowRunsInv

\* An answered request leaves its slot.
LEMMA AnswerTypes ==
  ASSUME TypeOK, NEW q \in Requests, Answer(q)
  PROVE  req' \in [Requests -> Request \cup {Idle}]
BY DEF TypeOK, Answer

LEMMA ReportKeeps ==
  ASSUME FlowRunsInv, NEW q \in Requests, ReportFlow(q)
  PROVE  FlowRunsInv'
<1> DEFINE r == req[q].run  f == req[q].idx  says == req[q].says
<1>1. r \in Runs /\ f \in Flows /\ says \in {"ran", "skipped"}
  BY RequestKinds DEF FlowRunsInv, ReportFlow
<1>2. req' \in [Requests -> Request \cup {Idle}]
  BY AnswerTypes DEF FlowRunsInv, ReportFlow
<1>3. flow' \in [Runs -> [Flows -> FlowRow]] /\ row' \in [Runs -> Row]
  <2>1. CASE ReportJudged(r, f, says)
    <3>1. flow' = [flow EXCEPT ![r][f].status = says] /\ row' = [row EXCEPT ![r] = Touched(@)]
      BY <2>1 DEF ReportFlow
    <3>2. flow[r] \in [Flows -> FlowRow] /\ [flow[r][f] EXCEPT !.status = says] \in FlowRow
      <4>1. flow[r] \in [Flows -> FlowRow] /\ flow[r][f] \in FlowRow
        BY <1>1 DEF FlowRunsInv, TypeOK
      <4> HIDE DEF says
      <4> QED BY <4>1, <1>1, FlowRowTypes
    <3>3. row' \in [Runs -> Row]
      BY <3>1, <1>1, TouchedRow DEF FlowRunsInv
    <3> QED BY <3>1, <3>2, <3>3, <1>1 DEF FlowRunsInv, TypeOK
  <2>2. CASE ~ ReportJudged(r, f, says)
    BY <2>2 DEF ReportFlow, FlowRunsInv, TypeOK
  <2> QED BY <2>1, <2>2
<1>4. TypeOK'
  BY <1>2, <1>3 DEF FlowRunsInv, ReportFlow, TypeOK
<1>5. \A x \in Runs : row'[x].status = row[x].status /\ row'[x].by = row[x].by
  BY <1>1, TouchedRow DEF ReportFlow, FlowRunsInv
<1> QED BY <1>4, <1>5 DEF FlowRunsInv, ReportFlow, StartsAreLive, DevicesKept, ClientsEnd

\* A start is noted only while the run is running.
LEMMA StartKeeps ==
  ASSUME FlowRunsInv, NEW q \in Requests, StartFlow(q)
  PROVE  FlowRunsInv'
<1> DEFINE r == req[q].run  f == req[q].idx
<1>1. r \in Runs /\ f \in Flows
  BY RequestKinds DEF FlowRunsInv, StartFlow
<1>2. req' \in [Requests -> Request \cup {Idle}]
  BY AnswerTypes DEF FlowRunsInv, StartFlow
<1>4. row' \in [Runs -> Row]
  BY <1>1, TouchedRow DEF StartFlow, FlowRunsInv
<1>5. NoteStart(r, f) \in [Runs -> [on : BOOLEAN, flows : SUBSET Flows]]
  <2>1. started[r] \in [on : BOOLEAN, flows : SUBSET Flows]
    BY <1>1 DEF FlowRunsInv, TypeOK
  <2>2. [on |-> TRUE, flows |-> started[r].flows \cup {f}] \in [on : BOOLEAN, flows : SUBSET Flows]
    BY <1>1, <2>1
  <2> QED BY <2>2 DEF NoteStart, FlowRunsInv, TypeOK
<1>6. started' \in [Runs -> [on : BOOLEAN, flows : SUBSET Flows]]
  BY <1>5 DEF StartFlow, FlowRunsInv, TypeOK
<1>7. TypeOK'
  BY <1>2, <1>4, <1>6 DEF FlowRunsInv, StartFlow, TypeOK
<1>8. \A x \in Runs : row'[x].status = row[x].status /\ row'[x].by = row[x].by
  BY <1>1, TouchedRow DEF StartFlow, FlowRunsInv
<1>9. \A x \in Runs : started'[x].on => started[x].on \/ (x = r /\ row[r].status = "running")
  BY <1>1 DEF StartFlow, NoteStart, FlowRunsInv, TypeOK
<1> QED BY <1>7, <1>8, <1>9 DEF FlowRunsInv, StartFlow, StartsAreLive, DevicesKept, ClientsEnd

LEMMA FreshIsNew ==
  ASSUME disk \cup Named(flow) \cup Writing # Shots, TypeOK
  PROVE  FreshShot \in Shots /\ FreshShot \notin disk \cup Named(flow) \cup Writing
<1>1. disk \subseteq Shots
  BY DEF TypeOK
<1>2. Named(flow) \subseteq Shots
  BY DEF TypeOK, Named, FlowRow
<1>3. Writing \subseteq Shots
  BY RequestKinds DEF Writing, FileOf
<1>4. \E s \in Shots : s \notin disk \cup Named(flow) \cup Writing
  BY <1>1, <1>2, <1>3
<1> QED BY <1>4 DEF FreshShot

\* A device report that is answered is in the record as it is now.
LEMMA DeviceKeeps ==
  ASSUME FlowRunsInv, NEW q \in Requests, ReportDevice(q)
  PROVE  FlowRunsInv'
<1> DEFINE r == req[q].run  s == req[q].session
<1>1. r \in Runs /\ s \in Devices
  BY RequestKinds DEF FlowRunsInv, ReportDevice
<1>2. req' \in [Requests -> Request \cup {Idle}]
  BY AnswerTypes DEF FlowRunsInv, ReportDevice
<1>3. row' \in [Runs -> Row]
      /\ \A x \in Runs : row'[x].status = row[x].status /\ row'[x].by = row[x].by
  BY <1>1, TouchedRow DEF ReportDevice, FlowRunsInv
<1>4. device' \in [Runs -> SUBSET Devices] /\ acked' \in [Runs -> SUBSET Devices]
  <2>1. CASE Exists(row[r])
    <3>1. device' = [device EXCEPT ![r] = device[r] \cup {s}]
          /\ acked' = [acked EXCEPT ![r] = @ \cup {s}]
      BY <2>1 DEF ReportDevice, MergeDevice
    <3> HIDE DEF r, s
    <3> QED BY <3>1, <1>1 DEF FlowRunsInv, TypeOK
  <2>2. CASE ~ Exists(row[r])
    BY <2>2 DEF ReportDevice, FlowRunsInv, TypeOK
  <2> QED BY <2>1, <2>2
<1>5. DevicesKept'
  <2>1. CASE Exists(row[r])
    <3>1. device' = [device EXCEPT ![r] = device[r] \cup {s}]
          /\ acked' = [acked EXCEPT ![r] = @ \cup {s}]
      BY <2>1 DEF ReportDevice, MergeDevice
    <3> HIDE DEF r, s
    <3> QED BY <3>1, <1>1 DEF FlowRunsInv, TypeOK, DevicesKept
  <2>2. CASE ~ Exists(row[r])
    BY <2>2 DEF ReportDevice, FlowRunsInv, DevicesKept
  <2> QED BY <2>1, <2>2
<1>6. TypeOK'
  BY <1>2, <1>3, <1>4 DEF FlowRunsInv, ReportDevice, TypeOK
<1> QED BY <1>3, <1>5, <1>6 DEF FlowRunsInv, ReportDevice, StartsAreLive, ClientsEnd

\* A screenshot that is named changes the flow's row alone.
LEMMA NameKeeps ==
  ASSUME FlowRunsInv, NEW q \in Requests, NameShot(q)
  PROVE  FlowRunsInv'
<1> DEFINE r == req[q].run  f == req[q].idx  s == req[q].file
<1>1. r \in Runs /\ f \in Flows /\ s \in Shots \cup {NoShot}
  BY RequestKinds DEF FlowRunsInv, NameShot
<1>2. req' \in [Requests -> Request \cup {Idle}]
  BY AnswerTypes DEF FlowRunsInv, NameShot
<1>3. flow' = [flow EXCEPT ![r][f].shot = s] \/ UNCHANGED flow
  BY DEF NameShot
<1>4. flow[r] \in [Flows -> FlowRow] /\ flow[r][f] \in FlowRow
  BY <1>1 DEF FlowRunsInv, TypeOK
<1>5. flow' \in [Runs -> [Flows -> FlowRow]]
  <2>1. [flow[r][f] EXCEPT !.shot = s] \in FlowRow
    <3> HIDE DEF s
    <3> QED BY <1>1, <1>4, FlowRowTypes
  <2> HIDE DEF r, f, s
  <2>2. flow \in [Runs -> [Flows -> FlowRow]]
    BY DEF FlowRunsInv, TypeOK
  <2>3. CASE flow' = [flow EXCEPT ![r][f].shot = s]
    BY <1>1, <2>1, <2>2, <2>3
  <2> QED BY <1>3, <2>2, <2>3
<1>6. TypeOK'
  BY <1>2, <1>5 DEF FlowRunsInv, NameShot, TypeOK
<1> QED BY <1>6 DEF FlowRunsInv, NameShot, StartsAreLive, DevicesKept, ClientsEnd

\* A finish is a client's, of a run no client has finished.
LEMMA FinishKeeps ==
  ASSUME FlowRunsInv, NEW q \in Requests, FinishRun(q)
  PROVE  FlowRunsInv'
<1> DEFINE r == req[q].run  says == req[q].says
<1>1. r \in Runs /\ says \in Outcomes
  BY RequestKinds DEF FlowRunsInv, FinishRun
<1>2. req' \in [Requests -> Request \cup {Idle}]
  BY AnswerTypes DEF FlowRunsInv, FinishRun
<1>3. CASE MayFinish(row[r])
  <2>1. row' = [row EXCEPT ![r] = Finished(row[r], says)]
        /\ started' = [started EXCEPT ![r] = Absent]
    BY <1>3 DEF FinishRun
  <2>2. Finished(row[r], says) \in Row /\ Finished(row[r], says).status \in Final
    <3>1. row[r] \in Row
      BY <1>1 DEF FlowRunsInv, TypeOK
    <3> HIDE DEF says
    <3> QED BY <1>1, <3>1, RowTypes
  <2>3. Absent \in [on : BOOLEAN, flows : SUBSET Flows] /\ Absent.on = FALSE
    BY DEF Absent
  <2> HIDE DEF r, says
  <2>4. TypeOK'
    BY <1>1, <1>2, <2>1, <2>2, <2>3 DEF FlowRunsInv, FinishRun, TypeOK
  <2>5. StartsAreLive' /\ ClientsEnd'
    BY <1>1, <2>1, <2>2, <2>3 DEF FlowRunsInv, TypeOK, StartsAreLive, ClientsEnd
  <2> QED BY <2>4, <2>5 DEF FlowRunsInv, FinishRun, DevicesKept
<1>4. CASE ~ MayFinish(row[r])
  <2>1. TypeOK'
    BY <1>2, <1>4 DEF FlowRunsInv, FinishRun, TypeOK
  <2> QED BY <1>4, <2>1 DEF FlowRunsInv, FinishRun, StartsAreLive, DevicesKept, ClientsEnd
<1> QED BY <1>3, <1>4

\* Whatever becomes of its request, a screenshot changes no run.
LEMMA ShotKeeps ==
  ASSUME FlowRunsInv, NEW q \in Requests, WriteShot(q) \/ ShotWriteFails(q) \/ Refuse(q)
  PROVE  FlowRunsInv'
<1>1. CASE WriteShot(q)
  <2>1. FreshShot \in Shots
    BY <1>1, FreshIsNew DEF WriteShot, FlowRunsInv
  <2>2. req[q] \in [op : {"shot"}, run : Runs, idx : Flows, file : Shots \cup {NoShot}]
    BY <1>1 DEF WriteShot, FlowRunsInv, TypeOK, Request, Idle
  <2>3. [req[q] EXCEPT !.file = FreshShot] \in Request
    BY <2>1, <2>2 DEF Request
  <2>4. req' \in [Requests -> Request \cup {Idle}] /\ disk' \subseteq Shots
    BY <1>1, <2>1, <2>3 DEF WriteShot, FlowRunsInv, TypeOK
  <2> QED BY <1>1, <2>4, OnlyRequests DEF WriteShot, FlowRunsInv, TypeOK
<1>2. CASE ShotWriteFails(q)
  <2>1. req' \in [Requests -> Request \cup {Idle}]
    BY <1>2, AnswerTypes DEF ShotWriteFails, FlowRunsInv
  <2>2. req[q].file \in Shots
    BY <1>2, RequestKinds DEF ShotWriteFails, FlowRunsInv
  <2> QED BY <1>2, <2>1, <2>2, OnlyRequests DEF ShotWriteFails, FlowRunsInv, TypeOK
<1>3. CASE Refuse(q)
  <2>1. req' \in [Requests -> Request \cup {Idle}]
    BY <1>3, AnswerTypes DEF Refuse, FlowRunsInv
  <2> QED BY <1>3, <2>1, OnlyRequests DEF Refuse, FlowRunsInv, TypeOK
<1> QED BY <1>1, <1>2, <1>3

\* The last socket's close ends a running run, and its starts go with it.
LEMMA CloseKeeps ==
  ASSUME FlowRunsInv, NEW r \in Runs, NEW s \in Sockets, SocketCloses(r, s)
  PROVE  FlowRunsInv'
<1> DEFINE left == open[r] \ {s}  over == row[r].status = "running" /\ left = {}
<1>1. open' \in [Runs -> SUBSET Sockets]
  BY DEF SocketCloses, FlowRunsInv, TypeOK
<1>2. CASE over
  <2>1. row' = [row EXCEPT ![r] = Abandoned(@)] /\ started' = [started EXCEPT ![r] = Absent]
    BY <1>2 DEF SocketCloses
  <2>2. row[r] \in Row
    BY DEF FlowRunsInv, TypeOK
  <2>3. Abandoned(row[r]) \in Row /\ Abandoned(row[r]).by = "relay"
    BY <2>2, RowTypes DEF Abandoned, Row
  <2>4. Absent \in [on : BOOLEAN, flows : SUBSET Flows] /\ Absent.on = FALSE
    BY DEF Absent
  <2>5. TypeOK'
    BY <1>1, <2>1, <2>3, <2>4 DEF FlowRunsInv, SocketCloses, TypeOK
  <2>6. StartsAreLive' /\ ClientsEnd'
    BY <2>1, <2>3, <2>4 DEF FlowRunsInv, TypeOK, StartsAreLive, ClientsEnd
  <2> QED BY <2>5, <2>6 DEF FlowRunsInv, SocketCloses, DevicesKept
<1>3. CASE ~ over
  <2>1. UNCHANGED <<row, started>>
    BY <1>3 DEF SocketCloses
  <2>2. TypeOK'
    BY <1>1, <2>1 DEF FlowRunsInv, SocketCloses, TypeOK
  <2> QED BY <2>1, <2>2 DEF FlowRunsInv, SocketCloses, StartsAreLive, DevicesKept, ClientsEnd
<1> QED BY <1>2, <1>3

\* The clocks and a socket that opens touch one row's flags, or none.
LEMMA ClockKeeps ==
  ASSUME FlowRunsInv, NEW r \in Runs, UNCHANGED work,
         GoesQuiet(r) \/ GraceOver(r) \/ \E s \in Sockets : Connect(r, s)
  PROVE  /\ FlowRunsInv'
         /\ \A x \in Runs : row'[x].status = row[x].status /\ row'[x].by = row[x].by
<1>1. row[r] \in Row
  BY DEF FlowRunsInv, TypeOK
<1>2. /\ [row[r] EXCEPT !.quiet = TRUE] \in Row /\ [row[r] EXCEPT !.recent = FALSE] \in Row
      /\ \A x \in {[row[r] EXCEPT !.quiet = TRUE], [row[r] EXCEPT !.recent = FALSE]} :
           x.status = row[r].status /\ x.by = row[r].by
  BY <1>1 DEF Row
<1>3. row' \in [Runs -> Row] /\ open' \in [Runs -> SUBSET Sockets]
  <2>1. CASE GoesQuiet(r)
    BY <1>2, <2>1 DEF GoesQuiet, FlowRunsInv, TypeOK
  <2>2. CASE GraceOver(r)
    BY <1>2, <2>2 DEF GraceOver, FlowRunsInv, TypeOK
  <2>3. CASE \E s \in Sockets : Connect(r, s)
    BY <2>3 DEF Connect, FlowRunsInv, TypeOK
  <2> QED BY <2>1, <2>2, <2>3
<1>4. \A x \in Runs : row'[x].status = row[x].status /\ row'[x].by = row[x].by
  <2>1. row'[r] \in {row[r], [row[r] EXCEPT !.quiet = TRUE], [row[r] EXCEPT !.recent = FALSE]}
    BY DEF GoesQuiet, GraceOver, Connect, FlowRunsInv, TypeOK
  <2>2. \A x \in Runs : x # r => row'[x] = row[x]
    BY DEF GoesQuiet, GraceOver, Connect, FlowRunsInv, TypeOK
  <2>3. row'[r].status = row[r].status /\ row'[r].by = row[r].by
    BY <1>2, <2>1
  <2> QED BY <2>2, <2>3
<1>5. TypeOK'
  BY <1>3 DEF FlowRunsInv, work, TypeOK
<1> QED BY <1>4, <1>5 DEF FlowRunsInv, work, StartsAreLive, DevicesKept, ClientsEnd

\* A read closes the orphans, and lets go of what is no longer running.
LEMMA ReadKeeps ==
  ASSUME FlowRunsInv, NEW r \in Runs, ReadRun(r)
  PROVE  FlowRunsInv'
<1> DEFINE closed == {x \in Runs : OrphanIn(x, open)}
<1>1. row' = SettledWith(open)
  BY DEF ReadRun, Settled
<1>2. row' \in [Runs -> Row] /\ ClientsEnd'
  BY <1>1, SettledRows DEF FlowRunsInv, ClientsEnd
<1>3. \A x \in Runs : ~ OrphanIn(x, open) => row'[x] = row[x]
  BY <1>1, SettledRows DEF FlowRunsInv
<1>4. Absent \in [on : BOOLEAN, flows : SUBSET Flows] /\ Absent.on = FALSE
  BY DEF Absent
<1>5. ForgottenOf(closed) \in [Runs -> [on : BOOLEAN, flows : SUBSET Flows]]
  BY <1>4 DEF ForgottenOf, FlowRunsInv, TypeOK
<1>6. started' \in [Runs -> [on : BOOLEAN, flows : SUBSET Flows]]
  BY <1>4, <1>5 DEF ReadRun
<1>7. \A x \in Runs : started'[x].on => started[x].on /\ ~ OrphanIn(x, open)
  <2>1. \A x \in Runs : ForgottenOf(closed)[x].on => started[x].on /\ ~ OrphanIn(x, open)
    BY <1>4 DEF ForgottenOf
  <2>2. started'[r] \in {ForgottenOf(closed)[r], Absent}
    BY <1>5 DEF ReadRun
  <2>3. \A x \in Runs : x # r => started'[x] = ForgottenOf(closed)[x]
    BY <1>5 DEF ReadRun
  <2> HIDE DEF closed
  <2> QED BY <1>4, <2>1, <2>2, <2>3
<1>8. StartsAreLive'
  BY <1>3, <1>7 DEF FlowRunsInv, StartsAreLive
<1>9. TypeOK'
  BY <1>2, <1>6 DEF FlowRunsInv, ReadRun, TypeOK
<1> QED BY <1>2, <1>8, <1>9 DEF FlowRunsInv, ReadRun, DevicesKept

\* What deleting runs leaves of the rows.
LEMMA DeleteRows ==
  ASSUME TypeOK, DevicesKept, NEW gone, NEW rows \in [Runs -> Row], Delete(gone, rows),
         \A r \in Runs : rows[r].by = "client" => rows[r].status \in Final
  PROVE  /\ row' \in [Runs -> Row] /\ flow' \in [Runs -> [Flows -> FlowRow]]
         /\ device' \in [Runs -> SUBSET Devices] /\ acked' \in [Runs -> SUBSET Devices]
         /\ disk' \subseteq Shots
         /\ DevicesKept' /\ ClientsEnd'
         /\ \A r \in Runs : row'[r].status = "gone" \/ row'[r] = rows[r]
<1>1. Gone \in Row /\ Gone.status = "gone" /\ Gone.by = "none"
  BY DEF Gone, NoRow, Row, Final
<1>2. NoFlows \in [Flows -> FlowRow]
  BY DEF NoFlows, NoFlowRow, FlowRow
<1>3. row' \in [Runs -> Row]
  BY <1>1 DEF Delete
<1>4. flow' \in [Runs -> [Flows -> FlowRow]]
  BY <1>2 DEF Delete, TypeOK
<1>5. device' \in [Runs -> SUBSET Devices] /\ acked' \in [Runs -> SUBSET Devices]
      /\ disk' \subseteq Shots
  BY DEF Delete, TypeOK
<1>6. DevicesKept'
  BY DEF Delete, DevicesKept
<1>7. ClientsEnd'
  BY <1>1 DEF Delete, ClientsEnd
<1>8. \A r \in Runs : row'[r].status = "gone" \/ row'[r] = rows[r]
  BY <1>1 DEF Delete
<1> QED BY <1>3, <1>4, <1>5, <1>6, <1>7, <1>8

LEMMA DeleteKeeps ==
  ASSUME FlowRunsInv, NEW r \in Runs, DeleteBuildOf(r)
  PROVE  FlowRunsInv'
<1>1. Delete({r}, row) /\ UNCHANGED <<open, started, req, stray>>
  BY DEF DeleteBuildOf
<1>2. row \in [Runs -> Row] /\ \A x \in Runs : row[x].by = "client" => row[x].status \in Final
  BY DEF FlowRunsInv, TypeOK, ClientsEnd
<1>3. /\ row' \in [Runs -> Row] /\ flow' \in [Runs -> [Flows -> FlowRow]]
      /\ device' \in [Runs -> SUBSET Devices] /\ acked' \in [Runs -> SUBSET Devices]
      /\ disk' \subseteq Shots /\ DevicesKept' /\ ClientsEnd'
      /\ \A x \in Runs : row'[x].status = "gone" \/ row'[x] = row[x]
  BY <1>1, <1>2, DeleteRows DEF FlowRunsInv
<1>4. TypeOK' /\ StartsAreLive'
  BY <1>1, <1>3 DEF FlowRunsInv, TypeOK, StartsAreLive
<1> QED BY <1>3, <1>4 DEF FlowRunsInv

\* The purge lets go of every entry whose run is not running.
LEMMA PurgeKeeps ==
  ASSUME FlowRunsInv, NEW expired, PurgeRuns(expired)
  PROVE  FlowRunsInv'
<1>1. Delete(expired, Settled) /\ started' = Forgotten(Settled) /\ UNCHANGED <<open, req, stray>>
  BY DEF PurgeRuns
<1>2. Settled \in [Runs -> Row] /\ \A x \in Runs : Settled[x].by = "client" => Settled[x].status \in Final
  BY SettledRows DEF FlowRunsInv, Settled
<1>3. /\ row' \in [Runs -> Row] /\ flow' \in [Runs -> [Flows -> FlowRow]]
      /\ device' \in [Runs -> SUBSET Devices] /\ acked' \in [Runs -> SUBSET Devices]
      /\ disk' \subseteq Shots /\ DevicesKept' /\ ClientsEnd'
      /\ \A x \in Runs : row'[x].status = "gone" \/ row'[x] = Settled[x]
  BY <1>1, <1>2, DeleteRows DEF FlowRunsInv
<1>4. Absent \in [on : BOOLEAN, flows : SUBSET Flows] /\ Absent.on = FALSE
  BY DEF Absent
<1>5. started' \in [Runs -> [on : BOOLEAN, flows : SUBSET Flows]]
      /\ \A x \in Runs : started'[x].on => Settled[x].status = "running"
  BY <1>1, <1>4 DEF Forgotten, FlowRunsInv, TypeOK
<1>6. TypeOK' /\ StartsAreLive'
  BY <1>1, <1>3, <1>5 DEF FlowRunsInv, TypeOK, StartsAreLive
<1> QED BY <1>3, <1>6 DEF FlowRunsInv

LEMMA RestartKeeps ==
  ASSUME FlowRunsInv, NEW expired, Restart(expired)
  PROVE  FlowRunsInv'
<1> DEFINE none == [r \in Runs |-> {}]  rows == SettledWith(none)
<1>1. /\ Delete(expired, rows) /\ started' = [r \in Runs |-> Absent] /\ open' = none
      /\ req' = [q \in Requests |-> Idle] /\ stray' = stray \cup Writing
  BY DEF Restart
<1>2. rows \in [Runs -> Row] /\ \A x \in Runs : rows[x].by = "client" => rows[x].status \in Final
  BY SettledRows DEF FlowRunsInv
<1>3. /\ row' \in [Runs -> Row] /\ flow' \in [Runs -> [Flows -> FlowRow]]
      /\ device' \in [Runs -> SUBSET Devices] /\ acked' \in [Runs -> SUBSET Devices]
      /\ disk' \subseteq Shots /\ DevicesKept' /\ ClientsEnd'
  <2> HIDE DEF rows
  <2> QED BY <1>1, <1>2, DeleteRows DEF FlowRunsInv
<1>4. Absent \in [on : BOOLEAN, flows : SUBSET Flows] /\ Absent.on = FALSE
  BY DEF Absent
<1>5. Writing \subseteq Shots
  BY RequestKinds DEF FlowRunsInv, Writing, FileOf
<1>6. TypeOK' /\ StartsAreLive'
  BY <1>1, <1>3, <1>4, <1>5 DEF FlowRunsInv, TypeOK, StartsAreLive
<1> QED BY <1>3, <1>6 DEF FlowRunsInv

\* Every step keeps the record.
LEMMA RecordStep == FlowRunsInv /\ [Next]_vars => FlowRunsInv'
<1> SUFFICES ASSUME FlowRunsInv, [Next]_vars PROVE FlowRunsInv'
  OBVIOUS
<1>1. ASSUME NEW q \in Requests, Handle(q) PROVE FlowRunsInv'
  BY <1>1, ReportKeeps, StartKeeps, NameKeeps, ShotKeeps, DeviceKeeps, FinishKeeps DEF Handle
<1>2. ASSUME NEW q \in Requests, NEW rq \in Request, Arrive(q, rq) PROVE FlowRunsInv'
  BY <1>2, OnlyRequests DEF Arrive, FlowRunsInv, TypeOK
<1>3. ASSUME NEW r \in Runs, NEW b \in BOOLEAN, CreateRun(r, b) PROVE FlowRunsInv'
  BY <1>3, CreateKeeps
<1>4. ASSUME NEW r \in Runs, ReadRun(r) \/ DeleteBuildOf(r) PROVE FlowRunsInv'
  BY <1>4, ReadKeeps, DeleteKeeps
<1>5. ASSUME NEW r \in Runs, (GoesQuiet(r) \/ GraceOver(r)) /\ UNCHANGED work PROVE FlowRunsInv'
  BY <1>5, ClockKeeps
<1>6. ASSUME NEW r \in Runs, NEW s \in Sockets,
             (Connect(r, s) /\ UNCHANGED work) \/ SocketCloses(r, s)
      PROVE  FlowRunsInv'
  BY <1>6, ClockKeeps, CloseKeeps
<1>7. ASSUME NEW expired, PurgeRuns(expired) \/ Restart(expired) PROVE FlowRunsInv'
  BY <1>7, PurgeKeeps, RestartKeeps
<1>8. ASSUME UNCHANGED vars PROVE FlowRunsInv'
  BY <1>8, OnlyRequests DEF vars, FlowRunsInv, TypeOK
<1> QED BY <1>1, <1>2, <1>3, <1>4, <1>5, <1>6, <1>7, <1>8 DEF Next

(* A run's record is right in every reachable state: a flow is shown as
   running only while its run is or until the purge that follows its deletion
   (startedFlows, runs.ts:50), a device report answered 200 is in the record
   whatever reported beside it, and what a client finished has ended. *)
THEOREM RecordIsRight == Spec => []FlowRunsInv
<1>1. Spec => Init /\ [][Next]_vars
  BY DEF Spec
<1> QED BY <1>1, RecordInit, RecordStep, PTL

-----------------------------------------------------------------------------
(* The first account stands *)

\* What one step may do to a run that is still there.
FirstStands ==
    \A r \in Runs : row'[r].status # "gone" =>
         /\ row[r].by = "client" =>
              row'[r].by = "client" /\ row'[r].status = row[r].status
         /\ \A f \in Flows :
              flow[r][f].status = "ran" => flow'[r][f].status = "ran"

\* A step that leaves the flows and the endings of the runs alone.
LEMMA SameEndings ==
  ASSUME UNCHANGED flow,
         \A r \in Runs : row[r].by = "client" =>
                           row'[r].by = "client" /\ row'[r].status = row[r].status
  PROVE  FirstStands
BY DEF FirstStands

\* The handlers: a second finish is refused, and a flow that ran is not skipped.
LEMMA HandlersStand ==
  ASSUME FlowRunsInv, NEW q \in Requests, Handle(q)
  PROVE  FirstStands
<1>1. CASE ReportFlow(q)
  <2> DEFINE r == req[q].run  f == req[q].idx  says == req[q].says
  <2>1. r \in Runs /\ f \in Flows /\ says \in {"ran", "skipped"}
    BY <1>1, RequestKinds DEF FlowRunsInv, ReportFlow
  <2>2. \A x \in Runs : row'[x].status = row[x].status /\ row'[x].by = row[x].by
    BY <1>1, <2>1, TouchedRow DEF ReportFlow, FlowRunsInv
  <2>3. \A x \in Runs, g \in Flows : flow[x][g].status = "ran" => flow'[x][g].status = "ran"
    <3>1. CASE ReportJudged(r, f, says)
      <4>1. flow' = [flow EXCEPT ![r][f].status = says]
            /\ (says = "skipped" => flow[r][f].status \in {"none", "skipped"})
        BY <1>1, <3>1 DEF ReportFlow, ReportJudged
      <4>2. \A x \in Runs : flow[x] \in [Flows -> FlowRow]
        BY DEF FlowRunsInv, TypeOK
      <4>3. flow[r][f] \in FlowRow /\ flow'[r][f].status = says
        BY <2>1, <4>1, <4>2 DEF FlowRunsInv, TypeOK, FlowRow
      <4>4. \A x \in Runs, g \in Flows : (x # r \/ g # f) => flow'[x][g] = flow[x][g]
        BY <2>1, <4>1, <4>2 DEF FlowRunsInv, TypeOK
      <4> HIDE DEF r, f, says
      <4> QED BY <2>1, <4>1, <4>3, <4>4
    <3>2. CASE ~ ReportJudged(r, f, says)
      BY <1>1, <3>2 DEF ReportFlow
    <3> QED BY <3>1, <3>2
  <2> QED BY <2>2, <2>3 DEF FirstStands
<1>2. CASE NameShot(q)
  <2> DEFINE r == req[q].run  f == req[q].idx  s == req[q].file
  <2>1. r \in Runs /\ f \in Flows
    BY <1>2, RequestKinds DEF FlowRunsInv, NameShot
  <2>2. flow' = [flow EXCEPT ![r][f].shot = s] \/ UNCHANGED flow
    BY <1>2 DEF NameShot
  <2>3. \A x \in Runs, g \in Flows : flow'[x][g].status = flow[x][g].status
    <3>1. flow \in [Runs -> [Flows -> FlowRow]]
      BY DEF FlowRunsInv, TypeOK
    <3>2. flow[r][f] \in FlowRow
      BY <2>1, <3>1
    <3>3. [flow[r][f] EXCEPT !.shot = s].status = flow[r][f].status
      BY <3>2 DEF FlowRow
    <3> HIDE DEF r, f, s
    <3>4. CASE flow' = [flow EXCEPT ![r][f].shot = s]
      BY <2>1, <3>1, <3>3, <3>4
    <3> QED BY <2>2, <3>4
  <2> QED BY <1>2, <2>3 DEF NameShot, FirstStands
<1>3. CASE FinishRun(q)
  <2> DEFINE r == req[q].run
  <2>1. r \in Runs /\ UNCHANGED flow
    BY <1>3, RequestKinds DEF FlowRunsInv, FinishRun
  <2>2. \A x \in Runs : row[x].by = "client" => row'[x] = row[x]
    BY <1>3, <2>1 DEF FinishRun, MayFinish, FlowRunsInv, TypeOK
  <2> QED BY <2>1, <2>2, SameEndings
<1>4. CASE StartFlow(q) \/ ReportDevice(q)
  <2>1. req[q].run \in Runs /\ UNCHANGED flow
    BY <1>4, RequestKinds DEF FlowRunsInv, StartFlow, ReportDevice
  <2>2. \A x \in Runs : row'[x].status = row[x].status /\ row'[x].by = row[x].by
    BY <1>4, <2>1, TouchedRow DEF StartFlow, ReportDevice, FlowRunsInv
  <2> QED BY <2>1, <2>2, SameEndings
<1>5. CASE Refuse(q) \/ WriteShot(q) \/ ShotWriteFails(q)
  BY <1>5, SameEndings DEF Refuse, WriteShot, ShotWriteFails
<1> QED BY <1>1, <1>2, <1>3, <1>4, <1>5 DEF Handle

\* A closing socket ends a running run, which no client has finished.
LEMMA ClosesStand ==
  ASSUME FlowRunsInv, NEW r \in Runs, NEW s \in Sockets, SocketCloses(r, s)
  PROVE  FirstStands
<1>1. row[r].status = "running" => row[r].by # "client"
  BY DEF FlowRunsInv, ClientsEnd, Final
<1>2. \A x \in Runs : row[x].by = "client" => row'[x] = row[x]
  BY <1>1 DEF SocketCloses, FlowRunsInv, TypeOK
<1> QED BY <1>2, SameEndings DEF SocketCloses

\* A deleted run is gone; the others keep their flows, and settling spares what a
\* client finished.
LEMMA DeletionsStand ==
  ASSUME FlowRunsInv, NEW gone, NEW rows \in [Runs -> Row], Delete(gone, rows),
         \A r \in Runs : row[r].by = "client" => rows[r] = row[r]
  PROVE  FirstStands
<1>1. Gone.status = "gone"
  BY DEF Gone, NoRow
<1>2. \A r \in Runs : row'[r].status # "gone" =>
        r \notin gone /\ row'[r] = rows[r] /\ flow'[r] = flow[r]
  BY <1>1 DEF Delete
<1> QED BY <1>2 DEF FirstStands

LEMMA FirstStep == FlowRunsInv /\ [Next]_vars => FirstStands \/ UNCHANGED vars
<1> SUFFICES ASSUME FlowRunsInv, Next PROVE FirstStands
  OBVIOUS
<1>1. ASSUME NEW q \in Requests, Handle(q) PROVE FirstStands
  BY <1>1, HandlersStand
<1>2. ASSUME NEW q \in Requests, NEW rq \in Request, Arrive(q, rq) PROVE FirstStands
  BY <1>2, SameEndings DEF Arrive
<1>3. ASSUME NEW r \in Runs, NEW b \in BOOLEAN, CreateRun(r, b) PROVE FirstStands
  <2>1. \A x \in Runs : row[x].by = "client" => row'[x] = row[x]
    BY <1>3 DEF CreateRun, FlowRunsInv, TypeOK, ClientsEnd, Final
  <2> QED BY <1>3, <2>1, SameEndings DEF CreateRun, work
<1>4. ASSUME NEW r \in Runs, ReadRun(r) PROVE FirstStands
  <2>1. \A x \in Runs : row[x].by = "client" => row'[x] = row[x]
    BY <1>4, SettledRows DEF ReadRun, Settled, FlowRunsInv
  <2> QED BY <1>4, <2>1, SameEndings DEF ReadRun
<1>5. ASSUME NEW r \in Runs, DeleteBuildOf(r) PROVE FirstStands
  BY <1>5, DeletionsStand DEF DeleteBuildOf, FlowRunsInv, TypeOK
<1>6. ASSUME NEW r \in Runs, UNCHANGED work,
             GoesQuiet(r) \/ GraceOver(r) \/ \E s \in Sockets : Connect(r, s)
      PROVE  FirstStands
  BY <1>6, ClockKeeps, SameEndings DEF work
<1>7. ASSUME NEW r \in Runs, NEW s \in Sockets, SocketCloses(r, s) PROVE FirstStands
  BY <1>7, ClosesStand
<1>8. ASSUME NEW expired, PurgeRuns(expired) PROVE FirstStands
  BY <1>8, SettledRows, DeletionsStand DEF PurgeRuns, Settled, FlowRunsInv
<1>9. ASSUME NEW expired, Restart(expired) PROVE FirstStands
  <2> DEFINE rows == SettledWith([r \in Runs |-> {}])
  <2>1. rows \in [Runs -> Row] /\ \A r \in Runs : row[r].by = "client" => rows[r] = row[r]
    BY SettledRows DEF FlowRunsInv
  <2>2. Delete(expired, rows)
    BY <1>9 DEF Restart
  <2> HIDE DEF rows
  <2> QED BY <2>1, <2>2, DeletionsStand
<1> QED BY <1>1, <1>2, <1>3, <1>4, <1>5, <1>6, <1>7, <1>8, <1>9 DEF Next

(* The first account of a run's client stands (runs.ts:605), and no flow that
   ran becomes one that was skipped (runs.ts:410): what the handlers check
   again after their bodies is enough, however many requests, closes, reads
   and purges come between, for any number of runs. *)
THEOREM FirstAccount == Spec => FirstAccountStands
<1>1. Spec => Init /\ [][Next]_vars
  BY DEF Spec
<1>2. FlowRunsInv /\ [Next]_vars => [FirstStands]_vars
  BY FirstStep
<1>3. Spec => [][FirstStands]_vars
  BY <1>1, <1>2, RecordInit, RecordStep, PTL
<1> QED BY <1>3 DEF FirstAccountStands, FirstStands

-----------------------------------------------------------------------------
(* The files *)

\* What a request that is not a screenshot, or has no file yet, owns.
LEMMA Files ==
  ASSUME TypeOK
  PROVE  /\ \A q \in Requests : FileOf(q) \in Shots \cup {NoShot}
         /\ \A r \in Runs, f \in Flows : flow[r][f].shot \in Shots \cup {NoShot}
         /\ \A s : s \in Writing <=> s # NoShot /\ \E q \in Requests : FileOf(q) = s
         /\ \A s : s \in Named(flow) <=>
                     s # NoShot /\ \E r \in Runs, f \in Flows : flow[r][f].shot = s
<1>1. \A q \in Requests : FileOf(q) \in Shots \cup {NoShot}
  BY RequestKinds DEF FileOf
<1>2. \A r \in Runs, f \in Flows : flow[r][f].shot \in Shots \cup {NoShot}
  BY DEF TypeOK, FlowRow
<1>3. \A s : s \in Writing <=> s # NoShot /\ \E q \in Requests : FileOf(q) = s
  BY DEF Writing
<1>4. \A s : s \in Named(flow) <=>
               s # NoShot /\ \E r \in Runs, f \in Flows : flow[r][f].shot = s
  BY DEF Named
<1> QED BY <1>1, <1>2, <1>3, <1>4

\* A request that is answered owns no file any more; the others keep theirs.
LEMMA AnswerFiles ==
  ASSUME TypeOK, NEW q \in Requests, Answer(q)
  PROVE  /\ FileOf(q)' = NoShot
         /\ \A p \in Requests : p # q => FileOf(p)' = FileOf(p)
<1>1. req' = [req EXCEPT ![q] = Idle] /\ req \in [Requests -> Request \cup {Idle}]
  BY DEF Answer, TypeOK
<1>2. req'[q] = Idle /\ \A p \in Requests : p # q => req'[p] = req[p]
  BY <1>1
<1> QED BY <1>2 DEF FileOf, Idle

\* A step that moves no file from one owner to another.
LEMMA SameFiles ==
  ASSUME ShotFilesMatch, disk' = disk, stray \subseteq stray',
         \A r \in Runs, f \in Flows : flow'[r][f].shot = flow[r][f].shot,
         \A q \in Requests : FileOf(q)' = FileOf(q)
  PROVE  ShotFilesMatch'
<1>1. Named(flow)' = Named(flow)
  BY DEF Named
<1>2. Writing' = Writing
  BY DEF Writing
<1>3. (disk \ stray)' \subseteq disk \ stray
  OBVIOUS
<1> QED BY <1>1, <1>2, <1>3 DEF ShotFilesMatch

\* A screenshot is written to a file that nobody owns.
LEMMA WriteFiles ==
  ASSUME FlowRunsInv, ShotFilesMatch, NEW q \in Requests, WriteShot(q)
  PROVE  ShotFilesMatch'
<1> DEFINE s == FreshShot
<1>1. TypeOK /\ s \in Shots /\ s \notin disk \cup Named(flow) \cup Writing /\ s # NoShot
  BY FreshIsNew DEF WriteShot, FlowRunsInv
<1>2. disk' = disk \cup {s} /\ UNCHANGED <<flow, stray>>
  BY DEF WriteShot
<1>3. FileOf(q) = NoShot /\ FileOf(q)' = s
      /\ \A p \in Requests : p # q => FileOf(p)' = FileOf(p)
  <2>1. req[q].op = "shot" /\ req[q].file = NoShot /\ req' = [req EXCEPT ![q].file = s]
    BY DEF WriteShot
  <2>2. req[q] \in [op : {"shot"}, run : Runs, idx : Flows, file : Shots \cup {NoShot}]
    BY <1>1, <2>1 DEF TypeOK, Request, Idle
  <2>3. req'[q] = [req[q] EXCEPT !.file = s] /\ \A p \in Requests : p # q => req'[p] = req[p]
    BY <1>1, <2>1 DEF TypeOK
  <2>4. req'[q].op = "shot" /\ req'[q].file = s
    BY <2>2, <2>3
  <2> QED BY <2>1, <2>3, <2>4 DEF FileOf
<1> HIDE DEF s
<1>4. Named(flow)' = Named(flow)
  BY <1>2 DEF Named
<1>5. \A x : x \in Writing' <=> x = s \/ x \in Writing
  BY <1>1, <1>3 DEF Writing
<1>6. \A p \in Requests : FileOf(p) # s
  BY <1>1 DEF Writing
<1>7. (\A p, x \in Requests : p # x /\ FileOf(p) = FileOf(x) => FileOf(p) = NoShot)'
  BY <1>3, <1>6 DEF ShotFilesMatch
<1> QED BY <1>1, <1>2, <1>4, <1>5, <1>7 DEF ShotFilesMatch

\* The row takes the new file and gives up the old one; without a row the new one goes.
LEMMA NameFiles ==
  ASSUME FlowRunsInv, ShotFilesMatch, NEW q \in Requests, NameShot(q)
  PROVE  ShotFilesMatch'
<1> DEFINE r == req[q].run  f == req[q].idx  s == req[q].file  old == flow[r][f].shot
           there == Exists(row[r]) /\ flow[r][f].status # "none"
<1>1. TypeOK /\ r \in Runs /\ f \in Flows /\ s \in Shots /\ s # NoShot /\ FileOf(q) = s
  BY RequestKinds DEF FlowRunsInv, NameShot, FileOf
<1>2. FileOf(q)' = NoShot /\ \A p \in Requests : p # q => FileOf(p)' = FileOf(p)
  BY <1>1, AnswerFiles DEF NameShot
<1>3. \A x : x \in Writing' <=> x \in Writing /\ x # s
  BY <1>1, <1>2 DEF Writing, ShotFilesMatch
<1>4. (\A p, x \in Requests : p # x /\ FileOf(p) = FileOf(x) => FileOf(p) = NoShot)'
  BY <1>2 DEF ShotFilesMatch
<1>5. stray' = stray /\ s \in disk /\ s \notin Named(flow)
  BY <1>1 DEF NameShot, ShotFilesMatch, Writing
<1>6. CASE there
  <2>1. flow' = [flow EXCEPT ![r][f].shot = s] /\ disk' = disk \ {old}
    BY <1>6 DEF NameShot, Superseded
  <2>2. /\ flow'[r][f].shot = s
        /\ \A x \in Runs, g \in Flows : (x # r \/ g # f) => flow'[x][g].shot = flow[x][g].shot
    <3>1. flow \in [Runs -> [Flows -> FlowRow]] /\ flow[r][f] \in FlowRow
      BY <1>1 DEF TypeOK
    <3>2. [flow[r][f] EXCEPT !.shot = s].shot = s
      BY <3>1 DEF FlowRow
    <3> HIDE DEF r, f, s
    <3> QED BY <1>1, <2>1, <3>1, <3>2
  <2> HIDE DEF r, f, s, old
  <2>3. \A x \in Runs, g \in Flows : (x # r \/ g # f) => flow'[x][g].shot # s
    BY <1>1, <1>5, <2>2 DEF Named
  <2>4. \A x \in Runs, g \in Flows :
          (x # r \/ g # f) /\ flow[x][g].shot # NoShot => flow[x][g].shot # old
    BY <1>1 DEF ShotFilesMatch, old
  <2>5. \A x : x \in Named(flow') <=> x = s \/ (x \in Named(flow) /\ x # old)
    BY <1>1, <1>5, <2>2, <2>4 DEF Named, old
  <2>6. old = NoShot \/ old \notin Writing
    BY <1>1 DEF ShotFilesMatch, Named, old
  <2>7. (\A r1, r2 \in Runs, f1, f2 \in Flows :
          (flow[r1][f1].shot = flow[r2][f2].shot /\ flow[r1][f1].shot # NoShot)
             => r1 = r2 /\ f1 = f2)'
    BY <1>1, <2>2, <2>3 DEF ShotFilesMatch
  <2>8. disk' \ stray' \subseteq Named(flow') \cup Writing'
    BY <1>3, <1>5, <2>1, <2>5 DEF ShotFilesMatch
  <2>9. Named(flow') \subseteq disk'
    BY <1>1, <1>5, <2>1, <2>5 DEF ShotFilesMatch, Named, old
  <2>10. Writing' \subseteq disk' \ Named(flow')
    <3>1. \A x \in Writing : x # NoShot
      BY DEF Writing
    <3>2. Writing \subseteq disk \ Named(flow)
      BY DEF ShotFilesMatch
    <3> QED BY <1>3, <2>1, <2>5, <2>6, <3>1, <3>2
  <2> QED BY <1>4, <2>7, <2>8, <2>9, <2>10 DEF ShotFilesMatch
<1>7. CASE ~ there
  <2>1. flow' = flow /\ disk' = disk \ {s}
    BY <1>7 DEF NameShot, Superseded
  <2>2. Named(flow)' = Named(flow)
    BY <2>1 DEF Named
  <2> QED BY <1>3, <1>4, <1>5, <2>1, <2>2 DEF ShotFilesMatch
<1> QED BY <1>6, <1>7

\* A file whose write failed has no owner and stays.
LEMMA FailFiles ==
  ASSUME FlowRunsInv, ShotFilesMatch, NEW q \in Requests, ShotWriteFails(q)
  PROVE  ShotFilesMatch'
<1>1. FileOf(q) = req[q].file /\ UNCHANGED <<flow, disk>> /\ stray' = stray \cup {req[q].file}
  BY DEF ShotWriteFails, FileOf
<1>2. FileOf(q)' = NoShot /\ \A p \in Requests : p # q => FileOf(p)' = FileOf(p)
  BY AnswerFiles DEF ShotWriteFails, FlowRunsInv
<1>3. Named(flow)' = Named(flow)
  BY <1>1 DEF Named
<1>4. \A x : x \in Writing' => x \in Writing
  BY <1>2 DEF Writing
<1>5. \A x : x \in Writing => x \in Writing' \/ x = req[q].file
  BY <1>1, <1>2 DEF Writing
<1>6. (\A p, x \in Requests : p # x /\ FileOf(p) = FileOf(x) => FileOf(p) = NoShot)'
  BY <1>2 DEF ShotFilesMatch
<1> QED BY <1>1, <1>3, <1>4, <1>5, <1>6 DEF ShotFilesMatch

\* The files of deleted runs go with their rows, and nobody else's.
LEMMA DeleteFiles ==
  ASSUME FlowRunsInv, ShotFilesMatch, NEW gone, NEW rows, gone \subseteq Runs,
         Delete(gone, rows), stray' \subseteq Shots,
         \/ UNCHANGED <<req, stray>>
         \/ req' = [q \in Requests |-> Idle] /\ stray' = stray \cup Writing
  PROVE  ShotFilesMatch'
<1>1. \A r \in Runs, f \in Flows :
        flow'[r][f].shot = IF r \in gone THEN NoShot ELSE flow[r][f].shot
  BY DEF Delete, NoFlows, NoFlowRow, FlowRunsInv, TypeOK
<1>2. disk' = disk \ {flow[r][f].shot : r \in gone, f \in Flows}
  BY DEF Delete, DeletedFiles
<1>3. \A x : x \in Named(flow') => x \in Named(flow)
  BY <1>1 DEF Named
<1>4. \A x : x \in Named(flow) => x \in Named(flow') \/ x \notin disk'
  BY <1>1, <1>2 DEF Named
<1>5. Named(flow') \subseteq disk'
  BY <1>1, <1>2 DEF Named, ShotFilesMatch
<1>6. Writing \subseteq disk' \ Named(flow')
  <2>1. \A x \in Writing : x # NoShot /\ x \in disk /\ x \notin Named(flow)
    BY DEF ShotFilesMatch, Writing
  <2>2. \A x \in Writing, r \in gone, f \in Flows : flow[r][f].shot # x
    BY <2>1 DEF Named
  <2> QED BY <1>2, <1>3, <2>1, <2>2
<1>7. \/ Writing' = Writing /\ stray' = stray /\ \A q \in Requests : FileOf(q)' = FileOf(q)
      \/ Writing' = {} /\ stray' = stray \cup Writing /\ \A q \in Requests : FileOf(q)' = NoShot
  <2>1. CASE UNCHANGED <<req, stray>>
    BY <2>1 DEF Writing, FileOf
  <2>2. CASE req' = [q \in Requests |-> Idle] /\ stray' = stray \cup Writing
    <3>1. \A q \in Requests : FileOf(q)' = NoShot
      BY <2>2 DEF FileOf, Idle
    <3> QED BY <2>2, <3>1 DEF Writing
  <2> QED BY <2>1, <2>2
<1>8. (\A p, x \in Requests : p # x /\ FileOf(p) = FileOf(x) => FileOf(p) = NoShot)'
  BY <1>7 DEF ShotFilesMatch
<1>9. (\A r1, r2 \in Runs, f1, f2 \in Flows :
         (flow[r1][f1].shot = flow[r2][f2].shot /\ flow[r1][f1].shot # NoShot)
            => r1 = r2 /\ f1 = f2)'
  BY <1>1 DEF ShotFilesMatch
<1>10. disk' \ stray' \subseteq Named(flow') \cup Writing'
  BY <1>2, <1>4, <1>7 DEF ShotFilesMatch
<1> QED BY <1>5, <1>6, <1>7, <1>8, <1>9, <1>10 DEF ShotFilesMatch

\* The other handlers own no file, and change no row's.
LEMMA OthersFiles ==
  ASSUME FlowRunsInv, ShotFilesMatch, NEW q \in Requests,
         Refuse(q) \/ ReportFlow(q) \/ StartFlow(q) \/ ReportDevice(q) \/ FinishRun(q)
  PROVE  ShotFilesMatch'
<1>1. TypeOK /\ Answer(q) /\ FileOf(q) = NoShot /\ UNCHANGED <<disk, stray>>
  BY DEF FlowRunsInv, Refuse, ReportFlow, StartFlow, ReportDevice, FinishRun, FileOf
<1>2. \A p \in Requests : FileOf(p)' = FileOf(p)
  BY <1>1, AnswerFiles
<1>3. \A r \in Runs, f \in Flows : flow'[r][f].shot = flow[r][f].shot
  <2>1. CASE ReportFlow(q)
    <3> DEFINE r == req[q].run  f == req[q].idx  says == req[q].says
    <3>1. r \in Runs /\ f \in Flows
      BY <1>1, <2>1, RequestKinds DEF ReportFlow
    <3>2. flow' = [flow EXCEPT ![r][f].status = says] \/ UNCHANGED flow
      BY <2>1 DEF ReportFlow
    <3>3. flow \in [Runs -> [Flows -> FlowRow]] /\ flow[r][f] \in FlowRow
      BY <1>1, <3>1 DEF TypeOK
    <3>4. [flow[r][f] EXCEPT !.status = says].shot = flow[r][f].shot
      BY <3>3 DEF FlowRow
    <3> HIDE DEF r, f, says
    <3>5. CASE flow' = [flow EXCEPT ![r][f].status = says]
      BY <3>1, <3>3, <3>4, <3>5
    <3> QED BY <3>2, <3>5
  <2>2. CASE ~ ReportFlow(q)
    BY <2>2 DEF Refuse, StartFlow, ReportDevice, FinishRun
  <2> QED BY <2>1, <2>2
<1> QED BY <1>1, <1>2, <1>3, SameFiles

\* A screenshot's request arrives without a file.
LEMMA ArriveFiles ==
  ASSUME FlowRunsInv, ShotFilesMatch, NEW q \in Requests, NEW rq \in Request, Arrive(q, rq)
  PROVE  ShotFilesMatch'
<1>1. req[q] = Idle /\ req' = [req EXCEPT ![q] = rq] /\ (rq.op = "shot" => rq.file = NoShot)
  BY DEF Arrive, Accepts
<1>2. req'[q] = rq /\ \A p \in Requests : p # q => req'[p] = req[p]
  BY <1>1 DEF FlowRunsInv, TypeOK
<1>3. \A p \in Requests : FileOf(p)' = FileOf(p)
  BY <1>1, <1>2 DEF FileOf, Idle
<1> QED BY <1>3, SameFiles DEF Arrive

LEMMA FilesStep == FlowRunsInv /\ ShotFilesMatch /\ [Next]_vars => ShotFilesMatch'
<1> SUFFICES ASSUME FlowRunsInv, ShotFilesMatch, [Next]_vars PROVE ShotFilesMatch'
  OBVIOUS
<1>1. ASSUME NEW q \in Requests, Handle(q) PROVE ShotFilesMatch'
  BY <1>1, OthersFiles, WriteFiles, NameFiles, FailFiles DEF Handle
<1>2. ASSUME NEW q \in Requests, NEW rq \in Request, Arrive(q, rq) PROVE ShotFilesMatch'
  BY <1>2, ArriveFiles
<1>3. ASSUME UNCHANGED <<flow, disk, req, stray>> PROVE ShotFilesMatch'
  BY <1>3, SameFiles DEF FileOf
<1>4. ASSUME NEW gone, gone \subseteq Runs, NEW rows, Delete(gone, rows), UNCHANGED <<req, stray>>
      PROVE  ShotFilesMatch'
  BY <1>4, DeleteFiles DEF FlowRunsInv, TypeOK
<1>5. ASSUME NEW r \in Runs, DeleteBuildOf(r) PROVE ShotFilesMatch'
  BY <1>4, <1>5 DEF DeleteBuildOf
<1>6. Expirable \subseteq Runs
  BY DEF Expirable
<1>7. ASSUME NEW expired, PurgeRuns(expired) PROVE ShotFilesMatch'
  BY <1>4, <1>6, <1>7 DEF PurgeRuns
<1>8. ASSUME NEW expired, Restart(expired) PROVE ShotFilesMatch'
  <2>1. Writing \subseteq Shots
    BY Files DEF FlowRunsInv
  <2>2. PICK rows : Delete(expired, rows)
    BY <1>8 DEF Restart
  <2>3. /\ expired \subseteq Runs
        /\ req' = [q \in Requests |-> Idle] /\ stray' = stray \cup Writing
    BY <1>6, <1>8 DEF Restart
  <2>4. stray' \subseteq Shots
    BY <2>1, <2>3 DEF FlowRunsInv, TypeOK
  <2> QED BY <2>2, <2>3, <2>4, DeleteFiles
<1> QED BY <1>1, <1>2, <1>3, <1>5, <1>7, <1>8
     DEF Next, vars, work, CreateRun, ReadRun, SocketCloses

(* No screenshot is lost or left: in every reachable state a row names a file
   that is there, and every file on disk has one row or one request, but for
   what a failed write or a crash left (handleUploadFlowScreenshot,
   runs.ts:484).  For any number of uploads of one flow at once. *)
THEOREM ShotsAreRight == Spec => []ShotFilesMatch
<1>1. Init => ShotFilesMatch
  <2> SUFFICES ASSUME Init PROVE ShotFilesMatch
    OBVIOUS
  <2>1. \A q \in Requests : FileOf(q) = NoShot
    BY DEF Init, FileOf, Idle
  <2>2. \A r \in Runs, f \in Flows : flow[r][f].shot = NoShot
    BY DEF Init, NoFlows, NoFlowRow
  <2>3. Writing = {} /\ Named(flow) = {}
    BY <2>1, <2>2 DEF Writing, Named
  <2> QED BY <2>1, <2>2, <2>3 DEF Init, ShotFilesMatch
<1>2. Spec => Init /\ [][Next]_vars
  BY DEF Spec
<1> QED BY <1>1, <1>2, RecordInit, RecordStep, FilesStep, PTL
=============================================================================
