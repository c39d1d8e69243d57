----------------------------- MODULE RunVideos -----------------------------
(* A flow's video on its way into the relay: the runner's lane
   (packages/cli/src/lib/videoLane.ts), fed by the tap that cuts the stream
   into chunks (packages/flow-runner/src/video.ts), and the relay's handlers
   (packages/relay/src/api/runVideos.ts), which keep the chunks in one file
   at committed offsets, under a storage cap and a floor of free disk.

   One video per run, that of its one flow.  Bytes are counted in cells; a
   cell of a file holds the number of the chunk that wrote it.  A call is a
   member of Requests from its arrival to its answer, and can outlive the
   wait of the lane that made it: the lane gives a call up after its timeout
   and goes on, and the relay may still finish it.                           *)
EXTENDS RunRows, Integers, Functions

CONSTANTS
    MaxSeq,    \* the last chunk number a flow can produce
    CutsOf,    \* the number of chunks the flow of each run produces at most
    LenOf,     \* cells of each chunk
    KeySeqs,   \* the chunks that begin at a decodable keyframe
    Passed,    \* the runs whose flow is reported as passed
    Cap,       \* videoSettings().storageCapBytes
    Disk,      \* free disk above the floor when no video is kept
    MaxVideo,  \* MAX_VIDEO_BYTES
    LaneRoom,  \* MAX_QUEUED_BYTES, in chunks
    Faulty,    \* bound: the runs that meet a fault
    MaxFaults, \* bound: calls given up, writes refused, runs deleted, stops and restarts
    Watched,   \* bound: the runs whose video somebody plays
    Requests, NoReq, NoFile

Seqs == 0..MaxSeq

ASSUME VideosAssumption ==
    /\ MaxSeq \in Nat /\ CutsOf \in [Runs -> 0..(MaxSeq + 1)]
    /\ LenOf \in [Seqs -> Nat \ {0}]
    /\ KeySeqs \subseteq Seqs /\ 0 \in KeySeqs
    /\ IsFiniteSet(Runs) /\ {Passed, Faulty, Watched} \subseteq SUBSET Runs
    /\ {Cap, Disk, MaxVideo, LaneRoom, MaxFaults} \subseteq Nat
    /\ NoReq \notin Requests /\ NoFile \notin Seq(Seqs)

VARIABLES
    video,     \* the rows of flow_run_videos
    chunks,    \* the rows of flow_run_video_chunks, in order
    file,      \* the files in the videos directory
    inode,     \* who plays each file, and what handles keep of it once unlinked
    queue,     \* writing: the chunk calls of one video, run one at a time
    req,       \* calls the relay has not answered
    tap,       \* what the flow's tap has produced
    lane,      \* the lane of each run's video
    took,      \* (history) the chunks whose 200 reached the lane
    faults     \* how many faults there have been

vars == <<row, open, video, chunks, file, inode, queue, req, tap, lane, took,
          faults>>
work == <<video, chunks, file, inode, queue, req, tap, lane, took, faults>>

Fault(r) == r \in Faulty /\ faults < MaxFaults /\ faults' = faults + 1

Idle == [op |-> "none"]

NoVideo == [on |-> FALSE, bytes |-> 0, reserved |-> 0, next |-> 0,
            ended |-> FALSE, reason |-> "none", last |-> -1,
            evicted |-> FALSE, born |-> 0]
NoInode == [played |-> FALSE, seen |-> 0, unseen |-> 0]
NoTap   == [n |-> 0, over |-> FALSE, failed |-> FALSE]
NewLane == [pos |-> 0, again |-> FALSE, wait |-> NoReq, closed |-> FALSE,
            awaiting |-> FALSE, tailLost |-> FALSE, stopped |-> FALSE]

Reasons == {"none", "done", "truncated", "size-limit", "storage-full"}

TypeOK ==
    /\ row \in [Runs -> Row]
    /\ open \in [Runs -> SUBSET Sockets]
    /\ video \in [Runs -> [on : BOOLEAN, bytes : Nat, reserved : Nat,
                           next : 0..(MaxSeq + 1), ended : BOOLEAN,
                           reason : Reasons, last : -1..MaxSeq,
                           evicted : BOOLEAN, born : Nat]]
    /\ inode \in [Runs -> [played : BOOLEAN, seen : Nat, unseen : Nat]]
    /\ tap \in [Runs -> [n : 0..(MaxSeq + 1), over : BOOLEAN, failed : BOOLEAN]]
    /\ lane \in [Runs -> [pos : 0..(MaxSeq + 3), again : BOOLEAN,
                          wait : Requests \cup {NoReq}, closed : BOOLEAN,
                          awaiting : BOOLEAN, tailLost : BOOLEAN,
                          stopped : BOOLEAN]]
    /\ took \in [Runs -> SUBSET Seqs]
    /\ faults \in 0..MaxFaults

-----------------------------------------------------------------------------
(* Init: every run has been created, and its holder is connected. *)
Init ==
    /\ row = [r \in Runs |-> NewRow(FALSE)]
    /\ open = [r \in Runs |-> Sockets]
    /\ video = [r \in Runs |-> NoVideo]
    /\ chunks = [r \in Runs |-> <<>>]
    /\ file = [r \in Runs |-> NoFile]
    /\ inode = [r \in Runs |-> NoInode]
    /\ queue = [r \in Runs |-> <<>>]
    /\ req = [q \in Requests |-> Idle]
    /\ tap = [r \in Runs |-> NoTap]
    /\ lane = [r \in Runs |-> NewLane]
    /\ took = [r \in Runs |-> {}]
    /\ faults = 0

-----------------------------------------------------------------------------
(* The relay: ended, usage and room *)

(* videoEnded. *)
VideoEnded(v, x) ==
    \/ v.ended
    \/ x.status # "running" /\ (x.by = "relay" \/ ~ x.recent)

Live(r) == video[r].on /\ ~ video[r].evicted
Used     == SumFunction([r \in Runs |-> IF Live(r) THEN video[r].bytes ELSE 0])
Reserved == SumFunction([r \in Runs |-> IF Live(r) THEN video[r].reserved ELSE 0])

(* statfs: what is on the disk, named by a live row or not, or by nothing at
   all while a handle is open on it.  Of such a file `seen` was there for every
   room check to count; `unseen` was written since its name went, or taken for
   freed by the check that evicted it. *)
Cells(f) == IF f = NoFile THEN 0 ELSE Len(f)
OnDisk == SumFunction([r \in Runs |-> Cells(file[r]) + inode[r].seen + inode[r].unseen])

(* shortfall, as how many cells of other videos would have to go. *)
OverCapCommitted(len) == Used + len - Cap
OverCap(len)  == Used + Reserved + len - Cap
OverDisk(len) == Reserved + len - (Disk - OnDisk)

(* makeRoom's candidates, passed flows' first and then the oldest. *)
Evictable(keep, rows) ==
    {c \in Runs \ {keep} : /\ Live(c) /\ queue[c] = <<>>
                           /\ rows[c].status # "running"
                           /\ VideoEnded(video[c], rows[c])}

Before(a, b) ==
    \/ a \in Passed /\ b \notin Passed
    \/ (a \in Passed <=> b \in Passed) /\ video[a].born < video[b].born

Freed(evicted) == SumFunction([r \in Runs |-> IF r \in evicted THEN video[r].bytes ELSE 0])
Enough(evicted, len) == OverCap(len) <= Freed(evicted) /\ OverDisk(len) <= Freed(evicted)

(* The first videos in that order that are enough.  When all of them are not,
   all of them have been marked by the time makeRoom answers null. *)
ToEvict(keep, rows, len) ==
    LET all == Evictable(keep, rows)
        firsts == {e \in SUBSET all : \A a \in e, b \in all \ e : Before(a, b)}
        good == {e \in firsts : Enough(e, len)}
    IN  IF good = {} THEN all ELSE CHOOSE e \in good : \A x \in good : e \subseteq x

Evict(e) == [c \in Runs |-> IF c \in e THEN [video[c] EXCEPT !.evicted = TRUE]
                                       ELSE video[c]]
Unlinked(e) == [c \in Runs |-> IF c \in e THEN NoFile ELSE file[c]]

(* A write or a player keeps the cells of a file it has open past its name,
   the freed[c] that a room check took for gone among them. *)
WriterOn(r) == queue[r] # <<>> /\ req[Head(queue[r])].at = "writing"
Nameless(e, freed) ==
    [c \in Runs |-> IF c \in e /\ file[c] # NoFile /\ (inode[c].played \/ WriterOn(c))
                     THEN [inode[c] EXCEPT !.seen = Len(file[c]) - freed[c],
                                           !.unseen = freed[c]]
                     ELSE inode[c]]
Closed(r) == [inode EXCEPT ![r] = IF @.played THEN @ ELSE NoInode]

-----------------------------------------------------------------------------
(* The lane: what it sends next, and what an answer means to it *)

Item(r) == CASE lane[r].pos = 0            -> "open"
             [] lane[r].pos \in 1..tap[r].n -> "chunk"
             [] OTHER                      -> "end"
Seq0(r) == lane[r].pos - 1             \* the chunk, when the item is one
Queued(r) == tap[r].n - lane[r].pos    \* chunks handed over and not yet taken

HasItem(r) == lane[r].pos <= tap[r].n + (IF tap[r].over THEN 1 ELSE 0)

IsTail(r) == tap[r].failed /\ Seq0(r) = tap[r].n - 1

Next1(l) == [l EXCEPT !.pos = @ + 1, !.again = FALSE, !.wait = NoReq]
Stopped(l) == [l EXCEPT !.stopped = TRUE, !.wait = NoReq]

AfterChunk(r, code) ==
    LET l == lane[r] IN
    CASE code = "ok" -> Next1(l)
      [] code \in {"conflict", "gone", "missing", "size-limit"} ->
           [Next1(l) EXCEPT !.closed = TRUE]
      [] code = "full" -> Stopped(l)
      [] code \in {"error", "lost"} ->
           IF IsTail(r) /\ ~ l.again
             THEN [l EXCEPT !.again = TRUE, !.wait = NoReq]
             ELSE [Next1(l) EXCEPT !.awaiting = TRUE,
                                   !.tailLost = @ \/ IsTail(r)]

After(r, code) ==
    LET l == lane[r] IN
    CASE Item(r) = "chunk" -> AfterChunk(r, code)
      [] Item(r) = "open" /\ code = "ok" -> Next1(l)
      [] Item(r) = "open" /\ code = "conflict" -> [Next1(l) EXCEPT !.closed = TRUE]
      [] Item(r) = "end" /\ code \in {"ok", "missing", "conflict"} -> Next1(l)
      [] OTHER -> Stopped(l)

(* The relay answers call q of run r. *)
Hears(r, q) == lane[r].wait = q
Reply(q, r, code) ==
    /\ req' = [req EXCEPT ![q] = Idle]
    /\ lane' = IF Hears(r, q) THEN [lane EXCEPT ![r] = After(r, code)] ELSE lane
    /\ took' = IF Hears(r, q) /\ Item(r) = "chunk" /\ code = "ok"
                 THEN [took EXCEPT ![r] = @ \cup {Seq0(r)}] ELSE took

-----------------------------------------------------------------------------
(* The runner *)

(* The tap cuts a chunk and hands it over; a lane already holding all it may
   stops. *)
Cut(r) ==
    /\ ~ tap[r].over /\ tap[r].n < CutsOf[r]
    /\ tap' = [tap EXCEPT ![r].n = @ + 1]
    /\ lane' = IF Queued(r) >= LaneRoom THEN [lane EXCEPT ![r] = Stopped(@)] ELSE lane
    /\ UNCHANGED <<row, open, video, chunks, file, inode, queue, req, took, faults>>

(* The flow is over: its outcome is set on the sink, the tap cuts what it
   still holds and hands the end over, all in one turn. *)
FlowOver(r, failed, rest) ==
    /\ ~ tap[r].over
    /\ tap[r].n + rest <= CutsOf[r]
    /\ r \in Passed => ~ failed
    /\ tap' = [tap EXCEPT ![r] = [n |-> @.n + rest, over |-> TRUE, failed |-> failed]]
    /\ UNCHANGED <<row, open, video, chunks, file, inode, queue, req, lane, took, faults>>

(* A chunk the lane does not send: its video takes no more, or it cannot be
   decoded after a gap.  An end is not sent for a closed video either. *)
SkipsClosed(r) == Item(r) # "open" /\ lane[r].closed
Skips(r) ==
    \/ Item(r) # "open" /\ lane[r].closed
    \/ Item(r) = "chunk" /\ lane[r].awaiting /\ Seq0(r) \notin KeySeqs

Ready(r) == ~ lane[r].stopped /\ lane[r].wait = NoReq /\ HasItem(r)

Skip(r) ==
    /\ Ready(r) /\ Skips(r)
    /\ lane' = [lane EXCEPT ![r] = [Next1(@) EXCEPT
                  !.tailLost = lane[r].tailLost
                                 \/ (~ lane[r].closed /\ Item(r) = "chunk" /\ IsTail(r))]]
    /\ UNCHANGED <<row, open, video, chunks, file, inode, queue, req, tap, took, faults>>

(* The call of an item, and what the relay says before it has the body. *)
Call(r) ==
    CASE Item(r) = "chunk" ->
           [op |-> "chunk", run |-> r, seq |-> Seq0(r), at |-> "body", off |-> 0, put |-> 0]
      [] Item(r) = "open" -> [op |-> "open", run |-> r]
      [] Item(r) = "end"  ->
           [op |-> "end", run |-> r, last |-> tap[r].n - 1,
            reason |-> IF lane[r].tailLost THEN "truncated" ELSE "done"]

AtHeaders(r) ==
    IF ~ Exists(row[r]) THEN "missing"
    ELSE IF ~ OwnRun(row[r], TRUE) THEN "conflict"
    ELSE IF Item(r) # "chunk" THEN "body"
    ELSE IF ~ video[r].on THEN "missing"
    ELSE IF video[r].evicted THEN "gone"
    ELSE IF VideoEnded(video[r], row[r]) THEN "conflict"
    ELSE "body"

Free(q) == req[q] = Idle /\ \A r \in Runs : lane[r].wait # q
AFree == CHOOSE q \in Requests : Free(q)

Send(r) ==
    /\ Ready(r) /\ ~ Skips(r)
    /\ \E q \in Requests : Free(q)
    /\ IF AtHeaders(r) = "body"
         THEN /\ req' = [req EXCEPT ![AFree] = Call(r)]
              /\ lane' = [lane EXCEPT ![r].wait = AFree, ![r].awaiting =
                            @ /\ Item(r) # "chunk"]
         ELSE /\ lane' = [lane EXCEPT ![r] = After(r, AtHeaders(r))]
              /\ UNCHANGED req
    /\ UNCHANGED <<row, open, video, chunks, file, inode, queue, tap, took, faults>>

(* The call's deadline passes, or its connection fails. *)
GiveUp(r) ==
    /\ lane[r].wait # NoReq
    /\ lane' = [lane EXCEPT ![r] = After(r, "lost")]
    /\ Fault(r)
    /\ UNCHANGED <<row, open, video, chunks, file, inode, queue, req, tap, took>>

(* drain's cap, a refused token, or the end of the process. *)
LaneStops(r) ==
    /\ ~ lane[r].stopped
    /\ lane' = [lane EXCEPT ![r] = Stopped(@)]
    /\ Fault(r)
    /\ UNCHANGED <<row, open, video, chunks, file, inode, queue, req, tap, took>>

(* handleFinishRun: sent on the record's own queue, which is not waited for,
   once the command is done with the run's flows. *)
FinishRun(r, s) ==
    /\ tap[r].over
    /\ Exists(row[r]) /\ row[r].by \in {"none", "relay"}
    /\ row' = [row EXCEPT ![r] = Finished(@, s)]
    /\ UNCHANGED <<open, work>>

-----------------------------------------------------------------------------
(* The relay's handlers, after the body *)

(* The body never comes whole: the runner hung up. *)
BodyLost(q) ==
    /\ req[q] # Idle
    /\ req[q].op = "chunk" => req[q].at = "body"
    /\ ~ Hears(req[q].run, q)
    /\ req' = [req EXCEPT ![q] = Idle]
    /\ UNCHANGED <<row, open, video, chunks, file, inode, queue, tap, lane, took, faults>>

(* handleOpenVideo: the row and its empty file in one transaction, which the
   foreign key fails when the run has gone.  Answers the open video again. *)
OpenVideo(q) ==
    LET r == req[q].run  v == video[r] IN
    /\ req[q].op = "open"
    /\ IF v.on \/ ~ Exists(row[r])
         THEN /\ UNCHANGED <<video, file>>
              /\ Reply(q, r, IF ~ v.on THEN "error"
                             ELSE IF v.ended \/ v.evicted THEN "conflict" ELSE "ok")
         ELSE /\ video' = [video EXCEPT ![r] = [NoVideo EXCEPT !.on = TRUE,
                              !.born = 1 + Cardinality({x \in Runs : video[x].born # 0})]]
              /\ file' = [file EXCEPT ![r] = <<>>]
              /\ Reply(q, r, "ok")
    /\ UNCHANGED <<row, open, chunks, inode, queue, tap, faults>>

(* handleEndVideo: the first ending wins; not serialised with the chunks. *)
EndWith(v, reason, last) ==
    [v EXCEPT !.ended = TRUE,
              !.reason = IF @ = "none" THEN reason ELSE @,
              !.last = IF @ = -1 THEN last ELSE @]

EndVideo(q) ==
    LET r == req[q].run IN
    /\ req[q].op = "end"
    /\ IF video[r].on
         THEN /\ video' = [video EXCEPT ![r] = EndWith(@, req[q].reason, req[q].last)]
              /\ Reply(q, r, "ok")
         ELSE /\ Reply(q, r, "missing")
              /\ UNCHANGED video
    /\ UNCHANGED <<row, open, chunks, file, inode, queue, tap, faults>>

(* handleVideoChunk has its body and waits its turn (serialised). *)
ChunkBody(q) ==
    /\ req[q].op = "chunk" /\ req[q].at = "body"
    /\ req' = [req EXCEPT ![q].at = "queued"]
    /\ queue' = [queue EXCEPT ![req[q].run] = Append(@, q)]
    /\ UNCHANGED <<row, open, video, chunks, file, inode, tap, lane, took, faults>>

Turn(q, at) ==
    /\ req[q].op = "chunk" /\ req[q].at = at
    /\ Head(queue[req[q].run]) = q
Done(r) == queue' = [queue EXCEPT ![r] = Tail(@)]

(* Everything is read again at its turn; Refused says why it goes no further. *)
Refused(r, seq) ==
    IF ~ video[r].on \/ ~ Exists(row[r]) THEN "missing"
    ELSE IF video[r].evicted THEN "gone"
    ELSE IF VideoEnded(video[r], row[r]) THEN "conflict"
    ELSE IF seq < video[r].next THEN "ok"
    ELSE IF video[r].bytes + LenOf[seq] > MaxVideo THEN "size-limit"
    ELSE "none"

RefuseChunk(q) ==
    LET r == req[q].run  why == Refused(r, req[q].seq) IN
    /\ Turn(q, "queued") /\ why # "none"
    /\ video' = IF why = "size-limit"
                  THEN [video EXCEPT ![r].ended = TRUE, ![r].reason = "size-limit"]
                  ELSE video
    /\ Done(r) /\ Reply(q, r, why)
    /\ UNCHANGED <<row, open, chunks, file, inode, tap, faults>>

(* Where a chunk is written: at the committed length. *)
OffsetAppended(r) == Len(file[r])
Offset(r) == video[r].bytes

(* One transaction settles, checks, evicts and reserves; the evicted files go
   after it. *)
ReserveChunk(q) ==
    LET r == req[q].run  len == LenOf[req[q].seq]
        e == ToEvict(r, Settled, len) IN
    /\ Turn(q, "queued") /\ Refused(r, req[q].seq) = "none"
    /\ Enough(e, len)
    /\ row' = Settled
    /\ video' = [Evict(e) EXCEPT ![r].reserved = @ + len]
    /\ file' = Unlinked(e)
    /\ inode' = Nameless(e, [c \in Runs |-> video[c].bytes])
    /\ req' = [req EXCEPT ![q].at = "reserved", ![q].off = Offset(r)]
    /\ UNCHANGED <<open, chunks, queue, tap, lane, took, faults>>

(* makeRoom answers null.  What it marked on the way stays marked, since the
   transaction commits, and no file is unlinked: the sweep finds them. *)
NoRoom(q) ==
    LET r == req[q].run  len == LenOf[req[q].seq]
        e == ToEvict(r, Settled, len) IN
    /\ Turn(q, "queued") /\ Refused(r, req[q].seq) = "none"
    /\ ~ Enough(e, len)
    /\ row' = Settled
    /\ video' = [Evict(e) EXCEPT ![r].ended = TRUE, ![r].reason = "storage-full"]
    /\ Done(r) /\ Reply(q, r, "full")
    /\ UNCHANGED <<open, chunks, file, inode, tap, faults>>

Release(r, len) == [video EXCEPT ![r].reserved = IF @ > len THEN @ - len ELSE 0]

(* The file is opened to be written in place, never created. *)
OpenFile(q) ==
    LET r == req[q].run IN
    /\ Turn(q, "reserved")
    /\ IF file[r] # NoFile
         THEN /\ req' = [req EXCEPT ![q].at = "writing"]
              /\ UNCHANGED <<video, queue, lane, took>>
         ELSE /\ video' = Release(r, LenOf[req[q].seq])
              /\ Done(r) /\ Reply(q, r, "gone")
    /\ UNCHANGED <<row, open, chunks, file, inode, tap, faults>>

(* writeFully, at the committed length and not appended.  What is written after
   an unlink takes disk all the same. *)
Overwritten(f, at, x) ==
    [i \in 1..(IF Len(f) > at THEN Len(f) ELSE at + 1) |-> IF i = at + 1 THEN x ELSE f[i]]

WriteCell(q) ==
    LET r == req[q].run  at == req[q].off + req[q].put IN
    /\ Turn(q, "writing") /\ req[q].put < LenOf[req[q].seq]
    /\ IF file[r] # NoFile
         THEN /\ file' = [file EXCEPT ![r] = Overwritten(@, at, req[q].seq)]
              /\ UNCHANGED inode
         ELSE /\ inode' = IF at < inode[r].seen + inode[r].unseen THEN inode
                           ELSE [inode EXCEPT ![r].unseen = @ + 1]
              /\ UNCHANGED file
    /\ req' = [req EXCEPT ![q].put = @ + 1]
    /\ UNCHANGED <<row, open, video, chunks, queue, tap, lane, took, faults>>

(* The disk refuses the rest; the part written stays past the committed end. *)
WriteFails(q) ==
    LET r == req[q].run IN
    /\ Turn(q, "writing") /\ req[q].put < LenOf[req[q].seq]
    /\ video' = Release(r, LenOf[req[q].seq])
    /\ Done(r) /\ Reply(q, r, "error")
    /\ inode' = Closed(r)
    /\ Fault(r)
    /\ UNCHANGED <<row, open, chunks, file, tap>>

(* Committed, unless the video went while its bytes were written. *)
CommitChunk(q) ==
    LET r == req[q].run  seq == req[q].seq  len == LenOf[seq] IN
    /\ Turn(q, "writing") /\ req[q].put = len
    /\ IF Live(r)
         THEN /\ video' = [Release(r, len) EXCEPT ![r].bytes = req[q].off + len,
                                                  ![r].next = seq + 1]
              /\ chunks' = [chunks EXCEPT ![r] = Append(@, [seq |-> seq, off |-> req[q].off])]
         ELSE /\ video' = Release(r, len)
              /\ UNCHANGED chunks
    /\ Done(r) /\ Reply(q, r, "ok")
    /\ inode' = Closed(r)
    /\ UNCHANGED <<row, open, file, tap, faults>>

-----------------------------------------------------------------------------
(* A player: handleVideoData opens the file of a video that has bytes, and
   reads it for as long as its client takes. *)
PlayVideo(r) ==
    /\ r \in Watched /\ ~ inode[r].played
    /\ Exists(row[r]) /\ Live(r) /\ video[r].bytes > 0 /\ file[r] # NoFile
    /\ row' = Settled
    /\ inode' = [inode EXCEPT ![r].played = TRUE]
    /\ UNCHANGED <<open, video, chunks, file, queue, req, tap, lane, took, faults>>

PlayerDone(r) ==
    /\ inode[r].played
    /\ inode' = [inode EXCEPT ![r] = IF WriterOn(r) THEN [@ EXCEPT !.played = FALSE]
                                                  ELSE NoInode]
    /\ UNCHANGED <<row, open, video, chunks, file, queue, req, tap, lane, took, faults>>

-----------------------------------------------------------------------------
(* The relay's own steps *)

(* A read settles first. *)
ReadSettles ==
    /\ Settled # row
    /\ row' = Settled
    /\ UNCHANGED <<open, work>>

(* abandonRunsOf: the command disconnects once its lane has drained; a socket
   that goes earlier is a fault. *)
Drained(r) == lane[r].stopped \/ (tap[r].over /\ lane[r].pos = tap[r].n + 2)

SocketCloses(r, s) ==
    LET left == open[r] \ {s} IN
    /\ s \in open[r]
    /\ IF Drained(r) THEN UNCHANGED faults ELSE Fault(r)
    /\ open' = [open EXCEPT ![r] = left]
    /\ row' = IF row[r].status = "running" /\ left = {}
                THEN [row EXCEPT ![r] = Abandoned(@)] ELSE row
    /\ UNCHANGED <<video, chunks, file, inode, queue, req, tap, lane, took>>

(* The run goes, with its build or past its expiry; its video's rows go with
   it (ON DELETE CASCADE), then the file of a video that is still kept. *)
DeleteRun(r) ==
    /\ Exists(row[r])
    /\ row' = [row EXCEPT ![r] = Gone]
    /\ video' = [video EXCEPT ![r] = [NoVideo EXCEPT !.born = video[r].born]]
    /\ chunks' = [chunks EXCEPT ![r] = <<>>]
    /\ file' = IF Live(r) THEN Unlinked({r}) ELSE file
    /\ inode' = IF Live(r) THEN Nameless({r}, [c \in Runs |-> 0]) ELSE inode
    /\ took' = [took EXCEPT ![r] = {}]
    /\ Fault(r)
    /\ UNCHANGED <<open, queue, req, tap, lane>>

(* purgeRunVideos: passed videos past the retention go, then the files no
   live row names, and a live row without a file is marked. *)
Purged(old, rows) ==
    LET gone == old \cap {r \in Passed : /\ Live(r) /\ queue[r] = <<>>
                                         /\ rows[r].status # "running"
                                         /\ VideoEnded(video[r], rows[r])}
        dead == {r \in Runs : r \in gone \/ ~ Live(r)}
    IN  /\ video' = Evict(gone \cup {r \in Runs : Live(r) /\ file[r] = NoFile})
        /\ file' = Unlinked(dead)
        /\ inode' = Nameless(dead, [c \in Runs |-> 0])

PurgeVideos(old) ==
    /\ row' = Settled
    /\ Purged(old, Settled)
    /\ UNCHANGED <<open, chunks, queue, req, tap, lane, took, faults>>

(* The relay dies and starts again: calls, queues and sockets go, what was
   written of a chunk stays in its file, and releaseStaleVideoReservations
   runs before anything is served.  A lane still waiting sees its connection
   fail (GiveUp). *)
Restart ==
    /\ \E r \in Runs : open[r] # {} \/ queue[r] # <<>>
    /\ open' = [r \in Runs |-> {}]
    /\ req' = [q \in Requests |-> Idle]
    /\ queue' = [r \in Runs |-> <<>>]
    /\ video' = [r \in Runs |-> [video[r] EXCEPT !.reserved = 0]]
    /\ inode' = [r \in Runs |-> NoInode]
    /\ \E r \in Runs : Fault(r)
    /\ UNCHANGED <<row, chunks, file, tap, lane, took>>

-----------------------------------------------------------------------------
Handle(q) ==
    \/ OpenVideo(q) \/ EndVideo(q) \/ ChunkBody(q) \/ RefuseChunk(q)
    \/ ReserveChunk(q) \/ NoRoom(q) \/ OpenFile(q) \/ WriteCell(q)
    \/ CommitChunk(q)

Runner(r) ==
    \/ Cut(r) \/ Skip(r) \/ Send(r) \/ GiveUp(r) \/ LaneStops(r)
    \/ \E failed \in BOOLEAN, rest \in 0..1 : FlowOver(r, failed, rest)
    \/ \E s \in Outcomes : FinishRun(r, s)

Next ==
    \/ \E q \in Requests : Handle(q) \/ BodyLost(q) \/ WriteFails(q)
    \/ \E r \in Runs :
         \/ Runner(r) \/ DeleteRun(r) \/ PlayVideo(r) \/ PlayerDone(r)
         \/ open[r] = {} /\ GoesQuiet(r) /\ UNCHANGED work
         \/ GraceOver(r) /\ UNCHANGED work
         \/ \E s \in Sockets : SocketCloses(r, s)
    \/ ReadSettles \/ Restart
    \/ \E old \in SUBSET Passed : PurgeVideos(old)

Spec == Init /\ [][Next]_vars

-----------------------------------------------------------------------------
(* Properties *)

(* Two writers never pass the cap together (runVideos.ts:261): what is committed
   and reserved stays under it.  What is on the disk and what is still to be
   written stays above the floor, but for the cells no room check can have
   counted: those written to a file whose run was deleted under the write, and
   those of an evicted video that a player still keeps. *)
Unwritten(r) ==
    LET q == Head(queue[r]) IN
    IF queue[r] # <<>> /\ req[q].at \in {"reserved", "writing"} /\ file[r] # NoFile
      THEN LenOf[req[q].seq] - req[q].put ELSE 0

RoomHolds ==
    /\ Used + Reserved <= Cap
    /\ OnDisk + SumFunction([r \in Runs |-> Unwritten(r)])
         <= Disk + SumFunction([r \in Runs |-> inode[r].unseen])

(* A reservation lives as long as the write that holds it (runVideos.ts:156):
   none is left behind by a write that failed, was deleted under, or died with
   the relay, and none is released twice. *)
ReservedIsInFlight ==
    \A r \in Runs :
        LET q == Head(queue[r])
            held == queue[r] # <<>> /\ req[q].at \in {"reserved", "writing"}
        IN  video[r].reserved = IF held /\ video[r].on THEN LenOf[req[q].seq] ELSE 0

VideosInv == TypeOK /\ RoomHolds /\ ReservedIsInFlight

(* The index and the file agree (runVideos.ts:279): the committed chunks lie
   end to end from the start of the file, in the order of their numbers, and
   each holds its own bytes alone, whatever was torn, retried or late. *)
End(c, i) == c[i].off + LenOf[c[i].seq]
LaidOut(c, f) ==
    \A i \in 1..Len(c) :
        /\ c[i].off = IF i = 1 THEN 0 ELSE End(c, i - 1)
        /\ i > 1 => c[i - 1].seq < c[i].seq
        /\ \A b \in (c[i].off + 1)..End(c, i) : f[b] = c[i].seq

BytesAreWhole ==
    \A r \in Runs : Live(r) =>
        LET c == chunks[r] IN
        /\ LaidOut(c, file[r])
        /\ video[r].bytes = IF c = <<>> THEN 0 ELSE End(c, Len(c))
        /\ video[r].next = IF c = <<>> THEN 0 ELSE c[Len(c)].seq + 1

(* What a player meets is playable and what the lane was told is kept: the
   first chunk of the index and each one after a gap begin at a keyframe
   (videoLane.ts:13), and a chunk answered 200 is in the index while its
   video is kept, a duplicate included (runVideos.ts:254). *)
Playable(c) ==
    \A i \in 1..Len(c) :
        \/ c[i].seq = IF i = 1 THEN 0 ELSE c[i - 1].seq + 1
        \/ c[i].seq \in KeySeqs

PlayableAndKept ==
    \A r \in Runs : Live(r) =>
        /\ Playable(chunks[r])
        /\ took[r] \subseteq {chunks[r][i].seq : i \in 1..Len(chunks[r])}
=============================================================================
