------------------------------ MODULE RunRows ------------------------------
(* The rows of flow_runs (packages/relay/src/api/runs.ts): what one run of
   the flow runner is recorded as, and the three ways it ends.  The client
   finishes it; the relay closes it when the last socket of its holder goes
   (abandonRunsOf) or, for a holder it never saw go, once the run has been
   quiet for ORPHAN_GRACE_SECONDS (settleOrphanedRuns); or the row is deleted
   under everybody, with its build or on its own expiry.

   This module has the state and the operators on it.  FlowRuns and RunVideos
   extend it with the handlers.  Two clocks are abstracted to the only
   question the code asks of them: quiet says last_activity_at is further
   back than the orphan grace, recent says finished_at is within
   VIDEO_GRACE_SECONDS.                                                     *)
EXTENDS Naturals, FiniteSets, Sequences

CONSTANTS
    Runs,      \* the runs that are ever created
    Sockets,   \* sockets that speak for a run's holder, under any of its keys
    Outcomes   \* what a client may finish a run as

Final == {"passed", "failed", "aborted"}

ASSUME OutcomesAssumption == Outcomes \subseteq Final

VARIABLES
    row,       \* the row of each run
    open       \* the open sockets of each run's holder

Row == [status : {"none", "running", "gone"} \cup Final,
        by     : {"none", "client", "relay"},
        quiet  : BOOLEAN,
        recent : BOOLEAN,
        build  : BOOLEAN]     \* it names a build; else it has an expiry

NoRow  == [status |-> "none", by |-> "none", quiet |-> FALSE, recent |-> FALSE,
           build |-> FALSE]
Gone   == [NoRow EXCEPT !.status = "gone"]
NewRow(b) == [NoRow EXCEPT !.status = "running", !.build = b]

Exists(x) == x.status \notin {"none", "gone"}

(* ABANDON: closed by the relay as holder-lost. *)
Abandoned(x) == [x EXCEPT !.status = "aborted", !.by = "relay", !.recent = TRUE]

(* A write that sets last_activity_at. *)
Touched(x) == [x EXCEPT !.quiet = FALSE]

(* The row after the client's finish, which also sets both times. *)
Finished(x, s) ==
    [x EXCEPT !.status = s, !.by = "client", !.quiet = FALSE, !.recent = TRUE]

(* settleOrphanedRuns: every running run quiet past the grace whose holder
   has no open socket. *)
OrphanInTime(r, sockets) ==
    row[r].status = "running" /\ ~ row[r].quiet /\ sockets[r] = {}
OrphanIn(r, sockets) ==
    row[r].status = "running" /\ row[r].quiet /\ sockets[r] = {}
SettledWith(sockets) ==
    [r \in Runs |-> IF OrphanIn(r, sockets) THEN Abandoned(row[r]) ELSE row[r]]
Settled == SettledWith(open)

(* ownRun lets a request write: the row is there and its client has not
   finished it, or has within the grace that only video asks for.  A run the
   relay closed can still be written. *)
OwnRun(x, grace) ==
    /\ Exists(x)
    /\ ~ (x.by = "client" /\ ~ (grace /\ x.recent))

(* The runs with a row that the daily purge may find expired. *)
Expirable == {r \in Runs : Exists(row[r]) /\ ~ row[r].build}

(***************************************************************************)
(* The steps of the environment that touch these rows alone                *)
(***************************************************************************)
RowsInit ==
    /\ row = [r \in Runs |-> NoRow]
    /\ open = [r \in Runs |-> {}]

(* A minute without a report. *)
GoesQuiet(r) ==
    /\ row[r].status = "running" /\ ~ row[r].quiet
    /\ row' = [row EXCEPT ![r].quiet = TRUE]
    /\ UNCHANGED open

(* Two minutes since the run ended. *)
GraceOver(r) ==
    /\ row[r].recent
    /\ row' = [row EXCEPT ![r].recent = FALSE]
    /\ UNCHANGED open

(* The runner connects; a parallel run has a socket per worker. *)
Connect(r, s) ==
    /\ s \notin open[r]
    /\ open' = [open EXCEPT ![r] = @ \cup {s}]
    /\ UNCHANGED row
=============================================================================
