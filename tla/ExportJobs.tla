----------------------------- MODULE ExportJobs -----------------------------
(***************************************************************************)
(* excel_export_job_service: an export request registers a job row and     *)
(* starts an asyncio task in the server process; the task renders a file   *)
(* that stays for download until the daily cleanup deletes row and file.   *)
(* Rows are committed one transaction at a time and files are written and  *)
(* removed outside of any transaction, so a server that stops between two  *)
(* of these steps leaves them to the start-up of the next one.             *)
(***************************************************************************)
EXTENDS Naturals, FiniteSets

CONSTANTS
    Jobs,       \* identities of the exports requested
    MaxStops    \* bound: how often the server stops

VARIABLES
    row,      \* excel_export_job: job -> [status, path, expired]
    asked,    \* jobs ever registered
    file,     \* complete .xlsx files in the exports directory
    tmp,      \* .tmp files there
    task,     \* where the asyncio task of a job stands
    cancelled,  \* history: jobs whose task was cancelled while it waited for its processor
    server,   \* phase of the server process
    unlink,   \* files whose rows are dealt with and that are still to be unlinked
    stops     \* number of stops so far

vars == <<row, asked, file, tmp, task, cancelled, server, unlink, stops>>

Interrupted == {"PENDING", "RUNNING"}
Terminal == {"SUCCEEDED", "FAILED"}

\* A task is lost when an exception ended it before it could record the end of its job.
Lost(j) == task[j] = "lost"
Alive(j) == task[j] \notin {"none", "lost"}

\* Jobs with a row whose status is in S.
With(S) == {j \in DOMAIN row : row[j].status \in S}

Init ==
    /\ row = << >> /\ asked = {}
    /\ file = {} /\ tmp = {}
    /\ task = [j \in Jobs |-> "none"] /\ cancelled = {}
    /\ server = "up" /\ unlink = {} /\ stops = 0

-----------------------------------------------------------------------------
(* The task of a job.  It runs as long as the process does. *)

\* POST .../export-results: the row is committed, then the task is created.
enqueue_export(j) ==
    /\ server = "up" /\ j \notin asked
    /\ asked' = asked \cup {j}
    /\ row' = [i \in DOMAIN row \cup {j} |->
                 IF i = j THEN [status |-> "PENDING", path |-> FALSE, expired |-> FALSE] ELSE row[i]]
    /\ task' = [task EXCEPT ![j] = "created"]
    /\ UNCHANGED <<file, tmp, cancelled, server, unlink, stops>>

\* First transaction of _run_job: RUNNING, and the path of the file to come.
StartJob(j) ==
    /\ task[j] = "created"
    /\ row' = [row EXCEPT ![j].status = "RUNNING", ![j].path = TRUE]
    /\ task' = [task EXCEPT ![j] = "rendering"]
    /\ UNCHANGED <<asked, file, tmp, cancelled, server, unlink, stops>>

\* write_export_file: the content goes to a .tmp file that is renamed when complete.
WriteTmp(j) ==
    /\ task[j] = "rendering"
    /\ task' = [task EXCEPT ![j] = "writing"]
    /\ tmp' = tmp \cup {j}
    /\ UNCHANGED <<row, asked, file, cancelled, server, unlink, stops>>

Rename(j) ==
    /\ task[j] = "writing"
    /\ tmp' = tmp \ {j}
    /\ file' = file \cup {j}
    /\ task' = [task EXCEPT ![j] = "returned"]
    /\ UNCHANGED <<row, asked, cancelled, server, unlink, stops>>

\* The processor raises: querying, rendering, writing (the .tmp file stays).
ProcessorFails(j) ==
    /\ task[j] \in {"rendering", "writing"}
    /\ task' = [task EXCEPT ![j] = "raised"]
    /\ UNCHANGED <<row, asked, file, tmp, cancelled, server, unlink, stops>>

\* Faulty variant: the status is set without looking at what the processor did.
OutcomeUnseen(j) == "SUCCEEDED"

Outcome(j) == IF task[j] = "returned" THEN "SUCCEEDED" ELSE "FAILED"

\* The finally block: without an error code the job has SUCCEEDED.
FinishJob(j) ==
    /\ task[j] \in {"returned", "raised"}
    /\ row' = [row EXCEPT ![j].status = Outcome(j)]
    /\ task' = [task EXCEPT ![j] = IF task[j] = "returned" THEN "none" ELSE "removing"]
    /\ UNCHANGED <<asked, file, tmp, cancelled, server, unlink, stops>>

RemoveFailed(j) ==
    /\ task[j] = "removing"
    /\ file' = file \ {j}
    /\ task' = [task EXCEPT ![j] = "none"]
    /\ UNCHANGED <<row, asked, tmp, cancelled, server, unlink, stops>>

\* The database is gone when the request reads the row back or when the task wants to
\* write it: the exception ends the request before there is a task, or the task.
TransactionFails(j) ==
    /\ task[j] \in {"created", "returned", "raised"}
    /\ task' = [task EXCEPT ![j] = "lost"]
    /\ UNCHANGED <<row, asked, file, tmp, cancelled, server, unlink, stops>>

-----------------------------------------------------------------------------
(* Stopping and starting *)

\* The process dies: every task ends where it stands.
Crash ==
    /\ server # "down" /\ stops < MaxStops
    /\ stops' = stops + 1
    /\ server' = "down"
    /\ task' = [j \in Jobs |-> "none"]
    /\ unlink' = {}
    /\ UNCHANGED <<row, asked, file, tmp, cancelled>>

\* The task awaits the thread that renders and writes.
Waiting(j) == task[j] \in {"rendering", "writing"}

\* The lifespan has ended and asyncio.run cancels what still runs.  A task waiting for
\* its processor goes through the finally block with no error code set; a task that
\* has not started, or is in its last transaction, just ends.  The thread that
\* writes the file is not interrupted (ThreadEnds).
Stop ==
    /\ stops < MaxStops
    /\ server = "up" /\ unlink = {}
    /\ stops' = stops + 1
    /\ server' = "stopping"
    /\ task' = [j \in Jobs |-> IF Waiting(j) THEN "returned" ELSE "none"]
    /\ cancelled' = cancelled \cup {j \in Jobs : Waiting(j)}
    /\ UNCHANGED <<row, asked, file, tmp, unlink>>

ThreadEnds(j) ==
    /\ server = "stopping" /\ j \in tmp
    /\ tmp' = tmp \ {j} /\ file' = file \cup {j}
    /\ UNCHANGED <<row, asked, task, cancelled, server, unlink, stops>>

Exit ==
    /\ server = "stopping"
    /\ \A j \in Jobs : ~Alive(j)
    /\ server' = "down"
    /\ UNCHANGED <<row, asked, file, tmp, task, cancelled, unlink, stops>>

\* Faulty variants: only waiting jobs are looked for; every job is, whatever its status.
StalePending == {j \in With({"PENDING"}) : row[j].path}
StaleEverything == {j \in DOMAIN row : row[j].path}

\* The paths of interrupted jobs, those that have one.
StalePaths == {j \in With(Interrupted) : row[j].path}

\* mark_stale_exports_failed: the rows are updated only if a path was found.
mark_stale_exports_failed ==
    /\ server = "down"
    /\ row' = IF StalePaths = {} THEN row
              ELSE [j \in DOMAIN row |->
                      IF row[j].status \in Interrupted THEN [row[j] EXCEPT !.status = "FAILED"]
                                                       ELSE row[j]]
    /\ unlink' = StalePaths
    /\ server' = "marking"
    /\ UNCHANGED <<asked, file, tmp, task, cancelled, stops>>

\* Finished more than EXPORT_RETENTION_DAYS ago.
Expired == {j \in With(Terminal) : row[j].expired}

\* cleanup_finished_exports, once at start-up after the marking and then daily: the
\* rows go first, their files next, one after the other.
DeleteRows ==
    /\ server \in {"marking", "up"} /\ unlink = {}
    /\ row' = [j \in DOMAIN row \ Expired |-> row[j]]
    /\ unlink' = {j \in Expired : row[j].path}
    /\ server' = IF server = "marking" THEN "cleaning" ELSE server
    /\ UNCHANGED <<asked, file, tmp, task, cancelled, stops>>

UnlinkFile(j) ==
    /\ j \in unlink
    /\ file' = file \ {j}
    /\ unlink' = unlink \ {j}
    /\ UNCHANGED <<row, asked, tmp, task, cancelled, server, stops>>

\* _sweep_orphan_tmp: .tmp files of which no task remembers anything (24 hours old).
Orphans == {j \in tmp : ~Alive(j)}

SweepTmp ==
    /\ server = "up" /\ unlink = {}
    /\ tmp' = tmp \ Orphans
    /\ UNCHANGED <<row, asked, file, task, cancelled, server, unlink, stops>>

\* Start-up ends when the first cleanup has unlinked its files and swept.
Started ==
    /\ server = "cleaning" /\ unlink = {}
    /\ server' = "up"
    /\ tmp' = tmp \ Orphans
    /\ UNCHANGED <<row, asked, file, task, cancelled, unlink, stops>>

\* Three days pass: far longer than any task needs for its last step.
Expire(j) ==
    /\ j \in With(Terminal) /\ ~row[j].expired /\ ~Alive(j)
    /\ row' = [row EXCEPT ![j].expired = TRUE]
    /\ UNCHANGED <<asked, file, tmp, task, cancelled, server, unlink, stops>>

JobStep(j) ==
    \/ StartJob(j) \/ WriteTmp(j) \/ Rename(j) \/ ProcessorFails(j)
    \/ FinishJob(j) \/ RemoveFailed(j)

ServerStep ==
    \/ Exit \/ mark_stale_exports_failed \/ DeleteRows \/ Started
    \/ \E j \in Jobs : UnlinkFile(j) \/ ThreadEnds(j)

Next ==
    \/ \E j \in Jobs : enqueue_export(j) \/ JobStep(j) \/ TransactionFails(j) \/ Expire(j)
    \/ ServerStep \/ SweepTmp \/ Crash \/ Stop

Spec == Init /\ [][Next]_vars

\* The event loop runs every task, a stopped container is restarted, and the cleanup
\* worker comes round; nothing obliges a client to ask or the server to stop.
FairSpec ==
    /\ Spec
    /\ \A j \in Jobs : WF_vars(JobStep(j))
    /\ WF_vars(ServerStep) /\ WF_vars(SweepTmp)

-----------------------------------------------------------------------------
(* Properties *)

\* While the server is up, no job of an earlier process is left PENDING or RUNNING:
\* start-up has marked all of them failed.
NoneLeftBehind == server = "up" => \A j \in With(Interrupted) : Alive(j) \/ Lost(j)

\* Crashes, failing processors, failing transactions and the daily cleanup never part a
\* job that SUCCEEDED from its file; only a cancellation does.
OnlyCancelledLacksFile == \A j \in With({"SUCCEEDED"}) \ cancelled : j \in file

\* An export that was started is over some day, also across crashes, unless the very
\* transaction that would record its end fails.
StartedExportEnds ==
    \A j \in Jobs : j \in With({"RUNNING"}) ~> j \notin With({"RUNNING"}) \/ Lost(j)

=============================================================================
