----------------------------- MODULE ImportJobs -----------------------------
(***************************************************************************)
(* import_job_service: a client uploads a workbook, the request registers  *)
(* a job and the job's task replaces the whole table of its type in one    *)
(* transaction.  At most one import of a type may be in progress: the      *)
(* check and the registration are made under an asyncio lock per type.     *)
(* The upload is removed when the task ends, and at start-up for the jobs  *)
(* that the last process left unfinished.                                  *)
(***************************************************************************)
EXTENDS Naturals, Sequences, FiniteSets

CONSTANTS
    Types,      \* import types, one table each
    Jobs,       \* identities of the uploads
    MaxStops    \* bound: how often the server stops

ASSUME MaxStopsAssumption == MaxStops \in Nat

NoJob == "none"

ASSUME JobsAssumption == NoJob \notin Jobs

VARIABLES
    row,       \* excel_import_job: job -> [type, status, expired]
    file,      \* uploads in the imports directory
    table,     \* type -> the job whose content the table holds, or none
    finished,  \* type -> jobs in the order of finished_at
    request,   \* the request that uploads a job: where it stands, and for which type
    lock,      \* _type_locks: type -> the job whose request holds the lock, or none
    task,      \* where the asyncio task of a job stands
    cancelled, \* history: jobs whose task was cancelled while it waited for its processor
    server,    \* phase of the server process
    unlink,    \* uploads that start-up has still to unlink
    stops

vars == <<row, file, table, finished, request, lock, task, cancelled, server, unlink, stops>>

Interrupted == {"PENDING", "RUNNING"}
Terminal == {"SUCCEEDED", "FAILED"}

With(S) == {j \in DOMAIN row : row[j].status \in S}
Active(ty) == {j \in With(Interrupted) : row[j].type = ty}

\* A task is lost when an exception ended it, or came before it, and its row stays.
Lost(j) == task[j] = "lost"
Alive(j) == task[j] \notin {"none", "lost"}
NoRequest == [pc |-> "none"]

Init ==
    /\ row = << >> /\ file = {}
    /\ table = [ty \in Types |-> NoJob]
    /\ finished = [ty \in Types |-> << >>]
    /\ request = [j \in Jobs |-> [pc |-> "new"]]
    /\ lock = [ty \in Types |-> NoJob]
    /\ task = [j \in Jobs |-> "none"] /\ cancelled = {}
    /\ server = "up" /\ unlink = {} /\ stops = 0

-----------------------------------------------------------------------------
(* The request *)

\* save_upload: an upload that is too large is removed again and leaves nothing.
save_upload(j, ty) ==
    /\ server = "up" /\ request[j].pc = "new"
    /\ file' = file \cup {j}
    /\ request' = [request EXCEPT ![j] = [pc |-> "saved", type |-> ty]]
    /\ UNCHANGED <<row, table, finished, lock, task, cancelled, server, unlink, stops>>

\* The handler's except clause removes the upload of a request that fails.
Refuse(j) ==
    /\ file' = file \ {j}
    /\ request' = [request EXCEPT ![j] = NoRequest]
    /\ UNCHANGED <<row, table, finished, task, cancelled, server, unlink, stops>>

\* Faulty variant: nobody has to wait for the lock.
NeverLocked(ty) == TRUE

Free(ty) == lock[ty] = NoJob

\* enqueue_import under the lock, up to its query for an import in progress.
CheckActive(j) ==
    LET ty == request[j].type
    IN  /\ request[j].pc = "saved"
        /\ Free(ty)
        /\ \/ Active(ty) # {} /\ Refuse(j) /\ UNCHANGED lock
           \/ /\ Active(ty) = {}
              /\ lock' = [lock EXCEPT ![ty] = j]
              /\ request' = [request EXCEPT ![j].pc = "checked"]
              /\ UNCHANGED <<row, file, table, finished, task, cancelled, server, unlink, stops>>

Registered(j) ==
    [i \in DOMAIN row \cup {j} |->
       IF i = j THEN [type |-> request[j].type, status |-> "PENDING", expired |-> FALSE] ELSE row[i]]

\* The row is committed, the lock released and the task created.
RegisterJob(j) ==
    /\ request[j].pc = "checked"
    /\ row' = Registered(j)
    /\ lock' = [lock EXCEPT ![request[j].type] = NoJob]
    /\ task' = [task EXCEPT ![j] = "created"]
    /\ request' = [request EXCEPT ![j] = NoRequest]
    /\ UNCHANGED <<file, table, finished, cancelled, server, unlink, stops>>

\* The commit fails, or the refresh after it, when the row is already there.
RegisterFails(j) ==
    /\ request[j].pc = "checked"
    /\ \/ UNCHANGED <<row, task>>
       \/ row' = Registered(j) /\ task' = [task EXCEPT ![j] = "lost"]
    /\ lock' = [lock EXCEPT ![request[j].type] = NoJob]
    /\ file' = file \ {j}
    /\ request' = [request EXCEPT ![j] = NoRequest]
    /\ UNCHANGED <<table, finished, cancelled, server, unlink, stops>>

-----------------------------------------------------------------------------
(* The task *)

StartJob(j) ==
    /\ task[j] = "created"
    /\ row' = [row EXCEPT ![j].status = "RUNNING"]
    /\ task' = [task EXCEPT ![j] = "processing"]
    /\ UNCHANGED <<file, table, finished, request, lock, cancelled, server, unlink, stops>>

\* Parsing in a thread, then DELETE and INSERT of the whole table in one transaction.
ReplaceTable(j) ==
    /\ task[j] = "processing" /\ j \in file
    /\ table' = [table EXCEPT ![row[j].type] = j]
    /\ task' = [task EXCEPT ![j] = "returned"]
    /\ UNCHANGED <<row, file, finished, request, lock, cancelled, server, unlink, stops>>

ProcessorFails(j) ==
    /\ task[j] = "processing"
    /\ task' = [task EXCEPT ![j] = "raised"]
    /\ UNCHANGED <<row, file, table, finished, request, lock, cancelled, server, unlink, stops>>

\* Faulty variant: the status is set without looking at the error.
OutcomeUnseen(j) == "SUCCEEDED"

Outcome(j) == IF task[j] = "returned" THEN "SUCCEEDED" ELSE "FAILED"

\* The finally block: without an error code the job has SUCCEEDED.
FinishJob(j) ==
    /\ task[j] \in {"returned", "raised"}
    /\ row' = [row EXCEPT ![j].status = Outcome(j)]
    /\ finished' = [finished EXCEPT ![row[j].type] = Append(@, j)]
    /\ task' = [task EXCEPT ![j] = "removing"]
    /\ UNCHANGED <<file, table, request, lock, cancelled, server, unlink, stops>>

RemoveUpload(j) ==
    /\ task[j] = "removing"
    /\ file' = file \ {j}
    /\ task' = [task EXCEPT ![j] = "none"]
    /\ UNCHANGED <<row, table, finished, request, lock, cancelled, server, unlink, stops>>

\* The database is gone when the task wants to write the row: the exception ends it.
TransactionFails(j) ==
    /\ task[j] \in {"created", "returned", "raised"}
    /\ task' = [task EXCEPT ![j] = "lost"]
    /\ UNCHANGED <<row, file, table, finished, request, lock, cancelled, server, unlink, stops>>

-----------------------------------------------------------------------------
(* Stopping and starting *)

Ended == [j \in Jobs |-> IF request[j].pc = "new" THEN request[j] ELSE NoRequest]

Crash ==
    /\ server # "down" /\ stops < MaxStops
    /\ stops' = stops + 1
    /\ server' = "down"
    /\ task' = [j \in Jobs |-> "none"]
    /\ request' = Ended
    /\ lock' = [ty \in Types |-> NoJob]
    /\ unlink' = {}
    /\ UNCHANGED <<row, file, table, finished, cancelled>>

\* The requests have been answered; asyncio.run cancels the tasks that still run.  One
\* that waits for its processor goes through the finally block with no error code, and
\* its table was replaced or not; one in another transaction just ends.
Stop ==
    /\ stops < MaxStops
    /\ server = "up" /\ request = Ended
    /\ stops' = stops + 1
    /\ server' = "stopping"
    /\ task' = [j \in Jobs |-> IF task[j] = "processing" THEN "returned" ELSE "none"]
    /\ cancelled' = cancelled \cup {j \in Jobs : task[j] = "processing"}
    /\ UNCHANGED <<row, file, table, finished, request, lock, unlink>>

Exit ==
    /\ server = "stopping"
    /\ \A j \in Jobs : ~Alive(j)
    /\ server' = "down"
    /\ UNCHANGED <<row, file, table, finished, request, lock, task, cancelled, unlink, stops>>

\* Faulty variant: only running jobs are marked.
StaleRunning == With({"RUNNING"})

Stale == With(Interrupted)

StaleOf(ty) == {j \in Stale : row[j].type = ty}

\* The orders in which the jobs of S may be marked.
Orders(S) == {order \in [1..Cardinality(S) -> S] : \A j \in S : \E n \in DOMAIN order : order[n] = j}

mark_stale_jobs_failed ==
    /\ server = "down"
    /\ row' = [j \in DOMAIN row |-> IF j \in Stale THEN [row[j] EXCEPT !.status = "FAILED"]
                                                   ELSE row[j]]
    /\ \E order \in [Types -> UNION {Orders(StaleOf(ty)) : ty \in Types}] :
         /\ \A ty \in Types : order[ty] \in Orders(StaleOf(ty))
         /\ finished' = [ty \in Types |-> finished[ty] \o order[ty]]
    /\ unlink' = Stale
    /\ server' = "marking"
    /\ UNCHANGED <<file, table, request, lock, task, cancelled, stops>>

UnlinkUpload(j) ==
    /\ j \in unlink
    /\ file' = file \ {j}
    /\ unlink' = unlink \ {j}
    /\ UNCHANGED <<row, table, finished, request, lock, task, cancelled, server, stops>>

\* cleanup_finished_jobs, at start-up only: rows older than 30 days; then requests come.
cleanup_finished_jobs ==
    /\ server = "marking" /\ unlink = {}
    /\ row' = [j \in {i \in DOMAIN row : ~row[i].expired} |-> row[j]]
    /\ server' = "up"
    /\ UNCHANGED <<file, table, finished, request, lock, task, cancelled, unlink, stops>>

\* Thirty days pass: far longer than any task needs for its last step.
Expire(j) ==
    /\ j \in With(Terminal) /\ ~row[j].expired /\ ~Alive(j)
    /\ row' = [row EXCEPT ![j].expired = TRUE]
    /\ UNCHANGED <<file, table, finished, request, lock, task, cancelled, server, unlink, stops>>

RequestStep(j) == CheckActive(j) \/ RegisterJob(j)

JobStep(j) ==
    StartJob(j) \/ ReplaceTable(j) \/ ProcessorFails(j) \/ FinishJob(j) \/ RemoveUpload(j)

ServerStep ==
    \/ Exit \/ mark_stale_jobs_failed \/ cleanup_finished_jobs
    \/ \E j \in Jobs : UnlinkUpload(j)

Next ==
    \/ \E j \in Jobs :
        \/ \E ty \in Types : save_upload(j, ty)
        \/ RequestStep(j) \/ RegisterFails(j)
        \/ JobStep(j) \/ TransactionFails(j) \/ Expire(j)
    \/ ServerStep \/ Crash \/ Stop

Spec == Init /\ [][Next]_vars

\* The event loop runs every request and task, and a stopped container is restarted.
FairSpec ==
    /\ Spec
    /\ \A j \in Jobs : WF_vars(RequestStep(j)) /\ WF_vars(JobStep(j))
    /\ WF_vars(ServerStep)

-----------------------------------------------------------------------------
(* Properties *)

\* At most one import of a type is in progress: two replacements of one table never
\* overlap, however the requests interleave and wherever the server stops.
OneActivePerType == \A ty \in Types : Cardinality(Active(ty)) <= 1

\* When the last import of a type to end is reported as successful and was not cancelled,
\* and none is in progress, the table holds what that import brought.
TableIsLastImport ==
    \A ty \in Types :
        LET last == finished[ty][Len(finished[ty])]
        IN  (/\ Active(ty) = {} /\ finished[ty] # << >>
             /\ last \in With({"SUCCEEDED"}) \ cancelled) => table[ty] = last

\* Every registered import ends, also when the server crashes in the middle of it, and
\* from then on the type is open for the next one, unless a transaction failed.
EveryImportEnds ==
    \A j \in Jobs : j \in With(Interrupted) ~> j \notin With(Interrupted) \/ Lost(j)
=============================================================================
