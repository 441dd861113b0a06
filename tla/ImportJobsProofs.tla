-------------------------- MODULE ImportJobsProofs --------------------------
(***************************************************************************)
(* Proofs about ImportJobs, for any number of types, uploads and stops of  *)
(* the server.                                                             *)
(*                                                                         *)
(* Imports of a type exclude each other: a request that has found no       *)
(* import in progress holds the lock of its type until it registers its    *)
(* own, so nothing can begin in between; a task that is about to run has   *)
(* the row it was registered with, because only a server that is down or   *)
(* starting marks rows, and then there are neither requests nor tasks.     *)
(*                                                                         *)
(* The table holds what the last successful import brought: a task that    *)
(* reports success has replaced the table while its row was the active one *)
(* of its type, so nobody else has replaced it since; a type without an    *)
(* active row changes neither its table nor its last job; and a start      *)
(* after a stop that left a row active appends that row, which has failed, *)
(* to the finished jobs of its type.                                       *)
(***************************************************************************)
EXTENDS ImportJobs, FiniteSetTheorems, TLAPS

IsRow(x) == x = [type |-> x.type, status |-> x.status, expired |-> x.expired]

Shapes ==
    /\ row = [j \in DOMAIN row |-> row[j]]
    /\ \A j \in DOMAIN row : IsRow(row[j])
    /\ request = [j \in Jobs |-> request[j]]
    /\ lock = [ty \in Types |-> lock[ty]]
    /\ task = [j \in Jobs |-> task[j]]

Requests ==
    \A j \in Jobs :
        \/ request[j].pc \in {"new", "none"}
        \/ /\ request[j].pc \in {"saved", "checked"}
           /\ request[j] = [pc |-> request[j].pc, type |-> request[j].type]
           /\ request[j].type \in Types

\* A request that was let through holds the lock of its type, and its type is free.
LockHeld ==
    \A j \in Jobs :
        request[j].pc = "checked" =>
            /\ lock[request[j].type] = j
            /\ Active(request[j].type) = {}

\* A task that has not begun has the row its request registered.
CreatedIsPending ==
    \A j \in Jobs : task[j] = "created" => j \in DOMAIN row /\ row[j].status = "PENDING"

\* A server that is not up has no request; one that is down or starts has no task.
QuietWhenDown ==
    /\ server # "up" => \A j \in Jobs : request[j].pc \in {"new", "none"}
    /\ server \notin {"up", "stopping"} => \A j \in Jobs : ~Alive(j)

ActiveOnce ==
    \A i, j \in With(Interrupted) : row[i].type = row[j].type => i = j

IInv ==
    /\ Shapes /\ Requests /\ LockHeld /\ CreatedIsPending /\ QuietWhenDown /\ ActiveOnce

-----------------------------------------------------------------------------
\* A set in which any two elements are equal has at most one.
LEMMA AtMostOne ==
    ASSUME NEW S, \A x, y \in S : x = y
    PROVE  Cardinality(S) <= 1
<1>1. CASE S = {}
  BY <1>1, FS_EmptySet
<1>2. CASE S # {}
  <2>1. PICK x \in S : S = {x}
    BY <1>2
  <2>2. Cardinality(S) = 1
    BY <2>1, FS_Singleton
  <2> QED BY <2>2
<1> QED BY <1>1, <1>2

\* The invariant implies the property.
LEMMA ExclusionFromActiveOnce == IInv => OneActivePerType
<1> SUFFICES ASSUME IInv, NEW ty \in Types PROVE Cardinality(Active(ty)) <= 1
  BY DEF OneActivePerType
<1>1. \A i, j \in Active(ty) : i = j
  BY DEF IInv, ActiveOnce, Active
<1> QED BY <1>1, AtMostOne

\* There are no jobs and no tasks at first.
LEMMA Initially == Init => IInv
  BY DEF Init, IInv, Shapes, Requests, LockHeld, CreatedIsPending, QuietWhenDown, ActiveOnce,
         With, Alive

\* What is active when no row becomes active: nothing that was not.
LEMMA FewerActive ==
    ASSUME ActiveOnce, LockHeld,
           \A j \in With(Interrupted)' : j \in With(Interrupted) /\ row'[j].type = row[j].type
    PROVE  /\ ActiveOnce'
           /\ \A ty : Active(ty) = {} => Active(ty)' = {}
  BY DEF ActiveOnce, Active

\* A step that leaves rows, requests, locks and the created tasks alone.
LEMMA Untouched ==
    ASSUME IInv, UNCHANGED <<row, request, lock>>,
           task' = [j \in Jobs |-> task'[j]],
           \A j \in Jobs : task'[j] = "created" => task[j] = "created",
           server' # "up" => \A j \in Jobs : request[j].pc \in {"new", "none"},
           server' \notin {"up", "stopping"} => \A j \in Jobs : ~Alive(j)'
    PROVE  IInv'
  BY DEF IInv, Shapes, Requests, LockHeld, CreatedIsPending, QuietWhenDown, ActiveOnce,
         With, Active, Alive

\* The same of a step of the task of one job, while it is alive.
LEMMA TaskMoves ==
    ASSUME IInv, NEW j \in Jobs, NEW to, to # "created", Alive(j),
           task' = [task EXCEPT ![j] = to], UNCHANGED <<row, request, lock, server>>
    PROVE  IInv'
<1>1. server \in {"up", "stopping"}
  BY DEF IInv, QuietWhenDown
<1>2. /\ task' = [i \in Jobs |-> task'[i]]
      /\ \A i \in Jobs : task'[i] = "created" => task[i] = "created"
  BY DEF IInv, Shapes
<1>3. server' # "up" => \A i \in Jobs : request[i].pc \in {"new", "none"}
  BY DEF IInv, QuietWhenDown
<1> QED BY <1>1, <1>2, <1>3, Untouched

\* An upload makes a job that is not started yet.
LEMMA Uploads ==
    ASSUME IInv, NEW j \in Jobs, NEW ty \in Types, save_upload(j, ty)
    PROVE  IInv'
<1>1. /\ request' = [i \in Jobs |-> request'[i]]
      /\ request'[j] = [pc |-> "saved", type |-> ty]
      /\ \A i \in Jobs \ {j} : request'[i] = request[i]
  BY DEF IInv, Shapes, save_upload
<1>2. UNCHANGED <<row, lock, task, server>> /\ server = "up"
  BY DEF save_upload
<1>3. Shapes' /\ CreatedIsPending' /\ QuietWhenDown' /\ ActiveOnce'
  BY <1>1, <1>2 DEF IInv, Shapes, CreatedIsPending, QuietWhenDown, ActiveOnce, With, Alive
<1>4. Requests'
  <2>1. ASSUME NEW i \in Jobs, i # j
        PROVE  \/ request'[i].pc \in {"new", "none"}
               \/ /\ request'[i].pc \in {"saved", "checked"}
                  /\ request'[i] = [pc |-> request'[i].pc, type |-> request'[i].type]
                  /\ request'[i].type \in Types
    BY <1>1, <2>1 DEF IInv, Requests
  <2>2. request'[j].pc = "saved" /\ request'[j].type = ty
    BY <1>1
  <2> QED BY <1>1, <2>1, <2>2 DEF Requests
<1>5. LockHeld'
  BY <1>1, <1>2 DEF IInv, LockHeld, Active, With
<1> QED BY <1>3, <1>4, <1>5 DEF IInv

\* A request that ends without a row gives its lock back, if it holds one.
LEMMA RequestEnds ==
    ASSUME IInv, NEW j \in Jobs, request' = [request EXCEPT ![j] = NoRequest],
           \/ lock' = lock
           \/ request[j].pc = "checked" /\ lock' = [lock EXCEPT ![request[j].type] = NoJob],
           UNCHANGED <<row, task, server>>
    PROVE  IInv'
<1>1. /\ request' = [i \in Jobs |-> request'[i]]
      /\ request'[j].pc = "none"
      /\ \A i \in Jobs \ {j} : request'[i] = request[i]
  BY DEF IInv, Shapes, NoRequest
<1>2. Shapes' /\ CreatedIsPending' /\ QuietWhenDown' /\ ActiveOnce' /\ Requests'
  BY <1>1 DEF IInv, Shapes, CreatedIsPending, QuietWhenDown, ActiveOnce, With, Alive, Requests
<1>3. ASSUME NEW i \in Jobs, request'[i].pc = "checked"
      PROVE  lock'[request'[i].type] = i /\ Active(request[i].type)' = {}
  <2>1. i # j /\ request'[i] = request[i]
    BY <1>1, <1>3
  <2>2. lock[request[i].type] = i /\ Active(request[i].type) = {}
    BY <1>3, <2>1 DEF IInv, LockHeld
  <2>3. request[j].pc = "checked" => lock[request[j].type] = j
    BY DEF IInv, LockHeld
  <2>4. lock'[request[i].type] = i
    <3>1. request[i].type \in Types
      BY <1>3, <2>1 DEF IInv, Requests
    <3> QED BY <2>1, <2>2, <2>3, <3>1 DEF IInv, Shapes
  <2>5. Active(request[i].type)' = {}
    BY <2>1, <2>2 DEF Active, With
  <2> QED BY <2>1, <2>4, <2>5
<1> QED BY <1>2, <1>3 DEF IInv, LockHeld

\* A check of a start looks and changes no job.
LEMMA Checks ==
    ASSUME IInv, NEW j \in Jobs, CheckActive(j)
    PROVE  IInv'
<1> DEFINE ty == request[j].type
<1>1. CASE Active(ty) # {} /\ Refuse(j) /\ UNCHANGED lock
  BY <1>1, RequestEnds DEF Refuse
<1>2. CASE Active(ty) = {} /\ lock' = [lock EXCEPT ![ty] = j]
           /\ request' = [request EXCEPT ![j].pc = "checked"]
           /\ UNCHANGED <<row, file, table, finished, task, cancelled, server, unlink, stops>>
  <2>1. request[j] = [pc |-> "saved", type |-> ty] /\ ty \in Types
    BY DEF CheckActive, IInv, Requests
  <2>2. /\ request' = [i \in Jobs |-> request'[i]]
        /\ request'[j] = [pc |-> "checked", type |-> ty]
        /\ \A i \in Jobs \ {j} : request'[i] = request[i]
    BY <1>2, <2>1 DEF IInv, Shapes
  <2>3. /\ lock' = [t \in Types |-> lock'[t]] /\ lock'[ty] = j
        /\ \A t \in Types \ {ty} : lock'[t] = lock[t]
    BY <1>2, <2>1 DEF IInv, Shapes
  <2>4. server = "up"
    BY <2>1 DEF IInv, QuietWhenDown
  <2>5. Shapes' /\ CreatedIsPending' /\ QuietWhenDown' /\ ActiveOnce'
    BY <1>2, <2>2, <2>3, <2>4
       DEF IInv, Shapes, CreatedIsPending, QuietWhenDown, ActiveOnce, With, Alive
  <2>6. Requests'
    <3>1. request'[j].pc = "checked" /\ request'[j].type = ty
      BY <2>2
    <3> QED BY <2>1, <2>2, <3>1 DEF IInv, Requests
  <2>7. ASSUME NEW i \in Jobs, request'[i].pc = "checked"
        PROVE  lock'[request'[i].type] = i /\ Active(request[i].type)' = {}
    <3>1. \A t : Active(t)' = Active(t)
      BY <1>2 DEF Active, With
    <3>2. CASE i = j
      BY <1>2, <2>2, <2>3, <3>1, <3>2
    <3>3. CASE i # j
      <4>1. request'[i] = request[i] /\ request[i].pc = "checked"
        BY <2>2, <2>7, <3>3
      <4>2. /\ lock[request[i].type] = i /\ Active(request[i].type) = {}
            /\ request[i].type \in Types
        BY <4>1 DEF IInv, LockHeld, Requests
      <4>3. lock[ty] = NoJob /\ i # NoJob
        BY JobsAssumption DEF CheckActive, Free
      <4>4. request[i].type # ty
        BY <4>2, <4>3
      <4> QED BY <2>3, <3>1, <4>1, <4>2, <4>4
    <3> QED BY <3>2, <3>3
  <2> QED BY <2>5, <2>6, <2>7 DEF IInv, LockHeld
<1> QED BY <1>1, <1>2 DEF CheckActive

\* A request that was let through registers its row; its task begins or is lost.
LEMMA Registers ==
    ASSUME IInv, NEW j \in Jobs, NEW to \in {"created", "lost"},
           request[j].pc = "checked", row' = Registered(j),
           lock' = [lock EXCEPT ![request[j].type] = NoJob],
           task' = [task EXCEPT ![j] = to],
           request' = [request EXCEPT ![j] = NoRequest], UNCHANGED server
    PROVE  IInv'
<1> DEFINE ty == request[j].type
<1>1. /\ ty \in Types /\ lock[ty] = j /\ server = "up"
      /\ \A i \in With(Interrupted) : row[i].type # ty
  BY DEF IInv, Requests, LockHeld, QuietWhenDown, Active
<1>2. /\ DOMAIN row' = DOMAIN row \cup {j}
      /\ row' = [i \in DOMAIN row' |-> row'[i]]
      /\ row'[j] = [type |-> ty, status |-> "PENDING", expired |-> FALSE]
      /\ \A i \in DOMAIN row \ {j} : row'[i] = row[i]
  BY DEF Registered
<1>3. /\ request' = [i \in Jobs |-> request'[i]] /\ request'[j].pc = "none"
      /\ \A i \in Jobs \ {j} : request'[i] = request[i]
  BY DEF IInv, Shapes, NoRequest
<1>4. /\ task' = [i \in Jobs |-> task'[i]]
      /\ \A i \in Jobs \ {j} : task'[i] = task[i]
  BY DEF IInv, Shapes
<1>5. Shapes'
  <2>1. IsRow(row'[j])
    BY <1>2 DEF IsRow
  <2> QED BY <1>2, <1>3, <1>4, <2>1 DEF IInv, Shapes
<1>6. Requests' /\ QuietWhenDown'
  BY <1>1, <1>3 DEF IInv, Requests, QuietWhenDown
<1>7. CreatedIsPending'
  BY <1>2, <1>4 DEF IInv, CreatedIsPending
<1>8. With(Interrupted)' \subseteq With(Interrupted) \cup {j}
  BY <1>2 DEF With
<1>9. ActiveOnce'
  BY <1>1, <1>2, <1>8 DEF IInv, ActiveOnce, With
<1>10. ASSUME NEW i \in Jobs, request'[i].pc = "checked"
       PROVE  lock'[request'[i].type] = i /\ Active(request[i].type)' = {}
  <2>1. i # j /\ request'[i] = request[i]
    BY <1>3, <1>10
  <2>2. /\ lock[request[i].type] = i /\ Active(request[i].type) = {}
        /\ request[i].type \in Types
    BY <1>10, <2>1 DEF IInv, LockHeld, Requests
  <2>3. request[i].type # ty
    BY <1>1, <2>1, <2>2
  <2>4. lock'[request[i].type] = i
    BY <2>2, <2>3 DEF IInv, Shapes
  <2>5. Active(request[i].type)' = {}
    BY <1>2, <1>8, <2>1, <2>2, <2>3 DEF Active, With
  <2> QED BY <2>1, <2>4, <2>5
<1> QED BY <1>5, <1>6, <1>7, <1>9, <1>10 DEF IInv, LockHeld

\* A step on rows that makes none active and leaves the rows of created tasks.
LEMMA RowsMove ==
    ASSUME IInv, row' = [i \in DOMAIN row' |-> row'[i]],
           \A i \in DOMAIN row' : IsRow(row'[i]),
           \A i \in With(Interrupted)' : i \in With(Interrupted) /\ row'[i].type = row[i].type,
           task' = [i \in Jobs |-> task'[i]],
           \A i \in Jobs : task'[i] = "created" =>
               task[i] = "created" /\ i \in DOMAIN row' /\ row'[i].status = row[i].status,
           server' # "up" => \A i \in Jobs : request[i].pc \in {"new", "none"},
           server' \notin {"up", "stopping"} => \A i \in Jobs : ~Alive(i)',
           UNCHANGED <<request, lock>>
    PROVE  IInv'
<1>1. ActiveOnce' /\ \A t : Active(t) = {} => Active(t)' = {}
  BY FewerActive DEF IInv
<1>2. Shapes' /\ Requests' /\ CreatedIsPending' /\ QuietWhenDown'
  BY DEF IInv, Shapes, Requests, CreatedIsPending, QuietWhenDown, Alive
<1>3. LockHeld'
  BY <1>1 DEF IInv, LockHeld
<1> QED BY <1>1, <1>2, <1>3 DEF IInv

\* A step of the task of j on its row, which is active and stays so or ends.
LEMMA StatusMoves ==
    ASSUME IInv, NEW j \in Jobs, NEW status, NEW to, to # "created", Alive(j),
           row' = [row EXCEPT ![j].status = status], task' = [task EXCEPT ![j] = to],
           j \in With(Interrupted) \/ status \notin Interrupted,
           UNCHANGED <<request, lock, server>>
    PROVE  IInv'
<1>1. /\ row' = [i \in DOMAIN row' |-> row'[i]] /\ DOMAIN row' = DOMAIN row
      /\ \A i \in DOMAIN row \ {j} : row'[i] = row[i]
  BY DEF IInv, Shapes
<1>2. j \in DOMAIN row => /\ row'[j].type = row[j].type /\ row'[j].status = status
                          /\ IsRow(row'[j])
  BY DEF IInv, Shapes, IsRow
<1>3. \A i \in DOMAIN row' : IsRow(row'[i])
  BY <1>1, <1>2 DEF IInv, Shapes
<1>4. \A i \in With(Interrupted)' : i \in With(Interrupted) /\ row'[i].type = row[i].type
  BY <1>1, <1>2 DEF With
<1>5. /\ task' = [i \in Jobs |-> task'[i]] /\ (task'[j] = to)
      /\ \A i \in Jobs \ {j} : task'[i] = task[i]
  BY DEF IInv, Shapes
<1>6. \A i \in Jobs : task'[i] = "created" =>
          task[i] = "created" /\ i \in DOMAIN row' /\ row'[i].status = row[i].status
  BY <1>1, <1>5 DEF IInv, CreatedIsPending
<1>7. /\ server' # "up" => \A i \in Jobs : request[i].pc \in {"new", "none"}
      /\ server' \in {"up", "stopping"}
  BY DEF IInv, QuietWhenDown
<1> QED BY <1>1, <1>3, <1>4, <1>5, <1>6, <1>7, RowsMove

\* A start enters its task once.
LEMMA Starts ==
    ASSUME IInv, NEW j \in Jobs, StartJob(j)
    PROVE  IInv'
<1>1. j \in With(Interrupted) /\ Alive(j)
  BY DEF StartJob, IInv, CreatedIsPending, With, Interrupted, Alive
<1> QED BY <1>1, StatusMoves DEF StartJob

\* A task that ends finishes the job it runs, if that is still running.
LEMMA Finishes ==
    ASSUME IInv, NEW j \in Jobs, FinishJob(j)
    PROVE  IInv'
<1>1. Outcome(j) \notin Interrupted /\ Alive(j)
  BY DEF FinishJob, Outcome, Interrupted, Alive
<1> QED BY <1>1, StatusMoves DEF FinishJob

\* The other steps of a task.
LEMMA OtherTaskSteps ==
    ASSUME IInv, NEW j \in Jobs,
           ReplaceTable(j) \/ ProcessorFails(j) \/ RemoveUpload(j) \/ TransactionFails(j)
    PROVE  IInv'
  BY TaskMoves DEF ReplaceTable, ProcessorFails, RemoveUpload, TransactionFails, Alive

\* With nothing checked and no task created, locks and the rest may be anything.
LEMMA Quiet ==
    ASSUME IInv, UNCHANGED row,
           request' = Ended, lock' = [ty \in Types |-> lock'[ty]],
           task' = [j \in Jobs |-> task'[j]], \A j \in Jobs : task'[j] # "created",
           server' \notin {"up", "stopping"} => \A j \in Jobs : ~Alive(j)'
    PROVE  IInv'
<1>1. \A j \in Jobs : request'[j].pc \in {"new", "none"}
  BY DEF Ended, NoRequest
<1>2. request' = [j \in Jobs |-> request'[j]]
  BY DEF Ended
<1> QED
  BY <1>1, <1>2 DEF IInv, Shapes, Requests, LockHeld, CreatedIsPending, QuietWhenDown,
                    ActiveOnce, With, Alive

\* A crash ends all tasks and leaves the rows.
LEMMA Crashes ==
    ASSUME IInv, Crash
    PROVE  IInv'
<1>1. lock' = [ty \in Types |-> lock'[ty]] /\ task' = [j \in Jobs |-> task'[j]]
  BY DEF Crash
<1>2. \A j \in Jobs : task'[j] = "none" /\ ~Alive(j)'
  BY DEF Crash, Alive
<1> QED BY <1>1, <1>2, Quiet DEF Crash

\* A stop waits for the tasks it found.
LEMMA Stops ==
    ASSUME IInv, Stop
    PROVE  IInv'
<1>1. lock' = [ty \in Types |-> lock'[ty]] /\ task' = [j \in Jobs |-> task'[j]]
  BY DEF Stop, IInv, Shapes
<1>2. \A j \in Jobs : task'[j] # "created"
  BY DEF Stop
<1>3. request' = Ended /\ server' = "stopping" /\ UNCHANGED row
  BY DEF Stop
<1> QED BY <1>1, <1>2, <1>3, Quiet

\* The exit of a server.
LEMMA Exits ==
    ASSUME IInv, Exit
    PROVE  IInv'
<1>1. task' = [j \in Jobs |-> task'[j]] /\ \A j \in Jobs : ~Alive(j)'
  BY DEF Exit, IInv, Shapes, Alive
<1>2. \A j \in Jobs : request[j].pc \in {"new", "none"}
  BY DEF Exit, IInv, QuietWhenDown
<1> QED BY <1>1, <1>2, Untouched DEF Exit

\* Marking leaves no row active; there is no task it could take its row from.
LEMMA Marks ==
    ASSUME IInv, mark_stale_jobs_failed
    PROVE  IInv'
<1>1. /\ row' = [j \in DOMAIN row' |-> row'[j]] /\ DOMAIN row' = DOMAIN row
      /\ \A j \in DOMAIN row : row'[j] = IF j \in Stale THEN [row[j] EXCEPT !.status = "FAILED"]
                                                       ELSE row[j]
  BY DEF mark_stale_jobs_failed
<1>2. \A j \in DOMAIN row' : IsRow(row'[j])
  BY <1>1 DEF IInv, Shapes, IsRow
<1>3. With(Interrupted)' = {}
  <2>1. ASSUME NEW j \in DOMAIN row PROVE row'[j].status \notin Interrupted
    <3>1. CASE j \in Stale
      <4>1. row'[j].status = "FAILED"
        BY <1>1, <3>1 DEF IInv, Shapes, IsRow
      <4> QED BY <4>1 DEF Interrupted
    <3>2. CASE j \notin Stale
      BY <1>1, <3>2 DEF Stale, With
    <3> QED BY <3>1, <3>2
  <2> QED BY <1>1, <2>1 DEF With
<1>4. /\ \A j \in Jobs : ~Alive(j)' /\ request[j].pc \in {"new", "none"}
      /\ \A j \in Jobs : task'[j] # "created"
  BY DEF mark_stale_jobs_failed, IInv, QuietWhenDown, Alive
<1>5. task' = [j \in Jobs |-> task'[j]] /\ UNCHANGED <<request, lock>>
  BY DEF mark_stale_jobs_failed, IInv, Shapes
<1> QED BY <1>1, <1>2, <1>3, <1>4, <1>5, RowsMove

\* An unlink of a file.
LEMMA Unlinks ==
    ASSUME IInv, NEW j \in Jobs, UnlinkUpload(j)
    PROVE  IInv'
<1>1. UNCHANGED <<row, request, lock, task, server>>
  BY DEF UnlinkUpload
<1> QED BY <1>1, Untouched DEF IInv, Shapes, QuietWhenDown, Alive

\* The cleanup of expired jobs.
LEMMA CleansUp ==
    ASSUME IInv, cleanup_finished_jobs
    PROVE  IInv'
<1>1. /\ row' = [j \in DOMAIN row' |-> row'[j]] /\ DOMAIN row' \subseteq DOMAIN row
      /\ \A j \in DOMAIN row' : row'[j] = row[j]
  BY DEF cleanup_finished_jobs
<1>2. \A j \in Jobs : task'[j] # "created"
  BY DEF cleanup_finished_jobs, IInv, QuietWhenDown, Alive
<1>3. task' = [j \in Jobs |-> task'[j]] /\ UNCHANGED <<request, lock>> /\ server' = "up"
  BY DEF cleanup_finished_jobs, IInv, Shapes
<1>4. \A j \in DOMAIN row' : IsRow(row'[j])
  BY <1>1 DEF IInv, Shapes
<1>5. \A j \in With(Interrupted)' : j \in With(Interrupted) /\ row'[j].type = row[j].type
  BY <1>1 DEF With
<1> QED BY <1>1, <1>2, <1>3, <1>4, <1>5, RowsMove

\* The passing of time.
LEMMA Expires ==
    ASSUME IInv, NEW j \in Jobs, Expire(j)
    PROVE  IInv'
<1>1. /\ row' = [i \in DOMAIN row' |-> row'[i]] /\ DOMAIN row' = DOMAIN row
      /\ \A i \in DOMAIN row \ {j} : row'[i] = row[i]
  BY DEF Expire, IInv, Shapes
<1>2. row'[j].type = row[j].type /\ row'[j].status = row[j].status /\ IsRow(row'[j])
  <2>1. j \in DOMAIN row /\ IsRow(row[j])
    BY DEF Expire, With, IInv, Shapes
  <2>2. row'[j] = [row[j] EXCEPT !.expired = TRUE]
    BY <2>1 DEF Expire
  <2>3. row'[j] = [type |-> row[j].type, status |-> row[j].status, expired |-> TRUE]
    BY <2>1, <2>2 DEF IsRow
  <2> QED BY <2>3 DEF IsRow
<1>3. \A i \in DOMAIN row' : IsRow(row'[i])
  BY <1>1, <1>2 DEF IInv, Shapes
<1>4. \A i \in With(Interrupted)' : i \in With(Interrupted) /\ row'[i].type = row[i].type
  BY <1>1, <1>2 DEF With
<1>5. UNCHANGED <<request, lock, task, server>>
  BY DEF Expire
<1>6. /\ task' = [i \in Jobs |-> task'[i]]
      /\ \A i \in Jobs : task'[i] = "created" =>
             task[i] = "created" /\ i \in DOMAIN row' /\ row'[i].status = row[i].status
  BY <1>1, <1>2, <1>5 DEF IInv, Shapes, CreatedIsPending
<1>7. /\ server' # "up" => \A i \in Jobs : request[i].pc \in {"new", "none"}
      /\ server' \notin {"up", "stopping"} => \A i \in Jobs : ~Alive(i)'
  BY <1>5 DEF IInv, QuietWhenDown, Alive
<1> QED BY <1>1, <1>3, <1>4, <1>5, <1>6, <1>7, RowsMove

\* A step of nothing.
LEMMA Stutters ==
    ASSUME IInv, UNCHANGED vars
    PROVE  IInv'
<1>1. UNCHANGED <<row, request, lock, task, server>>
  BY DEF vars
<1> QED BY <1>1, Untouched DEF IInv, Shapes, QuietWhenDown, Alive

-----------------------------------------------------------------------------
\* The invariant is inductive.
LEMMA Inductive == IInv /\ [Next]_vars => IInv'
<1> SUFFICES ASSUME IInv, [Next]_vars PROVE IInv'
  OBVIOUS
<1>1. ASSUME NEW j \in Jobs, NEW ty \in Types, save_upload(j, ty) PROVE IInv'
  BY <1>1, Uploads
<1>2. ASSUME NEW j \in Jobs, RequestStep(j) PROVE IInv'
  <2>1. CASE CheckActive(j)
    BY <2>1, Checks
  <2>2. CASE RegisterJob(j)
    BY <2>2, Registers DEF RegisterJob
  <2> QED BY <1>2, <2>1, <2>2 DEF RequestStep
<1>3. ASSUME NEW j \in Jobs, RegisterFails(j) PROVE IInv'
  <2>1. CASE UNCHANGED <<row, task>>
    BY <1>3, <2>1, RequestEnds DEF RegisterFails
  <2>2. CASE row' = Registered(j) /\ task' = [task EXCEPT ![j] = "lost"]
    BY <1>3, <2>2, Registers DEF RegisterFails
  <2> QED BY <1>3, <2>1, <2>2 DEF RegisterFails
<1>4. ASSUME NEW j \in Jobs, JobStep(j) \/ TransactionFails(j) PROVE IInv'
  BY <1>4, Starts, Finishes, OtherTaskSteps DEF JobStep
<1>5. ASSUME NEW j \in Jobs, Expire(j) PROVE IInv'
  BY <1>5, Expires
<1>6. CASE ServerStep
  BY <1>6, Exits, Marks, CleansUp, Unlinks DEF ServerStep
<1>7. CASE Crash \/ Stop
  BY <1>7, Crashes, Stops
<1>8. CASE UNCHANGED vars
  BY <1>8, Stutters
<1> QED BY <1>1, <1>2, <1>3, <1>4, <1>5, <1>6, <1>7, <1>8 DEF Next

\* At no time are two imports of one type in progress, however uploads, failures,
\* stops and starts of the server follow each other.
THEOREM ImportsExcludeEachOther == Spec => []OneActivePerType
<1>1. Spec => []IInv
  BY Initially, Inductive, PTL DEF Spec
<1> QED BY <1>1, ExclusionFromActiveOnce, PTL

-----------------------------------------------------------------------------
(* The table of a type and the last import of it.                           *)

Filed ==
    /\ DOMAIN row \subseteq Jobs
    /\ \A j \in DOMAIN row : row[j].type \in Types
    /\ table = [ty \in Types |-> table[ty]]
    /\ finished \in [Types -> Seq(Jobs)]

\* A job is registered by its own request, as the last thing the request does.
Unregistered == \A j \in Jobs : request[j].pc # "none" => j \notin DOMAIN row

\* A task between its first and its last transaction has a running row.
Begun == {"processing", "returned", "raised"}

InHand == \A j \in Jobs : task[j] \in Begun => j \in DOMAIN row /\ row[j].status = "RUNNING"

\* A task that was not cancelled has replaced the table before it reports success.
Replaced == \A j \in Jobs : task[j] = "returned" /\ j \notin cancelled => table[row[j].type] = j

\* No row is active while old ones are cleaned up.
Marked == server = "marking" => With(Interrupted) = {}

\* A job that has finished is over for good.
FinishedIsOver ==
    \A ty \in Types : \A n \in 1..Len(finished[ty]) :
        /\ request[finished[ty][n]].pc = "none"
        /\ finished[ty][n] \notin With(Interrupted)

TInv ==
    /\ IInv /\ Filed /\ Unregistered /\ InHand /\ Replaced /\ Marked /\ FinishedIsOver
    /\ TableIsLastImport

Done(ty) == finished[ty][Len(finished[ty])]

\* The last of a list of jobs is one of them.
LEMMA DoneIsFinished ==
    ASSUME Filed, NEW ty \in Types, finished[ty] # << >>
    PROVE  Len(finished[ty]) \in 1..Len(finished[ty]) /\ Done(ty) \in Jobs
  BY DEF Filed, Done

\* What an entry of a list with one more entry is.
LEMMA AppendedOrBefore ==
    ASSUME NEW f \in Seq(Jobs), NEW x, NEW n \in 1..Len(Append(f, x))
    PROVE  \/ Append(f, x)[n] = x
           \/ n \in 1..Len(f) /\ Append(f, x)[n] = f[n]
<1>1. n \in 1..Len(f) => Append(f, x)[n] = f[n]
  OBVIOUS
<1>2. n = Len(f) + 1 => Append(f, x)[n] = x
  OBVIOUS
<1>3. n \in 1..Len(f) \/ n = Len(f) + 1
  OBVIOUS
<1> QED BY <1>1, <1>2, <1>3

\* Nothing is finished at first.
LEMMA TablesInitially == Init => TInv
<1> SUFFICES ASSUME Init PROVE TInv
  OBVIOUS
<1>1. IInv
  BY Initially
<1>2. finished \in [Types -> Seq(Jobs)] /\ \A ty \in Types : finished[ty] = << >>
  BY DEF Init
<1>3. DOMAIN row = {} /\ With(Interrupted) = {}
  BY DEF Init, With
<1>4. \A j \in Jobs : task[j] = "none"
  BY DEF Init
<1>5. Filed
  BY <1>2, <1>3 DEF Filed, Init
<1> QED BY <1>1, <1>2, <1>3, <1>4, <1>5
        DEF TInv, Unregistered, InHand, Begun, Replaced, Marked, FinishedIsOver,
            TableIsLastImport

\* A step that leaves rows, tables and the finished jobs alone, begins no request anew
\* and brings no task further.
LEMMA TablesAside ==
    ASSUME TInv, IInv', UNCHANGED <<row, table, finished>>, cancelled \subseteq cancelled',
           \A j \in Jobs : request'[j].pc # "none" => request[j].pc # "none",
           \A j \in Jobs : task'[j] \in Begun => task[j] \in Begun,
           \A j \in Jobs : task'[j] = "returned" /\ j \notin cancelled' => task[j] = "returned",
           server' = "marking" => server = "marking"
    PROVE  TInv'
<1>1. Filed' /\ Unregistered' /\ InHand' /\ Replaced' /\ Marked'
  BY DEF TInv, Filed, Unregistered, InHand, Replaced, Marked, With
<1>2. FinishedIsOver'
  <2> SUFFICES ASSUME NEW ty \in Types, NEW n \in 1..Len(finished[ty])
               PROVE  /\ request'[finished[ty][n]].pc = "none"
                      /\ finished[ty][n] \notin With(Interrupted)'
    BY DEF FinishedIsOver
  <2>1. /\ finished[ty][n] \in Jobs /\ request[finished[ty][n]].pc = "none"
        /\ finished[ty][n] \notin With(Interrupted)
    BY DEF TInv, Filed, FinishedIsOver
  <2> QED BY <2>1 DEF With
<1>3. TableIsLastImport'
  BY DEF TInv, TableIsLastImport, Active, With
<1> QED BY <1>1, <1>2, <1>3 DEF TInv

\* A job is registered: its type has an import in progress, the others stay as they are.
LEMMA TablesWhenRegistered ==
    ASSUME TInv, IInv', NEW j \in Jobs, NEW to \in {"created", "lost"},
           request[j].pc = "checked", row' = Registered(j),
           task' = [task EXCEPT ![j] = to],
           request' = [request EXCEPT ![j] = NoRequest],
           UNCHANGED <<table, finished, cancelled, server>>
    PROVE  TInv'
<1> DEFINE ty == request[j].type
<1>1. ty \in Types /\ server = "up" /\ j \notin DOMAIN row
  BY DEF TInv, IInv, Requests, QuietWhenDown, Unregistered
<1>2. /\ DOMAIN row' = DOMAIN row \cup {j}
      /\ row'[j] = [type |-> ty, status |-> "PENDING", expired |-> FALSE]
      /\ \A i \in DOMAIN row : row'[i] = row[i]
  BY <1>1 DEF Registered
<1>3. request'[j].pc = "none" /\ \A i \in Jobs \ {j} : request'[i] = request[i]
  BY DEF TInv, IInv, Shapes, NoRequest
<1>4. task'[j] = to /\ \A i \in Jobs \ {j} : task'[i] = task[i]
  BY DEF TInv, IInv, Shapes
<1>5. Filed' /\ Unregistered' /\ Marked'
  BY <1>1, <1>2, <1>3 DEF TInv, Filed, Unregistered, Marked
<1>6. InHand' /\ Replaced'
  BY <1>2, <1>4 DEF TInv, InHand, Begun, Replaced
<1>7. FinishedIsOver'
  <2> SUFFICES ASSUME NEW t \in Types, NEW n \in 1..Len(finished[t])
               PROVE  /\ request'[finished[t][n]].pc = "none"
                      /\ finished[t][n] \notin With(Interrupted)'
    BY DEF FinishedIsOver
  <2>1. /\ finished[t][n] \in Jobs /\ request[finished[t][n]].pc = "none"
        /\ finished[t][n] \notin With(Interrupted)
    BY DEF TInv, Filed, FinishedIsOver
  <2> QED BY <1>2, <1>3, <2>1 DEF With
<1>8. TableIsLastImport'
  <2>1. \A t \in Types : Active(t) \subseteq Active(t)'
    BY <1>2 DEF Active, With
  <2>2. With({"SUCCEEDED"})' \subseteq With({"SUCCEEDED"})
    BY <1>2 DEF With
  <2> QED BY <2>1, <2>2 DEF TInv, TableIsLastImport
<1> QED BY <1>5, <1>6, <1>7, <1>8 DEF TInv

\* A job starts: which jobs are active or have succeeded stays the same.
LEMMA TablesWhenStarted ==
    ASSUME TInv, IInv', NEW j \in Jobs, StartJob(j)
    PROVE  TInv'
<1>1. j \in DOMAIN row /\ row[j].status = "PENDING" /\ IsRow(row[j])
  BY DEF StartJob, TInv, IInv, CreatedIsPending, Shapes
<1>2. DOMAIN row' = DOMAIN row /\ \A i \in DOMAIN row \ {j} : row'[i] = row[i]
  BY DEF StartJob
<1>3. row'[j].type = row[j].type /\ row'[j].status = "RUNNING"
  BY <1>1 DEF StartJob, IsRow
<1>4. With(Interrupted)' = With(Interrupted) /\ With({"SUCCEEDED"})' = With({"SUCCEEDED"})
  BY <1>1, <1>2, <1>3 DEF With, Interrupted
<1>5. \A t : Active(t)' = Active(t)
  BY <1>2, <1>3, <1>4 DEF Active, With
<1>6. task'[j] = "processing" /\ \A i \in Jobs \ {j} : task'[i] = task[i]
  BY DEF StartJob, TInv, IInv, Shapes
<1>7. UNCHANGED <<table, finished, request, cancelled, server>>
  BY DEF StartJob
<1>8. Filed' /\ Unregistered' /\ Marked' /\ FinishedIsOver'
  BY <1>1, <1>2, <1>3, <1>4, <1>7 DEF TInv, Filed, Unregistered, Marked, FinishedIsOver
<1>9. InHand' /\ Replaced'
  BY <1>1, <1>2, <1>3, <1>6, <1>7 DEF TInv, InHand, Begun, Replaced
<1>10. TableIsLastImport'
  BY <1>4, <1>5, <1>7 DEF TInv, TableIsLastImport
<1> QED BY <1>8, <1>9, <1>10 DEF TInv

\* A table is replaced by the only import of its type in progress.
LEMMA TablesWhenReplaced ==
    ASSUME TInv, IInv', NEW j \in Jobs, ReplaceTable(j)
    PROVE  TInv'
<1> DEFINE ty == row[j].type
<1>1. j \in DOMAIN row /\ row[j].status = "RUNNING" /\ ty \in Types
  BY DEF ReplaceTable, TInv, InHand, Begun, Filed
<1>2. j \in Active(ty) /\ j \in With(Interrupted)
  BY <1>1 DEF Active, With, Interrupted
<1>3. /\ table' = [t \in Types |-> table'[t]] /\ table'[ty] = j
      /\ \A t \in Types \ {ty} : table'[t] = table[t]
  BY <1>1 DEF ReplaceTable, TInv, Filed
<1>4. task'[j] = "returned" /\ \A i \in Jobs \ {j} : task'[i] = task[i]
  BY DEF ReplaceTable, TInv, IInv, Shapes
<1>5. UNCHANGED <<row, finished, request, cancelled, server>> /\ task[j] = "processing"
  BY DEF ReplaceTable
<1>6. Filed' /\ Unregistered' /\ Marked' /\ FinishedIsOver'
  BY <1>3, <1>5 DEF TInv, Filed, Unregistered, Marked, FinishedIsOver, With
<1>7. InHand'
  BY <1>4, <1>5 DEF TInv, InHand, Begun
<1>8. Replaced'
  <2> SUFFICES ASSUME NEW i \in Jobs, task'[i] = "returned", i \notin cancelled
               PROVE  table'[row[i].type] = i
    BY <1>5 DEF Replaced
  <2>1. CASE i = j
    BY <1>3, <2>1
  <2>2. CASE i # j
    <3>1. task[i] = "returned"
      BY <1>4, <2>2
    <3>2. /\ i \in DOMAIN row /\ row[i].status = "RUNNING" /\ row[i].type \in Types
          /\ table[row[i].type] = i
      BY <3>1 DEF TInv, InHand, Begun, Replaced, Filed
    <3>3. row[i].type # ty
      BY <1>2, <2>2, <3>2 DEF TInv, IInv, ActiveOnce, With, Interrupted
    <3> QED BY <1>3, <3>2, <3>3
  <2> QED BY <2>1, <2>2
<1>9. TableIsLastImport'
  <2>1. \A t : Active(t)' = Active(t)
    BY <1>5 DEF Active, With
  <2>2. With({"SUCCEEDED"})' = With({"SUCCEEDED"})
    BY <1>5 DEF With
  <2> QED BY <1>2, <1>3, <1>5, <2>1, <2>2 DEF TInv, TableIsLastImport
<1> QED BY <1>6, <1>7, <1>8, <1>9 DEF TInv

\* A job ends: it was the only import of its type in progress, and if it reports success
\* it has replaced the table.
LEMMA TablesWhenFinished ==
    ASSUME TInv, IInv', NEW j \in Jobs, FinishJob(j)
    PROVE  TInv'
<1> DEFINE ty == row[j].type
<1>1. j \in DOMAIN row /\ row[j].status = "RUNNING" /\ ty \in Types /\ IsRow(row[j])
  BY DEF FinishJob, TInv, InHand, Begun, Filed, IInv, Shapes
<1>2. j \in With(Interrupted)
  BY <1>1 DEF With, Interrupted
<1>3. DOMAIN row' = DOMAIN row /\ \A i \in DOMAIN row \ {j} : row'[i] = row[i]
  BY DEF FinishJob
<1>4. row'[j].type = ty /\ row'[j].status = Outcome(j) /\ Outcome(j) \in {"SUCCEEDED", "FAILED"}
  BY <1>1 DEF FinishJob, IsRow, Outcome
<1>5. task'[j] = "removing" /\ \A i \in Jobs \ {j} : task'[i] = task[i]
  BY DEF FinishJob, TInv, IInv, Shapes
<1>6. UNCHANGED <<table, request, cancelled, server>>
  BY DEF FinishJob
<1>7. /\ finished' \in [Types -> Seq(Jobs)]
      /\ finished'[ty] = Append(finished[ty], j)
      /\ \A t \in Types \ {ty} : finished'[t] = finished[t]
  BY <1>1 DEF FinishJob, TInv, Filed
<1>8. With(Interrupted)' = With(Interrupted) \ {j}
  BY <1>3, <1>4 DEF With, Interrupted
<1>9. request[j].pc = "none"
  BY <1>1 DEF TInv, Unregistered
<1>10. Filed' /\ Unregistered' /\ Marked' /\ InHand' /\ Replaced'
  BY <1>1, <1>3, <1>4, <1>5, <1>6, <1>7, <1>8
     DEF TInv, Filed, Unregistered, Marked, InHand, Begun, Replaced
<1>11. FinishedIsOver'
  <2> SUFFICES ASSUME NEW t \in Types, NEW n \in 1..Len(finished'[t])
               PROVE  /\ request[finished'[t][n]].pc = "none"
                      /\ finished'[t][n] \notin With(Interrupted)'
    BY <1>6 DEF FinishedIsOver
  <2>1. finished[t] \in Seq(Jobs)
    BY DEF TInv, Filed
  <2>2. \/ finished'[t][n] = j
        \/ n \in 1..Len(finished[t]) /\ finished'[t][n] = finished[t][n]
    <3>1. CASE t # ty
      BY <1>7, <3>1
    <3>2. CASE t = ty
      <4>1. finished'[t] = Append(finished[t], j)
        BY <1>7, <3>2
      <4>2. n \in 1..Len(Append(finished[t], j))
        BY <4>1
      <4> QED BY <2>1, <4>1, <4>2, AppendedOrBefore
    <3> QED BY <3>1, <3>2
  <2> QED BY <1>8, <1>9, <2>2 DEF TInv, FinishedIsOver
<1>12. TableIsLastImport'
  <2> SUFFICES ASSUME NEW t \in Types, Active(t)' = {}, finished'[t] # << >>,
                      Done(t)' \in With({"SUCCEEDED"})' \ cancelled
               PROVE  table[t] = Done(t)'
    BY <1>6 DEF TableIsLastImport, Done
  <2>1. CASE t = ty
    <3>1. finished[ty] \in Seq(Jobs)
      BY <1>1 DEF TInv, Filed
    <3>2. Done(t)' = j
      BY <1>7, <2>1, <3>1 DEF Done
    <3>3. Outcome(j) = "SUCCEEDED" /\ j \notin cancelled
      BY <1>4, <3>2 DEF With
    <3>4. task[j] = "returned"
      BY <3>3 DEF Outcome
    <3> QED BY <2>1, <3>2, <3>3, <3>4 DEF TInv, Replaced
  <2>2. CASE t # ty
    <3>1. finished'[t] = finished[t] /\ Done(t)' = Done(t)
      BY <1>7, <2>2 DEF Done
    <3>2. Done(t) \notin With(Interrupted)
      BY <3>1, DoneIsFinished DEF TInv, FinishedIsOver, Done
    <3>3. Done(t) # j /\ Done(t) \in With({"SUCCEEDED"}) \ cancelled
      BY <1>2, <1>3, <3>1, <3>2 DEF With
    <3>4. Active(t) = {}
      BY <1>3, <1>4, <1>8, <2>2 DEF Active, With
    <3> QED BY <3>1, <3>3, <3>4 DEF TInv, TableIsLastImport, Done
  <2> QED BY <2>1, <2>2
<1> QED BY <1>10, <1>11, <1>12 DEF TInv

\* Marking leaves no row active.  A type had at most one: if it had one, that has failed
\* and is the last; if it had none, its last job is what it was.
LEMMA TablesWhenMarked ==
    ASSUME TInv, IInv', mark_stale_jobs_failed
    PROVE  TInv'
<1>1. PICK order \in [Types -> UNION {Orders(StaleOf(ty)) : ty \in Types}] :
         /\ \A ty \in Types : order[ty] \in Orders(StaleOf(ty))
         /\ finished' = [ty \in Types |-> finished[ty] \o order[ty]]
  BY DEF mark_stale_jobs_failed
<1>2. /\ DOMAIN row' = DOMAIN row
      /\ \A j \in DOMAIN row : row'[j] = IF j \in Stale THEN [row[j] EXCEPT !.status = "FAILED"]
                                                       ELSE row[j]
  BY DEF mark_stale_jobs_failed
<1>3. \A j \in DOMAIN row : row'[j].type = row[j].type
  BY <1>2 DEF TInv, IInv, Shapes, IsRow
<1>4. \A j \in Stale : row'[j].status = "FAILED"
  BY <1>2 DEF Stale, With, TInv, IInv, Shapes, IsRow
<1>5. \A j \in DOMAIN row \ Stale : row'[j] = row[j]
  BY <1>2
<1>6. With(Interrupted)' = {} /\ With({"SUCCEEDED"})' \subseteq With({"SUCCEEDED"}) \ Stale
  BY <1>2, <1>4, <1>5 DEF With, Stale, Interrupted
<1>7. UNCHANGED <<table, request, cancelled, task>> /\ server = "down"
  BY DEF mark_stale_jobs_failed
<1>8. \A j \in Jobs : task[j] \notin Begun
  BY <1>7 DEF TInv, IInv, QuietWhenDown, Alive, Begun
<1>9. \A ty \in Types : /\ StaleOf(ty) \subseteq Jobs
                        /\ \A j \in StaleOf(ty) : request[j].pc = "none"
  BY DEF StaleOf, Stale, With, TInv, Filed, Unregistered
<1>10. ASSUME NEW ty \in Types
       PROVE  \/ StaleOf(ty) = {} /\ order[ty] = << >>
              \/ \E x \in StaleOf(ty) : order[ty] = <<x>>
  <2>1. order[ty] \in [1..Cardinality(StaleOf(ty)) -> StaleOf(ty)]
    BY <1>1 DEF Orders
  <2>2. \A i, j \in StaleOf(ty) : i = j
    BY DEF StaleOf, Stale, TInv, IInv, ActiveOnce
  <2>3. CASE StaleOf(ty) = {}
    <3>1. Cardinality(StaleOf(ty)) = 0
      BY <2>3, FS_EmptySet
    <3>2. order[ty] \in [{} -> StaleOf(ty)]
      BY <2>1, <3>1
    <3>3. order[ty] \in [1..0 -> Jobs]
      BY <2>3, <3>2
    <3>4. order[ty] \in Seq(Jobs) /\ Len(order[ty]) = 0
      BY <3>3
    <3> QED BY <2>3, <3>4
  <2>4. CASE StaleOf(ty) # {}
    <3>1. PICK x \in StaleOf(ty) : StaleOf(ty) = {x}
      BY <2>2, <2>4
    <3>2. Cardinality(StaleOf(ty)) = 1
      BY <3>1, FS_Singleton
    <3>3. order[ty] \in [1..1 -> {x}]
      BY <2>1, <3>1, <3>2
    <3>4. order[ty] = <<x>>
      BY <3>3
    <3> QED BY <3>1, <3>4
  <2> QED BY <2>3, <2>4
<1>11. ASSUME NEW ty \in Types
       PROVE  /\ finished'[ty] \in Seq(Jobs)
              /\ \/ StaleOf(ty) = {} /\ finished'[ty] = finished[ty]
                 \/ \E x \in StaleOf(ty) : finished'[ty] = Append(finished[ty], x)
  <2> DEFINE f == finished[ty]
  <2>1. f \in Seq(Jobs) /\ finished'[ty] = f \o order[ty]
    BY <1>1 DEF TInv, Filed
  <2> HIDE DEF f
  <2>2. CASE StaleOf(ty) = {} /\ order[ty] = << >>
    <3>1. finished'[ty] = f
      BY <2>1, <2>2
    <3> QED BY <2>1, <2>2, <3>1 DEF f
  <2>3. ASSUME NEW x \in StaleOf(ty), order[ty] = <<x>>
        PROVE  finished'[ty] = Append(f, x) /\ finished'[ty] \in Seq(Jobs)
    <3>1. x \in Jobs
      BY <1>9, <2>3
    <3>2. f \o <<x>> = Append(f, x) /\ Append(f, x) \in Seq(Jobs)
      BY <2>1, <3>1
    <3> QED BY <2>1, <2>3, <3>2
  <2> QED BY <1>10, <2>2, <2>3 DEF f
<1>12. finished' \in [Types -> Seq(Jobs)]
  <2>1. finished' = [ty \in Types |-> finished'[ty]]
    BY <1>1
  <2> QED BY <1>11, <2>1
<1>13. Filed' /\ Unregistered' /\ Marked' /\ InHand' /\ Replaced'
  BY <1>2, <1>3, <1>6, <1>7, <1>8, <1>12
     DEF TInv, Filed, Unregistered, Marked, InHand, Begun, Replaced
<1>14. FinishedIsOver'
  <2> SUFFICES ASSUME NEW ty \in Types, NEW n \in 1..Len(finished'[ty])
               PROVE  request[finished'[ty][n]].pc = "none"
    BY <1>6, <1>7 DEF FinishedIsOver
  <2>1. CASE finished'[ty] = finished[ty]
    BY <2>1 DEF TInv, FinishedIsOver
  <2>2. ASSUME NEW x \in StaleOf(ty), finished'[ty] = Append(finished[ty], x)
        PROVE  request[finished'[ty][n]].pc = "none"
    <3>1. finished[ty] \in Seq(Jobs)
      BY DEF TInv, Filed
    <3>2. \/ finished'[ty][n] = x
          \/ n \in 1..Len(finished[ty]) /\ finished'[ty][n] = finished[ty][n]
      BY <2>2, <3>1, AppendedOrBefore
    <3> QED BY <1>9, <3>2 DEF TInv, FinishedIsOver
  <2> QED BY <1>11, <2>1, <2>2
<1>15. TableIsLastImport'
  <2> SUFFICES ASSUME NEW ty \in Types, finished'[ty] # << >>,
                      Done(ty)' \in With({"SUCCEEDED"})' \ cancelled
               PROVE  table[ty] = Done(ty)'
    BY <1>7 DEF TableIsLastImport, Done
  <2>1. CASE StaleOf(ty) = {} /\ finished'[ty] = finished[ty]
    <3>1. Active(ty) = {}
      BY <2>1 DEF StaleOf, Stale, Active
    <3>2. Done(ty) = Done(ty)' /\ Done(ty) \in With({"SUCCEEDED"}) \ cancelled
      BY <1>6, <2>1 DEF Done
    <3> QED BY <2>1, <3>1, <3>2 DEF TInv, TableIsLastImport, Done
  <2>2. ASSUME NEW x \in StaleOf(ty), finished'[ty] = Append(finished[ty], x)
        PROVE  FALSE
    <3>1. finished[ty] \in Seq(Jobs)
      BY DEF TInv, Filed
    <3>2. Done(ty)' = x
      BY <2>2, <3>1 DEF Done
    <3> QED BY <1>6, <3>2 DEF StaleOf
  <2> QED BY <1>11, <2>1, <2>2
<1> QED BY <1>13, <1>14, <1>15 DEF TInv

\* Rows are only removed when none is active; they are not those of tasks.
LEMMA TablesWhenCleaned ==
    ASSUME TInv, IInv', cleanup_finished_jobs
    PROVE  TInv'
<1>1. DOMAIN row' \subseteq DOMAIN row /\ \A j \in DOMAIN row' : row'[j] = row[j]
  BY DEF cleanup_finished_jobs
<1>2. /\ UNCHANGED <<table, finished, request, cancelled, task>>
      /\ server = "marking" /\ server' = "up"
  BY DEF cleanup_finished_jobs
<1>3. With(Interrupted) = {} /\ With(Interrupted)' = {}
  BY <1>1, <1>2 DEF TInv, Marked, With
<1>4. With({"SUCCEEDED"})' \subseteq With({"SUCCEEDED"})
  BY <1>1 DEF With
<1>5. \A j \in Jobs : task[j] \notin Begun
  BY <1>2 DEF TInv, IInv, QuietWhenDown, Alive, Begun
<1>6. Filed' /\ Unregistered' /\ Marked' /\ InHand' /\ Replaced' /\ FinishedIsOver'
  BY <1>1, <1>2, <1>3, <1>5
     DEF TInv, Filed, Unregistered, Marked, InHand, Begun, Replaced, FinishedIsOver
<1>7. TableIsLastImport'
  BY <1>2, <1>3, <1>4 DEF TInv, TableIsLastImport, Active
<1> QED BY <1>6, <1>7 DEF TInv

\* The passing of time changes the status and the type of no job.
LEMMA TablesWhenExpired ==
    ASSUME TInv, IInv', NEW j \in Jobs, Expire(j)
    PROVE  TInv'
<1>1. j \in DOMAIN row /\ IsRow(row[j])
  BY DEF Expire, With, TInv, IInv, Shapes
<1>2. DOMAIN row' = DOMAIN row /\ \A i \in DOMAIN row \ {j} : row'[i] = row[i]
  BY DEF Expire
<1>3. row'[j].type = row[j].type /\ row'[j].status = row[j].status
  BY <1>1 DEF Expire, IsRow
<1>4. \A S : With(S)' = With(S)
  BY <1>1, <1>2, <1>3 DEF With
<1>5. \A t : Active(t)' = Active(t)
  BY <1>1, <1>2, <1>3, <1>4 DEF Active, With
<1>6. UNCHANGED <<table, finished, request, cancelled, task, server>>
  BY DEF Expire
<1>7. Filed' /\ Unregistered' /\ Marked' /\ InHand' /\ Replaced' /\ FinishedIsOver'
  BY <1>1, <1>2, <1>3, <1>4, <1>6
     DEF TInv, Filed, Unregistered, Marked, InHand, Begun, Replaced, FinishedIsOver
<1>8. TableIsLastImport'
  BY <1>4, <1>5, <1>6 DEF TInv, TableIsLastImport
<1> QED BY <1>7, <1>8 DEF TInv

\* The stronger invariant is inductive.
LEMMA TablesInductive == TInv /\ [Next]_vars => TInv'
<1> SUFFICES ASSUME TInv, [Next]_vars PROVE TInv'
  OBVIOUS
<1>1. IInv'
  BY Inductive DEF TInv
<1>2. ASSUME NEW j \in Jobs, request' = [request EXCEPT ![j] = NoRequest]
      PROVE  \A i \in Jobs : request'[i].pc # "none" => request[i].pc # "none"
  BY <1>2 DEF TInv, IInv, Shapes, NoRequest
<1>3. ASSUME NEW j \in Jobs, NEW ty \in Types, save_upload(j, ty) PROVE TInv'
  <2>1. \A i \in Jobs : request'[i].pc # "none" => request[i].pc # "none"
    BY <1>3 DEF save_upload, TInv, IInv, Shapes
  <2> QED BY <1>1, <1>3, <2>1, TablesAside DEF save_upload
<1>4. ASSUME NEW j \in Jobs, CheckActive(j) PROVE TInv'
  <2>1. \A i \in Jobs : request'[i].pc # "none" => request[i].pc # "none"
    <3>1. CASE Refuse(j)
      BY <1>2, <3>1 DEF Refuse
    <3>2. CASE request' = [request EXCEPT ![j].pc = "checked"]
      BY <1>4, <3>2 DEF CheckActive, TInv, IInv, Shapes
    <3> QED BY <1>4, <3>1, <3>2 DEF CheckActive
  <2> QED BY <1>1, <1>4, <2>1, TablesAside DEF CheckActive, Refuse
<1>5. ASSUME NEW j \in Jobs, RegisterJob(j) PROVE TInv'
  BY <1>1, <1>5, TablesWhenRegistered DEF RegisterJob
<1>6. ASSUME NEW j \in Jobs, RegisterFails(j) PROVE TInv'
  <2>1. CASE UNCHANGED <<row, task>>
    BY <1>1, <1>2, <1>6, <2>1, TablesAside DEF RegisterFails
  <2>2. CASE row' = Registered(j) /\ task' = [task EXCEPT ![j] = "lost"]
    BY <1>1, <1>6, <2>2, TablesWhenRegistered DEF RegisterFails
  <2> QED BY <1>6, <2>1, <2>2 DEF RegisterFails
<1>7. ASSUME NEW j \in Jobs, ProcessorFails(j) \/ RemoveUpload(j) \/ TransactionFails(j)
      PROVE  TInv'
  <2>1. PICK to \in {"raised", "none", "lost"} :
           /\ task' = [task EXCEPT ![j] = to]
           /\ to \in Begun => task[j] \in Begun
    BY <1>7 DEF ProcessorFails, RemoveUpload, TransactionFails, Begun
  <2>2. \A i \in Jobs : /\ task'[i] \in Begun => task[i] \in Begun
                        /\ task'[i] = "returned" => task[i] = "returned"
    BY <2>1 DEF TInv, IInv, Shapes, Begun
  <2>3. UNCHANGED <<row, table, finished, request, cancelled, server>>
    BY <1>7 DEF ProcessorFails, RemoveUpload, TransactionFails
  <2> QED BY <1>1, <2>2, <2>3, TablesAside
<1>8. ASSUME NEW j \in Jobs, JobStep(j) PROVE TInv'
  BY <1>1, <1>7, <1>8, TablesWhenStarted, TablesWhenReplaced, TablesWhenFinished DEF JobStep
<1>9. ASSUME NEW j \in Jobs, Expire(j) PROVE TInv'
  BY <1>1, <1>9, TablesWhenExpired
<1>10. ASSUME request' = Ended
       PROVE  \A i \in Jobs : request'[i].pc # "none" => request[i].pc # "none"
  BY <1>10 DEF Ended, NoRequest
<1>11. CASE Crash
  BY <1>1, <1>10, <1>11, TablesAside DEF Crash, Begun
<1>12. CASE Stop
  <2>1. \A i \in Jobs : task'[i] \in Begun => task[i] \in Begun
    BY <1>12 DEF Stop, Begun
  <2>2. \A i \in Jobs : task'[i] = "returned" /\ i \notin cancelled' => task[i] = "returned"
    BY <1>12 DEF Stop
  <2> QED BY <1>1, <1>12, <2>1, <2>2, TablesAside DEF Stop
<1>13. CASE Exit
  BY <1>1, <1>13, TablesAside DEF Exit
<1>14. ASSUME NEW j \in Jobs, UnlinkUpload(j) PROVE TInv'
  BY <1>1, <1>14, TablesAside DEF UnlinkUpload
<1>15. CASE ServerStep
  BY <1>1, <1>13, <1>14, <1>15, TablesWhenMarked, TablesWhenCleaned DEF ServerStep
<1>16. CASE UNCHANGED vars
  BY <1>1, <1>16, TablesAside DEF vars
<1> QED BY <1>3, <1>4, <1>5, <1>6, <1>7, <1>8, <1>9, <1>11, <1>12, <1>15, <1>16
        DEF Next, RequestStep

\* Whenever the last import of a type to end reports success and was not cancelled, and
\* none is in progress, the table holds what that import brought, wherever requests,
\* tasks, failed transactions and stops of the server come in between.
THEOREM TableHoldsLastImport == Spec => []TableIsLastImport
<1>1. Spec => []TInv
  BY TablesInitially, TablesInductive, PTL DEF Spec
<1>2. TInv => TableIsLastImport
  BY DEF TInv
<1> QED BY <1>1, <1>2, PTL
=============================================================================
