--------------------------- MODULE PurchasePlans ---------------------------
(***************************************************************************)
(* Purchase plans and purchase records: the plans users create, edit and   *)
(* delete, the records they are moved to and restored from, the numbers    *)
(* that name them, and the nightly job that deletes the plans a record     *)
(* already carries.                                                        *)
(*                                                                         *)
(* A request is one database transaction (get_db) under MySQL's default    *)
(* REPEATABLE READ.  Begin fixes its snapshot (the SELECT of the login     *)
(* check); its second step reads, validates and commits.  In that step a   *)
(* plain SELECT reads the snapshot, a locking SELECT of rows the session   *)
(* has not loaded reads the committed rows, and rows stay locked until the *)
(* commit, so the step is atomic.  A flush writes only changed columns; an *)
(* UPDATE of a row that is gone rolls the request back.  Any request may   *)
(* also fail: refused input, a version conflict, the victim of a deadlock. *)
(***************************************************************************)
EXTENDS Integers, FiniteSets, FiniteSetsExt, Functions

CONSTANTS
    Requests,     \* requests in progress at the same time
    Days,         \* plan dates
    DailyLimit,   \* plan numbers of one day (999)
    BatchSize,    \* plans one round of the nightly job deletes (50)
    MaxNeeds,     \* bound: needs the clients enter
    MaxRequests   \* bound: requests the clients send

ASSUME MaxNeedsAssumption == MaxNeeds \in Nat

VARIABLES
    db,        \* the committed tables: plans, lines and headers of records
    last,      \* the AUTO_INCREMENT counter of each table
    entered,   \* ghost: how many needs clients have entered
    deleted,   \* ghost: the needs a client deleted while they were plans
    snap,      \* per request: its snapshot of db, or Idle
    started    \* how many requests clients have sent

vars == <<db, last, entered, deleted, snap, started>>

Needs == 1..MaxNeeds
Idle == [idle |-> TRUE]
NoPlan == 0
NoDate == 0

\* A plan number is the plan's day and a sequence number; need is a ghost.
Plan(need, no, date, version) == [need |-> need, no |-> no, date |-> date, version |-> version]

\* The line a moved plan becomes: everything of the plan is copied.
Line(d, i, header) ==
    [need |-> d.plans[i].need, plan |-> i, no |-> d.plans[i].no, date |-> d.plans[i].date,
     header |-> header]

\* A table with new rows inserted.
WithRows(rows, new) ==
    [i \in DOMAIN rows \cup DOMAIN new |-> IF i \in DOMAIN new THEN new[i] ELSE rows[i]]

PlanNos(d) == {d.plans[i].no : i \in DOMAIN d.plans}
LineNos(d) == {d.lines[l].no : l \in DOMAIN d.lines}
LinesOfPlan(d, i) == {l \in DOMAIN d.lines : d.lines[l].plan = i}
LinesOfHeader(d, h) == {l \in DOMAIN d.lines : d.lines[l].header = h}

\* A faulty numbering that does not look at the numbers records still carry.
NextIndexOfPlans(d, day) == Max({no[2] : no \in {n \in PlanNos(d) : n[1] = day}} \cup {0}) + 1

\* MAX + 1 over the plans and the records of the day, by locking reads.
NextIndex(d, day) ==
    Max({no[2] : no \in {n \in PlanNos(d) \cup LineNos(d) : n[1] = day}} \cup {0}) + 1

\* The rows of a table renumbered to a new day, in the order f of the request.
Renumbered(rows, day, f) ==
    [i \in DOMAIN rows |->
        IF i \in DOMAIN f THEN [rows[i] EXCEPT !.no = <<day, f[i]>>, !.date = day] ELSE rows[i]]

\* The orders in which one request can number a set of rows of day.
Numberings(d, day, rows) ==
    LET first == NextIndex(d, day)
        past == first + Cardinality(rows) - 1
    IN  IF past > DailyLimit THEN {} ELSE Bijection(rows, first..past)

\* The database deletes plans; ON DELETE SET NULL unlinks the lines that refer to them.
WithoutPlans(d, gone) ==
    [d EXCEPT !.plans = Restrict(@, DOMAIN @ \ gone),
              !.lines = [l \in DOMAIN @ |->
                            IF @[l].plan \in gone THEN [@[l] EXCEPT !.plan = NoPlan] ELSE @[l]]]

WithoutLines(d, gone) == [d EXCEPT !.lines = Restrict(@, DOMAIN @ \ gone)]

EmptyTables == [plans |-> <<>>, lines |-> <<>>, headers |-> {}]

\* The rows a request can name: at least one, each once.
Chosen(rows) == (SUBSET rows) \ {{}}

\* The date a batch edit gives its plans, if it gives one.
BatchDates == Days \cup {NoDate}

Init ==
    /\ db = EmptyTables
    /\ last = [plan |-> 0, line |-> 0, header |-> 0]
    /\ entered = 0
    /\ deleted = {}
    /\ snap = [r \in Requests |-> Idle]
    /\ started = 0

-----------------------------------------------------------------------------
(* Requests.  Clients name rows, and the versions they send, from what they *)
(* have seen, at the latest when the request begins.                        *)

Begin(r) ==
    /\ snap[r] = Idle
    /\ started < MaxRequests
    /\ started' = started + 1
    /\ snap' = [snap EXCEPT ![r] = db]
    /\ UNCHANGED <<db, last, entered, deleted>>

Close(r) == snap' = [snap EXCEPT ![r] = Idle] /\ UNCHANGED started

\* The request is refused or rolled back.
Fail(r) ==
    /\ snap[r] # Idle
    /\ Close(r)
    /\ UNCHANGED <<db, last, entered, deleted>>

InsertPlan(need, no, date) ==
    /\ last' = [last EXCEPT !.plan = @ + 1]
    /\ db' = [db EXCEPT !.plans = WithRows(@, [i \in {last.plan + 1} |-> Plan(need, no, date, 1)])]

\* A new plan with the next number of its day.
EnterNeed(r, day) ==
    /\ entered < MaxNeeds
    /\ NextIndex(db, day) <= DailyLimit
    /\ InsertPlan(entered + 1, <<day, NextIndex(db, day)>>, day)
    /\ entered' = entered + 1
    /\ UNCHANGED deleted

create_purchase_material(r) == \E day \in Days : EnterNeed(r, day)

\* A template's plan: the plan is dated today, whatever the template says.
generate_purchase_plan(r) == \E today \in Days : EnterNeed(r, today)

\* The plan is loaded without a lock: the day and the version compared and
\* counted on are the snapshot's, the number is the current next one.
update_purchase_material(r) ==
    \E i \in DOMAIN snap[r].plans \cap DOMAIN db.plans, day \in Days :
        LET seen == snap[r].plans[i]
            counted == [db.plans EXCEPT ![i].version = seen.version + 1]
        IN  /\ \/ day = seen.date /\ db' = [db EXCEPT !.plans = counted]
               \/ /\ day # seen.date
                  /\ \E f \in Numberings(db, day, {i}) :
                        db' = [db EXCEPT !.plans = Renumbered(counted, day, f)]
            /\ UNCHANGED <<last, entered, deleted>>

\* Linking a stock material writes the link and the version only.
link_stock_material(r) ==
    \E i \in DOMAIN snap[r].plans \cap DOMAIN db.plans :
        /\ db' = [db EXCEPT !.plans[i].version = snap[r].plans[i].version + 1]
        /\ UNCHANGED <<last, entered, deleted>>

\* All plans are locked first, so the versions compared are the current ones.
batch_update_purchase_materials(r) ==
    \E is \in Chosen(DOMAIN snap[r].plans \cap DOMAIN db.plans), day \in BatchDates :
        LET moving == IF day = NoDate THEN {} ELSE {i \in is : db.plans[i].date # day}
            counted == [i \in DOMAIN db.plans |->
                           IF i \in is THEN [db.plans[i] EXCEPT !.version = @ + 1] ELSE db.plans[i]]
        IN  /\ \A i \in is : db.plans[i].version = snap[r].plans[i].version
            /\ \E f \in Numberings(db, day, moving) :
                  db' = [db EXCEPT !.plans = Renumbered(counted, day, f)]
            /\ UNCHANGED <<last, entered, deleted>>

\* Version and references are checked without a lock: a plan moved to a record
\* after the snapshot is deleted too, and its line is unlinked.
delete_purchase_material(r) ==
    \E i \in DOMAIN snap[r].plans \cap DOMAIN db.plans :
        /\ LinesOfPlan(snap[r], i) = {}
        /\ db' = WithoutPlans(db, {i})
        /\ deleted' = deleted \cup (IF LinesOfPlan(db, i) = {} THEN {db.plans[i].need} ELSE {})
        /\ UNCHANGED <<last, entered>>

\* A faulty check for lines that is made without a lock, in the snapshot.
UnmovedWhenSeen(r, is) == \A i \in is : LinesOfPlan(snap[r], i) = {}

\* No plan of the request is on a record yet, by a locking read.
Unmoved(r, is) == \A i \in is : LinesOfPlan(db, i) = {}

\* Plans without a material code are refused (Fail); the rest become the
\* lines of one new record.
move_plans_to_record(r) ==
    \E is \in Chosen(DOMAIN snap[r].plans \cap DOMAIN db.plans) :
        /\ Unmoved(r, is)
        /\ \E f \in Bijection(is, last.line + 1 .. last.line + Cardinality(is)) :
              /\ \A i, j \in is : i < j => f[i] < f[j]
              /\ db' = [db EXCEPT !.headers = @ \cup {last.header + 1},
                                  !.lines = WithRows(@, [l \in Range(f) |->
                                      Line(db, CHOOSE i \in is : f[i] = l, last.header + 1)])]
        /\ last' = [last EXCEPT !.line = @ + Cardinality(is), !.header = @ + 1]
        /\ UNCHANGED <<entered, deleted>>

\* An edit of one record stores the given date and keeps the number.
update_purchase_record(r) ==
    \E l \in DOMAIN snap[r].lines \cap DOMAIN db.lines, day \in Days :
        /\ db' = [db EXCEPT !.lines[l].date = day]
        /\ UNCHANGED <<last, entered, deleted>>

\* A batch edit of records gives every line that changes its date a new number.
batch_update_purchase_records(r) ==
    \E ls \in Chosen(DOMAIN snap[r].lines \cap DOMAIN db.lines), day \in Days :
        LET moving == {l \in ls : db.lines[l].date # day}
        IN  /\ \E f \in Numberings(db, day, moving) :
                  db' = [db EXCEPT !.lines = Renumbered(@, day, f)]
            /\ UNCHANGED <<last, entered, deleted>>

\* The record without line l; whether l is its last line is read in the snapshot.
LeaveRecord(r, l) ==
    LET h == db.lines[l].header
    IN  IF LinesOfHeader(snap[r], h) = {l}
        THEN [WithoutLines(db, LinesOfHeader(db, h)) EXCEPT !.headers = @ \ {h}]
        ELSE WithoutLines(db, {l})

\* Line and header are locked.  A plan that still exists becomes normal again,
\* as it is; a plan already cleaned is rebuilt from the line under its number.
restore_purchase_record_to_plan(r) ==
    \E l \in DOMAIN snap[r].lines \cap DOMAIN db.lines :
        LET line == db.lines[l]
            left == LeaveRecord(r, l)
        IN  /\ IF line.plan \in DOMAIN snap[r].plans
               THEN /\ line.plan \in DOMAIN db.plans
                    /\ db' = [left EXCEPT !.plans[line.plan].version =
                                              snap[r].plans[line.plan].version + 1]
                    /\ UNCHANGED last
               ELSE /\ line.no \notin PlanNos(db)
                    /\ last' = [last EXCEPT !.plan = @ + 1]
                    /\ db' = [left EXCEPT !.plans = WithRows(@,
                                 [i \in {last.plan + 1} |-> Plan(line.need, line.no, line.date, 1)])]
            /\ UNCHANGED <<entered, deleted>>

Commit(r) ==
    /\ snap[r] # Idle
    /\ Close(r)
    /\ \/ create_purchase_material(r)
       \/ generate_purchase_plan(r)
       \/ update_purchase_material(r)
       \/ link_stock_material(r)
       \/ batch_update_purchase_materials(r)
       \/ delete_purchase_material(r)
       \/ move_plans_to_record(r)
       \/ update_purchase_record(r)
       \/ batch_update_purchase_records(r)
       \/ restore_purchase_record_to_plan(r)

-----------------------------------------------------------------------------
(* The nightly job.                                                         *)

\* Faulty choices of the plans to clean: every plan; those whose number is on a record.
AllCandidates == DOMAIN db.plans
CandidatesByNumber == {i \in DOMAIN db.plans : db.plans[i].no \in LineNos(db)}

\* Plans a record carries; SKIP LOCKED passes over those a request has locked.
Candidates == {i \in DOMAIN db.plans : LinesOfPlan(db, i) # {}}

cleanup_moved_plans_once ==
    \E skipped \in SUBSET Candidates :
        LET free == Candidates \ skipped
            batch == {i \in free : Cardinality({j \in free : j < i}) < BatchSize}
        IN  /\ skipped # {} => \E r \in Requests : snap[r] # Idle
            /\ batch # {}
            /\ db' = WithoutPlans(db, batch)
            /\ UNCHANGED <<last, entered, deleted, snap, started>>

Next ==
    \/ \E r \in Requests : Begin(r) \/ Commit(r) \/ Fail(r)
    \/ cleanup_moved_plans_once

Spec == Init /\ [][Next]_vars

\* Requests end (commit or roll back) and the job runs every night.
Fairness ==
    /\ \A r \in Requests : WF_vars(Fail(r) \/ Commit(r))
    /\ WF_vars(cleanup_moved_plans_once)

FairSpec == Spec /\ Fairness

-----------------------------------------------------------------------------
(* Properties.                                                              *)

\* Where a need is: on a record once it has a line, whether its plan is still
\* there or already cleaned.
Place(n) ==
    IF n > entered THEN "none"
    ELSE IF n \in deleted THEN "deleted"
    ELSE IF \E l \in DOMAIN db.lines : db.lines[l].need = n THEN "record"
    ELSE IF \E i \in DOMAIN db.plans : db.plans[i].need = n THEN "plan"
    ELSE "lost"

\* A need is never doubled: it has at most one plan and at most one record
\* line, and when it has both, the line refers to that plan.  Moving one plan
\* twice, or rebuilding a plan that still exists, would order it twice.
EachNeedOnce ==
    /\ \A i, j \in DOMAIN db.plans : db.plans[i].need = db.plans[j].need => i = j
    /\ \A l, k \in DOMAIN db.lines : db.lines[l].need = db.lines[k].need => l = k
    /\ \A l \in DOMAIN db.lines, i \in DOMAIN db.plans :
          db.lines[l].need = db.plans[i].need => db.lines[l].plan = i

\* A plan number names one need: no plan and no record line, of any day, carries
\* the number of another need, also when the plan it was given to is gone.
PlanNoIdentifiesNeed ==
    LET rows == Range(db.plans) \cup Range(db.lines)
    IN  \A a, b \in rows : a.no = b.no => a.need = b.need

\* Seen need by need, every step is one the life of a need allows: nothing the
\* nightly job or overlapping requests do loses a need or brings one back.
Lifecycle == INSTANCE NeedLifecycle WITH place <- [n \in Needs |-> Place(n)]
NeedsLive == Lifecycle!Spec

OnRecordAndInList(n) ==
    /\ \E i \in DOMAIN db.plans : db.plans[i].need = n
    /\ \E l \in DOMAIN db.lines : db.lines[l].need = n

\* A plan that is on a record does not stay in the plan list for ever: the
\* nightly job deletes it, or a user takes it back from the record.
MovedPlansLeave ==
    \A n \in Needs : OnRecordAndInList(n) ~> ~OnRecordAndInList(n)
=============================================================================
