---------------------------- MODULE InventoryTxn ----------------------------
(***************************************************************************)
(* The inventory requests as the server really runs them: concurrent       *)
(* database transactions (get_db opens one per request) that read, lock    *)
(* rows with SELECT ... FOR UPDATE, compute in memory and write back.      *)
(*                                                                         *)
(* Three kinds of read matter and they differ:                             *)
(*   - a locking read waits for the row and returns its committed value;   *)
(*   - a plain SELECT returns the transaction's view: under MySQL's        *)
(*     default REPEATABLE READ the snapshot fixed by the first SELECT of   *)
(*     the request (the login check), under READ COMMITTED the committed   *)
(*     rows at that moment;                                                *)
(*   - an object the ORM session already holds is not read again: a later  *)
(*     SELECT, locking or not, returns the object with the values it was   *)
(*     first loaded with, and a flush writes only the columns whose value  *)
(*     differs from the loaded one.                                        *)
(* Isolation is a parameter because the code leaves it to the server.      *)
(***************************************************************************)
EXTENDS LedgerOps, Sequences

CONSTANTS
    Procs,        \* requests in progress at the same time
    Materials,    \* the stock materials, numbered: rows are locked in this order
    RequestIds, Quantities, Times,
    Kinds,        \* kinds of request the clients of this instance send
    Isolation,    \* "REPEATABLE READ" or "READ COMMITTED"
    MaxEdits      \* bound: no edit is requested once the ledger has seen so many

ASSUME MaterialsAssumption == Materials \subseteq Nat /\ IsFiniteSet(Materials)
ASSUME QuantitiesAssumption == Quantities \subseteq Nat \ {0}
ASSUME KindsAssumption == Kinds \subseteq {"CREATE", "MINI", "REVERSE", "UPDATE"}
ASSUME IsolationAssumption == Isolation \in {"REPEATABLE READ", "READ COMMITTED"}

VARIABLES
    ops, balance, balanceVersion, log, events,  \* the committed tables
    txn                                         \* the requests in progress

tables == <<ops, balance, balanceVersion, log, events>>
vars == <<tables, txn>>

RequestLines == UNION {[ms -> Quantities] : ms \in (SUBSET Materials) \ {{}}}

\* Every edit adds one to the version of its operation.
EditCount == MapThenSumSet(LAMBDA i : ops[i].version - 1, DOMAIN ops)

\* Clients name an operation, and the version they saw, from what is committed.
Requests ==
    [kind : Kinds \cap {"CREATE"}, request : RequestIds, type : OperationTypes,
     at : Times, qs : RequestLines, target : {NoOperation}, version : {0}]
    \cup
    [kind : Kinds \cap {"MINI"}, request : RequestIds, type : {OUTBOUND},
     at : Times, qs : {qs \in RequestLines : Cardinality(DOMAIN qs) = 1},
     target : {NoOperation}, version : {0}]
    \cup
    [kind : Kinds \cap {"REVERSE"}, request : RequestIds, type : {OUTBOUND},
     at : Times, qs : RequestLines, target : DOMAIN ops, version : {0}]
    \cup
    {r \in [kind : Kinds \cap {"UPDATE"}, request : {NoOperation}, type : OperationTypes,
            at : Times, qs : RequestLines, target : DOMAIN ops, version : 1..MaxEdits] :
       r.version = ops[r.target].version /\ EditCount < MaxEdits}

OpRow(i) == <<"stock_operation", i>>
BalanceRow(m) == <<"stock_balance", m>>
MaterialRow(m) == <<"stock_material", m>>

\* The gap of the client_request_id index that the new ids of this instance may share.
RequestGap == <<"client_request_id gap", 0>>

Idle == [pc |-> "idle"]
Active(p) == txn[p].pc # "idle"

\* What a plain SELECT of transaction t returns.
Committed == [ops |-> ops, balance |-> balance, balanceVersion |-> balanceVersion]
View(t) == IF Isolation = "REPEATABLE READ" THEN t.snapshot ELSE Committed

RequestsIn(os) == {os[i].request : i \in DOMAIN os}

BalanceIn(v, m) == [quantity |-> v.balance[m], version |-> v.balanceVersion[m]]

(***************************************************************************)
(* Row locks.  _lock_and_validate_materials locks the balances in          *)
(* ascending order, then the materials in ascending order; the locks are   *)
(* kept to the end of the transaction.                                     *)
(***************************************************************************)
Unlocked(t, Row(_)) == {m \in t.affected : Row(m) \notin t.held}

\* Faulty variant: the rows are locked in the order the request lists them.
NextRowAsListed(t) ==
    LET balances == Unlocked(t, BalanceRow)
    IN  IF balances # {}
        THEN BalanceRow(IF t.req.type = OUTBOUND THEN Max(balances) ELSE Min(balances))
        ELSE MaterialRow(Min(Unlocked(t, MaterialRow)))

NextRow(t) ==
    IF Unlocked(t, BalanceRow) # {} THEN BalanceRow(Min(Unlocked(t, BalanceRow)))
                                    ELSE MaterialRow(Min(Unlocked(t, MaterialRow)))

AllLocked(t) == Unlocked(t, BalanceRow) = {} /\ Unlocked(t, MaterialRow) = {}

\* The row a transaction waits for, none when it can go on by itself.
Wanted(t) ==
    CASE t.pc = "lock operation" -> {OpRow(t.req.target)}
      [] t.pc = "lock material"  -> {MaterialRow(m) : m \in DOMAIN t.req.qs}
      [] t.pc = "lock balances"  -> {NextRow(t)}
      [] t.pc = "recheck"        -> {OpRow(i) : i \in {j \in DOMAIN ops :
                                                         ops[j].request = t.req.request}}
      [] t.pc = "write"          -> t.held \cap {RequestGap}
      [] OTHER                   -> {}

WaitsFor(p, q) ==
    /\ p # q /\ Active(p) /\ Active(q)
    /\ Wanted(txn[p]) \cap txn[q].held # {}

CanGoOn(p) == \A q \in Procs : ~WaitsFor(p, q)

\* Faulty variants: the rows, or the operation, are read without FOR UPDATE.
RowAtOnce(p) == TRUE
OperationAtOnce(p) == TRUE

\* The balances and materials, and the operation to be changed, are selected FOR UPDATE.
RowGranted(p) == CanGoOn(p)

OperationGranted(p) == CanGoOn(p)

Grant(t) == [t EXCEPT !.held = @ \cup Wanted(t)]

-----------------------------------------------------------------------------
Init ==
    /\ ops = << >>
    /\ balance = [m \in Materials |-> 0]
    /\ balanceVersion = [m \in Materials |-> 1]
    /\ log = << >>
    /\ events = {}
    /\ txn = [p \in Procs |-> Idle]

(***************************************************************************)
(* A request arrives.  The login check is its first SELECT and fixes the   *)
(* snapshot.  A web creation goes straight to create_operation, whose      *)
(* plain SELECT by client_request_id answers a repeated request at once.   *)
(***************************************************************************)
Begin(p, req) ==
    /\ ~Active(p)
    /\ req.kind = "CREATE" => req.request \notin RequestsIn(ops)
    /\ txn' = [txn EXCEPT ![p] =
         [pc |-> CASE req.kind = "CREATE" -> "lock balances"
                   [] req.kind = "MINI" -> "lock material"
                   [] OTHER -> "lock operation",
          req |-> req, held |-> {},
          snapshot |-> IF Isolation = "REPEATABLE READ" THEN Committed ELSE << >>,
          affected |-> IF req.kind = "UPDATE" THEN {} ELSE DOMAIN req.qs,
          operation |-> << >>, balances |-> << >>]]
    /\ UNCHANGED tables

\* Faulty variant: get_db neither rolls back nor closes the session of a failed request.
FinishLeftOpen(p) == txn' = [txn EXCEPT ![p].pc = "left open"] /\ UNCHANGED tables

\* An error (rolled back) or an answer that wrote nothing: the locks are released.
Finish(p) == txn' = [txn EXCEPT ![p] = Idle] /\ UNCHANGED tables

\* validate_version: the edit was made on an older version of the operation.
Stale(req) == req.kind = "UPDATE" /\ req.version # ops[req.target].version

(***************************************************************************)
(* get_operation(for_update): the operation row is read under its lock,    *)
(* but its lines, their materials and the balances of those come by the    *)
(* relationships' own plain SELECTs.  update_operation then compares       *)
(* versions; reverse_operation looks for the client_request_id.            *)
(***************************************************************************)
LockOperation(p) ==
    LET t == txn[p]
        v == View(t)
        lines == v.ops[t.req.target].lines
    IN  /\ t.pc = "lock operation"
        /\ OperationGranted(p)
        /\ IF \/ Stale(t.req)
              \/ t.req.kind = "REVERSE" /\ t.req.request \in RequestsIn(v.ops)
           THEN Finish(p)
           ELSE /\ txn' = [txn EXCEPT ![p] =
                     [Grant(t) EXCEPT
                        !.pc = "lock balances",
                        !.operation = [ops[t.req.target] EXCEPT !.lines = lines],
                        !.balances = [m \in DOMAIN lines |-> BalanceIn(v, m)],
                        !.affected = IF t.req.kind = "UPDATE"
                                     THEN DOMAIN lines \cup DOMAIN t.req.qs ELSE @]]
                /\ UNCHANGED tables

\* create_outbound of the mini-program locks the material before anything else and
\* gets its balance along by a plain SELECT.
LockMaterial(p) ==
    LET t == txn[p]
        v == View(t)
    IN  /\ t.pc = "lock material"
        /\ CanGoOn(p)
        /\ IF t.req.request \in RequestsIn(v.ops)
           THEN Finish(p)
           ELSE /\ txn' = [txn EXCEPT ![p] =
                     [Grant(t) EXCEPT
                        !.pc = "lock balances",
                        !.balances = [m \in DOMAIN t.req.qs |-> BalanceIn(v, m)]]]
                /\ UNCHANGED tables

\* One row of _lock_and_validate_materials.  A balance the session has not loaded
\* yet is loaded with its committed value; one it holds keeps the loaded value.
LockRow(p) ==
    LET t == txn[p]
        granted == Grant(t)
        m == NextRow(t)[2]
    IN  /\ t.pc = "lock balances"
        /\ RowGranted(p)
        /\ txn' = [txn EXCEPT ![p] =
             [granted EXCEPT
                !.pc = IF ~AllLocked(granted) THEN @
                       ELSE IF t.req.kind = "UPDATE" THEN "write" ELSE "recheck",
                !.balances = [n \in DOMAIN @ \cup {m} |->
                                IF n \in DOMAIN @ THEN @[n] ELSE BalanceIn(Committed, n)]]]
        /\ UNCHANGED tables

\* The second look for the client_request_id is a locking read: it sees what
\* committed since the snapshot, and waits for the row it finds.
\* If it finds none, InnoDB's REPEATABLE READ locks the gap where the id would be, for
\* everyone who looked there; an insertion then waits until the others have let go.
Recheck(p) ==
    LET t == txn[p]
    IN  /\ t.pc = "recheck"
        /\ CanGoOn(p)
        /\ \/ /\ t.req.request \in RequestsIn(ops)
              /\ Finish(p)
           \/ /\ t.req.request \notin RequestsIn(ops)
              /\ \E gaps \in SUBSET (IF Isolation = "REPEATABLE READ" THEN {RequestGap} ELSE {}) :
                   txn' = [txn EXCEPT ![p].pc = "write", ![p].held = @ \cup gaps]
              /\ UNCHANGED tables

-----------------------------------------------------------------------------
(***************************************************************************)
(* The writes.  "Loaded" is the ledger as the session sees it: the view,   *)
(* with the lines of the target operation as they were loaded.  The        *)
(* request is computed on it by the same operators as in StockLedger.      *)
(***************************************************************************)
Loaded(t) ==
    IF t.req.kind \in {"REVERSE", "UPDATE"}
    THEN [View(t).ops EXCEPT ![t.req.target].lines = t.operation.lines]
    ELSE View(t).ops

NextId == Cardinality(DOMAIN ops) + 1

Computed(t) ==
    LET r == t.req
        os == Loaded(t)
    IN  CASE r.kind \in {"CREATE", "MINI"} ->
               AddOperation(os, NextId,
                   NewOperation(r.type, r.at, MANUAL, r.kind = "MINI", NoOperation,
                                r.request, r.qs))
          [] r.kind = "REVERSE" ->
               AddOperation(TakeReversed(os, r.target, r.qs), NextId,
                   NewOperation(OtherType(t.operation.type),
                                ReversalTime(r.at, t.operation.at),
                                REVERSAL, FALSE, r.target, r.request, r.qs))
          [] r.kind = "UPDATE" ->
               [os EXCEPT ![r.target] =
                   EditedOperation(t.operation, r.type, r.at, t.operation.source, r.qs)]

\* A flush writes the columns of a row that differ from what was loaded.
Flushed(loaded, computed, stored) ==
    [c \in DOMAIN stored |-> IF computed[c] # loaded[c] THEN computed[c] ELSE stored[c]]

FlushedLines(loaded, computed, stored) ==
    LET deleted == DOMAIN loaded \ DOMAIN computed
        inserted == DOMAIN computed \ DOMAIN loaded
    IN  [m \in (DOMAIN stored \ deleted) \cup inserted |->
           IF m \in inserted THEN computed[m]
           ELSE IF m \in DOMAIN loaded THEN Flushed(loaded[m], computed[m], stored[m])
           ELSE stored[m]]

\* The UPDATE of a line that another transaction deleted matches no row: an error.
UpdatesDeletedLine(loaded, computed) ==
    \E i \in DOMAIN loaded : \E m \in DOMAIN loaded[i].lines \cap DOMAIN computed[i].lines :
        m \notin DOMAIN ops[i].lines /\ computed[i].lines[m] # loaded[i].lines[m]

\* reverse_operation's own checks, the UNIQUE key on client_request_id, and a row
\* that is gone: each makes the request fail and roll back.
WriteFails(t, loaded, computed) ==
    \/ t.req.kind = "REVERSE" /\ ~CanReverse(t.operation.lines, t.req.qs)
    \/ t.req.kind # "UPDATE" /\ t.req.request \in RequestsIn(ops)
    \/ UpdatesDeletedLine(loaded, computed)

\* The rest of create_operation or update_operation and the commit of get_db.
WriteAndCommit(p) ==
    LET t == txn[p]
        r == t.req
        loaded == Loaded(t)
        os == Computed(t)
        computed == Replayed(os, t.affected)
        id == IF r.kind = "UPDATE" THEN r.target ELSE NextId
    IN  /\ t.pc = "write"
        /\ CanGoOn(p)
        /\ ~WriteFails(t, loaded, computed)
        /\ ops' = [i \in DOMAIN ops \cup {id} |->
             IF i \notin DOMAIN ops THEN computed[i]
             ELSE IF i \notin DOMAIN loaded THEN ops[i]
             ELSE [(IF r.kind = "UPDATE" /\ i = id THEN computed[i] ELSE ops[i])
                     EXCEPT !.lines = FlushedLines(loaded[i].lines, computed[i].lines,
                                                   ops[i].lines)]]
        /\ balance' = [m \in Materials |->
             IF m \in t.affected /\ Running(os, m) # t.balances[m].quantity
             THEN Running(os, m) ELSE balance[m]]
        /\ balanceVersion' = [m \in Materials |->
             IF m \in t.affected THEN t.balances[m].version + 1 ELSE balanceVersion[m]]
        /\ log' = [i \in DOMAIN log \cup {id} |->
             CASE r.kind = "UPDATE" /\ i = id -> Append(log[i], "UPDATED")
               [] r.kind = "REVERSE" /\ i = id -> <<"REVERSED">>
               [] r.kind \in {"CREATE", "MINI"} /\ i = id -> <<"CREATED">>
               [] OTHER -> log[i]]
        /\ events' = IF r.kind \in {"CREATE", "MINI"} THEN events \cup {<<id, r.type>>}
                                                      ELSE events
        /\ txn' = [txn EXCEPT ![p] = Idle]

RefuseWrite(p) ==
    LET t == txn[p]
    IN  /\ t.pc = "write"
        /\ CanGoOn(p)
        /\ WriteFails(t, Loaded(t), Replayed(Computed(t), t.affected))
        /\ Finish(p)

\* InnoDB rolls one of the transactions of a deadlock back; the handler answers
\* 503 DATABASE_UNAVAILABLE.
InDeadlock(p) ==
    \E S \in SUBSET Procs : p \in S /\ \A q \in S : \E r \in S : WaitsFor(q, r)

DeadlockVictim(p) == InDeadlock(p) /\ Finish(p)

\* The connection or the server dies, or a lock wait times out: rolled back.
Fail(p) == Active(p) /\ Finish(p)

Step(p) ==
    \/ LockOperation(p)
    \/ LockMaterial(p)
    \/ LockRow(p)
    \/ Recheck(p)
    \/ WriteAndCommit(p)
    \/ RefuseWrite(p)

Next ==
    \E p \in Procs :
        \/ \E req \in Requests : Begin(p, req)
        \/ Step(p)
        \/ DeadlockVictim(p)
        \/ Fail(p)

Spec == Init /\ [][Next]_vars

\* InnoDB serves the waiters of a row lock in turn and looks for deadlocks; nothing
\* obliges a request to arrive or to fail.
FairSpec ==
    /\ Spec
    /\ \A p \in Procs : SF_vars(Step(p)) /\ WF_vars(DeadlockVictim(p))

-----------------------------------------------------------------------------
(* Properties *)

\* Whatever requests ran concurrently, the balance of a material is the sum of its
\* committed ledger lines: no inbound and no outbound is lost from it.
BalanceMatchesLedger == \A m \in Materials : balance[m] = Running(ops, m)

\* What was reversed of an unedited line never exceeds its quantity, also when several
\* reversals of it are requested at once.
ReversedWithinQuantity ==
    \A i \in DOMAIN ops : \A m \in DOMAIN ops[i].lines :
        LET reversals == {j \in DOMAIN ops : ops[j].reversalOf = i /\ m \in DOMAIN ops[j].lines}
        IN  ops[i].version = 1 /\ (\A j \in reversals : ops[j].version = 1) =>
              MapThenSumSet(LAMBDA j : ops[j].lines[m].quantity, reversals)
                <= ops[i].lines[m].quantity

\* An edit is applied to the version its client saw: of two edits made from the same
\* version at most one gets through.
NoLostEdit ==
    [][\A i \in DOMAIN ops : log'[i] # log[i] =>
          /\ ops'[i].version = ops[i].version + 1
          /\ \E p \in Procs : /\ Active(p) /\ txn[p].req.kind = "UPDATE"
                              /\ txn[p].req.target = i
                              /\ txn[p].req.version = ops[i].version]_vars

\* The web's creations never deadlock among themselves: in every deadlock the
\* mini-program's outbound has a part.
DeadlockNeedsMini ==
    \A p \in Procs : InDeadlock(p) =>
        \E q \in Procs : InDeadlock(q) /\ txn[q].req.kind = "MINI"

\* A request that got in gets out, with an answer or an error: no lock wait is for ever.
EveryRequestEnds == \A p \in Procs : Active(p) ~> ~Active(p)

\* The requests, interleaved, do to the tables what they would do one after the other.
Serial == INSTANCE StockLedger WITH stock <- Materials, Sources <- {MANUAL}
SerialSpec == Serial!Spec
=============================================================================
