-------------------------- MODULE InventoryTxnProofs --------------------------
(***************************************************************************)
(* What interleaved inventory requests do and do not promise, for any      *)
(* number of requests, materials and clients.                              *)
(*                                                                         *)
(*   EditsNotLost          whatever the isolation and the requests         *)
(*   ReversalsWithin       under READ COMMITTED                            *)
(*   WebNeverDeadlocks     under READ COMMITTED, creations only            *)
(*   CreationsSerialize    under READ COMMITTED, creations only            *)
(*   CreationsLoseNothing  under READ COMMITTED, creations only            *)
(*                                                                         *)
(* The hypotheses are what the model checker found to be needed: under     *)
(* REPEATABLE READ a session computes on its snapshot, and an edit or a    *)
(* reversal reads lines and balances before it has locked them.            *)
(*                                                                         *)
(* LInv, the invariant the rest stands on, says that the tables are well   *)
(* formed, that no row is locked twice and that a transaction which holds  *)
(* an operation has read its version as committed.  QInv accounts for      *)
(* every unedited line, DInv orders the rows a creation holds and wants,   *)
(* SInv says that the balances a creation has read are still the committed *)
(* ones.                                                                   *)
(***************************************************************************)
EXTENDS InventoryTxn, FiniteSetLemmas

-----------------------------------------------------------------------------
(* Shapes, locks and versions, whatever the isolation.                      *)

\* Requests that change an operation that exists.
OnOperation == {"REVERSE", "UPDATE"}

HeadOK(op) ==
    /\ op = [type |-> op.type, at |-> op.at, source |-> op.source, mini |-> op.mini,
             reversalOf |-> op.reversalOf, request |-> op.request,
             version |-> op.version, lines |-> op.lines]
    /\ op.version \in Nat \ {0}

TablesOK ==
    /\ ops = [i \in DOMAIN ops |-> ops[i]]
    /\ IsFiniteSet(DOMAIN ops) /\ DOMAIN ops = 1..Cardinality(DOMAIN ops)
    /\ \A i \in DOMAIN ops : HeadOK(ops[i])
    /\ DOMAIN log = DOMAIN ops

RequestOK(r) ==
    /\ r.kind \in Kinds \cap {"CREATE", "MINI", "REVERSE", "UPDATE"}
    /\ r.type \in OperationTypes /\ r.at \in Times /\ r.qs \in RequestLines
    /\ r.kind = "MINI" => r.type = OUTBOUND /\ Cardinality(DOMAIN r.qs) = 1
    /\ r.kind # "UPDATE" => r.request \in RequestIds
    /\ r.kind \in OnOperation => r.target \in DOMAIN ops

IsTxn(t) ==
    t = [pc |-> t.pc, req |-> t.req, held |-> t.held, snapshot |-> t.snapshot,
         affected |-> t.affected, operation |-> t.operation, balances |-> t.balances]

\* A transaction that holds the row of an operation has read the operation's head as it
\* is, and if it is an edit, at the version its client saw.
TxnOK(t) ==
    /\ IsTxn(t) /\ RequestOK(t.req)
    /\ t.pc \in {"lock operation", "lock material", "lock balances", "recheck", "write"}
    /\ t.pc = "lock operation" => t.req.kind \in OnOperation
    /\ t.pc = "lock material" => t.req.kind = "MINI"
    /\ t.pc = "recheck" => t.req.kind # "UPDATE"
    /\ \A i : OpRow(i) \in t.held => t.req.kind \in OnOperation /\ t.req.target = i
    /\ t.req.kind \in OnOperation => t.req.target \in DOMAIN View(t).ops
    /\ t.req.kind \in OnOperation /\ t.pc # "lock operation" =>
          /\ OpRow(t.req.target) \in t.held
          /\ HeadOK(t.operation)
          /\ t.operation.version = ops[t.req.target].version
          /\ t.operation.reversalOf = ops[t.req.target].reversalOf
          /\ t.req.kind = "UPDATE" => t.req.version = ops[t.req.target].version

\* No row is locked twice.
Exclusive ==
    \A p, q \in Procs : p # q /\ Active(p) /\ Active(q) =>
        txn[p].held \cap txn[q].held \subseteq {RequestGap}

LInv ==
    /\ TablesOK
    /\ txn = [p \in Procs |-> txn[p]]
    /\ \A p \in Procs : txn[p] = Idle \/ TxnOK(txn[p])
    /\ Exclusive

\* The rows of the tables are different rows.
LEMMA RowsDiffer ==
    /\ \A i, j : OpRow(i) = OpRow(j) => i = j
    /\ \A m, n : BalanceRow(m) = BalanceRow(n) => m = n
    /\ \A m, n : MaterialRow(m) = MaterialRow(n) => m = n
    /\ \A m, n : BalanceRow(m) # MaterialRow(n)
    /\ \A i, m : OpRow(i) # BalanceRow(m) /\ OpRow(i) # MaterialRow(m)
    /\ \A i : OpRow(i) # RequestGap /\ BalanceRow(i) # RequestGap /\ MaterialRow(i) # RequestGap
<1>1. \A a, b, c, d : <<a, b>> = <<c, d>> => a = c /\ b = d
  <2> TAKE a, b, c, d
  <2> HAVE <<a, b>> = <<c, d>>
  <2>1. <<a, b>>[1] = <<c, d>>[1] /\ <<a, b>>[2] = <<c, d>>[2]
    OBVIOUS
  <2> QED BY <2>1
<1> QED BY <1>1 DEF OpRow, BalanceRow, MaterialRow, RequestGap

\* A running transaction is not the idle one.
LEMMA IdleOrRunning ==
    ASSUME LInv, NEW p \in Procs
    PROVE  /\ Active(p) => TxnOK(txn[p])
           /\ ~Active(p) => txn[p] = Idle
<1>1. TxnOK(txn[p]) => txn[p].pc # "idle"
  BY DEF TxnOK
<1>2. Idle.pc = "idle"
  BY DEF Idle
<1> QED BY <1>1, <1>2 DEF LInv, Active

\* The id of the next operation is in no use.
LEMMA NextIdIsNew ==
    ASSUME TablesOK
    PROVE  /\ NextId \notin DOMAIN ops /\ NextId \in Nat \ {0}
           /\ DOMAIN ops \cup {NextId} = 1..NextId
<1>1. Cardinality(DOMAIN ops) \in Nat
  BY FS_CardinalityType DEF TablesOK
<1> QED BY <1>1 DEF TablesOK, NextId

-----------------------------------------------------------------------------
(* Steps that write nothing.                                                *)

\* p becomes t while the tables and the others stay.
Becomes(p, t) ==
    /\ txn' = [txn EXCEPT ![p] = t]
    /\ UNCHANGED tables

\* A step that writes nothing needs a look at its own transaction only.
LEMMA BecomesKeepsLInv ==
    ASSUME LInv, NEW p \in Procs, NEW t, Becomes(p, t), t = Idle \/ TxnOK(t),
           t # Idle => \A q \in Procs \ {p} : Active(q) => t.held \cap txn[q].held \subseteq {RequestGap}
    PROVE  LInv'
<1>1. /\ txn' = [q \in Procs |-> txn'[q]] /\ txn'[p] = t
      /\ \A q \in Procs \ {p} : txn'[q] = txn[q]
  BY DEF LInv, Becomes
<1>2. UNCHANGED <<ops, balance, balanceVersion, log, events>>
  BY DEF Becomes, tables
<1>3. TablesOK'
  BY <1>2 DEF LInv, TablesOK
<1>4. \A u : TxnOK(u) => TxnOK(u)'
  BY <1>2 DEF TxnOK, RequestOK, View, Committed
<1>5. \A q \in Procs : (txn[q] = Idle \/ TxnOK(txn[q]))'
  BY <1>1, <1>4 DEF LInv
<1>6. Exclusive'
  <2> SUFFICES ASSUME NEW q \in Procs, NEW r \in Procs, q # r,
                      txn'[q].pc # "idle", txn'[r].pc # "idle"
               PROVE  txn'[q].held \cap txn'[r].held \subseteq {RequestGap}
    BY DEF Exclusive, Active
  <2>1. CASE q # p /\ r # p
    BY <1>1, <2>1 DEF LInv, Exclusive, Active
  <2>2. CASE q = p
    <3>1. t # Idle /\ Active(r)
      BY <1>1, <2>2 DEF Idle, Active
    <3> QED BY <1>1, <2>2, <3>1
  <2>3. CASE r = p
    <3>1. t # Idle /\ Active(q)
      BY <1>1, <2>3 DEF Idle, Active
    <3> QED BY <1>1, <2>3, <3>1
  <2> QED BY <2>1, <2>2, <2>3
<1> QED BY <1>1, <1>3, <1>5, <1>6 DEF LInv

\* An error and an answer that wrote nothing.
LEMMA FinishKeepsLInv ==
    ASSUME LInv, NEW p \in Procs, Finish(p)
    PROVE  LInv'
  BY BecomesKeepsLInv DEF Finish, Becomes

\* A row that was free, and the gap, may be locked.
LEMMA GrantedIsExclusive ==
    ASSUME LInv, NEW p \in Procs, Active(p), CanGoOn(p), NEW held,
           held \subseteq txn[p].held \cup Wanted(txn[p]) \cup {RequestGap}
    PROVE  \A q \in Procs \ {p} : Active(q) => held \cap txn[q].held \subseteq {RequestGap}
<1> SUFFICES ASSUME NEW q \in Procs \ {p}, Active(q)
             PROVE  held \cap txn[q].held \subseteq {RequestGap}
  OBVIOUS
<1>1. Wanted(txn[p]) \cap txn[q].held = {}
  BY DEF CanGoOn, WaitsFor
<1>2. txn[p].held \cap txn[q].held \subseteq {RequestGap}
  BY DEF LInv, Exclusive
<1> QED BY <1>1, <1>2

\* Clients ask for what they may.
LEMMA RequestsAreOK ==
    ASSUME NEW r \in Requests
    PROVE  RequestOK(r)
<1>1. {r.kind} \cap {"CREATE", "MINI", "REVERSE", "UPDATE"} # {} /\ r.kind \in Kinds
  BY DEF Requests
<1>2. r.type \in OperationTypes /\ r.at \in Times /\ r.qs \in RequestLines
  BY DEF Requests, OperationTypes
<1>3. r.kind = "MINI" => r.type = OUTBOUND /\ Cardinality(DOMAIN r.qs) = 1
  BY DEF Requests
<1>4. r.kind # "UPDATE" => r.request \in RequestIds
  BY DEF Requests
<1>5. r.kind \in OnOperation => r.target \in DOMAIN ops
  BY DEF Requests, OnOperation
<1> QED BY <1>1, <1>2, <1>3, <1>4, <1>5 DEF RequestOK

\* A request that arrives holds nothing yet.
LEMMA BeginKeepsLInv ==
    ASSUME LInv, NEW p \in Procs, NEW req \in Requests, Begin(p, req)
    PROVE  LInv'
<1> DEFINE t == [pc |-> CASE req.kind = "CREATE" -> "lock balances"
                          [] req.kind = "MINI" -> "lock material"
                          [] OTHER -> "lock operation",
                 req |-> req, held |-> {},
                 snapshot |-> IF Isolation = "REPEATABLE READ" THEN Committed ELSE << >>,
                 affected |-> IF req.kind = "UPDATE" THEN {} ELSE DOMAIN req.qs,
                 operation |-> << >>, balances |-> << >>]
<1>1. Becomes(p, t)
  BY DEF Begin, Becomes
<1>2. RequestOK(req)
  BY RequestsAreOK
<1>3. IsTxn(t) /\ t.req = req /\ t.held = {}
  BY DEF IsTxn
<1>4. /\ req.kind = "CREATE" => t.pc = "lock balances"
      /\ req.kind = "MINI" => t.pc = "lock material"
      /\ req.kind \in OnOperation => t.pc = "lock operation"
  BY DEF OnOperation
<1>5. View(t).ops = ops
  BY DEF View, Committed
<1> HIDE DEF t
<1>6. TxnOK(t)
  BY <1>2, <1>3, <1>4, <1>5 DEF TxnOK, RequestOK, OnOperation
<1> QED BY <1>1, <1>3, <1>6, BecomesKeepsLInv

\* A granted row is held, and nothing else changes.
LEMMA GrantHolds ==
    ASSUME NEW t, IsTxn(t)
    PROVE  /\ IsTxn(Grant(t))
           /\ Grant(t).held = t.held \cup Wanted(t)
           /\ Grant(t).pc = t.pc /\ Grant(t).req = t.req /\ Grant(t).snapshot = t.snapshot
           /\ Grant(t).affected = t.affected /\ Grant(t).operation = t.operation
           /\ Grant(t).balances = t.balances
<1> DEFINE held == t.held \cup Wanted(t)
<1>1. Grant(t) = [t EXCEPT !.held = held]
  BY DEF Grant
<1> HIDE DEF held
<1>2. Grant(t) = [pc |-> t.pc, req |-> t.req, held |-> held, snapshot |-> t.snapshot,
                  affected |-> t.affected, operation |-> t.operation, balances |-> t.balances]
  BY <1>1 DEF IsTxn
<1> QED BY <1>2 DEF IsTxn, held

\* What a transaction becomes when it has the operation it changes.
HasOperation(t) ==
    LET lines == View(t).ops[t.req.target].lines
    IN  [pc |-> "lock balances", req |-> t.req, held |-> t.held \cup {OpRow(t.req.target)},
         snapshot |-> t.snapshot,
         affected |-> IF t.req.kind = "UPDATE" THEN DOMAIN lines \cup DOMAIN t.req.qs
                                               ELSE t.affected,
         operation |-> [ops[t.req.target] EXCEPT !.lines = lines],
         balances |-> [m \in DOMAIN lines |-> BalanceIn(View(t), m)]]

\* The operation's row was free, and the operation is as the request expects it.
LEMMA LockOperationBecomes ==
    ASSUME LInv, NEW p \in Procs, LockOperation(p)
    PROVE  /\ Active(p) /\ TxnOK(txn[p])
           /\ txn[p].pc = "lock operation" /\ txn[p].req.kind \in OnOperation
           /\ Wanted(txn[p]) = {OpRow(txn[p].req.target)} /\ CanGoOn(p)
           /\ \/ Finish(p)
              \/ ~Stale(txn[p].req) /\ Becomes(p, HasOperation(txn[p]))
<1> DEFINE t == txn[p]
<1>1. t.pc = "lock operation" /\ CanGoOn(p)
  BY DEF LockOperation, OperationGranted
<1>2. Active(p) /\ TxnOK(t)
  BY <1>1, IdleOrRunning DEF Active
<1>3. Wanted(t) = {OpRow(t.req.target)}
  BY <1>1 DEF Wanted
<1> DEFINE lines == View(t).ops[t.req.target].lines
           new == [Grant(t) EXCEPT
                     !.pc = "lock balances",
                     !.operation = [ops[t.req.target] EXCEPT !.lines = lines],
                     !.balances = [m \in DOMAIN lines |-> BalanceIn(View(t), m)],
                     !.affected = IF t.req.kind = "UPDATE"
                                  THEN DOMAIN lines \cup DOMAIN t.req.qs ELSE @]
<1>4. ASSUME NEW h, h = new PROVE h = HasOperation(t)
  <2> DEFINE g == Grant(t)
             operation == [ops[t.req.target] EXCEPT !.lines = lines]
             balances == [m \in DOMAIN lines |-> BalanceIn(View(t), m)]
             affected == IF t.req.kind = "UPDATE" THEN DOMAIN lines \cup DOMAIN t.req.qs
                                                  ELSE g.affected
  <2>1. IsTxn(t)
    BY <1>2 DEF TxnOK
  <2>3. /\ IsTxn(g) /\ g.held = t.held \cup {OpRow(t.req.target)}
        /\ g.req = t.req /\ g.snapshot = t.snapshot /\ g.affected = t.affected
    BY <1>3, <2>1, GrantHolds
  <2>4. h = [g EXCEPT !.pc = "lock balances", !.operation = operation,
                        !.balances = balances, !.affected = affected]
    BY <1>4
  <2> HIDE DEF lines, g, operation, balances, affected
  <2>6. g = [pc |-> g.pc, req |-> g.req, held |-> g.held, snapshot |-> g.snapshot,
             affected |-> g.affected, operation |-> g.operation, balances |-> g.balances]
    BY <2>3 DEF IsTxn
  <2>5. h = [pc |-> "lock balances", req |-> g.req, held |-> g.held,
               snapshot |-> g.snapshot, affected |-> affected,
               operation |-> operation, balances |-> balances]
    BY <2>4, <2>6
  <2>2. h = [pc |-> "lock balances", req |-> t.req, held |-> t.held \cup {OpRow(t.req.target)},
               snapshot |-> t.snapshot,
               affected |-> IF t.req.kind = "UPDATE" THEN DOMAIN lines \cup DOMAIN t.req.qs
                                                     ELSE t.affected,
               operation |-> [ops[t.req.target] EXCEPT !.lines = lines],
               balances |-> [m \in DOMAIN lines |-> BalanceIn(View(t), m)]]
    BY <2>3, <2>5 DEF operation, balances, affected
  <2> QED BY <2>2 DEF HasOperation, lines
<1>5. Finish(p) \/ (~Stale(t.req) /\ txn' = [txn EXCEPT ![p] = new] /\ UNCHANGED tables)
  BY DEF LockOperation
<1> QED BY <1>1, <1>2, <1>3, <1>4, <1>5 DEF Becomes, TxnOK

\* Reading an operation under its lock.
LEMMA LockOperationKeepsLInv ==
    ASSUME LInv, NEW p \in Procs, LockOperation(p)
    PROVE  LInv'
<1> DEFINE t == txn[p]
           new == HasOperation(t)
<1>1. /\ Active(p) /\ TxnOK(t) /\ t.pc = "lock operation" /\ t.req.kind \in OnOperation
      /\ Wanted(t) = {OpRow(t.req.target)} /\ CanGoOn(p)
  BY LockOperationBecomes
<1>2. CASE Finish(p)
  BY <1>2, FinishKeepsLInv
<1>3. CASE ~Stale(t.req) /\ Becomes(p, new)
  <2>1. /\ IsTxn(new) /\ new.pc = "lock balances" /\ new.req = t.req
        /\ new.held = t.held \cup {OpRow(t.req.target)} /\ new.snapshot = t.snapshot
        /\ new.operation = [ops[t.req.target] EXCEPT !.lines = View(t).ops[t.req.target].lines]
    BY DEF HasOperation, IsTxn
  <2>2. t.req.target \in DOMAIN ops /\ HeadOK(ops[t.req.target])
    BY <1>1 DEF TxnOK, RequestOK, LInv, TablesOK
  <2>3. /\ HeadOK(new.operation) /\ new.operation.version = ops[t.req.target].version
        /\ new.operation.reversalOf = ops[t.req.target].reversalOf
    BY <2>1, <2>2 DEF HeadOK
  <2>4. t.req.kind = "UPDATE" => t.req.version = ops[t.req.target].version
    BY <1>3 DEF Stale
  <2>5. View(new) = View(t)
    BY <2>1 DEF View
  <2>6. \A i : OpRow(i) \in new.held => t.req.target = i
    BY <1>1, <2>1, RowsDiffer DEF TxnOK
  <2>7. TxnOK(new)
    <3> HIDE DEF new
    <3> QED BY <1>1, <2>1, <2>3, <2>4, <2>5, <2>6 DEF TxnOK
  <2>8. \A q \in Procs \ {p} : Active(q) => new.held \cap txn[q].held \subseteq {RequestGap}
    BY <1>1, <2>1, GrantedIsExclusive
  <2> QED BY <1>3, <2>7, <2>8, BecomesKeepsLInv
<1> QED BY <1>2, <1>3, LockOperationBecomes

\* What a mini-program's transaction becomes when it has its material.
HasMaterial(t) ==
    [pc |-> "lock balances", req |-> t.req,
     held |-> t.held \cup {MaterialRow(m) : m \in DOMAIN t.req.qs},
     snapshot |-> t.snapshot, affected |-> t.affected, operation |-> t.operation,
     balances |-> [m \in DOMAIN t.req.qs |-> BalanceIn(View(t), m)]]

\* The material's row was free.
LEMMA LockMaterialBecomes ==
    ASSUME LInv, NEW p \in Procs, LockMaterial(p)
    PROVE  /\ Active(p) /\ TxnOK(txn[p])
           /\ txn[p].pc = "lock material" /\ txn[p].req.kind = "MINI"
           /\ Wanted(txn[p]) = {MaterialRow(m) : m \in DOMAIN txn[p].req.qs} /\ CanGoOn(p)
           /\ Finish(p) \/ Becomes(p, HasMaterial(txn[p]))
<1> DEFINE t == txn[p]
<1>1. t.pc = "lock material" /\ CanGoOn(p)
  BY DEF LockMaterial
<1>2. Active(p) /\ TxnOK(t)
  BY <1>1, IdleOrRunning DEF Active
<1>3. Wanted(t) = {MaterialRow(m) : m \in DOMAIN t.req.qs}
  BY <1>1 DEF Wanted
<1> DEFINE balances == [m \in DOMAIN t.req.qs |-> BalanceIn(View(t), m)]
           rows == {MaterialRow(m) : m \in DOMAIN t.req.qs}
           new == [Grant(t) EXCEPT !.pc = "lock balances", !.balances = balances]
<1>4. ASSUME NEW h, h = new PROVE h = HasMaterial(t)
  <2>1. IsTxn(t)
    BY <1>2 DEF TxnOK
  <2> DEFINE g == Grant(t)
  <2>2. /\ IsTxn(g) /\ g.held = t.held \cup rows /\ g.req = t.req /\ g.snapshot = t.snapshot
        /\ g.affected = t.affected /\ g.operation = t.operation
    BY <1>3, <2>1, GrantHolds
  <2>4. h = [g EXCEPT !.pc = "lock balances", !.balances = balances]
    BY <1>4
  <2> HIDE DEF balances, rows, g
  <2>6. g = [pc |-> g.pc, req |-> g.req, held |-> g.held, snapshot |-> g.snapshot,
             affected |-> g.affected, operation |-> g.operation, balances |-> g.balances]
    BY <2>2 DEF IsTxn
  <2>3. h = [pc |-> "lock balances", req |-> t.req, held |-> t.held \cup rows,
               snapshot |-> t.snapshot, affected |-> t.affected, operation |-> t.operation,
               balances |-> balances]
    BY <2>2, <2>4, <2>6
  <2> QED BY <2>3 DEF HasMaterial, balances, rows
<1>5. Finish(p) \/ (txn' = [txn EXCEPT ![p] = new] /\ UNCHANGED tables)
  BY DEF LockMaterial
<1> QED BY <1>1, <1>2, <1>3, <1>4, <1>5 DEF Becomes, TxnOK

\* Locking a material first.
LEMMA LockMaterialKeepsLInv ==
    ASSUME LInv, NEW p \in Procs, LockMaterial(p)
    PROVE  LInv'
<1> DEFINE t == txn[p]
           new == HasMaterial(t)
<1>1. Active(p) /\ TxnOK(t) /\ t.pc = "lock material"
  BY LockMaterialBecomes
<1>4. /\ Active(p) /\ TxnOK(t) /\ t.req.kind = "MINI"
      /\ Wanted(t) = {MaterialRow(m) : m \in DOMAIN t.req.qs} /\ CanGoOn(p)
  BY LockMaterialBecomes
<1>2. CASE Finish(p)
  BY <1>2, FinishKeepsLInv
<1>3. CASE Becomes(p, new)
  <2>1. /\ IsTxn(new) /\ new.pc = "lock balances" /\ new.req = t.req
        /\ new.held = t.held \cup Wanted(t)
    BY <1>4 DEF HasMaterial, IsTxn
  <2>2. \A i : OpRow(i) \in new.held => OpRow(i) \in t.held
    BY <1>4, <2>1, RowsDiffer
  <2>3. TxnOK(new)
    <3> HIDE DEF new
    <3> QED BY <1>1, <1>4, <2>1, <2>2 DEF TxnOK, OnOperation
  <2>4. \A q \in Procs \ {p} : Active(q) => new.held \cap txn[q].held \subseteq {RequestGap}
    <3>1. new.held \subseteq t.held \cup Wanted(t) \cup {RequestGap}
      BY <2>1
    <3> HIDE DEF new
    <3> QED BY <1>4, <3>1, GrantedIsExclusive
  <2> QED BY <1>3, <2>3, <2>4, BecomesKeepsLInv
<1> QED BY <1>2, <1>3, LockMaterialBecomes

\* What a transaction becomes when it has the next row.
HasRow(t) ==
    LET m == NextRow(t)[2]
    IN  [pc |-> IF ~AllLocked(Grant(t)) THEN "lock balances"
                ELSE IF t.req.kind = "UPDATE" THEN "write" ELSE "recheck",
         req |-> t.req, held |-> t.held \cup {NextRow(t)}, snapshot |-> t.snapshot,
         affected |-> t.affected, operation |-> t.operation,
         balances |-> [n \in DOMAIN t.balances \cup {m} |->
                         IF n \in DOMAIN t.balances THEN t.balances[n]
                                                    ELSE BalanceIn(Committed, n)]]

\* The next row was free.
LEMMA LockRowBecomes ==
    ASSUME LInv, NEW p \in Procs, LockRow(p)
    PROVE  /\ Active(p) /\ TxnOK(txn[p]) /\ txn[p].pc = "lock balances"
           /\ Wanted(txn[p]) = {NextRow(txn[p])} /\ CanGoOn(p)
           /\ Becomes(p, HasRow(txn[p]))
<1> DEFINE t == txn[p]
<1>1. t.pc = "lock balances" /\ CanGoOn(p)
  BY DEF LockRow, RowGranted
<1>2. Active(p) /\ TxnOK(t)
  BY <1>1, IdleOrRunning DEF Active
<1>3. Wanted(t) = {NextRow(t)}
  BY <1>1 DEF Wanted
<1> DEFINE m == NextRow(t)[2]
           new == [Grant(t) EXCEPT
                     !.pc = IF ~AllLocked(Grant(t)) THEN @
                            ELSE IF t.req.kind = "UPDATE" THEN "write" ELSE "recheck",
                     !.balances = [n \in DOMAIN @ \cup {m} |->
                                     IF n \in DOMAIN @ THEN @[n] ELSE BalanceIn(Committed, n)]]
<1>4. ASSUME NEW h, h = new PROVE h = HasRow(t)
  <2> DEFINE g == Grant(t)
             pc == IF ~AllLocked(g) THEN g.pc
                   ELSE IF t.req.kind = "UPDATE" THEN "write" ELSE "recheck"
             balances == [n \in DOMAIN g.balances \cup {m} |->
                            IF n \in DOMAIN g.balances THEN g.balances[n]
                                                       ELSE BalanceIn(Committed, n)]
  <2>1. IsTxn(t)
    BY <1>2 DEF TxnOK
  <2>2. /\ IsTxn(g) /\ g.held = t.held \cup {NextRow(t)} /\ g.req = t.req
        /\ g.snapshot = t.snapshot /\ g.affected = t.affected /\ g.operation = t.operation
        /\ g.balances = t.balances /\ g.pc = "lock balances"
    BY <1>1, <1>3, <2>1, GrantHolds
  <2>3. h = [g EXCEPT !.pc = pc, !.balances = balances]
    BY <1>4
  <2> HIDE DEF g, pc, balances
  <2>4. g = [pc |-> g.pc, req |-> g.req, held |-> g.held, snapshot |-> g.snapshot,
             affected |-> g.affected, operation |-> g.operation, balances |-> g.balances]
    BY <2>2 DEF IsTxn
  <2>5. h = [pc |-> pc, req |-> t.req, held |-> t.held \cup {NextRow(t)},
             snapshot |-> t.snapshot, affected |-> t.affected, operation |-> t.operation,
             balances |-> balances]
    BY <2>2, <2>3, <2>4
  <2>6. pc = IF ~AllLocked(Grant(t)) THEN "lock balances"
             ELSE IF t.req.kind = "UPDATE" THEN "write" ELSE "recheck"
    BY <2>2 DEF pc, g
  <2>7. balances = [n \in DOMAIN t.balances \cup {m} |->
                      IF n \in DOMAIN t.balances THEN t.balances[n]
                                                 ELSE BalanceIn(Committed, n)]
    BY <2>2 DEF balances
  <2> HIDE DEF m
  <2>8. h = [pc |-> IF ~AllLocked(Grant(t)) THEN "lock balances"
                    ELSE IF t.req.kind = "UPDATE" THEN "write" ELSE "recheck",
             req |-> t.req, held |-> t.held \cup {NextRow(t)},
             snapshot |-> t.snapshot, affected |-> t.affected, operation |-> t.operation,
             balances |-> [n \in DOMAIN t.balances \cup {m} |->
                      IF n \in DOMAIN t.balances THEN t.balances[n]
                                                 ELSE BalanceIn(Committed, n)]]
    BY <2>5, <2>6, <2>7
  <2> QED BY <2>8 DEF HasRow, m
<1>5. txn' = [txn EXCEPT ![p] = new] /\ UNCHANGED tables
  BY DEF LockRow
<1>6. new = HasRow(t)
  <2> HIDE DEF new
  <2> QED BY <1>4
<1> QED BY <1>1, <1>2, <1>3, <1>5, <1>6 DEF Becomes

\* The next row is one of a material.
LEMMA NextRowIsRow ==
    ASSUME NEW t
    PROVE  \E m : NextRow(t) \in {BalanceRow(m), MaterialRow(m)}
  BY DEF NextRow

\* Locking one more row.
LEMMA LockRowKeepsLInv ==
    ASSUME LInv, NEW p \in Procs, LockRow(p)
    PROVE  LInv'
<1> DEFINE t == txn[p]
           new == HasRow(t)
<1>1. /\ Active(p) /\ TxnOK(t) /\ t.pc = "lock balances"
      /\ Wanted(t) = {NextRow(t)} /\ CanGoOn(p) /\ Becomes(p, new)
  BY LockRowBecomes
<1>2. /\ IsTxn(new) /\ new.req = t.req
      /\ new.snapshot = t.snapshot /\ new.operation = t.operation
      /\ new.pc \in {"lock balances", "recheck", "write"}
      /\ new.pc = "recheck" => t.req.kind # "UPDATE"
  BY <1>1 DEF HasRow, IsTxn
<1>7. new.held = t.held \cup {NextRow(t)}
  BY DEF HasRow
<1>8. PICK m : NextRow(t) \in {BalanceRow(m), MaterialRow(m)}
  BY NextRowIsRow
<1> HIDE DEF new
<1>3. \A i : OpRow(i) \in new.held <=> OpRow(i) \in t.held
  BY <1>7, <1>8, RowsDiffer
<1>4. View(new) = View(t)
  BY <1>2 DEF View
<1>5. TxnOK(new)
  BY <1>1, <1>2, <1>3, <1>4 DEF TxnOK
<1>6. \A q \in Procs \ {p} : Active(q) => new.held \cap txn[q].held \subseteq {RequestGap}
  <2>1. new.held \subseteq txn[p].held \cup Wanted(txn[p]) \cup {RequestGap}
    BY <1>1, <1>7
  <2> QED BY <1>1, <2>1, GrantedIsExclusive
<1>9. Becomes(p, new)
  BY <1>1 DEF new
<1> QED BY <1>5, <1>6, <1>9, BecomesKeepsLInv

\* What a transaction becomes when no other operation has its client_request_id.
HasNoTwin(t, gaps) ==
    [pc |-> "write", req |-> t.req, held |-> t.held \cup gaps, snapshot |-> t.snapshot,
     affected |-> t.affected, operation |-> t.operation, balances |-> t.balances]

\* The second look finds the request or does not.
LEMMA RecheckBecomes ==
    ASSUME LInv, NEW p \in Procs, Recheck(p)
    PROVE  /\ Active(p) /\ TxnOK(txn[p]) /\ txn[p].pc = "recheck"
           /\ \/ Finish(p)
              \/ \E gaps \in SUBSET (IF Isolation = "REPEATABLE READ" THEN {RequestGap} ELSE {}) :
                    Becomes(p, HasNoTwin(txn[p], gaps))
<1> DEFINE t == txn[p]
<1>1. t.pc = "recheck"
  BY DEF Recheck
<1>2. Active(p) /\ TxnOK(t)
  BY <1>1, IdleOrRunning DEF Active
<1>3. ASSUME NEW gaps \in SUBSET (IF Isolation = "REPEATABLE READ" THEN {RequestGap} ELSE {}),
             txn' = [txn EXCEPT ![p].pc = "write", ![p].held = @ \cup gaps],
             UNCHANGED tables
      PROVE  Becomes(p, HasNoTwin(t, gaps))
  <2>1. t = [pc |-> t.pc, req |-> t.req, held |-> t.held, snapshot |-> t.snapshot,
             affected |-> t.affected, operation |-> t.operation, balances |-> t.balances]
    BY <1>2 DEF TxnOK, IsTxn
  <2>2. txn = [q \in Procs |-> txn[q]]
    BY DEF LInv
  <2>3. txn'[p] = [t EXCEPT !.pc = "write", !.held = @ \cup gaps]
    BY <1>3, <2>2
  <2>4. ASSUME NEW h, h = [t EXCEPT !.pc = "write", !.held = @ \cup gaps]
        PROVE  h = HasNoTwin(t, gaps)
    <3> HIDE DEF t
    <3> QED BY <2>1, <2>4 DEF HasNoTwin
  <2>5. txn'[p] = HasNoTwin(t, gaps)
    BY <2>3, <2>4
  <2>6. txn' = [q \in Procs |-> IF q = p THEN HasNoTwin(t, gaps) ELSE txn[q]]
    BY <1>3, <2>2, <2>5
  <2>7. txn' = [txn EXCEPT ![p] = HasNoTwin(t, gaps)]
    BY <2>2, <2>6
  <2> QED BY <1>3, <2>7 DEF Becomes
<1> QED BY <1>1, <1>2, <1>3 DEF Recheck

\* The second look locks no row.
LEMMA RecheckKeepsLInv ==
    ASSUME LInv, NEW p \in Procs, Recheck(p)
    PROVE  LInv'
<1> DEFINE t == txn[p]
<1>1. Active(p) /\ TxnOK(t) /\ t.pc = "recheck"
  BY RecheckBecomes
<1>2. CASE Finish(p)
  BY <1>2, FinishKeepsLInv
<1>3. ASSUME NEW gaps \in SUBSET {RequestGap}, Becomes(p, HasNoTwin(t, gaps))
      PROVE  LInv'
  <2> DEFINE new == HasNoTwin(t, gaps)
  <2>1. /\ IsTxn(new) /\ new.req = t.req /\ new.held = t.held \cup gaps /\ new.pc = "write"
        /\ new.snapshot = t.snapshot /\ new.operation = t.operation
    BY DEF HasNoTwin, IsTxn
  <2>2. \A i : OpRow(i) \in new.held <=> OpRow(i) \in t.held
    BY <2>1, RowsDiffer
  <2>3. View(new) = View(t)
    BY <2>1 DEF View
  <2>4. TxnOK(new)
    <3> HIDE DEF new
    <3> QED BY <1>1, <2>1, <2>2, <2>3 DEF TxnOK
  <2>5. \A q \in Procs \ {p} : Active(q) => new.held \cap txn[q].held \subseteq {RequestGap}
    BY <1>1, <2>1 DEF LInv, Exclusive
  <2> QED BY <1>3, <2>4, <2>5, BecomesKeepsLInv
<1> QED BY <1>2, <1>3, RecheckBecomes

-----------------------------------------------------------------------------
(* The writes.                                                              *)

\* Two operations that differ in their lines at most.
SameHead(a, b) ==
    /\ a.type = b.type /\ a.at = b.at /\ a.source = b.source /\ a.mini = b.mini
    /\ a.reversalOf = b.reversalOf /\ a.request = b.request /\ a.version = b.version

WithLines(op, lines) == [op EXCEPT !.lines = lines]

\* Other lines for an operation.
LEMMA LinesOnly ==
    ASSUME NEW op, HeadOK(op), NEW lines
    PROVE  /\ HeadOK(WithLines(op, lines)) /\ SameHead(WithLines(op, lines), op)
           /\ WithLines(op, lines).lines = lines
<1> DEFINE h == [type |-> op.type, at |-> op.at, source |-> op.source, mini |-> op.mini,
                 reversalOf |-> op.reversalOf, request |-> op.request,
                 version |-> op.version, lines |-> lines]
<1>1. ASSUME NEW g, g = [op EXCEPT !.lines = lines] PROVE g = h
  BY <1>1 DEF HeadOK
<1>2. WithLines(op, lines) = h
  BY <1>1 DEF WithLines
<1>3. HeadOK(h) /\ SameHead(h, op) /\ h.lines = lines
  BY DEF HeadOK, SameHead
<1> QED BY <1>2, <1>3

\* What replaying makes of an operation.
ReplayedLines(os, i, ms) ==
    [m \in DOMAIN os[i].lines |->
        IF m \in ms THEN ReplayedLine(os, i, m) ELSE os[i].lines[m]]

\* Replaying writes lines.
LEMMA ReplayedIsWithLines ==
    ASSUME NEW os, NEW ms
    PROVE  /\ DOMAIN Replayed(os, ms) = DOMAIN os
           /\ \A i \in DOMAIN os : Replayed(os, ms)[i] = WithLines(os[i], ReplayedLines(os, i, ms))
  BY DEF Replayed, WithLines, ReplayedLines

\* An edit counts the version and leaves what identifies the operation.
LEMMA EditedHead ==
    ASSUME NEW op, HeadOK(op), NEW type, NEW at, NEW source, NEW qs
    PROVE  LET e == EditedOperation(op, type, at, source, qs)
           IN  /\ HeadOK(e) /\ e.version = op.version + 1
               /\ e.reversalOf = op.reversalOf /\ e.request = op.request /\ e.mini = op.mini
<1> DEFINE lines == [m \in DOMAIN qs |->
                       IF m \in DOMAIN op.lines THEN EditedLine(op.lines[m], qs[m])
                                                ELSE NewLine(qs[m])]
           version == op.version + 1
           h == [type |-> type, at |-> at, source |-> source, mini |-> op.mini,
                 reversalOf |-> op.reversalOf, request |-> op.request,
                 version |-> version, lines |-> lines]
<1>1. version \in Nat \ {0}
  BY DEF HeadOK
<1>2. op = [type |-> op.type, at |-> op.at, source |-> op.source, mini |-> op.mini,
            reversalOf |-> op.reversalOf, request |-> op.request,
            version |-> op.version, lines |-> op.lines]
  BY DEF HeadOK
<1>3. ASSUME NEW g, g = EditedOperation(op, type, at, source, qs) PROVE g = h
  <2>1. g = [op EXCEPT !.type = type, !.at = at, !.source = source, !.version = version,
                       !.lines = lines]
    BY <1>3 DEF EditedOperation
  <2> HIDE DEF lines, version
  <2> QED BY <1>2, <2>1
<1>4. EditedOperation(op, type, at, source, qs) = h
  <2> HIDE DEF h
  <2> QED BY <1>3
<1> HIDE DEF lines, version
<1>5. HeadOK(h) /\ h.version = version /\ h.reversalOf = op.reversalOf
      /\ h.request = op.request /\ h.mini = op.mini
  BY <1>1 DEF HeadOK
<1> QED BY <1>4, <1>5 DEF version

\* The operation a request writes: its own or a new one.
WrittenId(r) == IF r.kind = "UPDATE" THEN r.target ELSE NextId

\* What a commit does to the heads of the operations and to the log.
HeadsWritten(t) ==
    LET r == t.req
        id == WrittenId(r)
    IN  /\ DOMAIN ops' = DOMAIN ops \cup {id}
        /\ ops' = [i \in DOMAIN ops' |-> ops'[i]]
        /\ \A i \in DOMAIN ops' : HeadOK(ops'[i])
        /\ \A i \in DOMAIN ops : i # id => SameHead(ops'[i], ops[i])
        /\ r.kind = "UPDATE" => /\ ops'[id].version = ops[id].version + 1
                                /\ ops'[id].reversalOf = ops[id].reversalOf
        /\ DOMAIN log' = DOMAIN log \cup {id}
        /\ \A i \in DOMAIN ops : log'[i] # log[i] => r.kind = "UPDATE" /\ i = id

\* The operation the session has for the one it writes.
LEMMA ComputedHead ==
    ASSUME LInv, NEW t, TxnOK(t), t.pc = "write"
    PROVE  LET id == WrittenId(t.req)
           IN  /\ id \in DOMAIN Computed(t) /\ HeadOK(Computed(t)[id])
               /\ t.req.kind = "UPDATE" =>
                     /\ id \in DOMAIN ops /\ Computed(t)[id].version = ops[id].version + 1
                     /\ id \in DOMAIN Loaded(t)
                     /\ Computed(t)[id].reversalOf = ops[id].reversalOf
               /\ t.req.kind # "UPDATE" => id = NextId /\ Computed(t)[id].version = 1
<1> DEFINE r == t.req
           id == WrittenId(r)
<1>1. r.kind \in {"CREATE", "MINI", "REVERSE", "UPDATE"}
  BY DEF TxnOK, RequestOK
<1>2. CASE r.kind \in {"CREATE", "MINI"}
  <2>1. Computed(t) = AddOperation(Loaded(t), NextId,
                         NewOperation(r.type, r.at, MANUAL, r.kind = "MINI", NoOperation,
                                      r.request, r.qs))
    BY <1>2 DEF Computed
  <2> DEFINE op == NewOperation(r.type, r.at, MANUAL, r.kind = "MINI", NoOperation,
                               r.request, r.qs)
  <2>2. HeadOK(op) /\ op.version = 1
    BY DEF NewOperation, HeadOK
  <2> HIDE DEF op
  <2>4. Computed(t) = AddOperation(Loaded(t), NextId, op)
    BY <2>1 DEF op
  <2>3. NextId \in DOMAIN Computed(t) /\ Computed(t)[NextId] = op
    BY <2>4 DEF AddOperation
  <2> QED BY <1>2, <2>2, <2>3 DEF WrittenId
<1>3. CASE r.kind = "REVERSE"
  <2>1. Computed(t) = AddOperation(TakeReversed(Loaded(t), r.target, r.qs), NextId,
                         NewOperation(OtherType(t.operation.type),
                                      ReversalTime(r.at, t.operation.at),
                                      REVERSAL, FALSE, r.target, r.request, r.qs))
    BY <1>3 DEF Computed
  <2> DEFINE op == NewOperation(OtherType(t.operation.type),
                               ReversalTime(r.at, t.operation.at),
                               REVERSAL, FALSE, r.target, r.request, r.qs)
  <2>2. HeadOK(op) /\ op.version = 1
    BY DEF NewOperation, HeadOK
  <2> HIDE DEF op
  <2>4. Computed(t) = AddOperation(TakeReversed(Loaded(t), r.target, r.qs), NextId, op)
    BY <2>1 DEF op
  <2>3. NextId \in DOMAIN Computed(t) /\ Computed(t)[NextId] = op
    BY <2>4 DEF AddOperation
  <2> QED BY <1>3, <2>2, <2>3 DEF WrittenId
<1>4. CASE r.kind = "UPDATE"
  <2> DEFINE e == EditedOperation(t.operation, r.type, r.at, t.operation.source, r.qs)
  <2>1. Computed(t) = [Loaded(t) EXCEPT ![r.target] = e]
    BY <1>4 DEF Computed
  <2>2. r.target \in DOMAIN View(t).ops /\ r.target \in DOMAIN ops
    BY <1>4 DEF TxnOK, RequestOK, OnOperation
  <2>3. r.target \in DOMAIN Loaded(t)
    BY <1>4, <2>2 DEF Loaded
  <2>4. /\ HeadOK(t.operation) /\ t.operation.version = ops[r.target].version
        /\ t.operation.reversalOf = ops[r.target].reversalOf
    BY <1>4 DEF TxnOK, OnOperation
  <2>5. /\ HeadOK(e) /\ e.version = ops[r.target].version + 1
        /\ e.reversalOf = ops[r.target].reversalOf
    BY <2>4, EditedHead
  <2> HIDE DEF e
  <2>6. Computed(t)[r.target] = e /\ r.target \in DOMAIN Computed(t)
    BY <2>1, <2>3
  <2> QED BY <1>4, <2>2, <2>3, <2>5, <2>6 DEF WrittenId
<1> QED BY <1>1, <1>2, <1>3, <1>4

\* What a commit does to the operation i.
WrittenOperation(t, i) ==
    LET computed == Replayed(Computed(t), t.affected)
        loaded == Loaded(t)
    IN  IF i \notin DOMAIN ops THEN computed[i]
        ELSE IF i \notin DOMAIN loaded THEN ops[i]
        ELSE WithLines(IF t.req.kind = "UPDATE" /\ i = WrittenId(t.req) THEN computed[i] ELSE ops[i],
                       FlushedLines(loaded[i].lines, computed[i].lines, ops[i].lines))

\* A commit writes operations as WrittenOperation says.
LEMMA CommitWrites ==
    ASSUME LInv, NEW p \in Procs, WriteAndCommit(p)
    PROVE  LET t == txn[p]
           IN  /\ Active(p) /\ TxnOK(t) /\ t.pc = "write"
               /\ ~WriteFails(t, Loaded(t), Replayed(Computed(t), t.affected))
               /\ ops' = [i \in DOMAIN ops \cup {WrittenId(t.req)} |-> WrittenOperation(t, i)]
               /\ txn' = [txn EXCEPT ![p] = Idle]
<1>1. txn[p].pc = "write"
  BY DEF WriteAndCommit
<1>2. Active(p) /\ TxnOK(txn[p])
  BY <1>1, IdleOrRunning DEF Active
<1> QED BY <1>1, <1>2 DEF WriteAndCommit, WrittenId, WrittenOperation, WithLines

\* The heads after a commit.
LEMMA CommitHeads ==
    ASSUME LInv, NEW p \in Procs, WriteAndCommit(p)
    PROVE  HeadsWritten(txn[p])
<1> DEFINE t == txn[p]
           r == t.req
           id == WrittenId(r)
           computed == Replayed(Computed(t), t.affected)
<1>1. /\ TxnOK(t) /\ t.pc = "write"
      /\ ops' = [i \in DOMAIN ops \cup {id} |-> WrittenOperation(t, i)]
  BY CommitWrites
<1>2. /\ id \in DOMAIN Computed(t) /\ HeadOK(Computed(t)[id])
      /\ r.kind = "UPDATE" => /\ id \in DOMAIN ops /\ id \in DOMAIN Loaded(t)
                              /\ Computed(t)[id].version = ops[id].version + 1
                              /\ Computed(t)[id].reversalOf = ops[id].reversalOf
      /\ r.kind # "UPDATE" => id = NextId
  BY <1>1, ComputedHead
<1>3. HeadOK(computed[id]) /\ SameHead(computed[id], Computed(t)[id])
  BY <1>2, ReplayedIsWithLines, LinesOnly
<1>4. \A i \in DOMAIN ops : HeadOK(ops[i])
  BY DEF LInv, TablesOK
<1>5. NextId \notin DOMAIN ops
  BY NextIdIsNew DEF LInv
<1> HIDE DEF computed
<1>6. ASSUME NEW i \in DOMAIN ops, i # id
      PROVE  HeadOK(ops'[i]) /\ SameHead(ops'[i], ops[i])
  <2>1. ops'[i] = WrittenOperation(t, i)
    BY <1>1
  <2>2. CASE i \notin DOMAIN Loaded(t)
    BY <1>4, <2>1, <2>2 DEF WrittenOperation, SameHead
  <2>3. CASE i \in DOMAIN Loaded(t)
    <3>1. PICK lines : WrittenOperation(t, i) = WithLines(ops[i], lines)
      BY <1>6, <2>3 DEF WrittenOperation
    <3> QED BY <1>4, <2>1, <3>1, LinesOnly
  <2> QED BY <2>2, <2>3
<1>7. /\ HeadOK(ops'[id])
      /\ r.kind = "UPDATE" => /\ ops'[id].version = ops[id].version + 1
                              /\ ops'[id].reversalOf = ops[id].reversalOf
  <2>1. ops'[id] = WrittenOperation(t, id)
    BY <1>1
  <2>2. CASE r.kind = "UPDATE"
    <3>1. PICK lines : WrittenOperation(t, id) = WithLines(computed[id], lines)
      BY <1>2, <2>2 DEF WrittenOperation, computed
    <3> QED BY <1>2, <1>3, <2>1, <2>2, <3>1, LinesOnly DEF SameHead
  <2>3. CASE r.kind # "UPDATE"
    <3>1. WrittenOperation(t, id) = computed[id]
      BY <1>2, <1>5, <2>3 DEF WrittenOperation, computed
    <3> QED BY <1>3, <2>1, <2>3, <3>1
  <2> QED BY <2>2, <2>3
<1>8. /\ DOMAIN log' = DOMAIN log \cup {id}
      /\ \A i \in DOMAIN ops : log'[i] # log[i] => r.kind = "UPDATE" /\ i = id
  <2>1. log' = [i \in DOMAIN log \cup {id} |->
             CASE r.kind = "UPDATE" /\ i = id -> Append(log[i], "UPDATED")
               [] r.kind = "REVERSE" /\ i = id -> <<"REVERSED">>
               [] r.kind \in {"CREATE", "MINI"} /\ i = id -> <<"CREATED">>
               [] OTHER -> log[i]]
    BY DEF WriteAndCommit, WrittenId
  <2>2. ASSUME NEW i \in DOMAIN ops, i # id PROVE log'[i] = log[i]
    BY <2>1, <2>2 DEF LInv, TablesOK
  <2> QED BY <1>2, <1>5, <2>1, <2>2
<1> QED BY <1>1, <1>6, <1>7, <1>8 DEF HeadsWritten

\* Nobody else wrote the operation that a transaction holds.
LEMMA OthersSeeTheirVersion ==
    ASSUME LInv, NEW p \in Procs, NEW q \in Procs \ {p}, WriteAndCommit(p), Active(q)
    PROVE  TxnOK(txn[q])'
<1> DEFINE t == txn[p]
           u == txn[q]
           id == WrittenId(t.req)
<1>1. /\ Active(p) /\ TxnOK(t) /\ t.pc = "write"
      /\ txn' = [txn EXCEPT ![p] = Idle]
  BY CommitWrites
<1>2. HeadsWritten(t) /\ TxnOK(u)
  BY CommitHeads, IdleOrRunning
<1>3. txn'[q] = u
  BY <1>1 DEF LInv
<1>4. DOMAIN ops \subseteq DOMAIN ops'
  BY <1>2 DEF HeadsWritten
<1>5. ASSUME u.req.kind \in OnOperation, u.pc # "lock operation"
      PROVE  /\ ops'[u.req.target].version = ops[u.req.target].version
             /\ ops'[u.req.target].reversalOf = ops[u.req.target].reversalOf
  <2>1. OpRow(u.req.target) \in u.held /\ u.req.target \in DOMAIN ops
    BY <1>2, <1>5 DEF TxnOK, RequestOK
  <2>2. OpRow(u.req.target) \notin t.held
    BY <1>1, <2>1, RowsDiffer DEF LInv, Exclusive
  <2>3. u.req.target # id
    <3>1. CASE t.req.kind = "UPDATE"
      BY <1>1, <2>2, <3>1 DEF TxnOK, OnOperation, WrittenId
    <3>2. CASE t.req.kind # "UPDATE"
      BY <2>1, <3>2, NextIdIsNew DEF LInv, WrittenId
    <3> QED BY <3>1, <3>2
  <2> QED BY <1>2, <2>1, <2>3 DEF HeadsWritten, SameHead
<1>6. u.req.kind \in OnOperation => u.req.target \in DOMAIN View(u)'.ops
  <2>1. CASE Isolation = "REPEATABLE READ"
    BY <1>2, <1>3, <2>1 DEF TxnOK, View
  <2>2. CASE Isolation # "REPEATABLE READ"
    BY <1>2, <1>3, <1>4, <2>2 DEF TxnOK, RequestOK, View, Committed
  <2> QED BY <2>1, <2>2
<1>7. RequestOK(u.req)'
  BY <1>2, <1>3, <1>4 DEF TxnOK, RequestOK
<1> QED BY <1>2, <1>3, <1>5, <1>6, <1>7 DEF TxnOK

\* A commit keeps the tables well formed and the others informed.
LEMMA CommitKeepsLInv ==
    ASSUME LInv, NEW p \in Procs, WriteAndCommit(p)
    PROVE  LInv'
<1> DEFINE t == txn[p]
           id == WrittenId(t.req)
<1>1. TxnOK(t) /\ txn' = [txn EXCEPT ![p] = Idle] /\ t.pc = "write"
  BY CommitWrites
<1>2. HeadsWritten(t)
  BY CommitHeads
<1>3. /\ txn' = [q \in Procs |-> txn'[q]] /\ txn'[p] = Idle
      /\ \A q \in Procs \ {p} : txn'[q] = txn[q]
  BY <1>1 DEF LInv
<1>4. TablesOK'
  <2>1. DOMAIN ops' = DOMAIN ops \/ DOMAIN ops' = 1..NextId
    <3>1. t.req.kind = "UPDATE" => id \in DOMAIN ops
      BY <1>1, ComputedHead
    <3> QED BY <1>2, <3>1, NextIdIsNew DEF HeadsWritten, WrittenId, LInv
  <2>2. IsFiniteSet(DOMAIN ops') /\ DOMAIN ops' = 1..Cardinality(DOMAIN ops')
    <3>1. CASE DOMAIN ops' = DOMAIN ops
      BY <3>1 DEF LInv, TablesOK
    <3>2. CASE DOMAIN ops' = 1..NextId
      <4>1. NextId \in Nat
        BY NextIdIsNew DEF LInv
      <4>2. IsFiniteSet(1..NextId) /\ Cardinality(1..NextId) = NextId
        BY <4>1, FS_Interval
      <4> QED BY <3>2, <4>2
    <3> QED BY <2>1, <3>1, <3>2
  <2>3. DOMAIN log' = DOMAIN ops'
    BY <1>2 DEF HeadsWritten, LInv, TablesOK
  <2>4. ops' = [i \in DOMAIN ops' |-> ops'[i]] /\ \A i \in DOMAIN ops' : HeadOK(ops'[i])
    BY <1>2 DEF HeadsWritten
  <2> QED BY <2>2, <2>3, <2>4 DEF TablesOK
<1>5. ASSUME NEW q \in Procs PROVE (txn[q] = Idle \/ TxnOK(txn[q]))'
  <2>1. CASE q = p
    BY <1>3, <2>1 DEF Idle
  <2>2. CASE q # p /\ ~Active(q)
    BY <1>3, <2>2, IdleOrRunning DEF Idle
  <2>3. CASE q # p /\ Active(q)
    BY <2>3, OthersSeeTheirVersion
  <2> QED BY <2>1, <2>2, <2>3
<1>6. Exclusive'
  BY <1>3 DEF LInv, Exclusive, Active, Idle
<1> QED BY <1>3, <1>4, <1>5, <1>6 DEF LInv

-----------------------------------------------------------------------------
\* Nothing runs and nothing is recorded at first.
LEMMA InitLInv == Init => LInv
<1> SUFFICES ASSUME Init PROVE LInv
  OBVIOUS
<1>1. DOMAIN ops = {} /\ DOMAIN log = {} /\ ops = << >> /\ txn = [p \in Procs |-> Idle]
  BY DEF Init
<1>2. IsFiniteSet(DOMAIN ops) /\ DOMAIN ops = 1..Cardinality(DOMAIN ops)
  BY <1>1, FS_EmptySet
<1>3. ops = [i \in DOMAIN ops |-> ops[i]]
  BY <1>1
<1> QED BY <1>1, <1>2, <1>3 DEF LInv, TablesOK, Exclusive, Active, Idle

\* The log of an operation grows only by an edit made on the version it is at.
EditsSeen ==
    \A i \in DOMAIN ops : log'[i] # log[i] =>
        /\ ops'[i].version = ops[i].version + 1
        /\ \E p \in Procs : /\ Active(p) /\ txn[p].req.kind = "UPDATE"
                            /\ txn[p].req.target = i
                            /\ txn[p].req.version = ops[i].version

\* A commit that adds to the log of an operation is the edit of the version it is at.
LEMMA CommitSeesEdits ==
    ASSUME LInv, NEW p \in Procs, WriteAndCommit(p)
    PROVE  EditsSeen
<1> SUFFICES ASSUME NEW i \in DOMAIN ops, log'[i] # log[i]
             PROVE  /\ ops'[i].version = ops[i].version + 1
                    /\ \E q \in Procs : /\ Active(q) /\ txn[q].req.kind = "UPDATE"
                                        /\ txn[q].req.target = i
                                        /\ txn[q].req.version = ops[i].version
  BY DEF EditsSeen
<1>1. Active(p) /\ TxnOK(txn[p]) /\ txn[p].pc = "write" /\ HeadsWritten(txn[p])
  BY CommitWrites, CommitHeads
<1>2. txn[p].req.kind = "UPDATE" /\ i = txn[p].req.target
  BY <1>1 DEF HeadsWritten, WrittenId
<1>3. ops'[i].version = ops[i].version + 1
  BY <1>1, <1>2 DEF HeadsWritten, WrittenId
<1>4. txn[p].req.version = ops[i].version
  BY <1>1, <1>2 DEF TxnOK, OnOperation
<1> QED BY <1>1, <1>2, <1>3, <1>4

\* Steps that leave the log alone.
LEMMA NoEdit == UNCHANGED tables => EditsSeen
  BY DEF tables, EditsSeen

\* The invariant is inductive, and edits are seen.
LEMMA NextKeepsLInv == LInv /\ [Next]_vars => LInv' /\ EditsSeen
<1> SUFFICES ASSUME LInv, [Next]_vars PROVE LInv' /\ EditsSeen
  OBVIOUS
<1>1. ASSUME NEW p \in Procs, NEW req \in Requests, Begin(p, req) PROVE LInv' /\ EditsSeen
  BY <1>1, BeginKeepsLInv, NoEdit DEF Begin
<1>2. ASSUME NEW p \in Procs, Finish(p) PROVE LInv' /\ EditsSeen
  BY <1>2, FinishKeepsLInv, NoEdit DEF Finish
<1>3. ASSUME NEW p \in Procs, LockOperation(p) PROVE LInv' /\ EditsSeen
  BY <1>3, LockOperationKeepsLInv, LockOperationBecomes, NoEdit DEF Finish, Becomes
<1>4. ASSUME NEW p \in Procs, LockMaterial(p) PROVE LInv' /\ EditsSeen
  BY <1>4, LockMaterialKeepsLInv, LockMaterialBecomes, NoEdit DEF Finish, Becomes
<1>5. ASSUME NEW p \in Procs, LockRow(p) PROVE LInv' /\ EditsSeen
  BY <1>5, LockRowKeepsLInv, LockRowBecomes, NoEdit DEF Becomes
<1>6. ASSUME NEW p \in Procs, Recheck(p) PROVE LInv' /\ EditsSeen
  BY <1>6, RecheckKeepsLInv, RecheckBecomes, NoEdit DEF Finish, Becomes
<1>7. ASSUME NEW p \in Procs, WriteAndCommit(p) PROVE LInv' /\ EditsSeen
  BY <1>7, CommitKeepsLInv, CommitSeesEdits
<1>8. CASE UNCHANGED vars
  <2>1. UNCHANGED <<ops, balance, balanceVersion, log, events, txn>>
    BY <1>8 DEF vars, tables
  <2>2. TablesOK' /\ \A u : TxnOK(u) => TxnOK(u)'
    BY <2>1 DEF LInv, TablesOK, TxnOK, RequestOK, View, Committed
  <2>3. LInv'
    BY <2>1, <2>2 DEF LInv, Exclusive, Active
  <2> QED BY <2>1, <2>3 DEF EditsSeen
<1> QED BY <1>1, <1>2, <1>3, <1>4, <1>5, <1>6, <1>7, <1>8
        DEF Next, Step, RefuseWrite, DeadlockVictim, Fail

\* An edit is applied to the version its client saw, whatever runs beside it and under
\* either isolation level: of two edits made from one version at most one gets through.
THEOREM EditsNotLost == Spec => NoLostEdit
<1>1. LInv /\ [Next]_vars => LInv' /\ [EditsSeen]_vars
  BY NextKeepsLInv
<1>2. Spec => [][EditsSeen]_vars
  BY <1>1, InitLInv, NextKeepsLInv, PTL DEF Spec
<1> QED BY <1>2 DEF NoLostEdit, EditsSeen

-----------------------------------------------------------------------------
(* Figures: what a commit does to the quantities, reading committed rows.   *)

\* A plain SELECT returns what is committed.
ReadsCommitted == Isolation = "READ COMMITTED"

\* The lines of an operation have quantities.
LineOK(l) == {"quantity", "remaining"} \subseteq DOMAIN l /\ l.quantity \in Nat /\ l.remaining \in Nat
LinesOK(lines) == \A m \in DOMAIN lines : LineOK(lines[m])

\* The same materials in the same quantities, with as much of each left to reverse.
SameFigures(a, b) ==
    /\ DOMAIN a = DOMAIN b
    /\ \A m \in DOMAIN a : a[m].quantity = b[m].quantity /\ a[m].remaining = b[m].remaining

\* Sameness is passed on.
LEMMA FiguresPassOn ==
    ASSUME NEW a, NEW b, NEW c, SameFigures(a, b), SameFigures(b, c)
    PROVE  SameFigures(a, c) /\ SameFigures(b, a)
  BY DEF SameFigures

\* Replaying a material writes the stock before and after each of its lines.
LEMMA ReplayedFigures ==
    ASSUME NEW os, NEW i, LinesOK(os[i].lines), NEW ms
    PROVE  /\ LinesOK(ReplayedLines(os, i, ms))
           /\ SameFigures(ReplayedLines(os, i, ms), os[i].lines)
<1> DEFINE lines == ReplayedLines(os, i, ms)
<1>1. ASSUME NEW m \in DOMAIN os[i].lines
      PROVE  /\ LineOK(lines[m])
             /\ lines[m].quantity = os[i].lines[m].quantity
             /\ lines[m].remaining = os[i].lines[m].remaining
  <2> DEFINE l == os[i].lines[m]
  <2>1. LineOK(l)
    BY DEF LinesOK
  <2>3. CASE m \in ms
    <3>1. lines[m] = ReplayedLine(os, i, m)
      BY <2>3 DEF ReplayedLines
    <3> DEFINE before == RunningBefore(os, i, m)
               after == before + Signed(os[i], m)
    <3>2. ReplayedLine(os, i, m) = [l EXCEPT !.before = before, !.after = after]
      BY DEF ReplayedLine
    <3> HIDE DEF l, before, after, lines
    <3>3. lines[m] = [l EXCEPT !.before = before, !.after = after]
      BY <3>1, <3>2
    <3>4. LineOK(lines[m]) /\ lines[m].quantity = l.quantity /\ lines[m].remaining = l.remaining
      BY <2>1, <3>3 DEF LineOK
    <3> QED BY <3>4 DEF l
  <2>4. CASE m \notin ms
    BY <2>1, <2>4 DEF ReplayedLines
  <2> QED BY <2>3, <2>4
<1>2. DOMAIN lines = DOMAIN os[i].lines
  BY DEF ReplayedLines
<1> HIDE DEF lines
<1> QED BY <1>1, <1>2 DEF lines, LinesOK, SameFigures

\* A flush of a line takes each column from the session's line or from the stored one.
LEMMA FlushedColumns ==
    ASSUME NEW loaded, NEW computed, NEW stored,
           LineOK(loaded), LineOK(computed), LineOK(stored)
    PROVE  LET l == Flushed(loaded, computed, stored)
           IN  /\ LineOK(l)
               /\ l.quantity = IF computed.quantity # loaded.quantity THEN computed.quantity
                                                                      ELSE stored.quantity
               /\ l.remaining = IF computed.remaining # loaded.remaining THEN computed.remaining
                                                                         ELSE stored.remaining
<1> DEFINE l == Flushed(loaded, computed, stored)
<1>1. /\ {"quantity", "remaining"} \subseteq DOMAIN l
      /\ l["quantity"] = IF computed["quantity"] # loaded["quantity"] THEN computed["quantity"]
                                                                      ELSE stored["quantity"]
      /\ l["remaining"] = IF computed["remaining"] # loaded["remaining"]
                          THEN computed["remaining"] ELSE stored["remaining"]
  BY DEF Flushed, LineOK
<1> HIDE DEF l
<1> QED BY <1>1 DEF LineOK, l

\* A flush leaves the figures that the session did not change, and where the session had
\* the stored figures it leaves those that the session computed.
LEMMA FlushedFigures ==
    ASSUME NEW loaded, NEW computed, NEW stored,
           LinesOK(loaded), LinesOK(computed), LinesOK(stored)
    PROVE  LET lines == FlushedLines(loaded, computed, stored)
           IN  /\ LinesOK(lines)
               /\ SameFigures(computed, loaded) => SameFigures(lines, stored)
               /\ SameFigures(loaded, stored) => SameFigures(lines, computed)
<1> DEFINE lines == FlushedLines(loaded, computed, stored)
           inserted == DOMAIN computed \ DOMAIN loaded
<1>1. /\ DOMAIN lines = (DOMAIN stored \ (DOMAIN loaded \ DOMAIN computed)) \cup inserted
      /\ \A m \in DOMAIN lines :
            lines[m] = IF m \in inserted THEN computed[m]
                       ELSE IF m \in DOMAIN loaded THEN Flushed(loaded[m], computed[m], stored[m])
                       ELSE stored[m]
  BY DEF FlushedLines
<1> HIDE DEF lines
<1>2. ASSUME NEW m \in DOMAIN lines PROVE LineOK(lines[m])
  <2>1. CASE m \in inserted
    BY <1>1, <2>1 DEF LinesOK
  <2>2. CASE m \notin DOMAIN loaded /\ m \notin inserted
    BY <1>1, <2>2 DEF LinesOK
  <2>3. CASE m \in DOMAIN loaded
    <3>1. m \in DOMAIN computed /\ m \in DOMAIN stored
      BY <1>1, <2>3
    <3>2. LineOK(loaded[m]) /\ LineOK(computed[m]) /\ LineOK(stored[m])
      BY <2>3, <3>1 DEF LinesOK
    <3> QED BY <1>1, <2>3, <3>2, FlushedColumns
  <2> QED BY <2>1, <2>2, <2>3
<1>3. ASSUME SameFigures(computed, loaded) PROVE SameFigures(lines, stored)
  <2>1. inserted = {} /\ DOMAIN lines = DOMAIN stored /\ DOMAIN computed = DOMAIN loaded
    BY <1>1, <1>3 DEF SameFigures
  <2>2. ASSUME NEW m \in DOMAIN lines
        PROVE  lines[m].quantity = stored[m].quantity /\ lines[m].remaining = stored[m].remaining
    <3>1. CASE m \notin DOMAIN loaded
      BY <1>1, <2>1, <3>1
    <3>2. CASE m \in DOMAIN loaded
      <4>1. LineOK(loaded[m]) /\ LineOK(computed[m]) /\ LineOK(stored[m])
        BY <2>1, <3>2 DEF LinesOK
      <4>2. lines[m] = Flushed(loaded[m], computed[m], stored[m])
        BY <1>1, <2>1, <3>2
      <4>3. /\ computed[m].quantity = loaded[m].quantity
            /\ computed[m].remaining = loaded[m].remaining
        BY <1>3, <2>1, <3>2 DEF SameFigures
      <4> QED BY <4>1, <4>2, <4>3, FlushedColumns
    <3> QED BY <3>1, <3>2
  <2> QED BY <2>1, <2>2 DEF SameFigures
<1>4. ASSUME SameFigures(loaded, stored) PROVE SameFigures(lines, computed)
  <2>1. DOMAIN lines = DOMAIN computed /\ DOMAIN loaded = DOMAIN stored
    BY <1>1, <1>4 DEF SameFigures
  <2>2. ASSUME NEW m \in DOMAIN lines
        PROVE  lines[m].quantity = computed[m].quantity /\ lines[m].remaining = computed[m].remaining
    <3>1. CASE m \notin DOMAIN loaded
      BY <1>1, <2>1, <3>1
    <3>2. CASE m \in DOMAIN loaded
      <4>1. LineOK(loaded[m]) /\ LineOK(computed[m]) /\ LineOK(stored[m])
        BY <2>1, <3>2 DEF LinesOK
      <4>2. lines[m] = Flushed(loaded[m], computed[m], stored[m])
        BY <1>1, <3>2
      <4>3. loaded[m].quantity = stored[m].quantity /\ loaded[m].remaining = stored[m].remaining
        BY <1>4, <3>2 DEF SameFigures
      <4> QED BY <4>1, <4>2, <4>3, FlushedColumns
    <3> QED BY <3>1, <3>2
  <2> QED BY <2>1, <2>2 DEF SameFigures
<1> QED BY <1>2, <1>3, <1>4 DEF LinesOK, lines

\* The lines of a new operation.
NewFigures(lines, qs) ==
    /\ DOMAIN lines = DOMAIN qs
    /\ \A m \in DOMAIN qs : lines[m].quantity = qs[m] /\ lines[m].remaining = qs[m]

\* The lines a are the lines b with the quantities qs reversed.
TakenFigures(a, b, qs) ==
    /\ DOMAIN a = DOMAIN b /\ DOMAIN qs \subseteq DOMAIN b
    /\ \A m \in DOMAIN b : a[m].quantity = b[m].quantity
    /\ \A m \in DOMAIN qs : a[m].remaining = b[m].remaining - qs[m]
    /\ \A m \in DOMAIN b \ DOMAIN qs : a[m].remaining = b[m].remaining

\* An operation that a transaction has locked and read is as committed.
ReadsOK(t) ==
    t.req.kind \in OnOperation /\ t.pc # "lock operation" =>
        /\ LinesOK(t.operation.lines)
        /\ SameFigures(t.operation.lines, ops[t.req.target].lines)

AllLinesOK == \A i \in DOMAIN ops : LinesOK(ops[i].lines)

\* Requests name positive quantities.
LEMMA RequestQuantities ==
    ASSUME NEW qs \in RequestLines
    PROVE  \A m \in DOMAIN qs : m \in Materials /\ qs[m] \in Nat \ {0}
<1>1. PICK ms \in SUBSET Materials : qs \in [ms -> Quantities]
  BY DEF RequestLines
<1>2. DOMAIN qs = ms /\ \A m \in ms : qs[m] \in Quantities
  BY <1>1
<1> QED BY <1>1, <1>2, QuantitiesAssumption

\* Reading committed rows, a session loads the ledger with its figures as committed.
LEMMA LoadedFigures ==
    ASSUME ReadsCommitted, LInv, AllLinesOK,
           NEW t, TxnOK(t), ReadsOK(t), t.pc = "write"
    PROVE  /\ DOMAIN Loaded(t) = DOMAIN ops
           /\ \A i \in DOMAIN ops : /\ HeadOK(Loaded(t)[i]) /\ LinesOK(Loaded(t)[i].lines)
                                    /\ SameFigures(Loaded(t)[i].lines, ops[i].lines)
<1>1. View(t).ops = ops
  BY DEF ReadsCommitted, View, Committed
<1>2. \A i \in DOMAIN ops : /\ HeadOK(ops[i]) /\ LinesOK(ops[i].lines)
                           /\ SameFigures(ops[i].lines, ops[i].lines)
  BY DEF AllLinesOK, SameFigures, LInv, TablesOK
<1>3. CASE t.req.kind \notin OnOperation
  BY <1>1, <1>2, <1>3 DEF Loaded, OnOperation
<1>4. CASE t.req.kind \in OnOperation
  <2> DEFINE op == WithLines(ops[t.req.target], t.operation.lines)
  <2>1. t.req.target \in DOMAIN ops
    BY <1>4 DEF TxnOK, RequestOK
  <2>2. HeadOK(ops[t.req.target])
    BY <2>1 DEF LInv, TablesOK
  <2>3. HeadOK(op) /\ op.lines = t.operation.lines
    BY <2>2, LinesOnly
  <2>4. Loaded(t) = [ops EXCEPT ![t.req.target] = op]
    BY <1>1, <1>4, <2>1 DEF Loaded, OnOperation, WithLines
  <2> HIDE DEF op
  <2>5. LinesOK(op.lines) /\ SameFigures(op.lines, ops[t.req.target].lines)
    BY <1>4, <2>3 DEF ReadsOK
  <2> QED BY <1>2, <2>1, <2>3, <2>4, <2>5
<1> QED BY <1>3, <1>4

\* What the lines of a request become.
LEMMA NewLinesFigures ==
    ASSUME NEW qs \in RequestLines, NEW lines, lines = [m \in DOMAIN qs |-> NewLine(qs[m])]
    PROVE  LinesOK(lines) /\ NewFigures(lines, qs)
<1>1. \A m \in DOMAIN qs : qs[m] \in Nat
  BY RequestQuantities
<1> QED BY <1>1 DEF LinesOK, LineOK, NewFigures, NewLine

\* What an edit makes of the lines.
LEMMA EditedFigures ==
    ASSUME NEW op, HeadOK(op), LinesOK(op.lines), NEW type, NEW at, NEW source,
           NEW qs \in RequestLines
    PROVE  LinesOK(EditedOperation(op, type, at, source, qs).lines)
<1> DEFINE lines == [m \in DOMAIN qs |->
                       IF m \in DOMAIN op.lines THEN EditedLine(op.lines[m], qs[m])
                                                ELSE NewLine(qs[m])]
           version == op.version + 1
<1>1. op = [type |-> op.type, at |-> op.at, source |-> op.source, mini |-> op.mini,
            reversalOf |-> op.reversalOf, request |-> op.request,
            version |-> op.version, lines |-> op.lines]
  BY DEF HeadOK
<1>2. ASSUME NEW g, g = EditedOperation(op, type, at, source, qs) PROVE g.lines = lines
  <2>1. g = [op EXCEPT !.type = type, !.at = at, !.source = source, !.version = version,
                       !.lines = lines]
    BY <1>2 DEF EditedOperation
  <2> HIDE DEF lines, version
  <2> QED BY <1>1, <2>1
<1>3. ASSUME NEW m \in DOMAIN qs PROVE LineOK(lines[m])
  <2>1. qs[m] \in Nat
    BY RequestQuantities
  <2>2. CASE m \in DOMAIN op.lines
    <3>1. LineOK(op.lines[m]) /\ lines[m] = EditedLine(op.lines[m], qs[m])
      BY <2>2 DEF LinesOK
    <3> QED BY <2>1, <3>1 DEF LineOK, EditedLine
  <2>3. CASE m \notin DOMAIN op.lines
    BY <2>1, <2>3 DEF LineOK, NewLine
  <2> QED BY <2>2, <2>3
<1>4. LinesOK(lines)
  BY <1>3 DEF LinesOK
<1> HIDE DEF lines
<1> QED BY <1>2, <1>4

\* What a reversal takes off the original.
LEMMA TakenLines ==
    ASSUME NEW os, NEW original \in DOMAIN os, HeadOK(os[original]),
           LinesOK(os[original].lines), NEW qs \in RequestLines,
           CanReverse(os[original].lines, qs)
    PROVE  LET taken == TakeReversed(os, original, qs)
           IN  /\ DOMAIN taken = DOMAIN os
               /\ \A i \in DOMAIN os \ {original} : taken[i] = os[i]
               /\ HeadOK(taken[original]) /\ LinesOK(taken[original].lines)
               /\ TakenFigures(taken[original].lines, os[original].lines, qs)
<1> DEFINE stored == os[original].lines
           lines == [m \in DOMAIN stored |-> IF m \in DOMAIN qs
                                             THEN [stored[m] EXCEPT !.remaining = @ - qs[m]]
                                             ELSE stored[m]]
<1>1. TakeReversed(os, original, qs) = [os EXCEPT ![original] = WithLines(os[original], lines)]
  BY DEF TakeReversed, WithLines
<1>2. WithLines(os[original], lines).lines = lines /\ HeadOK(WithLines(os[original], lines))
  BY LinesOnly
<1>3. \A m \in DOMAIN qs : /\ qs[m] \in Nat /\ m \in DOMAIN stored
                           /\ qs[m] <= stored[m].remaining
  BY RequestQuantities DEF CanReverse
<1>4. ASSUME NEW m \in DOMAIN stored
      PROVE  /\ LineOK(lines[m]) /\ lines[m].quantity = stored[m].quantity
             /\ lines[m].remaining = IF m \in DOMAIN qs THEN stored[m].remaining - qs[m]
                                                        ELSE stored[m].remaining
  <2> DEFINE l == stored[m]
  <2>1. LineOK(l)
    BY DEF LinesOK
  <2>2. CASE m \in DOMAIN qs
    <3>1. lines[m] = [l EXCEPT !.remaining = @ - qs[m]]
      BY <2>2
    <3>2. qs[m] \in Nat /\ qs[m] <= l.remaining
      BY <1>3, <2>2
    <3> HIDE DEF l, lines
    <3>3. /\ LineOK(lines[m]) /\ lines[m].quantity = l.quantity
          /\ lines[m].remaining = l.remaining - qs[m]
      BY <2>1, <3>1, <3>2 DEF LineOK
    <3> QED BY <2>2, <3>3 DEF l
  <2>3. CASE m \notin DOMAIN qs
    BY <2>1, <2>3
  <2> QED BY <2>2, <2>3
<1>5. DOMAIN lines = DOMAIN stored
  OBVIOUS
<1> HIDE DEF lines
<1>6. LinesOK(lines) /\ TakenFigures(lines, stored, qs)
  BY <1>3, <1>4, <1>5 DEF LinesOK, TakenFigures
<1> QED BY <1>1, <1>2, <1>6

\* The ledger that a request computes in its session, before it is replayed.
ComputedFigures(t) ==
    LET r == t.req
        id == WrittenId(r)
        os == Computed(t)
    IN  /\ DOMAIN os = DOMAIN ops \cup {id}
        /\ \A i \in DOMAIN os : HeadOK(os[i]) /\ LinesOK(os[i].lines)
        /\ \A i \in DOMAIN ops \ {id} :
              (r.kind = "REVERSE" /\ i = r.target) \/ SameFigures(os[i].lines, Loaded(t)[i].lines)
        /\ r.kind = "REVERSE" =>
              TakenFigures(os[r.target].lines, Loaded(t)[r.target].lines, r.qs)
        /\ r.kind # "UPDATE" =>
              /\ os[id].reversalOf = IF r.kind = "REVERSE" THEN r.target ELSE NoOperation
              /\ os[id].version = 1 /\ NewFigures(os[id].lines, r.qs)

\* A creation, a reversal and an edit compute what they should.
LEMMA ComputesFigures ==
    ASSUME ReadsCommitted, LInv, AllLinesOK,
           NEW t, TxnOK(t), ReadsOK(t), t.pc = "write",
           t.req.kind = "REVERSE" => CanReverse(t.operation.lines, t.req.qs)
    PROVE  ComputedFigures(t)
<1> DEFINE r == t.req
           id == WrittenId(r)
           L == Loaded(t)
<1>1. /\ DOMAIN L = DOMAIN ops
      /\ \A i \in DOMAIN ops : HeadOK(L[i]) /\ LinesOK(L[i].lines)
  BY LoadedFigures
<1>2. /\ r.kind \in {"CREATE", "MINI", "REVERSE", "UPDATE"} /\ r.qs \in RequestLines
      /\ NextId \notin DOMAIN ops
      /\ \A i \in DOMAIN ops : SameFigures(L[i].lines, L[i].lines)
  BY NextIdIsNew DEF TxnOK, RequestOK, LInv, SameFigures
<1>6. HeadOK(Computed(t)[id])
  BY ComputedHead
<1>3. CASE r.kind \in {"CREATE", "MINI"}
  <2> DEFINE op == NewOperation(r.type, r.at, MANUAL, r.kind = "MINI", NoOperation,
                                r.request, r.qs)
  <2>1. Computed(t) = AddOperation(L, NextId, op)
    BY <1>3 DEF Computed
  <2>2. op.reversalOf = NoOperation /\ op.version = 1 /\ op.lines = [m \in DOMAIN r.qs |-> NewLine(r.qs[m])]
    BY DEF NewOperation
  <2>4. LinesOK(op.lines) /\ NewFigures(op.lines, r.qs)
    <3> HIDE DEF op
    <3> QED BY <1>2, <2>2, NewLinesFigures
  <2> HIDE DEF op, L
  <2>5. id = NextId
    BY <1>3 DEF WrittenId
  <2>6. /\ DOMAIN Computed(t) = DOMAIN ops \cup {id} /\ Computed(t)[id] = op
        /\ \A i \in DOMAIN ops : Computed(t)[i] = L[i]
    BY <1>1, <1>2, <2>1, <2>5 DEF AddOperation
  <2> QED BY <1>1, <1>2, <1>3, <1>6, <2>2, <2>4, <2>6 DEF ComputedFigures, L
<1>4. CASE r.kind = "REVERSE"
  <2> DEFINE taken == TakeReversed(L, r.target, r.qs)
             op == NewOperation(OtherType(t.operation.type), ReversalTime(r.at, t.operation.at),
                                REVERSAL, FALSE, r.target, r.request, r.qs)
  <2>1. Computed(t) = AddOperation(taken, NextId, op)
    BY <1>4 DEF Computed
  <2>2. op.reversalOf = r.target /\ op.version = 1 /\ op.lines = [m \in DOMAIN r.qs |-> NewLine(r.qs[m])]
    BY DEF NewOperation
  <2>4. LinesOK(op.lines) /\ NewFigures(op.lines, r.qs)
    <3> HIDE DEF op
    <3> QED BY <1>2, <2>2, NewLinesFigures
  <2> HIDE DEF op
  <2>5. id = NextId
    BY <1>4 DEF WrittenId
  <2>6. /\ r.target \in DOMAIN ops /\ HeadOK(ops[r.target])
        /\ L = [ops EXCEPT ![r.target] = WithLines(ops[r.target], t.operation.lines)]
    <3>1. r.target \in DOMAIN ops
      BY <1>4 DEF TxnOK, RequestOK, OnOperation
    <3>2. View(t).ops = ops
      BY DEF ReadsCommitted, View, Committed
    <3> QED BY <1>4, <3>1, <3>2 DEF Loaded, WithLines, LInv, TablesOK
  <2> HIDE DEF L
  <2>7. HeadOK(L[r.target]) /\ L[r.target].lines = t.operation.lines
    <3>1. L[r.target] = WithLines(ops[r.target], t.operation.lines)
      BY <2>6
    <3> QED BY <2>6, <3>1, LinesOnly
  <2>10. CanReverse(L[r.target].lines, r.qs) /\ LinesOK(L[r.target].lines)
    BY <1>1, <1>4, <2>6, <2>7
  <2>8. /\ DOMAIN taken = DOMAIN ops /\ \A i \in DOMAIN ops \ {r.target} : taken[i] = L[i]
        /\ HeadOK(taken[r.target]) /\ LinesOK(taken[r.target].lines)
        /\ TakenFigures(taken[r.target].lines, L[r.target].lines, r.qs)
    <3>1. r.target \in DOMAIN L /\ HeadOK(L[r.target]) /\ r.qs \in RequestLines
      BY <1>1, <1>2, <2>6, <2>7
    <3>2. /\ DOMAIN taken = DOMAIN L
          /\ \A i \in DOMAIN L \ {r.target} : taken[i] = L[i]
          /\ HeadOK(taken[r.target]) /\ LinesOK(taken[r.target].lines)
          /\ TakenFigures(taken[r.target].lines, L[r.target].lines, r.qs)
      BY <2>10, <3>1, TakenLines
    <3> QED BY <1>1, <3>2
  <2> HIDE DEF taken
  <2>9. /\ DOMAIN Computed(t) = DOMAIN ops \cup {id} /\ Computed(t)[id] = op
        /\ \A i \in DOMAIN ops : Computed(t)[i] = taken[i]
    BY <1>2, <2>1, <2>5, <2>8 DEF AddOperation
  <2>11. \A i \in DOMAIN Computed(t) : HeadOK(Computed(t)[i]) /\ LinesOK(Computed(t)[i].lines)
    <3>1. \A i \in DOMAIN ops : HeadOK(taken[i]) /\ LinesOK(taken[i].lines)
      BY <1>1, <2>8
    <3> QED BY <1>6, <2>4, <2>9, <3>1
  <2>12. \A i \in DOMAIN ops \ {id} :
            i = r.target \/ SameFigures(Computed(t)[i].lines, L[i].lines)
    BY <1>2, <2>8, <2>9
  <2>13. TakenFigures(Computed(t)[r.target].lines, L[r.target].lines, r.qs)
    BY <2>6, <2>8, <2>9
  <2> QED BY <1>4, <2>2, <2>4, <2>9, <2>11, <2>12, <2>13 DEF ComputedFigures, L
<1>5. CASE r.kind = "UPDATE"
  <2> DEFINE e == EditedOperation(t.operation, r.type, r.at, t.operation.source, r.qs)
  <2>1. Computed(t) = [L EXCEPT ![r.target] = e]
    BY <1>5 DEF Computed
  <2>2. id = r.target /\ id \in DOMAIN ops
    BY <1>5 DEF WrittenId, TxnOK, RequestOK, OnOperation
  <2>3. HeadOK(t.operation) /\ LinesOK(t.operation.lines)
    BY <1>5 DEF TxnOK, ReadsOK, OnOperation
  <2>4. LinesOK(e.lines)
    BY <1>2, <2>3, EditedFigures
  <2> HIDE DEF e, L
  <2>5. /\ DOMAIN Computed(t) = DOMAIN ops \cup {id} /\ Computed(t)[id] = e
        /\ \A i \in DOMAIN ops \ {id} : Computed(t)[i] = L[i]
    BY <1>1, <2>1, <2>2
  <2> QED BY <1>1, <1>2, <1>5, <1>6, <2>4, <2>5 DEF ComputedFigures, L
<1> QED BY <1>2, <1>3, <1>4, <1>5

\* What a commit does to the figures of the ledger.
FiguresWritten(t) ==
    LET r == t.req
        id == WrittenId(r)
    IN  /\ AllLinesOK'
        /\ \A i \in DOMAIN ops \ {id} :
              (r.kind = "REVERSE" /\ i = r.target) \/ SameFigures(ops'[i].lines, ops[i].lines)
        /\ r.kind = "REVERSE" => TakenFigures(ops'[r.target].lines, ops[r.target].lines, r.qs)
        /\ r.kind # "UPDATE" =>
              /\ ops'[id].reversalOf = IF r.kind = "REVERSE" THEN r.target ELSE NoOperation
              /\ ops'[id].version = 1 /\ NewFigures(ops'[id].lines, r.qs)

\* Figures taken off are passed on.
LEMMA TakenPassOn ==
    ASSUME NEW a, NEW b, NEW c, NEW d, NEW qs,
           SameFigures(a, b), TakenFigures(b, c, qs), SameFigures(c, d)
    PROVE  TakenFigures(a, d, qs)
  BY DEF SameFigures, TakenFigures

\* The figures after a commit.
LEMMA CommitFigures ==
    ASSUME ReadsCommitted, LInv, AllLinesOK,
           NEW p \in Procs, WriteAndCommit(p), ReadsOK(txn[p])
    PROVE  FiguresWritten(txn[p])
<1> DEFINE t == txn[p]
           r == t.req
           id == WrittenId(r)
           L == Loaded(t)
           C == Computed(t)
           computed == Replayed(C, t.affected)
<1>1. /\ TxnOK(t) /\ t.pc = "write" /\ ~WriteFails(t, L, computed)
      /\ ops' = [i \in DOMAIN ops \cup {id} |-> WrittenOperation(t, i)]
  BY CommitWrites
<1>2. /\ DOMAIN L = DOMAIN ops
      /\ \A i \in DOMAIN ops : LinesOK(L[i].lines) /\ SameFigures(L[i].lines, ops[i].lines)
  BY <1>1, LoadedFigures
<1>3. ComputedFigures(t)
  BY <1>1, ComputesFigures DEF WriteFails
<1>4. /\ r.kind \in {"CREATE", "MINI", "REVERSE", "UPDATE"}
      /\ r.kind = "UPDATE" => id \in DOMAIN ops
      /\ r.kind # "UPDATE" => id \notin DOMAIN ops
      /\ r.kind = "REVERSE" => r.target \in DOMAIN ops
  BY <1>1, NextIdIsNew DEF TxnOK, RequestOK, OnOperation, WrittenId, LInv
<1>5. ASSUME NEW i \in DOMAIN ops \cup {id}
      PROVE  /\ HeadOK(computed[i]) /\ LinesOK(computed[i].lines)
             /\ SameHead(computed[i], C[i]) /\ SameFigures(computed[i].lines, C[i].lines)
  <2>1. i \in DOMAIN C /\ HeadOK(C[i]) /\ LinesOK(C[i].lines)
    BY <1>3 DEF ComputedFigures
  <2>2. computed[i] = WithLines(C[i], ReplayedLines(C, i, t.affected))
    BY <2>1, ReplayedIsWithLines
  <2> HIDE DEF C, computed
  <2> DEFINE lines == ReplayedLines(C, i, t.affected)
  <2>3. LinesOK(lines) /\ SameFigures(lines, C[i].lines)
    BY <2>1, ReplayedFigures
  <2> HIDE DEF lines
  <2>4. /\ HeadOK(WithLines(C[i], lines)) /\ SameHead(WithLines(C[i], lines), C[i])
        /\ WithLines(C[i], lines).lines = lines
    BY <2>1, LinesOnly
  <2>5. computed[i] = WithLines(C[i], lines)
    BY <2>2 DEF lines
  <2> QED BY <2>3, <2>4, <2>5
<1> HIDE DEF computed
<1>6. ASSUME NEW i \in DOMAIN ops
      PROVE  ops'[i].lines = FlushedLines(L[i].lines, computed[i].lines, ops[i].lines)
  <2> DEFINE lines == FlushedLines(L[i].lines, computed[i].lines, ops[i].lines)
             op == IF r.kind = "UPDATE" /\ i = id THEN computed[i] ELSE ops[i]
  <2>1. ops'[i] = WithLines(op, lines)
    BY <1>1, <1>2 DEF WrittenOperation, computed
  <2>2. HeadOK(op)
    BY <1>5 DEF LInv, TablesOK
  <2> HIDE DEF op, lines
  <2>3. WithLines(op, lines).lines = lines
    BY <2>2, LinesOnly
  <2> QED BY <2>1, <2>3 DEF lines
<1>7. ASSUME NEW i \in DOMAIN ops
      PROVE  /\ LinesOK(ops'[i].lines)
             /\ SameFigures(computed[i].lines, L[i].lines) => SameFigures(ops'[i].lines, ops[i].lines)
             /\ SameFigures(ops'[i].lines, computed[i].lines)
  <2>1. LinesOK(L[i].lines) /\ LinesOK(computed[i].lines) /\ LinesOK(ops[i].lines)
        /\ SameFigures(L[i].lines, ops[i].lines)
    BY <1>2, <1>5 DEF AllLinesOK
  <2> HIDE DEF L
  <2> DEFINE a == L[i].lines
             b == computed[i].lines
             c == ops[i].lines
  <2>2. ops'[i].lines = FlushedLines(a, b, c)
    BY <1>6
  <2>3. LinesOK(a) /\ LinesOK(b) /\ LinesOK(c) /\ SameFigures(a, c)
    BY <2>1
  <2> HIDE DEF a, b, c
  <2>4. /\ LinesOK(FlushedLines(a, b, c))
        /\ SameFigures(b, a) => SameFigures(FlushedLines(a, b, c), c)
        /\ SameFigures(FlushedLines(a, b, c), b)
    BY <2>3, FlushedFigures
  <2>5. /\ LinesOK(ops'[i].lines)
        /\ SameFigures(b, a) => SameFigures(ops'[i].lines, c)
        /\ SameFigures(ops'[i].lines, b)
    BY <2>2, <2>4
  <2> QED BY <2>5 DEF a, b, c
<1>8. ASSUME r.kind # "UPDATE"
      PROVE  /\ ops'[id] = computed[id]
             /\ ops'[id].reversalOf = IF r.kind = "REVERSE" THEN r.target ELSE NoOperation
             /\ ops'[id].version = 1 /\ NewFigures(ops'[id].lines, r.qs)
  <2>1. ops'[id] = computed[id]
    BY <1>1, <1>4, <1>8 DEF WrittenOperation, computed
  <2>2. /\ C[id].reversalOf = IF r.kind = "REVERSE" THEN r.target ELSE NoOperation
        /\ C[id].version = 1 /\ NewFigures(C[id].lines, r.qs)
    BY <1>3, <1>8 DEF ComputedFigures
  <2>3. SameHead(computed[id], C[id]) /\ SameFigures(computed[id].lines, C[id].lines)
    BY <1>5
  <2> QED BY <2>1, <2>2, <2>3 DEF SameHead, SameFigures, NewFigures
<1>9. AllLinesOK'
  <2>1. \A i \in DOMAIN ops \cup {id} : LinesOK(ops'[i].lines)
    BY <1>4, <1>5, <1>7, <1>8
  <2>2. DOMAIN ops' = DOMAIN ops \cup {id}
    BY <1>1
  <2> QED BY <2>1, <2>2 DEF AllLinesOK
<1>10. ASSUME NEW i \in DOMAIN ops \ {id}, ~(r.kind = "REVERSE" /\ i = r.target)
       PROVE  SameFigures(ops'[i].lines, ops[i].lines)
  <2>1. SameFigures(C[i].lines, L[i].lines)
    BY <1>3, <1>10 DEF ComputedFigures
  <2>2. SameFigures(computed[i].lines, C[i].lines)
    BY <1>5
  <2>3. SameFigures(computed[i].lines, L[i].lines)
    <3> HIDE DEF C, L
    <3> QED BY <2>1, <2>2, FiguresPassOn
  <2> QED BY <1>7, <2>3
<1>11. ASSUME r.kind = "REVERSE"
       PROVE  TakenFigures(ops'[r.target].lines, ops[r.target].lines, r.qs)
  <2>1. TakenFigures(C[r.target].lines, L[r.target].lines, r.qs)
    BY <1>3, <1>11 DEF ComputedFigures
  <2>2. /\ SameFigures(ops'[r.target].lines, computed[r.target].lines)
        /\ SameFigures(computed[r.target].lines, C[r.target].lines)
        /\ SameFigures(L[r.target].lines, ops[r.target].lines)
    BY <1>2, <1>4, <1>5, <1>7, <1>11
  <2> HIDE DEF C, L
  <2>3. SameFigures(ops'[r.target].lines, C[r.target].lines)
    BY <2>2, FiguresPassOn
  <2> QED BY <2>1, <2>2, <2>3, TakenPassOn
<1> QED BY <1>8, <1>9, <1>10, <1>11 DEF FiguresWritten

-----------------------------------------------------------------------------
(* Reversals, reading committed rows.                                       *)

\* The unedited operations that take m off the operation i.
Unedited(os, i, m) ==
    {j \in DOMAIN os : os[j].reversalOf = i /\ os[j].version = 1 /\ m \in DOMAIN os[j].lines}

\* What was reversed of an unedited line and what is left to reverse are within its quantity.
LineAccounted(os, i, m) ==
    Moved(os, m, Unedited(os, i, m)) + os[i].lines[m].remaining <= os[i].lines[m].quantity

Accounted ==
    \A i \in DOMAIN ops : ops[i].version = 1 =>
        \A m \in DOMAIN ops[i].lines : LineAccounted(ops, i, m)

QInv ==
    /\ AllLinesOK
    /\ \A i \in DOMAIN ops : ops[i].reversalOf \in DOMAIN ops \cup {NoOperation}
    /\ \A p \in Procs : Active(p) => ReadsOK(txn[p])
    /\ Accounted

\* A step that writes nothing needs a look at what its own transaction has read.
LEMMA BecomesKeepsQInv ==
    ASSUME LInv, QInv, NEW p \in Procs, NEW t, Becomes(p, t), t = Idle \/ ReadsOK(t)
    PROVE  QInv'
<1>1. txn'[p] = t /\ \A q \in Procs \ {p} : txn'[q] = txn[q]
  BY DEF LInv, Becomes
<1>2. UNCHANGED <<ops, balance, balanceVersion, log, events>>
  BY DEF Becomes, tables
<1>3. ASSUME NEW q \in Procs, Active(q)' PROVE ReadsOK(txn[q])'
  <2>1. CASE q = p
    <3>1. t.pc # "idle" /\ txn'[q] = t
      BY <1>1, <1>3, <2>1 DEF Active
    <3>2. ReadsOK(t)
      BY <3>1 DEF Idle
    <3> QED BY <1>2, <3>1, <3>2 DEF ReadsOK
  <2>2. CASE q # p
    BY <1>1, <1>2, <1>3, <2>2 DEF QInv, ReadsOK, Active
  <2> QED BY <2>1, <2>2
<1> QED BY <1>2, <1>3 DEF QInv, AllLinesOK, Accounted

\* The steps that write nothing.
LEMMA ReadingKeepsQInv ==
    ASSUME ReadsCommitted, LInv, QInv, NEW p \in Procs,
           \/ \E req \in Requests : Begin(p, req)
           \/ Finish(p) \/ LockOperation(p) \/ LockMaterial(p) \/ LockRow(p) \/ Recheck(p)
    PROVE  QInv'
<1>1. ASSUME Finish(p) PROVE QInv'
  BY <1>1, BecomesKeepsQInv DEF Finish, Becomes
<1>2. ASSUME NEW req \in Requests, Begin(p, req) PROVE QInv'
  <2> DEFINE t == [pc |-> CASE req.kind = "CREATE" -> "lock balances"
                            [] req.kind = "MINI" -> "lock material"
                            [] OTHER -> "lock operation",
                   req |-> req, held |-> {},
                   snapshot |-> IF Isolation = "REPEATABLE READ" THEN Committed ELSE << >>,
                   affected |-> IF req.kind = "UPDATE" THEN {} ELSE DOMAIN req.qs,
                   operation |-> << >>, balances |-> << >>]
  <2>1. Becomes(p, t)
    BY <1>2 DEF Begin, Becomes
  <2>2. req.kind \in OnOperation => t.pc = "lock operation"
    BY DEF OnOperation
  <2>3. t.req = req
    OBVIOUS
  <2> HIDE DEF t
  <2>4. ReadsOK(t)
    BY <2>2, <2>3 DEF ReadsOK
  <2> QED BY <2>1, <2>4, BecomesKeepsQInv
<1>3. ASSUME LockOperation(p) PROVE QInv'
  <2> DEFINE t == txn[p]
             new == HasOperation(t)
             lines == ops[t.req.target].lines
  <2>1. CASE Finish(p)
    BY <1>1, <2>1
  <2>2. CASE Becomes(p, new)
    <3>1. View(t).ops = ops
      BY DEF ReadsCommitted, View, Committed
    <3>2. t.req.target \in DOMAIN ops
      BY <1>3, LockOperationBecomes DEF TxnOK, RequestOK
    <3>3. HeadOK(ops[t.req.target]) /\ LinesOK(lines) /\ SameFigures(lines, lines)
      BY <3>2 DEF LInv, TablesOK, QInv, AllLinesOK, SameFigures
    <3>4. new.operation = WithLines(ops[t.req.target], lines) /\ new.req = t.req
      BY <3>1 DEF HasOperation, WithLines
    <3> HIDE DEF new, lines
    <3>5. new.operation.lines = lines
      <4>1. WithLines(ops[t.req.target], lines).lines = lines
        BY <3>3, LinesOnly
      <4> QED BY <3>4, <4>1
    <3>6. ReadsOK(new)
      BY <3>3, <3>4, <3>5 DEF ReadsOK, lines
    <3> QED BY <2>2, <3>6, BecomesKeepsQInv
  <2> QED BY <1>3, <2>1, <2>2, LockOperationBecomes
<1>4. ASSUME LockMaterial(p) PROVE QInv'
  <2> DEFINE new == HasMaterial(txn[p])
  <2>1. CASE Finish(p)
    BY <1>1, <2>1
  <2>2. CASE Becomes(p, new)
    <3>1. new.req.kind = "MINI"
      BY <1>4, LockMaterialBecomes DEF HasMaterial
    <3> HIDE DEF new
    <3>2. ReadsOK(new)
      BY <3>1 DEF ReadsOK, OnOperation
    <3> QED BY <2>2, <3>2, BecomesKeepsQInv
  <2> QED BY <1>4, <2>1, <2>2, LockMaterialBecomes
<1>5. ASSUME LockRow(p) PROVE QInv'
  <2> DEFINE t == txn[p]
             new == HasRow(t)
  <2>1. Active(p) /\ t.pc = "lock balances" /\ Becomes(p, new)
    BY <1>5, LockRowBecomes
  <2>2. new.req = t.req /\ new.operation = t.operation
    BY DEF HasRow
  <2> HIDE DEF new
  <2>3. ReadsOK(new)
    BY <2>1, <2>2 DEF QInv, ReadsOK
  <2> QED BY <2>1, <2>3, BecomesKeepsQInv
<1>6. ASSUME Recheck(p) PROVE QInv'
  <2> DEFINE t == txn[p]
  <2>1. Active(p) /\ t.pc = "recheck"
    BY <1>6, RecheckBecomes
  <2>2. ASSUME NEW gaps, Becomes(p, HasNoTwin(t, gaps)) PROVE QInv'
    <3> DEFINE new == HasNoTwin(t, gaps)
    <3>1. new.req = t.req /\ new.operation = t.operation
      BY DEF HasNoTwin
    <3> HIDE DEF new
    <3>2. ReadsOK(new)
      BY <2>1, <3>1 DEF QInv, ReadsOK
    <3>3. Becomes(p, new)
      BY <2>2 DEF new
    <3> QED BY <3>2, <3>3, BecomesKeepsQInv
  <2> QED BY <1>1, <1>6, <2>2, RecheckBecomes
<1> QED BY <1>1, <1>2, <1>3, <1>4, <1>5, <1>6

\* The account of a line with the same figures and the same unedited reversals.
LEMMA AccountStays ==
    ASSUME NEW os, NEW r, NEW i, NEW m, LineAccounted(os, i, m),
           r[i].lines[m].quantity = os[i].lines[m].quantity,
           r[i].lines[m].remaining = os[i].lines[m].remaining,
           Unedited(r, i, m) = Unedited(os, i, m), IsFiniteSet(Unedited(os, i, m)),
           \A j \in Unedited(os, i, m) : r[j].lines[m].quantity = os[j].lines[m].quantity
    PROVE  LineAccounted(r, i, m)
  BY MovedSame DEF LineAccounted

\* The account of a line whose reversal x was edited, or is one more.
LEMMA AccountWithout ==
    ASSUME NEW os, NEW r, NEW i, NEW m, NEW x, LineAccounted(os, i, m),
           LineOK(os[i].lines[m]),
           r[i].lines[m].quantity = os[i].lines[m].quantity,
           r[i].lines[m].remaining = os[i].lines[m].remaining,
           Unedited(r, i, m) = Unedited(os, i, m) \ {x}, IsFiniteSet(Unedited(os, i, m)),
           \A j \in Unedited(os, i, m) : os[j].lines[m].quantity \in Nat,
           \A j \in Unedited(r, i, m) : r[j].lines[m].quantity = os[j].lines[m].quantity
    PROVE  LineAccounted(r, i, m)
<1> DEFINE R == Unedited(os, i, m)
           T == R \ {x}
<1>1. CASE x \notin R
  <2>1. Unedited(r, i, m) = R
    BY <1>1
  <2> QED BY <2>1, AccountStays
<1>2. CASE x \in R
  <2>1. IsFiniteSet(T) /\ R = T \cup {x} /\ x \notin T
    BY <1>2, FS_Subset
  <2>2. \A j \in T \cup {x} : os[j].lines[m].quantity \in Int
    BY <2>1
  <2> HIDE DEF T
  <2>3. Moved(os, m, R) = Moved(os, m, T) + os[x].lines[m].quantity
    BY <2>1, <2>2, MovedByOneMore
  <2>4. Moved(r, m, T) = Moved(os, m, T) /\ Unedited(r, i, m) = T
    BY <2>1, MovedSame DEF T
  <2>5. Moved(os, m, T) \in Int /\ os[x].lines[m].quantity \in Nat
    BY <1>2, <2>1, <2>2, MovedIsInt
  <2>6. Moved(os, m, R) + os[i].lines[m].remaining <= os[i].lines[m].quantity
    BY DEF LineAccounted
  <2> HIDE DEF R
  <2>7. Moved(r, m, T) + r[i].lines[m].remaining <= r[i].lines[m].quantity
    BY <2>3, <2>4, <2>5, <2>6 DEF LineOK
  <2> QED BY <2>4, <2>7 DEF LineAccounted
<1> QED BY <1>1, <1>2

\* The account of a line that q more is reversed of.
LEMMA AccountWith ==
    ASSUME NEW os, NEW r, NEW i, NEW m, NEW x, NEW q \in Nat, LineAccounted(os, i, m),
           LineOK(os[i].lines[m]),
           r[i].lines[m].quantity = os[i].lines[m].quantity,
           r[i].lines[m].remaining = os[i].lines[m].remaining - q,
           Unedited(r, i, m) = Unedited(os, i, m) \cup {x}, x \notin Unedited(os, i, m),
           IsFiniteSet(Unedited(os, i, m)), r[x].lines[m].quantity = q,
           \A j \in Unedited(os, i, m) : /\ os[j].lines[m].quantity \in Nat
                                         /\ r[j].lines[m].quantity = os[j].lines[m].quantity
    PROVE  LineAccounted(r, i, m)
<1> DEFINE R == Unedited(os, i, m)
<1>1. \A j \in R \cup {x} : r[j].lines[m].quantity \in Int
  OBVIOUS
<1> HIDE DEF R
<1>2. Moved(r, m, R \cup {x}) = Moved(r, m, R) + q
  BY <1>1, MovedByOneMore DEF R
<1>3. Moved(r, m, R) = Moved(os, m, R)
  BY MovedSame DEF R
<1>4. Moved(os, m, R) \in Int
  BY MovedIsInt DEF R
<1> QED BY <1>2, <1>3, <1>4 DEF LineAccounted, LineOK, R

\* A commit keeps the account of every unedited line.
LEMMA CommitAccounts ==
    ASSUME ReadsCommitted, LInv, QInv, NEW p \in Procs, WriteAndCommit(p)
    PROVE  Accounted'
<1> DEFINE t == txn[p]
           r == t.req
           id == WrittenId(r)
           os == ops'
<1>1. Active(p) /\ TxnOK(t) /\ t.pc = "write" /\ HeadsWritten(t)
  BY CommitWrites, CommitHeads
<1>2. FiguresWritten(t)
  BY <1>1, CommitFigures DEF QInv
<1>3. /\ r.kind \in {"CREATE", "MINI", "REVERSE", "UPDATE"} /\ r.qs \in RequestLines
      /\ r.kind = "UPDATE" => id \in DOMAIN ops
      /\ r.kind # "UPDATE" => id \notin DOMAIN ops /\ id # NoOperation
      /\ r.kind = "REVERSE" => r.target \in DOMAIN ops
      /\ NoOperation \notin DOMAIN ops
  <2>1. DOMAIN ops = 1..Cardinality(DOMAIN ops) /\ NextId \notin DOMAIN ops /\ NextId \in Nat \ {0}
    BY NextIdIsNew DEF LInv, TablesOK
  <2>2. NoOperation \notin DOMAIN ops /\ NextId # NoOperation
    <3>1. Cardinality(DOMAIN ops) \in Nat
      BY FS_CardinalityType DEF LInv, TablesOK
    <3> QED BY <2>1, <3>1 DEF NoOperation
  <2>3. RequestOK(r)
    BY <1>1 DEF TxnOK
  <2> QED BY <2>1, <2>2, <2>3 DEF RequestOK, OnOperation, WrittenId
<1>4. /\ DOMAIN os = DOMAIN ops \cup {id} /\ IsFiniteSet(DOMAIN ops)
      /\ \A i \in DOMAIN ops \ {id} : os[i].version = ops[i].version
                                       /\ os[i].reversalOf = ops[i].reversalOf
      /\ \A i \in DOMAIN ops : ops[i].version \in Nat \ {0}
      /\ r.kind = "UPDATE" => os[id].version = ops[id].version + 1
  BY <1>1 DEF HeadsWritten, SameHead, LInv, TablesOK, HeadOK
<1>5. \A i \in DOMAIN ops \ {id} :
         DOMAIN os[i].lines = DOMAIN ops[i].lines
         /\ \A m \in DOMAIN ops[i].lines : os[i].lines[m].quantity = ops[i].lines[m].quantity
  BY <1>2 DEF FiguresWritten, SameFigures, TakenFigures
<1>6. \A i \in DOMAIN ops : \A m \in DOMAIN ops[i].lines : LineOK(ops[i].lines[m])
  BY DEF QInv, AllLinesOK, LinesOK
<1>7. \A i \in DOMAIN ops : ops[i].reversalOf \in DOMAIN ops \cup {NoOperation}
  BY DEF QInv
<1>8. /\ r.kind # "UPDATE" =>
            /\ os[id].reversalOf = IF r.kind = "REVERSE" THEN r.target ELSE NoOperation
            /\ os[id].version = 1 /\ NewFigures(os[id].lines, r.qs)
      /\ r.kind = "REVERSE" => TakenFigures(os[r.target].lines, ops[r.target].lines, r.qs)
      /\ \A i \in DOMAIN ops \ {id} :
            (r.kind = "REVERSE" /\ i = r.target) \/ SameFigures(os[i].lines, ops[i].lines)
  BY <1>2 DEF FiguresWritten
<1> HIDE DEF os
<1>9. ASSUME NEW i \in DOMAIN os, os[i].version = 1, NEW m \in DOMAIN os[i].lines
      PROVE  LineAccounted(os, i, m)
  <2>1. CASE i \notin DOMAIN ops
    <3>1. i = id /\ r.kind # "UPDATE"
      BY <1>3, <1>4, <2>1
    <3>2. Unedited(os, i, m) = {}
      <4>1. ASSUME NEW j \in DOMAIN os PROVE os[j].reversalOf # i
        <5>1. CASE j = id
          BY <1>3, <1>8, <3>1, <5>1
        <5>2. CASE j # id
          BY <1>3, <1>4, <1>7, <2>1, <3>1, <5>2
        <5> QED BY <5>1, <5>2
      <4> QED BY <4>1 DEF Unedited
    <3>3. /\ os[i].lines[m].quantity = r.qs[m] /\ os[i].lines[m].remaining = r.qs[m]
          /\ r.qs[m] \in Nat
      BY <1>3, <1>8, <3>1, RequestQuantities DEF NewFigures
    <3>4. Moved(os, m, Unedited(os, i, m)) = 0
      BY <3>2, MovedByNone
    <3> QED BY <3>3, <3>4 DEF LineAccounted
  <2>2. CASE i \in DOMAIN ops
    <3> DEFINE R == Unedited(ops, i, m)
    <3>1. i # id /\ ops[i].version = 1
      <4>1. CASE i = id
        <5>1. r.kind = "UPDATE" /\ os[id].version = ops[id].version + 1
          BY <1>3, <1>4, <2>2, <4>1
        <5>2. ops[id].version \in Nat \ {0}
          BY <1>4, <2>2, <4>1
        <5> QED BY <1>9, <4>1, <5>1, <5>2
      <4> QED BY <1>4, <1>9, <2>2, <4>1
    <3>2. m \in DOMAIN ops[i].lines
      BY <1>5, <2>2, <3>1
    <3>3. LineAccounted(ops, i, m) /\ LineOK(ops[i].lines[m])
      BY <1>6, <2>2, <3>1, <3>2 DEF QInv, Accounted
    <3>4. IsFiniteSet(R)
      BY <1>4, FS_Subset DEF Unedited
    <3>5. \A j \in R : ops[j].lines[m].quantity \in Nat
      BY <1>6 DEF Unedited, LineOK
    <3>6. \A j \in R \ {id} : os[j].lines[m].quantity = ops[j].lines[m].quantity
      BY <1>5 DEF Unedited
    <3>7. os[i].lines[m].quantity = ops[i].lines[m].quantity
      BY <1>5, <2>2, <3>1, <3>2
    <3>8. CASE r.kind = "UPDATE"
      <4>1. Unedited(os, i, m) = R \ {id}
        <5>1. DOMAIN os = DOMAIN ops /\ os[id].version # 1
          BY <1>3, <1>4, <3>8
        <5>2. \A j : j \in Unedited(os, i, m) <=> j \in R \ {id}
          BY <1>4, <1>5, <5>1 DEF Unedited
        <5> QED BY <5>2
      <4>2. os[i].lines[m].remaining = ops[i].lines[m].remaining
        BY <1>8, <2>2, <3>1, <3>2, <3>8 DEF SameFigures
      <4> QED BY <3>3, <3>4, <3>5, <3>6, <3>7, <4>1, <4>2, AccountWithout
    <3>9. CASE r.kind = "REVERSE" /\ i = r.target /\ m \in DOMAIN r.qs
      <4>1. id \notin R /\ R \ {id} = R
        BY <1>3, <3>9 DEF Unedited
      <4>2. Unedited(os, i, m) = R \cup {id}
        BY <1>3, <1>4, <1>5, <1>8, <3>9 DEF Unedited, NewFigures
      <4>3. /\ os[i].lines[m].remaining = ops[i].lines[m].remaining - r.qs[m]
            /\ os[id].lines[m].quantity = r.qs[m] /\ r.qs[m] \in Nat
        BY <1>3, <1>8, <3>9, RequestQuantities DEF TakenFigures, NewFigures
      <4>4. \A j \in R : /\ ops[j].lines[m].quantity \in Nat
                         /\ os[j].lines[m].quantity = ops[j].lines[m].quantity
        BY <3>5, <3>6, <4>1
      <4> QED BY <3>3, <3>4, <3>7, <4>1, <4>2, <4>3, <4>4, AccountWith
    <3>10. CASE r.kind # "UPDATE" /\ ~(r.kind = "REVERSE" /\ i = r.target /\ m \in DOMAIN r.qs)
      <4>1. id \notin R /\ R \ {id} = R
        BY <1>3, <3>10 DEF Unedited
      <4>2. Unedited(os, i, m) = R
        <5>1. ~(os[id].reversalOf = i /\ m \in DOMAIN os[id].lines)
          BY <1>3, <1>8, <2>2, <3>10 DEF NewFigures
        <5>2. \A j : j \in Unedited(os, i, m) <=> j \in R
          BY <1>3, <1>4, <1>5, <3>10, <5>1 DEF Unedited
        <5> QED BY <5>2
      <4>3. os[i].lines[m].remaining = ops[i].lines[m].remaining
        BY <1>8, <2>2, <3>1, <3>2, <3>10 DEF SameFigures, TakenFigures
      <4> QED BY <3>3, <3>4, <3>6, <3>7, <4>1, <4>2, <4>3, AccountStays
    <3> QED BY <3>8, <3>9, <3>10
  <2> QED BY <2>1, <2>2
<1> QED BY <1>9 DEF Accounted, os

\* A commit leaves what the others have read.
LEMMA CommitKeepsQInv ==
    ASSUME ReadsCommitted, LInv, QInv, NEW p \in Procs, WriteAndCommit(p)
    PROVE  QInv'
<1> DEFINE t == txn[p]
           r == t.req
           id == WrittenId(r)
<1>1. /\ Active(p) /\ TxnOK(t) /\ t.pc = "write" /\ HeadsWritten(t)
      /\ txn' = [txn EXCEPT ![p] = Idle]
  BY CommitWrites, CommitHeads
<1>2. FiguresWritten(t)
  BY <1>1, CommitFigures DEF QInv
<1>3. \A i \in DOMAIN ops' : ops'[i].reversalOf \in DOMAIN ops' \cup {NoOperation}
  <2>1. DOMAIN ops' = DOMAIN ops \cup {id}
    BY <1>1 DEF HeadsWritten
  <2>2. \A i \in DOMAIN ops \ {id} : ops'[i].reversalOf = ops[i].reversalOf
    BY <1>1 DEF HeadsWritten, SameHead
  <2>3. CASE r.kind # "UPDATE"
    <3>1. r.kind = "REVERSE" => r.target \in DOMAIN ops
      BY <1>1 DEF TxnOK, RequestOK, OnOperation
    <3> QED BY <1>2, <2>1, <2>2, <2>3, <3>1 DEF FiguresWritten, QInv
  <2>4. CASE r.kind = "UPDATE"
    <3>1. id = r.target /\ id \in DOMAIN ops
      BY <1>1, <2>4 DEF TxnOK, RequestOK, OnOperation, WrittenId
    <3>2. ops'[id].reversalOf = ops[id].reversalOf
      BY <1>1, <2>4 DEF HeadsWritten
    <3> QED BY <2>1, <2>2, <3>1, <3>2 DEF QInv
  <2> QED BY <2>3, <2>4
<1>4. ASSUME NEW q \in Procs, txn'[q].pc # "idle" PROVE ReadsOK(txn[q])'
  <2> DEFINE u == txn[q]
  <2>1. q # p /\ txn'[q] = u
    BY <1>1, <1>4 DEF LInv, Idle
  <2>2. Active(q) /\ TxnOK(u) /\ ReadsOK(u)
    BY <1>4, <2>1, IdleOrRunning DEF Active, QInv
  <2>3. ASSUME u.req.kind \in OnOperation, u.pc # "lock operation"
        PROVE  SameFigures(ops'[u.req.target].lines, ops[u.req.target].lines)
    <3>1. OpRow(u.req.target) \in u.held /\ u.req.target \in DOMAIN ops
      BY <2>2, <2>3 DEF TxnOK, RequestOK
    <3>2. OpRow(u.req.target) \notin t.held
      <4>1. t.held \cap u.held \subseteq {RequestGap}
        BY <1>1, <2>1, <2>2 DEF LInv, Exclusive
      <4>2. OpRow(u.req.target) # RequestGap
        BY RowsDiffer
      <4> QED BY <3>1, <4>1, <4>2
    <3>3. r.kind \in OnOperation => OpRow(r.target) \in t.held
      BY <1>1 DEF TxnOK
    <3>4. u.req.target # id
      BY <3>1, <3>2, <3>3, NextIdIsNew DEF LInv, WrittenId, OnOperation
    <3> QED BY <1>2, <3>1, <3>2, <3>3, <3>4 DEF FiguresWritten, OnOperation
  <2>4. ASSUME u.req.kind \in OnOperation, u.pc # "lock operation"
        PROVE  /\ LinesOK(u.operation.lines)
               /\ SameFigures(u.operation.lines, ops'[u.req.target].lines)
    <3>1. /\ LinesOK(u.operation.lines)
          /\ SameFigures(u.operation.lines, ops[u.req.target].lines)
      BY <2>2, <2>4 DEF ReadsOK
    <3>2. SameFigures(ops[u.req.target].lines, ops'[u.req.target].lines)
      BY <2>3, <2>4 DEF SameFigures
    <3> QED BY <3>1, <3>2, FiguresPassOn
  <2> QED BY <2>1, <2>4 DEF ReadsOK
<1>5. Accounted' /\ AllLinesOK'
  BY <1>2, CommitAccounts DEF FiguresWritten
<1> QED BY <1>3, <1>4, <1>5 DEF QInv, Active

\* The invariant holds at first and every step keeps it.
LEMMA NextKeepsQInv == ReadsCommitted /\ LInv /\ QInv /\ [Next]_vars => QInv'
<1> SUFFICES ASSUME ReadsCommitted, LInv, QInv, [Next]_vars PROVE QInv'
  OBVIOUS
<1>1. ASSUME NEW p \in Procs, \/ \E req \in Requests : Begin(p, req)
                              \/ Finish(p) \/ LockOperation(p) \/ LockMaterial(p)
                              \/ LockRow(p) \/ Recheck(p)
      PROVE  QInv'
  BY <1>1, ReadingKeepsQInv
<1>2. ASSUME NEW p \in Procs, WriteAndCommit(p) PROVE QInv'
  BY <1>2, CommitKeepsQInv
<1>3. CASE UNCHANGED vars
  BY <1>3 DEF vars, tables, QInv, AllLinesOK, Active, ReadsOK, Accounted
<1> QED BY <1>1, <1>2, <1>3 DEF Next, Step, RefuseWrite, DeadlockVictim, Fail

\* At first there is nothing to account for.
LEMMA InitQInv == Init => QInv
<1> SUFFICES ASSUME Init PROVE QInv
  OBVIOUS
<1>1. DOMAIN ops = {}
  BY DEF Init
<1>2. \A p \in Procs : ~Active(p)
  BY DEF Init, Active, Idle
<1> QED BY <1>1, <1>2 DEF QInv, AllLinesOK, Accounted

\* Reading committed rows, what was reversed of an unedited line never exceeds its quantity,
\* however many reversals of it are requested at once: each waits for the original's row and
\* takes off what it then finds left.  (A session under REPEATABLE READ finds the lines of
\* its snapshot instead, and two reversals may take the same rest.)
THEOREM ReversalsWithin == ReadsCommitted => (Spec => []ReversedWithinQuantity)
<1> SUFFICES ASSUME ReadsCommitted PROVE Spec => []ReversedWithinQuantity
  OBVIOUS
<1>1. LInv /\ QInv => ReversedWithinQuantity
  <2> SUFFICES ASSUME LInv, QInv, NEW i \in DOMAIN ops, NEW m \in DOMAIN ops[i].lines,
                      ops[i].version = 1,
                      \A j \in {k \in DOMAIN ops : ops[k].reversalOf = i /\ m \in DOMAIN ops[k].lines} :
                          ops[j].version = 1
               PROVE  MapThenSumSet(LAMBDA j : ops[j].lines[m].quantity,
                                    {k \in DOMAIN ops : ops[k].reversalOf = i
                                                        /\ m \in DOMAIN ops[k].lines})
                        <= ops[i].lines[m].quantity
    BY DEF ReversedWithinQuantity
  <2> DEFINE R == {k \in DOMAIN ops : ops[k].reversalOf = i /\ m \in DOMAIN ops[k].lines}
  <2>1. Unedited(ops, i, m) = R
    BY DEF Unedited
  <2>2. LineAccounted(ops, i, m) /\ LineOK(ops[i].lines[m])
    BY DEF QInv, Accounted, AllLinesOK, LinesOK
  <2>3. Moved(ops, m, R) \in Int
    <3>1. IsFiniteSet(R)
      BY FS_Subset DEF LInv, TablesOK
    <3>2. \A j \in R : ops[j].lines[m].quantity \in Int
      BY DEF QInv, AllLinesOK, LinesOK, LineOK
    <3> HIDE DEF R
    <3> QED BY <3>1, <3>2, MovedIsInt
  <2> HIDE DEF R
  <2>4. Moved(ops, m, R) <= ops[i].lines[m].quantity
    BY <2>1, <2>2, <2>3 DEF LineAccounted, LineOK
  <2> QED BY <2>4 DEF Moved, R
<1>2. LInv /\ QInv /\ [Next]_vars => QInv'
  BY NextKeepsQInv
<1>3. LInv /\ [Next]_vars => LInv'
  BY NextKeepsLInv
<1> QED BY <1>1, <1>2, <1>3, InitLInv, InitQInv, PTL DEF Spec

-----------------------------------------------------------------------------
(* Deadlocks, reading committed rows.                                       *)

\* Of the rows that Row names a creation holds those of the smallest materials.
InOrder(t, Row(_)) ==
    \A m, n \in t.affected : n < m /\ Row(m) \in t.held => Row(n) \in t.held

\* A creation holds rows of its own materials, the balances before the materials and each
\* in ascending order, and goes on when it has them all.
Ordered(t) ==
    /\ t.affected \subseteq Materials
    /\ \A r \in t.held : \E m \in t.affected : r \in {BalanceRow(m), MaterialRow(m)}
    /\ InOrder(t, BalanceRow) /\ InOrder(t, MaterialRow)
    /\ \A m, n \in t.affected : MaterialRow(m) \in t.held => BalanceRow(n) \in t.held
    /\ t.pc = "lock balances" => ~AllLocked(t)

DInv == \A p \in Procs : Active(p) /\ txn[p].req.kind = "CREATE" => Ordered(txn[p])

\* The row to be locked next is the smallest of the first kind that is not all locked.
LEMMA NextRowIsSmallest ==
    ASSUME NEW t, t.affected \subseteq Materials, ~AllLocked(t)
    PROVE  \/ \E m \in t.affected :
                 /\ NextRow(t) = BalanceRow(m) /\ BalanceRow(m) \notin t.held
                 /\ \A n \in t.affected : n < m => BalanceRow(n) \in t.held
           \/ \E m \in t.affected :
                 /\ NextRow(t) = MaterialRow(m) /\ MaterialRow(m) \notin t.held
                 /\ \A n \in t.affected : BalanceRow(n) \in t.held
                 /\ \A n \in t.affected : n < m => MaterialRow(n) \in t.held
<1>1. CASE Unlocked(t, BalanceRow) # {}
  <2> DEFINE U == Unlocked(t, BalanceRow)
  <2>1. U = {m \in t.affected : BalanceRow(m) \notin t.held}
    BY DEF Unlocked
  <2>2. NextRow(t) = BalanceRow(Min(U))
    BY <1>1 DEF NextRow
  <2>3. U \subseteq Nat /\ U # {}
    BY <1>1, <2>1, MaterialsAssumption
  <2> HIDE DEF U
  <2>4. Min(U) \in U /\ \A n \in U : Min(U) <= n
    BY <2>3, MinIsSmallest
  <2>5. ASSUME NEW n \in t.affected, n < Min(U) PROVE BalanceRow(n) \in t.held
    <3>1. n \in Nat /\ Min(U) \in Nat
      BY <2>3, <2>4, MaterialsAssumption
    <3>2. n \notin U
      BY <2>4, <2>5, <3>1
    <3> QED BY <2>1, <3>2
  <2> QED BY <2>1, <2>2, <2>4, <2>5
<1>2. CASE Unlocked(t, BalanceRow) = {}
  <2> DEFINE U == Unlocked(t, MaterialRow)
  <2>1. U = {m \in t.affected : MaterialRow(m) \notin t.held}
    BY DEF Unlocked
  <2>2. NextRow(t) = MaterialRow(Min(U))
    BY <1>2 DEF NextRow
  <2>3. U \subseteq Nat /\ U # {}
    BY <1>2, <2>1, MaterialsAssumption DEF AllLocked
  <2> HIDE DEF U
  <2>4. Min(U) \in U /\ \A n \in U : Min(U) <= n
    BY <2>3, MinIsSmallest
  <2>5. ASSUME NEW n \in t.affected, n < Min(U) PROVE MaterialRow(n) \in t.held
    <3>1. n \in Nat /\ Min(U) \in Nat
      BY <2>3, <2>4, MaterialsAssumption
    <3>2. n \notin U
      BY <2>4, <2>5, <3>1
    <3> QED BY <2>1, <3>2
  <2>6. \A n \in t.affected : BalanceRow(n) \in t.held
    BY <1>2 DEF Unlocked
  <2> QED BY <2>1, <2>2, <2>4, <2>5, <2>6
<1> QED BY <1>1, <1>2

\* Locking the next row keeps the order.
LEMMA LockingInOrder ==
    ASSUME NEW t, Ordered(t), ~AllLocked(t), NEW new,
           new.affected = t.affected, new.held = t.held \cup {NextRow(t)},
           new.pc = "lock balances" => ~AllLocked(new)
    PROVE  Ordered(new)
<1>1. /\ t.affected \subseteq Materials
      /\ \A r \in t.held : \E m \in t.affected : r \in {BalanceRow(m), MaterialRow(m)}
      /\ \A m, n \in t.affected : n < m /\ BalanceRow(m) \in t.held => BalanceRow(n) \in t.held
      /\ \A m, n \in t.affected : n < m /\ MaterialRow(m) \in t.held => MaterialRow(n) \in t.held
      /\ \A m, n \in t.affected : MaterialRow(m) \in t.held => BalanceRow(n) \in t.held
  BY DEF Ordered, InOrder
<1>2. /\ new.affected \subseteq Materials
      /\ \A r \in new.held : \E m \in t.affected : r \in {BalanceRow(m), MaterialRow(m)}
      /\ \A m, n \in t.affected : n < m /\ BalanceRow(m) \in new.held => BalanceRow(n) \in new.held
      /\ \A m, n \in t.affected : n < m /\ MaterialRow(m) \in new.held => MaterialRow(n) \in new.held
      /\ \A m, n \in t.affected : MaterialRow(m) \in new.held => BalanceRow(n) \in new.held
  <2>1. CASE \E m \in t.affected :
                 /\ NextRow(t) = BalanceRow(m) /\ BalanceRow(m) \notin t.held
                 /\ \A n \in t.affected : n < m => BalanceRow(n) \in t.held
    <3>1. PICK k \in t.affected :
                 /\ NextRow(t) = BalanceRow(k) /\ BalanceRow(k) \notin t.held
                 /\ \A n \in t.affected : n < k => BalanceRow(n) \in t.held
      BY <2>1
    <3>2. /\ \A m : BalanceRow(m) \in new.held <=> BalanceRow(m) \in t.held \/ m = k
          /\ \A m : MaterialRow(m) \in new.held <=> MaterialRow(m) \in t.held
      BY <3>1, RowsDiffer
    <3>3. \A r \in new.held : \E m \in t.affected : r \in {BalanceRow(m), MaterialRow(m)}
      BY <1>1, <3>1
    <3>4. ASSUME NEW m \in t.affected, NEW n \in t.affected, n < m, BalanceRow(m) \in new.held
          PROVE  BalanceRow(n) \in new.held
      <4>1. CASE m = k
        BY <3>1, <3>2, <3>4, <4>1
      <4>2. CASE m # k
        BY <1>1, <3>2, <3>4, <4>2
      <4> QED BY <4>1, <4>2
    <3> QED BY <1>1, <3>2, <3>3, <3>4
  <2>2. CASE \E m \in t.affected :
                 /\ NextRow(t) = MaterialRow(m) /\ MaterialRow(m) \notin t.held
                 /\ \A n \in t.affected : BalanceRow(n) \in t.held
                 /\ \A n \in t.affected : n < m => MaterialRow(n) \in t.held
    <3>1. PICK k \in t.affected :
                 /\ NextRow(t) = MaterialRow(k)
                 /\ \A n \in t.affected : BalanceRow(n) \in t.held
                 /\ \A n \in t.affected : n < k => MaterialRow(n) \in t.held
      BY <2>2
    <3>2. /\ \A m : BalanceRow(m) \in new.held <=> BalanceRow(m) \in t.held
          /\ \A m : MaterialRow(m) \in new.held <=> MaterialRow(m) \in t.held \/ m = k
      BY <3>1, RowsDiffer
    <3>3. \A r \in new.held : \E m \in t.affected : r \in {BalanceRow(m), MaterialRow(m)}
      BY <1>1, <3>1
    <3>4. \A n \in t.affected : BalanceRow(n) \in new.held
      BY <3>1, <3>2
    <3>5. \A m, n \in t.affected : n < m /\ MaterialRow(m) \in new.held => MaterialRow(n) \in new.held
      BY <1>1, <3>1, <3>2
    <3> QED BY <1>1, <3>3, <3>4, <3>5
  <2> QED BY <1>1, <2>1, <2>2, NextRowIsSmallest
<1> QED BY <1>2 DEF Ordered, InOrder

\* A step that changes its own transaction only.
LEMMA OneStepKeepsDInv ==
    ASSUME LInv, DInv, NEW p \in Procs, NEW t, txn' = [txn EXCEPT ![p] = t],
           t.pc # "idle" /\ t.req.kind = "CREATE" => Ordered(t)
    PROVE  DInv'
<1>1. txn'[p] = t /\ \A q \in Procs \ {p} : txn'[q] = txn[q]
  BY DEF LInv
<1>2. ASSUME NEW q \in Procs, txn'[q].pc # "idle", txn'[q].req.kind = "CREATE"
      PROVE  Ordered(txn'[q])
  <2>1. CASE q = p
    BY <1>1, <1>2, <2>1
  <2>2. CASE q # p
    BY <1>1, <1>2, <2>2 DEF DInv, Active
  <2> QED BY <2>1, <2>2
<1>3. \A u : Ordered(u)' <=> Ordered(u)
  BY DEF Ordered, InOrder, AllLocked, Unlocked
<1> QED BY <1>2 DEF DInv, Active, Ordered, InOrder, AllLocked, Unlocked

\* Creations keep the order.
LEMMA NextKeepsDInv == ReadsCommitted /\ LInv /\ DInv /\ [Next]_vars => DInv'
<1> SUFFICES ASSUME ReadsCommitted, LInv, DInv, [Next]_vars PROVE DInv'
  OBVIOUS
<1>1. ASSUME NEW p \in Procs, Finish(p) PROVE DInv'
  <2>1. Idle.pc = "idle" /\ txn' = [txn EXCEPT ![p] = Idle]
    BY <1>1 DEF Idle, Finish
  <2> QED BY <2>1, OneStepKeepsDInv
<1>2. ASSUME NEW p \in Procs, NEW req \in Requests, Begin(p, req) PROVE DInv'
  <2> DEFINE t == [pc |-> CASE req.kind = "CREATE" -> "lock balances"
                            [] req.kind = "MINI" -> "lock material"
                            [] OTHER -> "lock operation",
                   req |-> req, held |-> {},
                   snapshot |-> IF Isolation = "REPEATABLE READ" THEN Committed ELSE << >>,
                   affected |-> IF req.kind = "UPDATE" THEN {} ELSE DOMAIN req.qs,
                   operation |-> << >>, balances |-> << >>]
  <2>1. txn' = [txn EXCEPT ![p] = t]
    BY <1>2 DEF Begin
  <2>2. /\ t.req = req /\ t.held = {}
        /\ req.kind = "CREATE" => t.affected = DOMAIN req.qs
    OBVIOUS
  <2>3. DOMAIN req.qs \subseteq Materials /\ DOMAIN req.qs # {}
    <3>1. req.qs \in RequestLines
      BY RequestsAreOK DEF RequestOK
    <3>2. PICK ms \in (SUBSET Materials) \ {{}} : req.qs \in [ms -> Quantities]
      BY <3>1 DEF RequestLines
    <3>3. DOMAIN req.qs = ms /\ ms # {} /\ ms \subseteq Materials
      BY <3>2
    <3> QED BY <3>3
  <2> HIDE DEF t
  <2>4. req.kind = "CREATE" => Ordered(t)
    BY <2>2, <2>3 DEF Ordered, InOrder, AllLocked, Unlocked
  <2> QED BY <2>1, <2>2, <2>4, OneStepKeepsDInv
<1>3. ASSUME NEW p \in Procs, LockOperation(p) PROVE DInv'
  <2> DEFINE new == HasOperation(txn[p])
  <2>1. new.req.kind # "CREATE"
    BY <1>3, LockOperationBecomes DEF HasOperation, OnOperation
  <2> HIDE DEF new
  <2>2. CASE txn' = [txn EXCEPT ![p] = new]
    BY <2>1, <2>2, OneStepKeepsDInv
  <2> QED BY <1>1, <1>3, <2>2, LockOperationBecomes DEF Becomes, new
<1>4. ASSUME NEW p \in Procs, LockMaterial(p) PROVE DInv'
  <2> DEFINE new == HasMaterial(txn[p])
  <2>1. new.req.kind # "CREATE"
    BY <1>4, LockMaterialBecomes DEF HasMaterial
  <2> HIDE DEF new
  <2>2. CASE txn' = [txn EXCEPT ![p] = new]
    BY <2>1, <2>2, OneStepKeepsDInv
  <2> QED BY <1>1, <1>4, <2>2, LockMaterialBecomes DEF Becomes, new
<1>5. ASSUME NEW p \in Procs, LockRow(p) PROVE DInv'
  <2> DEFINE t == txn[p]
             new == HasRow(t)
  <2>1. Active(p) /\ TxnOK(t) /\ t.pc = "lock balances" /\ txn' = [txn EXCEPT ![p] = new]
    BY <1>5, LockRowBecomes DEF Becomes
  <2>2. /\ new.req = t.req /\ new.affected = t.affected /\ new.held = t.held \cup {NextRow(t)}
        /\ new.pc = "lock balances" => ~AllLocked(Grant(t))
    BY DEF HasRow
  <2>3. AllLocked(new) <=> AllLocked(Grant(t))
    <3>1. Grant(t).affected = t.affected /\ Grant(t).held = t.held \cup {NextRow(t)}
      BY <2>1, GrantHolds DEF TxnOK, Wanted
    <3> QED BY <2>2, <3>1 DEF AllLocked, Unlocked
  <2> HIDE DEF new
  <2>4. t.req.kind = "CREATE" => Ordered(t) /\ ~AllLocked(t)
    BY <2>1 DEF DInv, Ordered
  <2>5. new.req.kind = "CREATE" => Ordered(new)
    BY <2>2, <2>3, <2>4, LockingInOrder
  <2> QED BY <2>1, <2>5, OneStepKeepsDInv
<1>6. ASSUME NEW p \in Procs, Recheck(p) PROVE DInv'
  <2> DEFINE t == txn[p]
  <2>1. Active(p)
    BY <1>6, RecheckBecomes
  <2>2. ASSUME NEW gaps, gaps = {}, Becomes(p, HasNoTwin(t, gaps)) PROVE DInv'
    <3> DEFINE new == HasNoTwin(t, gaps)
    <3>1. /\ new.req = t.req /\ new.affected = t.affected /\ new.held = t.held
          /\ new.pc = "write"
      BY <2>2 DEF HasNoTwin
    <3>2. txn' = [txn EXCEPT ![p] = new]
      BY <2>2 DEF Becomes
    <3> HIDE DEF new
    <3>3. new.req.kind = "CREATE" => Ordered(new)
      BY <2>1, <3>1 DEF DInv, Ordered, InOrder
    <3> QED BY <3>2, <3>3, OneStepKeepsDInv
  <2>3. \A gaps \in SUBSET (IF Isolation = "REPEATABLE READ" THEN {RequestGap} ELSE {}) : gaps = {}
    BY DEF ReadsCommitted
  <2> QED BY <1>1, <1>6, <2>2, <2>3, RecheckBecomes
<1>7. ASSUME NEW p \in Procs, WriteAndCommit(p) PROVE DInv'
  <2>1. Idle.pc = "idle" /\ txn' = [txn EXCEPT ![p] = Idle]
    BY <1>7, CommitWrites DEF Idle
  <2> QED BY <2>1, OneStepKeepsDInv
<1>8. CASE UNCHANGED vars
  BY <1>8 DEF vars, DInv, Active, Ordered, InOrder, AllLocked, Unlocked
<1> QED BY <1>1, <1>2, <1>3, <1>4, <1>5, <1>6, <1>7, <1>8
        DEF Next, Step, RefuseWrite, DeadlockVictim, Fail

\* At first nobody locks anything.
LEMMA InitDInv == Init => DInv
  BY DEF Init, DInv, Active, Idle

\* A creation that waits for another waits for a row of a material, and the one it waits
\* for, if it waits as well, waits for a later row.
LEMMA WaitsForLater ==
    ASSUME ReadsCommitted, LInv, DInv, NEW q \in Procs, NEW r \in Procs, WaitsFor(q, r),
           txn[q].req.kind = "CREATE", txn[r].req.kind = "CREATE",
           NEW s \in Procs, WaitsFor(r, s), txn[s].req.kind = "CREATE"
    PROVE  \/ \E m \in Materials, n \in Materials :
                 /\ NextRow(txn[q]) = BalanceRow(m) /\ NextRow(txn[r]) = BalanceRow(n) /\ m < n
           \/ \E m \in Materials, n \in Materials :
                 /\ NextRow(txn[q]) = MaterialRow(m) /\ NextRow(txn[r]) = MaterialRow(n) /\ m < n
           \/ \E m \in Materials, n \in Materials :
                 NextRow(txn[q]) = BalanceRow(m) /\ NextRow(txn[r]) = MaterialRow(n)
<1>1. ASSUME NEW u \in Procs, NEW v \in Procs, WaitsFor(u, v),
             txn[u].req.kind = "CREATE", txn[v].req.kind = "CREATE"
      PROVE  /\ Ordered(txn[u]) /\ Ordered(txn[v]) /\ ~AllLocked(txn[u])
             /\ NextRow(txn[u]) \in txn[v].held
  <2>1. /\ Active(u) /\ Active(v) /\ Wanted(txn[u]) \cap txn[v].held # {}
        /\ TxnOK(txn[u]) /\ TxnOK(txn[v])
    BY <1>1, IdleOrRunning DEF WaitsFor
  <2>2. Ordered(txn[u]) /\ Ordered(txn[v])
    BY <1>1, <2>1 DEF DInv
  <2>3. \A h \in txn[u].held \cup txn[v].held : \E m : h \in {BalanceRow(m), MaterialRow(m)}
    BY <2>2 DEF Ordered
  <2>4. RequestGap \notin txn[u].held /\ \A i : OpRow(i) \notin txn[v].held
    BY <2>3, RowsDiffer
  <2>5. txn[u].pc \notin {"lock operation", "lock material"}
    BY <1>1, <2>1 DEF TxnOK, OnOperation
  <2>6. txn[u].pc = "lock balances"
    <3>1. CASE txn[u].pc = "recheck"
      <4>1. Wanted(txn[u]) = {OpRow(i) : i \in {j \in DOMAIN ops :
                                                ops[j].request = txn[u].req.request}}
        BY <3>1 DEF Wanted
      <4> QED BY <2>1, <2>4, <4>1
    <3>2. CASE txn[u].pc = "write"
      <4>1. Wanted(txn[u]) = txn[u].held \cap {RequestGap}
        BY <3>2 DEF Wanted
      <4> QED BY <2>1, <2>4, <4>1
    <3> QED BY <2>1, <2>5, <3>1, <3>2 DEF TxnOK
  <2>7. Wanted(txn[u]) = {NextRow(txn[u])}
    BY <2>6 DEF Wanted
  <2> QED BY <2>1, <2>2, <2>6, <2>7 DEF Ordered
<1> DEFINE t == txn[q]
           u == txn[r]
<1>2. /\ Ordered(t) /\ Ordered(u) /\ ~AllLocked(t) /\ ~AllLocked(u) /\ NextRow(t) \in u.held
  BY <1>1
<1> HIDE DEF t, u
<1>3. /\ t.affected \subseteq Materials /\ u.affected \subseteq Materials
      /\ \A h \in u.held : \E m \in u.affected : h \in {BalanceRow(m), MaterialRow(m)}
      /\ \A m, n \in u.affected : n < m /\ BalanceRow(m) \in u.held => BalanceRow(n) \in u.held
      /\ \A m, n \in u.affected : n < m /\ MaterialRow(m) \in u.held => MaterialRow(n) \in u.held
      /\ \A m, n \in u.affected : MaterialRow(m) \in u.held => BalanceRow(n) \in u.held
  BY <1>2 DEF Ordered, InOrder
<1>4. PICK k \in u.affected : NextRow(t) \in {BalanceRow(k), MaterialRow(k)}
  BY <1>2, <1>3
<1>5. \/ \E m \in u.affected : NextRow(u) = BalanceRow(m) /\ BalanceRow(m) \notin u.held
      \/ \E m \in u.affected : NextRow(u) = MaterialRow(m) /\ MaterialRow(m) \notin u.held
  BY <1>2, <1>3, NextRowIsSmallest
<1>6. \A m, n \in Materials : m < n \/ m = n \/ n < m
  BY MaterialsAssumption
<1>7. CASE NextRow(t) = BalanceRow(k)
  <2>1. ASSUME NEW m \in u.affected, NextRow(u) = BalanceRow(m), BalanceRow(m) \notin u.held
        PROVE  k < m
    <3>1. k # m /\ ~(m < k)
      BY <1>2, <1>3, <1>7, <2>1
    <3> QED BY <1>3, <1>6, <3>1
  <2> QED BY <1>3, <1>5, <1>7, <2>1 DEF t, u
<1>8. CASE NextRow(t) = MaterialRow(k)
  <2>1. ASSUME NEW m \in u.affected, NextRow(u) = MaterialRow(m), MaterialRow(m) \notin u.held
        PROVE  k < m
    <3>1. k # m /\ ~(m < k)
      BY <1>2, <1>3, <1>8, <2>1
    <3> QED BY <1>3, <1>6, <3>1
  <2>2. \A m \in u.affected : BalanceRow(m) \in u.held
    BY <1>2, <1>3, <1>8
  <2> QED BY <1>3, <1>5, <1>8, <2>1, <2>2 DEF t, u
<1> QED BY <1>4, <1>7, <1>8

\* Creations that all wait for one another do not exist: one of them waits for the last
\* row that any of them waits for.
LEMMA NoDeadlockOfCreations ==
    ASSUME ReadsCommitted, LInv, DInv, NEW S, S \subseteq Procs, NEW p \in S,
           \A q \in S : txn[q].req.kind = "CREATE" /\ \E r \in S : WaitsFor(q, r)
    PROVE  FALSE
<1> DEFINE Bs == {m \in Materials : \E q \in S : NextRow(txn[q]) = BalanceRow(m)}
           Ms == {m \in Materials : \E q \in S : NextRow(txn[q]) = MaterialRow(m)}
<1>1. ASSUME NEW q \in S
      PROVE  \/ \E m \in Bs, n \in Bs :
                   /\ NextRow(txn[q]) = BalanceRow(m) /\ m < n
             \/ \E m \in Ms, n \in Ms :
                   /\ NextRow(txn[q]) = MaterialRow(m) /\ m < n
             \/ Ms # {} /\ \E m : NextRow(txn[q]) = BalanceRow(m)
  <2>1. PICK r \in S : WaitsFor(q, r)
    OBVIOUS
  <2>2. PICK s \in S : WaitsFor(r, s)
    OBVIOUS
  <2>3. \/ \E m \in Materials, n \in Materials :
              /\ NextRow(txn[q]) = BalanceRow(m) /\ NextRow(txn[r]) = BalanceRow(n) /\ m < n
        \/ \E m \in Materials, n \in Materials :
              /\ NextRow(txn[q]) = MaterialRow(m) /\ NextRow(txn[r]) = MaterialRow(n) /\ m < n
        \/ \E m \in Materials, n \in Materials :
              NextRow(txn[q]) = BalanceRow(m) /\ NextRow(txn[r]) = MaterialRow(n)
    BY <2>1, <2>2, WaitsForLater
  <2> QED BY <2>3
<1>2. IsFiniteSet(Bs) /\ IsFiniteSet(Ms) /\ Bs \subseteq Nat /\ Ms \subseteq Nat
  BY MaterialsAssumption, FS_Subset
<1>3. CASE Ms # {}
  <2>1. PICK x \in Ms : \A n \in Ms : x >= n
    <3> HIDE DEF Ms
    <3>1. Ms \subseteq Int
      BY <1>2
    <3> QED BY <1>2, <1>3, <3>1, MaxIsLargest
  <2>2. PICK q \in S : NextRow(txn[q]) = MaterialRow(x)
    BY <2>1
  <2>3. PICK n \in Ms : x < n
    BY <1>1, <2>2, RowsDiffer
  <2>4. n \in Nat /\ x \in Nat
    BY <1>2, <2>1
  <2> HIDE DEF Ms
  <2> QED BY <2>1, <2>3, <2>4
<1>4. CASE Ms = {}
  <2>1. Bs # {}
    BY <1>1, <1>4
  <2>2. PICK x \in Bs : \A n \in Bs : x >= n
    <3> HIDE DEF Bs
    <3>1. Bs \subseteq Int
      BY <1>2
    <3> QED BY <1>2, <2>1, <3>1, MaxIsLargest
  <2>3. PICK q \in S : NextRow(txn[q]) = BalanceRow(x)
    BY <2>2
  <2>4. PICK n \in Bs : x < n
    BY <1>1, <1>4, <2>3, RowsDiffer
  <2>5. n \in Nat /\ x \in Nat
    BY <1>2, <2>2
  <2> HIDE DEF Bs
  <2> QED BY <2>2, <2>4, <2>5
<1> QED BY <1>3, <1>4

\* Reading committed rows, the web's creations never deadlock among themselves, whatever
\* materials they name: every deadlock of creations and the mini-program's outbounds has
\* an outbound in it, which locks its material before the balance.
THEOREM WebNeverDeadlocks ==
    ReadsCommitted /\ Kinds \subseteq {"CREATE", "MINI"} => (Spec => []DeadlockNeedsMini)
<1> SUFFICES ASSUME ReadsCommitted, Kinds \subseteq {"CREATE", "MINI"}
             PROVE  Spec => []DeadlockNeedsMini
  OBVIOUS
<1>1. LInv /\ DInv => DeadlockNeedsMini
  <2> SUFFICES ASSUME LInv, DInv, NEW p \in Procs, InDeadlock(p),
                      \A q \in Procs : InDeadlock(q) => txn[q].req.kind # "MINI"
               PROVE  FALSE
    BY DEF DeadlockNeedsMini
  <2>1. PICK S \in SUBSET Procs : p \in S /\ \A q \in S : \E r \in S : WaitsFor(q, r)
    BY DEF InDeadlock
  <2>2. \A q \in S : InDeadlock(q) /\ Active(q)
    BY <2>1 DEF InDeadlock, WaitsFor
  <2>3. \A q \in S : txn[q].req.kind \in Kinds /\ txn[q].req.kind # "MINI"
    BY <2>1, <2>2, IdleOrRunning DEF TxnOK, RequestOK
  <2>4. \A q \in S : txn[q].req.kind = "CREATE"
    BY <2>3
  <2> QED BY <2>1, <2>4, NoDeadlockOfCreations
<1>2. LInv /\ [Next]_vars => LInv'
  BY NextKeepsLInv
<1>3. LInv /\ DInv /\ [Next]_vars => DInv'
  BY NextKeepsDInv
<1> QED BY <1>1, <1>2, <1>3, InitLInv, InitDInv, PTL DEF Spec

-----------------------------------------------------------------------------
(* Creations, one after the other: InventoryTxn implements StockLedger.     *)

\* The instance computes as this module does.
LEMMA SameTotals == \A entries : Serial!Total(entries) = Total(entries)
  BY DEF Serial!Total, Total, Serial!MapThenSumSet, MapThenSumSet,
         Serial!MapThenFoldSet, MapThenFoldSet

\* Its lines move a material alike.
LEMMA SameEntries ==
    /\ \A op, m : Serial!Signed(op, m) = Signed(op, m)
    /\ \A os, i, m : Serial!Entry(os, i, m) = Entry(os, i, m)
    /\ \A os, m : Serial!Entries(os, m) = Entries(os, m)
<1>1. \A op, m : Serial!Signed(op, m) = Signed(op, m)
  BY DEF Serial!Signed, Signed, Serial!INBOUND, INBOUND
<1> QED BY <1>1 DEF Serial!Entry, Entry, Serial!Entries, Entries

\* It adds lines up and replays them alike.
LEMMA SameReplay ==
    /\ \A os, m : Serial!Running(os, m) = Running(os, m)
    /\ \A os, ms : Serial!Replayed(os, ms) = Replayed(os, ms)
<1>1. ASSUME NEW os, NEW i, NEW m
      PROVE  Serial!RunningBefore(os, i, m) = RunningBefore(os, i, m)
  <2>1. {e \in Entries(os, m) : Serial!EarlierThan(e, Entry(os, i, m))}
          = {e \in Entries(os, m) : EarlierThan(e, Entry(os, i, m))}
    BY DEF Serial!EarlierThan, EarlierThan
  <2> QED BY <2>1, SameEntries, SameTotals DEF Serial!RunningBefore, RunningBefore
<1>2. \A os, i, m : Serial!ReplayedLine(os, i, m) = ReplayedLine(os, i, m)
  BY <1>1, SameEntries DEF Serial!ReplayedLine, ReplayedLine
<1> QED BY <1>2, SameEntries, SameTotals
        DEF Serial!Running, Running, Serial!Replayed, Replayed

\* Lines of the ledger are functions.
IsLine(l) == l = [c \in DOMAIN l |-> l[c]]
AllLines == \A i \in DOMAIN ops : \A m \in DOMAIN ops[i].lines : IsLine(ops[i].lines[m])

\* The balances a creation has read are committed and stay so: it holds a row of each.
Fresh(t) ==
    /\ t.affected = DOMAIN t.req.qs
    /\ DOMAIN t.balances \subseteq t.affected
    /\ \A m \in DOMAIN t.balances : /\ t.balances[m] = BalanceIn(Committed, m)
                                    /\ BalanceRow(m) \in t.held \/ MaterialRow(m) \in t.held
    /\ \A m \in t.affected : BalanceRow(m) \in t.held => m \in DOMAIN t.balances
    /\ t.pc = "lock material" => t.held = {}
    /\ t.pc = "lock balances" => ~AllLocked(t)
    /\ t.pc \in {"recheck", "write"} => AllLocked(t)

\* All requests are creations.
OnlyCreations == Kinds \subseteq {"CREATE", "MINI"}

SInv == AllLines /\ \A p \in Procs : Active(p) => Fresh(txn[p])

\* Requests name some materials of the instance.
LEMMA RequestMaterials ==
    ASSUME NEW qs \in RequestLines
    PROVE  DOMAIN qs \subseteq Materials /\ DOMAIN qs # {}
<1>1. PICK ms \in (SUBSET Materials) \ {{}} : qs \in [ms -> Quantities]
  BY DEF RequestLines
<1>2. DOMAIN qs = ms /\ ms # {} /\ ms \subseteq Materials
  BY <1>1
<1> QED BY <1>2

\* With creations only, every transaction is one.
LEMMA CreationsOnly ==
    ASSUME OnlyCreations, NEW t, TxnOK(t)
    PROVE  /\ t.req.kind \in {"CREATE", "MINI"} /\ t.req.kind \notin OnOperation
           /\ t.req.qs \in RequestLines
  BY DEF OnlyCreations, TxnOK, RequestOK, OnOperation

\* A step that writes nothing needs a look at its own transaction only.
LEMMA BecomesKeepsSInv ==
    ASSUME LInv, SInv, NEW p \in Procs, NEW t, Becomes(p, t), t = Idle \/ Fresh(t)
    PROVE  SInv'
<1>1. txn'[p] = t /\ \A q \in Procs \ {p} : txn'[q] = txn[q]
  BY DEF LInv, Becomes
<1>2. UNCHANGED <<ops, balance, balanceVersion, log, events>>
  BY DEF Becomes, tables
<1>3. ASSUME NEW q \in Procs, txn'[q].pc # "idle" PROVE Fresh(txn'[q])
  <2>1. CASE q = p
    BY <1>1, <1>3, <2>1 DEF Idle
  <2>2. CASE q # p
    BY <1>1, <1>3, <2>2 DEF SInv, Active
  <2> QED BY <2>1, <2>2
<1>4. AllLines'
  BY <1>2 DEF SInv, AllLines
<1>5. \A q \in Procs : Active(q)' => Fresh(txn[q])'
  BY <1>2, <1>3 DEF Active, Fresh, Committed, AllLocked, Unlocked
<1> QED BY <1>4, <1>5 DEF SInv

\* The steps that write nothing.
LEMMA ReadingKeepsSInv ==
    ASSUME ReadsCommitted, OnlyCreations, LInv, SInv, NEW p \in Procs,
           \/ \E req \in Requests : Begin(p, req)
           \/ Finish(p) \/ LockOperation(p) \/ LockMaterial(p) \/ LockRow(p) \/ Recheck(p)
    PROVE  SInv'
<1>1. ASSUME Finish(p) PROVE SInv'
  BY <1>1, BecomesKeepsSInv DEF Finish, Becomes
<1>2. ASSUME NEW req \in Requests, Begin(p, req) PROVE SInv'
  <2> DEFINE t == [pc |-> CASE req.kind = "CREATE" -> "lock balances"
                            [] req.kind = "MINI" -> "lock material"
                            [] OTHER -> "lock operation",
                   req |-> req, held |-> {},
                   snapshot |-> IF Isolation = "REPEATABLE READ" THEN Committed ELSE << >>,
                   affected |-> IF req.kind = "UPDATE" THEN {} ELSE DOMAIN req.qs,
                   operation |-> << >>, balances |-> << >>]
  <2>1. Becomes(p, t)
    BY <1>2 DEF Begin, Becomes
  <2>2. req.kind \in {"CREATE", "MINI"} /\ req.qs \in RequestLines
    BY RequestsAreOK DEF OnlyCreations, RequestOK
  <2>3. /\ t.req = req /\ t.held = {} /\ t.affected = DOMAIN req.qs /\ DOMAIN t.balances = {}
        /\ t.pc \in {"lock balances", "lock material"}
    BY <2>2
  <2> HIDE DEF t
  <2>4. ~AllLocked(t)
    BY <2>2, <2>3, RequestMaterials DEF AllLocked, Unlocked
  <2>5. Fresh(t)
    BY <2>3, <2>4 DEF Fresh
  <2> QED BY <2>1, <2>5, BecomesKeepsSInv
<1>3. ASSUME LockOperation(p) PROVE SInv'
  BY <1>3, LockOperationBecomes, CreationsOnly
<1>4. ASSUME LockMaterial(p) PROVE SInv'
  <2> DEFINE t == txn[p]
             new == HasMaterial(t)
  <2>1. CASE Finish(p)
    BY <1>1, <2>1
  <2>2. CASE Becomes(p, new)
    <3>1. Active(p) /\ TxnOK(t) /\ t.pc = "lock material"
      BY <1>4, LockMaterialBecomes
    <3>2. t.affected = DOMAIN t.req.qs /\ t.held = {}
      BY <3>1 DEF SInv, Fresh
    <3>3. t.req.qs \in RequestLines
      BY <3>1, CreationsOnly
    <3>4. /\ new.req = t.req /\ new.affected = t.affected /\ new.pc = "lock balances"
          /\ new.held = {MaterialRow(m) : m \in DOMAIN t.req.qs}
          /\ new.balances = [m \in DOMAIN t.req.qs |-> BalanceIn(Committed, m)]
      BY <3>2 DEF HasMaterial, View, ReadsCommitted
    <3> HIDE DEF new
    <3>5. \A m : BalanceRow(m) \notin new.held
      BY <3>4, RowsDiffer
    <3>6. ~AllLocked(new)
      BY <3>2, <3>3, <3>4, <3>5, RequestMaterials DEF AllLocked, Unlocked
    <3>7. Fresh(new)
      BY <3>2, <3>4, <3>5, <3>6 DEF Fresh
    <3> QED BY <2>2, <3>7, BecomesKeepsSInv
  <2> QED BY <1>4, <2>1, <2>2, LockMaterialBecomes
<1>5. ASSUME LockRow(p) PROVE SInv'
  <2> DEFINE t == txn[p]
             new == HasRow(t)
             m == NextRow(t)[2]
  <2>1. Active(p) /\ TxnOK(t) /\ t.pc = "lock balances" /\ Becomes(p, new)
    BY <1>5, LockRowBecomes
  <2>2. Fresh(t) /\ ~AllLocked(t)
    BY <2>1 DEF SInv, Fresh
  <2>3. /\ new.req = t.req /\ new.affected = t.affected /\ new.held = t.held \cup {NextRow(t)}
        /\ new.balances = [n \in DOMAIN t.balances \cup {m} |->
                             IF n \in DOMAIN t.balances THEN t.balances[n]
                                                        ELSE BalanceIn(Committed, n)]
        /\ new.pc \in {"lock balances", "recheck", "write"}
        /\ new.pc = "lock balances" <=> ~AllLocked(Grant(t))
    BY DEF HasRow
  <2>4. AllLocked(new) <=> AllLocked(Grant(t))
    <3>1. Grant(t).affected = t.affected /\ Grant(t).held = t.held \cup {NextRow(t)}
      BY <2>1, GrantHolds DEF TxnOK, Wanted
    <3> QED BY <2>3, <3>1 DEF AllLocked, Unlocked
  <2>5. m \in t.affected /\ NextRow(t) \in {BalanceRow(m), MaterialRow(m)}
    <3>1. t.affected \subseteq Materials
      BY <2>1, <2>2, RequestMaterials, CreationsOnly DEF Fresh
    <3>2. PICK n \in t.affected : NextRow(t) \in {BalanceRow(n), MaterialRow(n)}
      BY <2>2, <3>1, NextRowIsSmallest
    <3>3. BalanceRow(n)[2] = n /\ MaterialRow(n)[2] = n
      BY DEF BalanceRow, MaterialRow
    <3> QED BY <3>2, <3>3
  <2> HIDE DEF new, m
  <2>6. \A n : BalanceRow(n) \in new.held => BalanceRow(n) \in t.held \/ n = m
    BY <2>3, <2>5, RowsDiffer
  <2>7. DOMAIN new.balances = DOMAIN t.balances \cup {m}
    BY <2>3
  <2>8. ASSUME NEW n \in DOMAIN new.balances
        PROVE  /\ new.balances[n] = BalanceIn(Committed, n)
               /\ BalanceRow(n) \in new.held \/ MaterialRow(n) \in new.held
    BY <2>2, <2>3, <2>5, <2>7 DEF Fresh
  <2>9. Fresh(new)
    BY <2>2, <2>3, <2>4, <2>5, <2>6, <2>7, <2>8 DEF Fresh
  <2> QED BY <2>1, <2>9, BecomesKeepsSInv
<1>6. ASSUME Recheck(p) PROVE SInv'
  <2> DEFINE t == txn[p]
  <2>1. Active(p) /\ t.pc = "recheck" /\ Fresh(t)
    BY <1>6, RecheckBecomes DEF SInv
  <2>2. ASSUME NEW gaps, gaps = {}, Becomes(p, HasNoTwin(t, gaps)) PROVE SInv'
    <3> DEFINE new == HasNoTwin(t, gaps)
    <3>1. /\ new.req = t.req /\ new.affected = t.affected /\ new.held = t.held
          /\ new.pc = "write" /\ new.balances = t.balances
      BY <2>2 DEF HasNoTwin
    <3>2. Becomes(p, new)
      BY <2>2
    <3> HIDE DEF new
    <3>3. Fresh(new)
      BY <2>1, <3>1 DEF Fresh, AllLocked, Unlocked
    <3> QED BY <3>2, <3>3, BecomesKeepsSInv
  <2>3. \A gaps \in SUBSET (IF Isolation = "REPEATABLE READ" THEN {RequestGap} ELSE {}) : gaps = {}
    BY DEF ReadsCommitted
  <2> QED BY <1>1, <1>6, <2>2, <2>3, RecheckBecomes
<1> QED BY <1>1, <1>2, <1>3, <1>4, <1>5, <1>6

\* A flush over the very rows the session read stores what the session computed.
LEMMA FlushedIsComputed ==
    ASSUME NEW loaded, NEW computed, DOMAIN computed = DOMAIN loaded,
           computed = [m \in DOMAIN computed |-> computed[m]],
           \A m \in DOMAIN loaded : DOMAIN computed[m] = DOMAIN loaded[m] /\ IsLine(computed[m])
    PROVE  FlushedLines(loaded, computed, loaded) = computed
<1>1. ASSUME NEW m \in DOMAIN loaded
      PROVE  Flushed(loaded[m], computed[m], loaded[m]) = computed[m]
  <2>1. Flushed(loaded[m], computed[m], loaded[m]) = [c \in DOMAIN loaded[m] |-> computed[m][c]]
    BY DEF Flushed
  <2> QED BY <2>1 DEF IsLine
<1>2. FlushedLines(loaded, computed, loaded)
        = [m \in DOMAIN loaded |-> Flushed(loaded[m], computed[m], loaded[m])]
  <2> DEFINE new == DOMAIN computed \ DOMAIN loaded
             old == DOMAIN loaded \ DOMAIN computed
  <2>1. FlushedLines(loaded, computed, loaded)
          = [m \in (DOMAIN loaded \ old) \cup new |->
               IF m \in new THEN computed[m]
               ELSE IF m \in DOMAIN loaded THEN Flushed(loaded[m], computed[m], loaded[m])
               ELSE loaded[m]]
    BY DEF FlushedLines
  <2>2. new = {} /\ old = {} /\ (DOMAIN loaded \ old) \cup new = DOMAIN loaded
    OBVIOUS
  <2> HIDE DEF new, old
  <2> QED BY <2>1, <2>2
<1>3. FlushedLines(loaded, computed, loaded) = [m \in DOMAIN loaded |-> computed[m]]
  BY <1>1, <1>2
<1> QED BY <1>3

\* Replayed lines are functions of the same columns.
LEMMA ReplayedLinesAreLines ==
    ASSUME NEW os, NEW i, \A m \in DOMAIN os[i].lines : IsLine(os[i].lines[m]), NEW ms
    PROVE  LET lines == ReplayedLines(os, i, ms)
           IN  /\ DOMAIN lines = DOMAIN os[i].lines /\ lines = [m \in DOMAIN lines |-> lines[m]]
               /\ \A m \in DOMAIN os[i].lines : DOMAIN lines[m] = DOMAIN os[i].lines[m]
                                                /\ IsLine(lines[m])
<1> DEFINE lines == ReplayedLines(os, i, ms)
<1>1. DOMAIN lines = DOMAIN os[i].lines /\ lines = [m \in DOMAIN lines |-> lines[m]]
  BY DEF ReplayedLines
<1>2. ASSUME NEW m \in DOMAIN os[i].lines
      PROVE  DOMAIN lines[m] = DOMAIN os[i].lines[m] /\ IsLine(lines[m])
  <2>1. CASE m \notin ms
    BY <2>1 DEF ReplayedLines
  <2>2. CASE m \in ms
    <3> DEFINE l == os[i].lines[m]
               before == RunningBefore(os, i, m)
               after == before + Signed(os[i], m)
    <3>1. lines[m] = [l EXCEPT !.before = before, !.after = after]
      BY <2>2 DEF ReplayedLines, ReplayedLine
    <3> HIDE DEF l, before, after, lines
    <3>2. DOMAIN lines[m] = DOMAIN l /\ IsLine(lines[m])
      BY <3>1 DEF IsLine
    <3> QED BY <3>2 DEF l
  <2> QED BY <2>1, <2>2
<1> HIDE DEF lines
<1> QED BY <1>1, <1>2 DEF lines

\* What a creation adds to the ledger.
Created(r) ==
    NewOperation(r.type, r.at, MANUAL, r.kind = "MINI", NoOperation, r.request, r.qs)
WithCreated(r) == AddOperation(ops, NextId, Created(r))

\* A creation computes on the committed ledger.
LEMMA CreationReads ==
    ASSUME ReadsCommitted, OnlyCreations, LInv, SInv, NEW p \in Procs, WriteAndCommit(p)
    PROVE  LET t == txn[p]
           IN  /\ t.req.kind \in {"CREATE", "MINI"} /\ t.req.qs \in RequestLines
               /\ WrittenId(t.req) = NextId
               /\ Loaded(t) = ops /\ Computed(t) = WithCreated(t.req)
               /\ t.affected = DOMAIN t.req.qs
               /\ \A m \in t.affected : t.balances[m] = BalanceIn(Committed, m)
               /\ \A m \in t.affected : BalanceRow(m) \in t.held /\ MaterialRow(m) \in t.held
<1> DEFINE t == txn[p]
<1>1. Active(p) /\ TxnOK(t) /\ t.pc = "write"
  BY CommitWrites
<1>2. t.req.kind \in {"CREATE", "MINI"} /\ t.req.kind \notin OnOperation /\ t.req.qs \in RequestLines
  BY <1>1, CreationsOnly
<1>3. Loaded(t) = ops
  BY <1>2 DEF Loaded, OnOperation, View, Committed, ReadsCommitted
<1>4. Computed(t) = WithCreated(t.req)
  BY <1>2, <1>3 DEF Computed, WithCreated, Created
<1>5. Fresh(t)
  BY <1>1 DEF SInv
<1>6. AllLocked(t) /\ t.affected = DOMAIN t.req.qs
  BY <1>1, <1>5 DEF Fresh
<1>7. \A m \in t.affected : BalanceRow(m) \in t.held /\ MaterialRow(m) \in t.held
  BY <1>6 DEF AllLocked, Unlocked
<1>8. \A m \in t.affected : t.balances[m] = BalanceIn(Committed, m)
  BY <1>5, <1>7 DEF Fresh
<1>9. WrittenId(t.req) = NextId
  BY <1>2 DEF WrittenId
<1> QED BY <1>2, <1>3, <1>4, <1>6, <1>7, <1>8, <1>9

\* A creation stores the ledger it replayed.
LEMMA CreationStores ==
    ASSUME ReadsCommitted, OnlyCreations, LInv, SInv, NEW p \in Procs, WriteAndCommit(p)
    PROVE  ops' = Replayed(WithCreated(txn[p].req), DOMAIN txn[p].req.qs)
<1> DEFINE t == txn[p]
           os == WithCreated(t.req)
           ms == DOMAIN t.req.qs
<1>1. /\ t.req.kind # "UPDATE" /\ WrittenId(t.req) = NextId
      /\ Loaded(t) = ops /\ Computed(t) = os /\ t.affected = ms
  BY CreationReads
<1>2. ops' = [i \in DOMAIN ops \cup {NextId} |-> WrittenOperation(t, i)]
  BY <1>1, CommitWrites
<1>3. NextId \notin DOMAIN ops
  BY NextIdIsNew DEF LInv
<1>4. DOMAIN os = DOMAIN ops \cup {NextId} /\ \A i \in DOMAIN ops : os[i] = ops[i]
  BY <1>3 DEF WithCreated, AddOperation
<1>5. /\ DOMAIN Replayed(os, ms) = DOMAIN os
      /\ \A i \in DOMAIN os : Replayed(os, ms)[i] = WithLines(os[i], ReplayedLines(os, i, ms))
  BY ReplayedIsWithLines
<1>6. Replayed(os, ms) = [i \in DOMAIN os |-> Replayed(os, ms)[i]]
  BY DEF Replayed
<1> HIDE DEF os, ms, t
<1>7. ASSUME NEW i \in DOMAIN ops
      PROVE  WrittenOperation(t, i) = Replayed(os, ms)[i]
  <2> DEFINE loaded == ops[i].lines
             computed == ReplayedLines(os, i, ms)
  <2>1. \A m \in DOMAIN os[i].lines : IsLine(os[i].lines[m])
    BY <1>4 DEF SInv, AllLines
  <2>2. /\ DOMAIN computed = DOMAIN loaded /\ computed = [m \in DOMAIN computed |-> computed[m]]
        /\ \A m \in DOMAIN loaded : DOMAIN computed[m] = DOMAIN loaded[m] /\ IsLine(computed[m])
    BY <1>4, <2>1, ReplayedLinesAreLines
  <2>3. Replayed(os, ms)[i].lines = computed
    <3>1. HeadOK(os[i])
      BY <1>4 DEF LInv, TablesOK
    <3> QED BY <1>4, <1>5, <3>1, LinesOnly
  <2>4. WrittenOperation(t, i) = WithLines(ops[i], FlushedLines(loaded, computed, loaded))
    BY <1>1, <2>3 DEF WrittenOperation
  <2> HIDE DEF loaded, computed
  <2>5. FlushedLines(loaded, computed, loaded) = computed
    BY <2>2, FlushedIsComputed
  <2> QED BY <1>4, <1>5, <2>4, <2>5 DEF computed
<1>8. WrittenOperation(t, NextId) = Replayed(os, ms)[NextId]
  BY <1>1, <1>3 DEF WrittenOperation
<1>9. \A i \in DOMAIN os : WrittenOperation(t, i) = Replayed(os, ms)[i]
  BY <1>4, <1>7, <1>8
<1>10. ops' = [i \in DOMAIN os |-> WrittenOperation(t, i)]
  BY <1>2, <1>4
<1>11. ops' = Replayed(os, ms)
  BY <1>6, <1>9, <1>10
<1> QED BY <1>11 DEF os, ms, t

\* The instance counts as this module does.
LEMMA SameCardinality == \A S : Serial!Cardinality(S) = Cardinality(S)
  BY DEF Serial!Cardinality, Cardinality

\* The operation of a creation, its origin named by a Boolean.
LEMMA CreatedByMini ==
    ASSUME NEW r
    PROVE  \E mini \in BOOLEAN :
             /\ mini <=> r.kind = "MINI"
             /\ Created(r) = NewOperation(r.type, r.at, MANUAL, mini, NoOperation, r.request, r.qs)
<1>1. (r.kind = "MINI") \in BOOLEAN
  OBVIOUS
<1> QED BY <1>1, Zenon DEF Created

\* A creation sets the balances from the committed ones.
LEMMA CreationBalances ==
    ASSUME ReadsCommitted, OnlyCreations, LInv, SInv, NEW p \in Procs, WriteAndCommit(p)
    PROVE  Serial!SetBalances(WithCreated(txn[p].req), DOMAIN txn[p].req.qs)
<1> DEFINE t == txn[p]
           os == WithCreated(t.req)
           ms == DOMAIN t.req.qs
<1>1. Computed(t) = os /\ t.affected = ms /\ \A m \in t.affected : t.balances[m] = BalanceIn(Committed, m)
  BY CreationReads
<1>2. \A m \in ms : t.balances[m].quantity = balance[m] /\ t.balances[m].version = balanceVersion[m]
  <2>1. Committed.balance = balance /\ Committed.balanceVersion = balanceVersion
    BY DEF Committed
  <2>2. \A m : /\ BalanceIn(Committed, m).quantity = balance[m]
               /\ BalanceIn(Committed, m).version = balanceVersion[m]
    BY <2>1 DEF BalanceIn
  <2> QED BY <1>1, <2>2
<1>3. /\ balance' = [m \in Materials |->
           IF m \in t.affected /\ Running(Computed(t), m) # t.balances[m].quantity
           THEN Running(Computed(t), m) ELSE balance[m]]
      /\ balanceVersion' = [m \in Materials |->
           IF m \in t.affected THEN t.balances[m].version + 1 ELSE balanceVersion[m]]
  BY DEF WriteAndCommit
<1> HIDE DEF os, ms, t
<1>4. balance' = [m \in Materials |-> IF m \in ms THEN Running(os, m) ELSE balance[m]]
  BY <1>1, <1>2, <1>3
<1>5. balanceVersion' = [m \in Materials |-> IF m \in ms THEN balanceVersion[m] + 1
                                                         ELSE balanceVersion[m]]
  BY <1>1, <1>2, <1>3
<1>6. Serial!SetBalances(os, ms)
  BY <1>4, <1>5, SameReplay DEF Serial!SetBalances
<1> QED BY <1>6 DEF os, ms, t

\* A creation is recorded and announced as the serial one.
LEMMA CreationRecords ==
    ASSUME ReadsCommitted, OnlyCreations, LInv, SInv, NEW p \in Procs, WriteAndCommit(p)
    PROVE  /\ Serial!LogEvent(NextId, "CREATED")
           /\ events' = events \cup {<<NextId, txn[p].req.type>>}
<1> DEFINE r == txn[p].req
           id == WrittenId(r)
<1>1. r.kind \in {"CREATE", "MINI"} /\ id = NextId
  BY CreationReads
<1>2. NextId \notin DOMAIN log
  BY NextIdIsNew DEF LInv, TablesOK
<1>3. log' = [i \in DOMAIN log \cup {id} |->
         CASE r.kind = "UPDATE" /\ i = id -> Append(log[i], "UPDATED")
           [] r.kind = "REVERSE" /\ i = id -> <<"REVERSED">>
           [] r.kind \in {"CREATE", "MINI"} /\ i = id -> <<"CREATED">>
           [] OTHER -> log[i]]
  BY DEF WriteAndCommit, WrittenId
<1>4. events' = IF r.kind \in {"CREATE", "MINI"} THEN events \cup {<<id, r.type>>} ELSE events
  BY DEF WriteAndCommit, WrittenId
<1> HIDE DEF r, id
<1>5. log' = [i \in DOMAIN log \cup {NextId} |-> IF i # NextId THEN log[i] ELSE <<"CREATED">>]
  BY <1>1, <1>3
<1>6. Serial!LogEvent(NextId, "CREATED")
  BY <1>2, <1>5 DEF Serial!LogEvent
<1> QED BY <1>1, <1>4, <1>6 DEF r

\* The commit of a creation is a creation of the serial ledger.
LEMMA CommitSerializes ==
    ASSUME ReadsCommitted, OnlyCreations, LInv, SInv, NEW p \in Procs, WriteAndCommit(p)
    PROVE  Serial!Next
<1> DEFINE t == txn[p]
           r == t.req
<1>1. /\ r.kind \in {"CREATE", "MINI"} /\ r.qs \in RequestLines
      /\ t.affected = DOMAIN r.qs
  BY CreationReads
<1>2. /\ TxnOK(t) /\ ~WriteFails(t, Loaded(t), Replayed(Computed(t), t.affected))
  BY CommitWrites
<1>3. r.request \notin Serial!UsedRequests
  BY <1>1, <1>2 DEF WriteFails, RequestsIn, Serial!UsedRequests
<1>4. /\ r.type \in OperationTypes /\ r.at \in Times /\ r.request \in RequestIds
      /\ r.kind = "MINI" => r.type = OUTBOUND /\ Cardinality(DOMAIN r.qs) = 1
  BY <1>1, <1>2 DEF TxnOK, RequestOK
<1>5. PICK mini \in BOOLEAN :
         /\ mini <=> r.kind = "MINI"
         /\ Created(r) = NewOperation(r.type, r.at, MANUAL, mini, NoOperation, r.request, r.qs)
  BY CreatedByMini
<1> DEFINE op == Serial!NewOperation(r.type, r.at, Serial!MANUAL, mini, Serial!NoOperation,
                                     r.request, r.qs)
<1>6. op = Created(r)
  BY <1>5 DEF Serial!NewOperation, NewOperation, Serial!NewLine, NewLine, Serial!MANUAL, MANUAL,
              Serial!NoOperation, NoOperation
<1>7. Serial!AddOperation(ops, NextId, op) = WithCreated(r)
  BY <1>6 DEF WithCreated, Serial!AddOperation, AddOperation
<1>8. Serial!NextId = NextId
  BY SameCardinality DEF Serial!NextId, NextId
<1>9. ops' = Serial!Replayed(WithCreated(r), DOMAIN r.qs)
  BY CreationStores, SameReplay
<1>10. Serial!SetBalances(WithCreated(r), DOMAIN r.qs)
  BY CreationBalances
<1>11. Serial!LogEvent(NextId, "CREATED") /\ events' = events \cup {<<NextId, r.type>>}
  BY CreationRecords
<1>12. Serial!ValidSemantics(r.type, Serial!MANUAL, mini) /\ (mini => Cardinality(DOMAIN r.qs) = 1)
  BY <1>4, <1>5 DEF Serial!ValidSemantics, Serial!MANUAL, Serial!INITIALIZATION,
                    Serial!OUTBOUND, OUTBOUND
<1>13. Serial!MANUAL # Serial!REVERSAL
  BY DEF Serial!MANUAL, Serial!REVERSAL
<1> HIDE DEF r, op
<1>14. Serial!create_operation(r.request, r.type, r.at, Serial!MANUAL, mini, r.qs)
  BY <1>3, <1>7, <1>8, <1>9, <1>10, <1>11, <1>12, <1>13, SameCardinality
     DEF Serial!create_operation, op
<1>15. r.type \in Serial!OperationTypes /\ r.qs \in Serial!RequestLines /\ Serial!MANUAL \in {MANUAL}
  BY <1>1, <1>4 DEF Serial!OperationTypes, OperationTypes, Serial!INBOUND, INBOUND,
                    Serial!OUTBOUND, OUTBOUND, Serial!RequestLines, RequestLines,
                    Serial!MANUAL, MANUAL
<1> QED BY <1>4, <1>14, <1>15 DEF Serial!Next

\* The lines stay functions.
LEMMA CommitKeepsLines ==
    ASSUME ReadsCommitted, OnlyCreations, LInv, SInv, NEW p \in Procs, WriteAndCommit(p)
    PROVE  AllLines'
<1> DEFINE r == txn[p].req
           os == WithCreated(r)
           ms == DOMAIN r.qs
<1>1. ops' = Replayed(os, ms)
  BY CreationStores
<1>2. DOMAIN os = DOMAIN ops \cup {NextId}
      /\ \A i \in DOMAIN os : os[i] = IF i = NextId THEN Created(r) ELSE ops[i]
  BY DEF WithCreated, AddOperation
<1>3. HeadOK(Created(r)) /\ \A m \in DOMAIN Created(r).lines : IsLine(Created(r).lines[m])
  <2> DEFINE lines == [m \in DOMAIN r.qs |-> NewLine(r.qs[m])]
             origin == r.kind = "MINI"
  <2>1. Created(r) = [type |-> r.type, at |-> r.at, source |-> MANUAL, mini |-> origin,
                      reversalOf |-> NoOperation, request |-> r.request, version |-> 1,
                      lines |-> lines]
    BY DEF Created, NewOperation
  <2>2. \A m \in DOMAIN lines : IsLine(lines[m])
    BY DEF NewLine, IsLine
  <2> HIDE DEF lines, origin
  <2> QED BY <2>1, <2>2 DEF HeadOK
<1>4. /\ DOMAIN Replayed(os, ms) = DOMAIN os
      /\ \A i \in DOMAIN os : Replayed(os, ms)[i] = WithLines(os[i], ReplayedLines(os, i, ms))
  BY ReplayedIsWithLines
<1> HIDE DEF r, os, ms
<1>5. ASSUME NEW i \in DOMAIN ops' PROVE \A m \in DOMAIN ops'[i].lines : IsLine(ops'[i].lines[m])
  <2>1. i \in DOMAIN os /\ ops'[i] = WithLines(os[i], ReplayedLines(os, i, ms))
    BY <1>1, <1>4
  <2>2. HeadOK(os[i]) /\ \A m \in DOMAIN os[i].lines : IsLine(os[i].lines[m])
    BY <1>2, <1>3, <2>1 DEF LInv, TablesOK, SInv, AllLines
  <2>3. ops'[i].lines = ReplayedLines(os, i, ms)
    BY <2>1, <2>2, LinesOnly
  <2> QED BY <2>2, <2>3, ReplayedLinesAreLines
<1> QED BY <1>5 DEF AllLines

\* What the others have read stays committed: the writer holds the rows of all it writes.
LEMMA CommitKeepsSInv ==
    ASSUME ReadsCommitted, OnlyCreations, LInv, SInv, NEW p \in Procs, WriteAndCommit(p)
    PROVE  SInv'
<1> DEFINE t == txn[p]
           ms == t.affected
<1>1. Active(p) /\ txn' = [txn EXCEPT ![p] = Idle]
  BY CommitWrites
<1>2. \A m \in ms : BalanceRow(m) \in t.held /\ MaterialRow(m) \in t.held
  BY CreationReads
<1>3. \A m \in Materials \ ms : balance'[m] = balance[m] /\ balanceVersion'[m] = balanceVersion[m]
  BY DEF WriteAndCommit
<1>4. txn'[p] = Idle /\ \A q \in Procs \ {p} : txn'[q] = txn[q]
  BY <1>1 DEF LInv
<1> HIDE DEF t, ms
<1>5. ASSUME NEW q \in Procs, txn'[q].pc # "idle"
      PROVE  /\ txn'[q] = txn[q] /\ Fresh(txn[q])
             /\ \A m \in DOMAIN txn[q].balances : BalanceIn(Committed, m)' = BalanceIn(Committed, m)
  <2> DEFINE u == txn[q]
  <2>1. q # p /\ txn'[q] = u /\ Active(q)
    BY <1>4, <1>5 DEF Idle, Active
  <2>2. Fresh(u) /\ TxnOK(u)
    BY <2>1, IdleOrRunning DEF SInv
  <2>3. u.affected \subseteq Materials
    BY <2>2, CreationsOnly, RequestMaterials DEF Fresh
  <2>4. t.held \cap u.held \subseteq {RequestGap}
    BY <1>1, <2>1 DEF LInv, Exclusive, t
  <2>5. ASSUME NEW m \in DOMAIN u.balances PROVE m \in Materials \ ms
    <3>1. m \in Materials /\ (BalanceRow(m) \in u.held \/ MaterialRow(m) \in u.held)
      BY <2>2, <2>3 DEF Fresh
    <3> QED BY <1>2, <2>4, <3>1, RowsDiffer
  <2>6. \A m \in DOMAIN u.balances : BalanceIn(Committed, m)' = BalanceIn(Committed, m)
    BY <1>3, <2>5 DEF BalanceIn, Committed
  <2> QED BY <2>1, <2>2, <2>6
<1>6. ASSUME NEW q \in Procs, Active(q)' PROVE Fresh(txn[q])'
  <2> DEFINE u == txn[q]
  <2>1. u' = u /\ Fresh(u) /\ \A m \in DOMAIN u.balances : BalanceIn(Committed, m)' = BalanceIn(Committed, m)
    BY <1>5, <1>6 DEF Active
  <2>2. ASSUME NEW m \in DOMAIN u'.balances
        PROVE  /\ u'.balances[m] = BalanceIn(Committed, m)'
               /\ BalanceRow(m) \in u'.held \/ MaterialRow(m) \in u'.held
    BY <2>1 DEF Fresh
  <2>3. AllLocked(u)' <=> AllLocked(u)
    BY <2>1 DEF AllLocked, Unlocked
  <2> HIDE DEF u
  <2>4. Fresh(u)'
    BY <2>1, <2>2, <2>3 DEF Fresh
  <2> QED BY <2>4 DEF u
<1> QED BY <1>6, CommitKeepsLines DEF SInv

\* Every step keeps the invariant and is a step of the serial ledger, or none.
LEMMA NextSerializes ==
    ASSUME ReadsCommitted, OnlyCreations, LInv, SInv, [Next]_vars
    PROVE  SInv' /\ [Serial!Next]_(Serial!vars)
<1>1. CASE UNCHANGED vars
  <2>1. UNCHANGED <<ops, balance, balanceVersion, log, events, txn>>
    BY <1>1 DEF vars, tables
  <2>2. AllLines'
    BY <2>1 DEF SInv, AllLines
  <2>3. \A q \in Procs : Active(q)' => Fresh(txn[q])'
    BY <2>1 DEF SInv, Active, Fresh, Committed, AllLocked, Unlocked
  <2> QED BY <2>1, <2>2, <2>3 DEF SInv, Serial!vars
<1>2. ASSUME NEW p \in Procs,
             \/ \E req \in Requests : Begin(p, req)
             \/ Finish(p) \/ LockOperation(p) \/ LockMaterial(p) \/ LockRow(p) \/ Recheck(p)
      PROVE  SInv' /\ UNCHANGED Serial!vars
  <2>1. UNCHANGED tables
    BY <1>2 DEF Begin, Finish, LockOperation, LockMaterial, LockRow, Recheck
  <2>2. UNCHANGED Serial!vars
    BY <2>1 DEF tables, Serial!vars
  <2> QED BY <1>2, <2>2, ReadingKeepsSInv
<1>3. ASSUME NEW p \in Procs, WriteAndCommit(p) PROVE SInv' /\ Serial!Next
  BY <1>3, CommitKeepsSInv, CommitSerializes
<1>4. CASE Next
  <2>1. PICK p \in Procs : \/ \E req \in Requests : Begin(p, req)
                           \/ Step(p) \/ DeadlockVictim(p) \/ Fail(p)
    BY <1>4 DEF Next
  <2> QED BY <1>2, <1>3, <2>1 DEF Step, RefuseWrite, DeadlockVictim, Fail
<1> QED BY <1>1, <1>4

\* At first there is no line and no request.
LEMMA InitSInv == Init => SInv /\ Serial!Init
<1> SUFFICES ASSUME Init PROVE SInv /\ Serial!Init
  OBVIOUS
<1>1. DOMAIN ops = {} /\ \A p \in Procs : ~Active(p)
  BY DEF Init, Active, Idle
<1>2. Serial!Init
  BY DEF Init, Serial!Init
<1> QED BY <1>1, <1>2 DEF SInv, AllLines

\* Creations of the web and of the mini-program, however they interleave, do to the
\* tables what they would do one after the other: InventoryTxn implements StockLedger.
THEOREM CreationsSerialize == ReadsCommitted /\ OnlyCreations => (Spec => SerialSpec)
<1> SUFFICES ASSUME ReadsCommitted, OnlyCreations PROVE Spec => SerialSpec
  OBVIOUS
<1>1. Init => LInv /\ SInv /\ Serial!Init
  BY InitLInv, InitSInv
<1>2. LInv /\ SInv /\ [Next]_vars => LInv' /\ SInv' /\ [Serial!Next]_(Serial!vars)
  BY NextKeepsLInv, NextSerializes
<1> QED BY <1>1, <1>2, PTL DEF Spec, SerialSpec, Serial!Spec

\* Ledgers whose lines of m move m alike at the same times have the same total of m.
LEMMA SameMovesSameRunning ==
    ASSUME NEW a, NEW b, NEW m,
           {j \in DOMAIN a : m \in DOMAIN a[j].lines} = {j \in DOMAIN b : m \in DOMAIN b[j].lines},
           \A j \in DOMAIN b : m \in DOMAIN b[j].lines =>
               /\ a[j].type = b[j].type /\ a[j].at = b[j].at
               /\ a[j].lines[m].quantity = b[j].lines[m].quantity
    PROVE  Running(a, m) = Running(b, m)
<1>1. \A j \in DOMAIN b : m \in DOMAIN b[j].lines => Entry(a, j, m) = Entry(b, j, m)
  BY DEF Entry, Signed
<1>2. Entries(a, m) = Entries(b, m)
  BY <1>1 DEF Entries
<1> QED BY <1>2 DEF Running

\* The commit of a creation leaves every balance at what the ledger adds up to.
LEMMA CreationKeepsBalances ==
    ASSUME ReadsCommitted, OnlyCreations, LInv, QInv, SInv, BalanceMatchesLedger,
           NEW p \in Procs, WriteAndCommit(p)
    PROVE  BalanceMatchesLedger'
<1> DEFINE r == txn[p].req
           os == WithCreated(r)
           ms == DOMAIN r.qs
           lines == [m \in ms |-> NewLine(r.qs[m])]
<1>1. ops' = Replayed(os, ms) /\ r.qs \in RequestLines
  BY CreationStores, CreationReads
<1>2. balance' = [m \in Materials |-> IF m \in ms THEN Running(os, m) ELSE balance[m]]
  BY CreationBalances, SameReplay DEF Serial!SetBalances
<1>3. DOMAIN os = DOMAIN ops \cup {NextId}
      /\ \A i \in DOMAIN os : os[i] = IF i = NextId THEN Created(r) ELSE ops[i]
  BY DEF WithCreated, AddOperation
<1>4. HeadOK(Created(r)) /\ Created(r).lines = lines /\ LinesOK(lines)
  <2> DEFINE origin == r.kind = "MINI"
  <2>1. Created(r) = [type |-> r.type, at |-> r.at, source |-> MANUAL, mini |-> origin,
                      reversalOf |-> NoOperation, request |-> r.request, version |-> 1,
                      lines |-> lines]
    BY DEF Created, NewOperation
  <2>2. LinesOK(lines)
    BY <1>1, NewLinesFigures
  <2> HIDE DEF lines, origin
  <2> QED BY <2>1, <2>2 DEF HeadOK
<1>5. NextId \notin DOMAIN ops
  BY NextIdIsNew DEF LInv
<1>6. /\ DOMAIN Replayed(os, ms) = DOMAIN os
      /\ \A i \in DOMAIN os : Replayed(os, ms)[i] = WithLines(os[i], ReplayedLines(os, i, ms))
  BY ReplayedIsWithLines
<1>7. DOMAIN lines = ms
  OBVIOUS
<1> HIDE DEF r, os, ms, lines
<1>8. ASSUME NEW i \in DOMAIN os
      PROVE  SameHead(ops'[i], os[i]) /\ SameFigures(ops'[i].lines, os[i].lines)
  <2>1. HeadOK(os[i]) /\ LinesOK(os[i].lines)
    BY <1>3, <1>4 DEF LInv, TablesOK, QInv, AllLinesOK
  <2>2. ops'[i] = WithLines(os[i], ReplayedLines(os, i, ms))
    BY <1>1, <1>6
  <2>3. SameHead(ops'[i], os[i]) /\ ops'[i].lines = ReplayedLines(os, i, ms)
    BY <2>1, <2>2, LinesOnly
  <2> QED BY <2>1, <2>3, ReplayedFigures
<1>9. DOMAIN ops' = DOMAIN os
  BY <1>1, <1>6
<1>10. ASSUME NEW m \in Materials PROVE balance'[m] = Running(ops', m)
  <2>1. Running(ops', m) = Running(os, m)
    BY <1>8, <1>9, SameMovesSameRunning DEF SameHead, SameFigures
  <2>2. CASE m \in ms
    BY <1>2, <2>1, <2>2
  <2>3. CASE m \notin ms
    <3>1. {j \in DOMAIN os : m \in DOMAIN os[j].lines} = {j \in DOMAIN ops : m \in DOMAIN ops[j].lines}
      BY <1>3, <1>4, <1>5, <1>7, <2>3
    <3>2. \A j \in DOMAIN ops : os[j] = ops[j]
      BY <1>3, <1>5
    <3>3. Running(os, m) = Running(ops, m)
      BY <3>1, <3>2, SameMovesSameRunning
    <3> QED BY <1>2, <2>1, <2>3, <3>3 DEF BalanceMatchesLedger
  <2> QED BY <2>2, <2>3
<1> QED BY <1>10 DEF BalanceMatchesLedger

\* Nothing moved yet.
LEMMA InitBalances == Init => BalanceMatchesLedger
<1> DEFINE pick(s) == CHOOSE x \in s : TRUE
           iter == CHOOSE f : f = [s \in SUBSET {} |->
                     IF s = {} THEN 0 ELSE pick(s).delta + f[s \ {pick(s)}]]
<1>1. Total({}) = iter[{}]
  BY DEF Total, MapThenSumSet, MapThenFoldSet
<1>2. \E f : f = [s \in SUBSET {} |-> IF s = {} THEN 0 ELSE pick(s).delta + f[s \ {pick(s)}]]
  OBVIOUS
<1>3. Total({}) = 0
  BY <1>1, <1>2
<1>4. Init => \A m : Entries(ops, m) = {}
  BY DEF Init, Entries
<1> QED BY <1>3, <1>4 DEF Init, BalanceMatchesLedger, Running

\* Reading committed rows, no movement is lost from a balance however the creations
\* interleave.  (Under REPEATABLE READ one can be: a run shows it.)
THEOREM CreationsLoseNothing ==
    ReadsCommitted /\ OnlyCreations => (Spec => []BalanceMatchesLedger)
<1> SUFFICES ASSUME ReadsCommitted, OnlyCreations PROVE Spec => []BalanceMatchesLedger
  OBVIOUS
<1> DEFINE BInv == LInv /\ QInv /\ SInv /\ BalanceMatchesLedger
<1>1. Init => BInv
  BY InitLInv, InitQInv, InitSInv, InitBalances
<1>2. BInv /\ [Next]_vars => BInv'
  <2> SUFFICES ASSUME BInv, [Next]_vars PROVE BInv'
    OBVIOUS
  <2>1. LInv' /\ QInv' /\ SInv'
    BY NextKeepsLInv, NextKeepsQInv, NextSerializes
  <2>2. ASSUME NEW p \in Procs, WriteAndCommit(p) PROVE BalanceMatchesLedger'
    BY <2>2, CreationKeepsBalances
  <2>3. ASSUME UNCHANGED <<ops, balance>> PROVE BalanceMatchesLedger'
    <3>1. balance' = balance /\ ops' = ops
      BY <2>3
    <3>2. \A m : Running(ops', m) = Running(ops, m)
      BY <3>1
    <3>3. \A m \in Materials : balance'[m] = Running(ops', m)
      BY <3>1, <3>2 DEF BalanceMatchesLedger
    <3> QED BY <3>3 DEF BalanceMatchesLedger
  <2>4. UNCHANGED <<ops, balance>> \/ \E p \in Procs : WriteAndCommit(p)
    BY DEF Next, Begin, Step, LockOperation, LockMaterial, LockRow, Recheck, RefuseWrite,
           DeadlockVictim, Fail, Finish, vars, tables
  <2> QED BY <2>1, <2>2, <2>3, <2>4
<1> QED BY <1>1, <1>2, PTL DEF Spec

=============================================================================
