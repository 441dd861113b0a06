----------------------------- MODULE StockLedger -----------------------------
(***************************************************************************)
(* The inventory service of the secondary warehouse with every request     *)
(* executed alone: what inventory_service and the stock-material part of   *)
(* material_service promise when nothing interleaves.  One action is one   *)
(* committed request.  A request the code answers without touching the     *)
(* database (a validation error, a repeated client_request_id, a stale     *)
(* version) leaves every variable unchanged, so it needs no action.        *)
(*                                                                         *)
(* InventoryTxn runs the same requests as interleaved database             *)
(* transactions and is compared with this module.                          *)
(***************************************************************************)
EXTENDS LedgerOps, Sequences

CONSTANTS
    Materials,    \* identities a stock material can have
    RequestIds,   \* client_request_id values clients use
    Quantities,   \* quantities a line may ask for (in tenths)
    Times,        \* instants a client may give as occurred_at
    Sources,      \* source types clients give
    MaxEdits      \* bound: how many edits the ledger sees

ASSUME QuantitiesAssumption == Quantities \subseteq Nat \ {0}
ASSUME TimesAssumption == Times \subseteq Nat
ASSUME SourcesAssumption == Sources \subseteq SourceTypes
ASSUME MaxEditsAssumption == MaxEdits \in Nat

VARIABLES
    stock,           \* materials that exist
    ops,             \* the ledger: operation id -> operation
    balance,         \* stock_balance.quantity of every material that exists
    balanceVersion,  \* stock_balance.version
    log,             \* business_event_log: operation id -> actions recorded
    events           \* webhook events enqueued: <<operation id, type>>

vars == <<stock, ops, balance, balanceVersion, log, events>>

\* Lines of a request: each material at most once, at least one line.
RequestLines == UNION {[ms -> Quantities] : ms \in (SUBSET stock) \ {{}}}

NextId == Cardinality(DOMAIN ops) + 1

UsedRequests == {ops[i].request : i \in DOMAIN ops}

\* Every edit adds one to the version of its operation.
EditCount == MapThenSumSet(LAMBDA i : ops[i].version - 1, DOMAIN ops)

\* balance.quantity = running; balance.version += 1, for the materials replayed.
SetBalances(os, ms) ==
    /\ balance' = [m \in stock |-> IF m \in ms THEN Running(os, m) ELSE balance[m]]
    /\ balanceVersion' = [m \in stock |->
                            IF m \in ms THEN balanceVersion[m] + 1 ELSE balanceVersion[m]]

LogEvent(id, action) ==
    log' = [i \in DOMAIN log \cup {id} |->
              IF i # id THEN log[i]
              ELSE IF id \in DOMAIN log THEN Append(log[id], action) ELSE <<action>>]

-----------------------------------------------------------------------------
Init ==
    /\ stock \in SUBSET Materials
    /\ ops = << >>
    /\ balance = [m \in stock |-> 0]
    /\ balanceVersion = [m \in stock |-> 1]
    /\ log = << >>
    /\ events = {}

\* POST /stock-materials: the material and its zero balance in one transaction.
create_stock_material(m) ==
    /\ m \notin stock
    /\ stock' = stock \cup {m}
    /\ balance' = [n \in stock' |-> IF n = m THEN 0 ELSE balance[n]]
    /\ balanceVersion' = [n \in stock' |-> IF n = m THEN 1 ELSE balanceVersion[n]]
    /\ UNCHANGED <<ops, log, events>>

\* Faulty variant: deletion does not look for operations.
delete_unchecked(m) ==
    /\ m \in stock
    /\ stock' = stock \ {m}
    /\ balance' = [n \in stock' |-> balance[n]]
    /\ balanceVersion' = [n \in stock' |-> balanceVersion[n]]
    /\ UNCHANGED <<ops, log, events>>

\* DELETE /stock-materials/{id}: refused while an operation has a line of it.
delete_stock_material(m) ==
    /\ m \in stock
    /\ \A i \in DOMAIN ops : m \notin DOMAIN ops[i].lines
    /\ stock' = stock \ {m}
    /\ balance' = [n \in stock' |-> balance[n]]
    /\ balanceVersion' = [n \in stock' |-> balanceVersion[n]]
    /\ UNCHANGED <<ops, log, events>>

(***************************************************************************)
(* POST /inventory/inbounds, /inventory/outbounds and the mini-program's   *)
(* outbound: the tail of create_operation once its checks have passed.     *)
(***************************************************************************)
create_operation(request, type, at, source, mini, qs) ==
    /\ request \notin UsedRequests
    /\ source # REVERSAL
    /\ ValidSemantics(type, source, mini)
    /\ mini => Cardinality(DOMAIN qs) = 1
    /\ LET id == NextId
           os == AddOperation(ops, id,
                              NewOperation(type, at, source, mini, NoOperation, request, qs))
       IN  /\ events' = events \cup {<<id, type>>}
           /\ LogEvent(id, "CREATED")
           /\ ops' = Replayed(os, DOMAIN qs)
           /\ SetBalances(os, DOMAIN qs)
    /\ UNCHANGED stock

\* POST /inventory/operations/{id}/reverse
reverse_operation(original, request, now, qs) ==
    /\ request \notin UsedRequests
    /\ CanReverse(ops[original].lines, qs)
    /\ LET id == NextId
           type == OtherType(ops[original].type)
           at == ReversalTime(now, ops[original].at)
           os == AddOperation(TakeReversed(ops, original, qs), id,
                              NewOperation(type, at, REVERSAL, FALSE, original, request, qs))
       IN  /\ LogEvent(id, "REVERSED")
           /\ ops' = Replayed(os, DOMAIN qs)
           /\ SetBalances(os, DOMAIN qs)
    /\ UNCHANGED <<stock, events>>

\* Faulty variant: the materials an edit takes off the operation are not replayed.
update_replays_new_only(id, version, type, at, source, qs) ==
    /\ version = ops[id].version
    /\ EditCount < MaxEdits
    /\ ops[id].mini => source = MANUAL
    /\ ValidSemantics(type, source, ops[id].mini)
    /\ LET os == [ops EXCEPT ![id] = EditedOperation(ops[id], type, at, source, qs)]
       IN  /\ LogEvent(id, "UPDATED")
           /\ ops' = Replayed(os, DOMAIN qs)
           /\ SetBalances(os, DOMAIN qs)
    /\ UNCHANGED <<stock, events>>

(***************************************************************************)
(* PATCH /inventory/operations/{id}.  A mini-program operation keeps its   *)
(* source, and only that: any other operation may be given any source.     *)
(***************************************************************************)
update_operation(id, version, type, at, source, qs) ==
    /\ version = ops[id].version
    /\ EditCount < MaxEdits
    /\ ops[id].mini => source = MANUAL
    /\ ValidSemantics(type, source, ops[id].mini)
    /\ LET affected == DOMAIN ops[id].lines \cup DOMAIN qs
           os == [ops EXCEPT ![id] = EditedOperation(ops[id], type, at, source, qs)]
       IN  /\ LogEvent(id, "UPDATED")
           /\ ops' = Replayed(os, affected)
           /\ SetBalances(os, affected)
    /\ UNCHANGED <<stock, events>>

Next ==
    \/ \E m \in Materials : create_stock_material(m) \/ delete_stock_material(m)
    \/ \E qs \in RequestLines, request \in RequestIds :
        \/ \E type \in OperationTypes, at \in Times, source \in Sources, mini \in BOOLEAN :
              create_operation(request, type, at, source, mini, qs)
        \/ \E original \in DOMAIN ops, now \in Times :
              reverse_operation(original, request, now, qs)
    \/ \E id \in DOMAIN ops, qs \in RequestLines, version \in 1..MaxEdits :
        \E type \in OperationTypes, at \in Times, source \in Sources :
              update_operation(id, version, type, at, source, qs)

Spec == Init /\ [][Next]_vars

-----------------------------------------------------------------------------
(* Properties *)

LineOK(line) ==
    /\ line = [quantity |-> line.quantity, remaining |-> line.remaining,
               before |-> line.before, after |-> line.after]
    /\ line.quantity \in Nat \ {0}
    /\ line.remaining \in Nat

OperationOK(op) ==
    /\ op = [type |-> op.type, at |-> op.at, source |-> op.source, mini |-> op.mini,
             reversalOf |-> op.reversalOf, request |-> op.request,
             version |-> op.version, lines |-> op.lines]
    /\ op.type \in OperationTypes
    /\ op.at \in Nat
    /\ op.source \in SourceTypes
    /\ op.mini \in BOOLEAN
    /\ op.reversalOf \in Nat
    /\ op.request \in RequestIds
    /\ op.version \in Nat
    /\ op.lines = [m \in DOMAIN op.lines |-> op.lines[m]]
    /\ \A m \in DOMAIN op.lines : LineOK(op.lines[m])

\* Type invariant: the shape of the tables.  Every line and every balance belongs
\* to a material that exists, and the operations have the ids 1, 2, ... without a gap.
TypeOK ==
    /\ stock \subseteq Materials
    /\ ops = [i \in DOMAIN ops |-> ops[i]]
    /\ IsFiniteSet(DOMAIN ops) /\ DOMAIN ops = 1..Cardinality(DOMAIN ops)
    /\ \A i \in DOMAIN ops : OperationOK(ops[i]) /\ DOMAIN ops[i].lines \subseteq stock
    /\ balance = [m \in stock |-> balance[m]]
    /\ balanceVersion \in [stock -> Nat]
    /\ DOMAIN log = DOMAIN ops
    /\ events \subseteq Nat \X OperationTypes

\* The balance shown for a material is what its ledger lines add up to, after any
\* sequence of creations, edits that move lines between materials, and reversals.
BalanceIsRunning == \A m \in stock : balance[m] = Running(ops, m)

\* The operations with a line of m, and the order replay_materials puts them in.
IdsOf(m) == {i \in DOMAIN ops : m \in DOMAIN ops[i].lines}
Before(i, j, m) == EarlierThan(Entry(ops, i, m), Entry(ops, j, m))

\* Read in the order of time and id, the lines of a material form an unbroken chain:
\* the first starts at zero, each starts where the one before it ended, and the last
\* one ends at the balance, whatever was inserted, edited or removed in the past.
ChainUnbroken ==
    \A m \in stock :
        /\ IdsOf(m) = {} => balance[m] = 0
        /\ \A j \in IdsOf(m) :
            LET line == ops[j].lines[m]
                earlier == {i \in IdsOf(m) : Before(i, j, m)}
                later == {i \in IdsOf(m) : Before(j, i, m)}
            IN  /\ line.after = line.before + Signed(ops[j], m)
                /\ earlier = {} => line.before = 0
                /\ \A i \in earlier :
                     (\A k \in earlier : ~Before(i, k, m)) => line.before = ops[i].lines[m].after
                /\ later = {} => line.after = balance[m]

\* A line never has more left to reverse than its quantity, and never a negative rest.
RemainingWithinQuantity ==
    \A i \in DOMAIN ops : \A m \in DOMAIN ops[i].lines :
        ops[i].lines[m].remaining <= ops[i].lines[m].quantity

ReversalsOf(i, m) ==
    {j \in DOMAIN ops : ops[j].reversalOf = i /\ m \in DOMAIN ops[j].lines}

\* While neither an operation nor its reversals have been edited, what is left to
\* reverse and what was reversed make up the quantity: partial reversals never exceed it.
ReversalsAccountedFor ==
    \A i \in DOMAIN ops : \A m \in DOMAIN ops[i].lines :
        ops[i].version = 1 /\ (\A j \in DOMAIN ops : ops[j].reversalOf = i => ops[j].version = 1)
            => ops[i].lines[m].quantity = ops[i].lines[m].remaining
                 + MapThenSumSet(LAMBDA j : ops[j].lines[m].quantity, ReversalsOf(i, m))

\* A reversal that nobody edited undoes its unedited original: opposite direction, later
\* in the ledger, marked REVERSAL, and no webhook event announces it as a new movement.
ReversalMirrorsOriginal ==
    \A j \in DOMAIN ops :
        LET i == ops[j].reversalOf
        IN  i # NoOperation =>
              /\ i \in DOMAIN ops /\ i < j
              /\ \A t \in OperationTypes : <<j, t>> \notin events
              /\ ops[i].version = 1 /\ ops[j].version = 1 =>
                   /\ ops[j].type = OtherType(ops[i].type)
                   /\ ops[j].source = REVERSAL
                   /\ ops[j].at > ops[i].at

KeepsHistory ==
    \A i \in DOMAIN ops :
        /\ i \in DOMAIN ops'
        /\ ops'[i].request = ops[i].request
        /\ ops'[i].reversalOf = ops[i].reversalOf
        /\ ops'[i].mini = ops[i].mini

\* No request removes an operation or rewrites what identifies it: its request id, the
\* operation it reverses and whether the mini-program made it.
HistoryIsKept == [][KeepsHistory]_vars
=============================================================================
