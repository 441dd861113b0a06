------------------------------ MODULE LedgerOps ------------------------------
(***************************************************************************)
(* The stock ledger as data: operations (stock_operation), their lines     *)
(* (stock_operation_line) and the pure part of inventory_service: building *)
(* an operation, editing it, taking a reversal off its original and        *)
(* replaying the lines of a material.                                      *)
(*                                                                         *)
(* A ledger is a function from operation ids to operation records.  The    *)
(* lines of an operation are a function from materials to line records:    *)
(* the table has UNIQUE (operation_id, stock_material_id), so the ids of   *)
(* the lines never decide the order of two lines of one material.          *)
(* Quantities are natural numbers: the columns are DECIMAL(18, 1), counted *)
(* here in tenths.                                                         *)
(***************************************************************************)
EXTENDS Integers, FiniteSetsExt

INBOUND == "INBOUND"
OUTBOUND == "OUTBOUND"
OperationTypes == {INBOUND, OUTBOUND}

\* The source types a row can hold; MINI_PROGRAM is stored as MANUAL together
\* with the user's name, which the field "mini" stands for.
MANUAL == "MANUAL"
INITIALIZATION == "INITIALIZATION"
REVERSAL == "REVERSAL"
SourceTypes == {MANUAL, INITIALIZATION, REVERSAL}

\* reversal_of_id of an operation that reverses nothing; ids start at 1.
NoOperation == 0

OtherType(type) == IF type = INBOUND THEN OUTBOUND ELSE INBOUND

\* INITIALIZATION is inbound only, a mini-program operation is an outbound.
ValidSemantics(type, source, mini) ==
    /\ source = INITIALIZATION => type = INBOUND
    /\ mini => type = OUTBOUND /\ source = MANUAL

\* Lines of a request: every quantity is new, nothing of it is reversed yet.
NewLine(q) == [quantity |-> q, remaining |-> q, before |-> 0, after |-> 0]

NewOperation(type, at, source, mini, reversalOf, request, qs) ==
    [type |-> type, at |-> at, source |-> source, mini |-> mini,
     reversalOf |-> reversalOf, request |-> request, version |-> 1,
     lines |-> [m \in DOMAIN qs |-> NewLine(qs[m])]]

AddOperation(os, id, op) ==
    [i \in DOMAIN os \cup {id} |-> IF i = id THEN op ELSE os[i]]

(***************************************************************************)
(* Editing: a material that keeps its place keeps its row, and its         *)
(* remaining quantity is cut to the new quantity; a material that is new   *)
(* to the operation gets a fresh row; the rows of the others are deleted.  *)
(***************************************************************************)
\* Faulty variant: the remaining quantity stays as it was.
EditedLineKeepsRemaining(line, q) == [line EXCEPT !.quantity = q]

EditedLine(line, q) ==
    [line EXCEPT !.quantity = q,
                 !.remaining = IF line.remaining < q THEN line.remaining ELSE q]

\* Faulty variant: an edit forgets which operation this one reverses.
EditedOperationLosesOriginal(op, type, at, source, qs) ==
    [op EXCEPT !.type = type, !.at = at, !.source = source, !.reversalOf = NoOperation,
               !.version = op.version + 1,
               !.lines = [m \in DOMAIN qs |->
                            IF m \in DOMAIN op.lines THEN EditedLine(op.lines[m], qs[m])
                                                     ELSE NewLine(qs[m])]]

EditedOperation(op, type, at, source, qs) ==
    [op EXCEPT !.type = type, !.at = at, !.source = source,
               !.version = op.version + 1,
               !.lines = [m \in DOMAIN qs |->
                            IF m \in DOMAIN op.lines THEN EditedLine(op.lines[m], qs[m])
                                                     ELSE NewLine(qs[m])]]

\* The lines a reversal asks for exist and have that much left to reverse.
CanReverse(lines, qs) ==
    \A m \in DOMAIN qs : m \in DOMAIN lines /\ qs[m] <= lines[m].remaining

\* Faulty variant: the original keeps its remaining quantity.
TakeNothing(os, original, qs) == os

TakeReversed(os, original, qs) ==
    [os EXCEPT ![original].lines =
        [m \in DOMAIN os[original].lines |->
            IF m \in DOMAIN qs
            THEN [os[original].lines[m] EXCEPT !.remaining = @ - qs[m]]
            ELSE os[original].lines[m]]]

\* Faulty variant: the reversal is dated now, whatever the original's date is.
ReversalNow(now, at) == now

\* max(now, original + 1 microsecond)
ReversalTime(now, at) == IF now > at THEN now ELSE at + 1

-----------------------------------------------------------------------------
(***************************************************************************)
(* replay_materials: the lines of a material in the order of the time and  *)
(* the id of their operations, added up from zero.                         *)
(***************************************************************************)
Signed(op, m) ==
    IF op.type = INBOUND THEN op.lines[m].quantity ELSE 0 - op.lines[m].quantity

Entry(os, i, m) == [id |-> i, at |-> os[i].at, delta |-> Signed(os[i], m)]

Entries(os, m) == {Entry(os, i, m) : i \in {j \in DOMAIN os : m \in DOMAIN os[j].lines}}

\* Faulty variant: lines of the same instant are not told apart.
EarlierByTime(e, f) == e.at < f.at

EarlierThan(e, f) == e.at < f.at \/ (e.at = f.at /\ e.id < f.id)

Total(entries) == MapThenSumSet(LAMBDA e : e.delta, entries)

Running(os, m) == Total(Entries(os, m))

RunningBefore(os, i, m) ==
    Total({e \in Entries(os, m) : EarlierThan(e, Entry(os, i, m))})

ReplayedLine(os, i, m) ==
    LET before == RunningBefore(os, i, m)
    IN  [os[i].lines[m] EXCEPT !.before = before, !.after = before + Signed(os[i], m)]

Replayed(os, ms) ==
    [i \in DOMAIN os |->
        [os[i] EXCEPT !.lines = [m \in DOMAIN os[i].lines |->
            IF m \in ms THEN ReplayedLine(os, i, m) ELSE os[i].lines[m]]]]
=============================================================================
