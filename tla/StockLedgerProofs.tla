-------------------------- MODULE StockLedgerProofs --------------------------
(***************************************************************************)
(* Proofs about StockLedger, for every set of materials, request ids,      *)
(* quantities, times and sources and every number of edits.                *)
(*                                                                         *)
(* Types and marks.  What replaying, adding, editing and reversing do to   *)
(* the shape of a ledger and to the entries of a material.  A running      *)
(* total is a function of the set of entries, so a material whose entries  *)
(* a request leaves alone keeps its total.                                 *)
(*                                                                         *)
(* Mirrors.  Replaying and taking a reversal off touch the lines of an     *)
(* operation and not its head; an edit counts its version past 1 for good; *)
(* and webhook events name operations that exist, so the number of a new   *)
(* reversal is in none.                                                    *)
(*                                                                         *)
(* Chain.  Every request replays all the materials whose entries it        *)
(* changes, so every line bears the totals a replay would write now.  The  *)
(* entries before a line are those before its predecessor and the          *)
(* predecessor, so the totals meet.                                        *)
(*                                                                         *)
(* Accounts.  A reversal takes off its original what it moves itself, and  *)
(* is not edited without counting its version on.                          *)
(***************************************************************************)
EXTENDS StockLedger, FiniteSetLemmas

LedgerOK(os) ==
    /\ os = [i \in DOMAIN os |-> os[i]]
    /\ \A i \in DOMAIN os : OperationOK(os[i])

\* Two ledgers with the same operations except for what replaying writes.
SameButReplayed(r, os) ==
    /\ r = [i \in DOMAIN r |-> r[i]]
    /\ DOMAIN r = DOMAIN os
    /\ \A i \in DOMAIN os :
        /\ OperationOK(r[i])
        /\ r[i].type = os[i].type /\ r[i].at = os[i].at
        /\ r[i].request = os[i].request /\ r[i].mini = os[i].mini
        /\ r[i].reversalOf = os[i].reversalOf
        /\ DOMAIN r[i].lines = DOMAIN os[i].lines
        /\ \A m \in DOMAIN os[i].lines :
            /\ r[i].lines[m].quantity = os[i].lines[m].quantity
            /\ r[i].lines[m].remaining = os[i].lines[m].remaining

\* Replaying keeps every quantity: it only writes before and after.
LEMMA ReplayedLineOK ==
    ASSUME NEW os, NEW i \in DOMAIN os, OperationOK(os[i]), NEW m \in DOMAIN os[i].lines
    PROVE  /\ LineOK(ReplayedLine(os, i, m))
           /\ ReplayedLine(os, i, m).quantity = os[i].lines[m].quantity
           /\ ReplayedLine(os, i, m).remaining = os[i].lines[m].remaining
<1> DEFINE b == RunningBefore(os, i, m)
           s == Signed(os[i], m)
           line == os[i].lines[m]
<1> HIDE DEF b, s
<1>1. LineOK(line) BY DEF OperationOK
<1>2. ReplayedLine(os, i, m) = [line EXCEPT !.before = b, !.after = b + s]
  BY DEF ReplayedLine, b, s
<1>3. line = [quantity |-> line.quantity, remaining |-> line.remaining,
              before |-> line.before, after |-> line.after]
  BY <1>1 DEF LineOK
<1> DEFINE r == [quantity |-> line.quantity, remaining |-> line.remaining,
                 before |-> b, after |-> b + s]
<1>4. ReplayedLine(os, i, m) = r
  BY <1>2, <1>3
<1>5. r.quantity = line.quantity /\ r.remaining = line.remaining /\ r.before = b /\ r.after = b + s
  OBVIOUS
<1>6. LineOK(r)
  BY <1>1, <1>5 DEF LineOK
<1> QED BY <1>4, <1>5, <1>6

\* Replaying materials of a well-formed ledger gives a well-formed ledger that differs
\* from it in the before and after quantities alone.
LEMMA ReplayedShape ==
    ASSUME NEW os, NEW ms, LedgerOK(os)
    PROVE  SameButReplayed(Replayed(os, ms), os)
<1> DEFINE ls(i) == [m \in DOMAIN os[i].lines |->
                       IF m \in ms THEN ReplayedLine(os, i, m) ELSE os[i].lines[m]]
           r == Replayed(os, ms)
<1>1. r = [i \in DOMAIN os |-> [os[i] EXCEPT !.lines = ls(i)]]
  BY DEF Replayed
<1>2. DOMAIN r = DOMAIN os /\ r = [i \in DOMAIN r |-> r[i]]
  BY <1>1
<1>3. ASSUME NEW i \in DOMAIN os
      PROVE  /\ OperationOK(r[i])
             /\ r[i].type = os[i].type /\ r[i].at = os[i].at
             /\ r[i].request = os[i].request /\ r[i].mini = os[i].mini
             /\ r[i].reversalOf = os[i].reversalOf
             /\ DOMAIN r[i].lines = DOMAIN os[i].lines
             /\ \A m \in DOMAIN os[i].lines :
                 /\ r[i].lines[m].quantity = os[i].lines[m].quantity
                 /\ r[i].lines[m].remaining = os[i].lines[m].remaining
  <2>1. OperationOK(os[i]) BY DEF LedgerOK
  <2>2. \A m \in DOMAIN os[i].lines :
          /\ LineOK(ls(i)[m])
          /\ ls(i)[m].quantity = os[i].lines[m].quantity
          /\ ls(i)[m].remaining = os[i].lines[m].remaining
    BY <2>1, ReplayedLineOK DEF OperationOK
  <2>3. ls(i) = [m \in DOMAIN ls(i) |-> ls(i)[m]] /\ DOMAIN ls(i) = DOMAIN os[i].lines
    OBVIOUS
  <2> HIDE DEF ls
  <2>4. r[i] = [os[i] EXCEPT !.lines = ls(i)]
    BY <1>1
  <2> DEFINE op == [type |-> os[i].type, at |-> os[i].at, source |-> os[i].source,
                    mini |-> os[i].mini, reversalOf |-> os[i].reversalOf,
                    request |-> os[i].request, version |-> os[i].version, lines |-> ls(i)]
  <2>5. r[i] = op
    BY <2>1, <2>4 DEF OperationOK
  <2>6. OperationOK(op)
    BY <2>1, <2>2, <2>3 DEF OperationOK
  <2> QED BY <2>2, <2>3, <2>5, <2>6
<1> QED BY <1>2, <1>3 DEF SameButReplayed

\* Replaying does not change what the lines of a material add up to.
LEMMA ReplayedEntries ==
    ASSUME NEW os, NEW r, SameButReplayed(r, os), NEW m
    PROVE  Entries(r, m) = Entries(os, m)
<1>1. {j \in DOMAIN r : m \in DOMAIN r[j].lines} = {j \in DOMAIN os : m \in DOMAIN os[j].lines}
  BY DEF SameButReplayed
<1>2. ASSUME NEW j \in DOMAIN os, m \in DOMAIN os[j].lines
      PROVE  Entry(r, j, m) = Entry(os, j, m)
  <2>1. r[j].type = os[j].type /\ r[j].at = os[j].at
        /\ r[j].lines[m].quantity = os[j].lines[m].quantity
    BY <1>2 DEF SameButReplayed
  <2> QED BY <2>1 DEF Entry, Signed
<1> QED BY <1>1, <1>2 DEF Entries

\* What the lines of a material add up to is the same before and after a replay.
LEMMA ReplayedRunning ==
    ASSUME NEW os, NEW r, SameButReplayed(r, os), NEW m
    PROVE  Running(r, m) = Running(os, m)
BY ReplayedEntries DEF Running

\* A ledger that differs only in operations without a line of m, before and after, has
\* the same total for m.
LEMMA UntouchedRunning ==
    ASSUME NEW os, NEW r, NEW id, NEW m,
           DOMAIN r = DOMAIN os \cup {id},
           \A i \in DOMAIN os : i # id => r[i] = os[i],
           m \notin DOMAIN r[id].lines,
           id \in DOMAIN os => m \notin DOMAIN os[id].lines
    PROVE  Running(r, m) = Running(os, m)
<1>1. {j \in DOMAIN r : m \in DOMAIN r[j].lines} = {j \in DOMAIN os : m \in DOMAIN os[j].lines}
  OBVIOUS
<1>2. \A j \in DOMAIN os : m \in DOMAIN os[j].lines => Entry(r, j, m) = Entry(os, j, m)
  BY DEF Entry, Signed
<1>3. Entries(r, m) = Entries(os, m)
  BY <1>1, <1>2 DEF Entries
<1> QED BY <1>3 DEF Running

-----------------------------------------------------------------------------
(* What the four ways to build a ledger give. *)

\* The operation a request adds is well formed, whoever sends it.
LEMMA NewOperationOK ==
    ASSUME NEW type \in OperationTypes, NEW at \in Nat, NEW source \in SourceTypes,
           NEW mini \in BOOLEAN, NEW reversalOf \in Nat, NEW request \in RequestIds,
           NEW ms, NEW qs \in [ms -> Quantities]
    PROVE  LET op == NewOperation(type, at, source, mini, reversalOf, request, qs)
           IN  OperationOK(op) /\ DOMAIN op.lines = ms
<1>1. \A m \in ms : qs[m] \in Nat \ {0}
  BY QuantitiesAssumption
<1>2. \A m \in ms : LineOK(NewLine(qs[m]))
  BY <1>1 DEF NewLine, LineOK
<1>3. DOMAIN qs = ms
  OBVIOUS
<1> QED BY <1>2, <1>3 DEF NewOperation, OperationOK

\* Booking a new operation keeps the ids without a gap and every operation well formed.
LEMMA AddedShape ==
    ASSUME NEW os, LedgerOK(os), NEW id, NEW op, OperationOK(op),
           NEW r, r = AddOperation(os, id, op)
    PROVE  LedgerOK(r)
<1>1. r = [i \in DOMAIN os \cup {id} |-> IF i = id THEN op ELSE os[i]]
  BY DEF AddOperation
<1>2. \A i \in DOMAIN r : OperationOK(r[i])
  BY <1>1 DEF LedgerOK
<1> QED BY <1>1, <1>2 DEF LedgerOK

\* An edited line has its new quantity and never more left than before or than that.
LEMMA EditedLineOK ==
    ASSUME NEW line, LineOK(line), NEW q \in Nat \ {0}
    PROVE  LET e == EditedLine(line, q)
           IN  /\ LineOK(e) /\ e.quantity = q
               /\ e.remaining <= q /\ e.remaining <= line.remaining
<1> DEFINE rest == IF line.remaining < q THEN line.remaining ELSE q
<1>1. rest \in Nat /\ rest <= q /\ rest <= line.remaining
  BY DEF LineOK
<1> HIDE DEF rest
<1>2. EditedLine(line, q) = [line EXCEPT !.quantity = q, !.remaining = rest]
  BY DEF EditedLine, rest
<1>3. EditedLine(line, q) = [quantity |-> q, remaining |-> rest,
                             before |-> line.before, after |-> line.after]
  BY <1>2 DEF LineOK
<1> QED BY <1>1, <1>3 DEF LineOK

\* An edit leaves the operation well formed, if its new lines are.
LEMMA EditedOperationOK ==
    ASSUME NEW op, OperationOK(op), NEW type \in OperationTypes, NEW at \in Nat,
           NEW source \in SourceTypes, NEW ms, NEW qs \in [ms -> Quantities]
    PROVE  LET e == EditedOperation(op, type, at, source, qs)
           IN  /\ OperationOK(e) /\ DOMAIN e.lines = ms
               /\ e.request = op.request /\ e.mini = op.mini /\ e.reversalOf = op.reversalOf
<1> DEFINE ls == [m \in DOMAIN qs |-> IF m \in DOMAIN op.lines THEN EditedLine(op.lines[m], qs[m])
                                                               ELSE NewLine(qs[m])]
           r == [type |-> type, at |-> at, source |-> source, mini |-> op.mini,
                 reversalOf |-> op.reversalOf, request |-> op.request,
                 version |-> op.version + 1, lines |-> ls]
<1>1. \A m \in ms : qs[m] \in Nat \ {0}
  BY QuantitiesAssumption
<1>2. \A m \in ms : LineOK(NewLine(qs[m]))
  BY <1>1 DEF NewLine, LineOK
<1>3. \A m \in ms : m \in DOMAIN op.lines => LineOK(EditedLine(op.lines[m], qs[m]))
  BY <1>1, EditedLineOK DEF OperationOK
<1>4. DOMAIN ls = ms /\ ls = [m \in DOMAIN ls |-> ls[m]] /\ \A m \in ms : LineOK(ls[m])
  BY <1>2, <1>3
<1> HIDE DEF ls
<1>a. EditedOperation(op, type, at, source, qs)
        = [op EXCEPT !.type = type, !.at = at, !.source = source,
                     !.version = op.version + 1, !.lines = ls]
  BY DEF EditedOperation, ls
<1>b. op = [type |-> op.type, at |-> op.at, source |-> op.source, mini |-> op.mini,
            reversalOf |-> op.reversalOf, request |-> op.request,
            version |-> op.version, lines |-> op.lines]
  BY DEF OperationOK
<1>5. EditedOperation(op, type, at, source, qs) = r
  BY <1>a, <1>b
<1>6. OperationOK(r)
  BY <1>4 DEF OperationOK
<1> QED BY <1>4, <1>5, <1>6

\* Replacing one operation of a ledger keeps the ledger well formed.
LEMMA ReplacedShape ==
    ASSUME NEW os, LedgerOK(os), NEW id \in DOMAIN os, NEW op, OperationOK(op)
    PROVE  LET r == [os EXCEPT ![id] = op]
           IN  /\ LedgerOK(r) /\ DOMAIN r = DOMAIN os /\ r[id] = op
               /\ \A i \in DOMAIN os : i # id => r[i] = os[i]
BY DEF LedgerOK

\* Taking a reversal off its original leaves natural numbers, because the request was
\* compared with what remained, and changes no quantity.
LEMMA TakenShape ==
    ASSUME NEW os, LedgerOK(os), NEW original \in DOMAIN os,
           NEW ms, NEW qs \in [ms -> Quantities], CanReverse(os[original].lines, qs)
    PROVE  LET r == TakeReversed(os, original, qs)
           IN  /\ LedgerOK(r)
               /\ DOMAIN r = DOMAIN os
               /\ \A m : Running(r, m) = Running(os, m)
               /\ \A i \in DOMAIN os :
                    /\ r[i].request = os[i].request /\ r[i].mini = os[i].mini
                    /\ r[i].reversalOf = os[i].reversalOf
                    /\ DOMAIN r[i].lines = DOMAIN os[i].lines
                    /\ \A m \in DOMAIN os[i].lines :
                        /\ r[i].lines[m].quantity = os[i].lines[m].quantity
                        /\ r[i].lines[m].remaining <= os[i].lines[m].remaining
<1> DEFINE ls == [m \in DOMAIN os[original].lines |->
                    IF m \in DOMAIN qs
                    THEN [os[original].lines[m] EXCEPT !.remaining = @ - qs[m]]
                    ELSE os[original].lines[m]]
           op == [os[original] EXCEPT !.lines = ls]
           r == TakeReversed(os, original, qs)
<1>1. OperationOK(os[original])
  BY DEF LedgerOK
<1>2. ASSUME NEW m \in DOMAIN os[original].lines
      PROVE  /\ LineOK(ls[m])
             /\ ls[m].quantity = os[original].lines[m].quantity
             /\ ls[m].remaining <= os[original].lines[m].remaining
  <2> DEFINE line == os[original].lines[m]
  <2>1. LineOK(line)
    BY <1>1 DEF OperationOK
  <2>2. CASE m \in ms
    <3>1. qs[m] \in Nat \ {0} /\ qs[m] <= line.remaining
      BY <2>2, QuantitiesAssumption DEF CanReverse
    <3>2. ls[m] = [quantity |-> line.quantity, remaining |-> line.remaining - qs[m],
                   before |-> line.before, after |-> line.after]
      BY <2>1, <2>2 DEF LineOK
    <3> HIDE DEF ls, line
    <3> QED BY <2>1, <3>1, <3>2 DEF LineOK, line
  <2>3. CASE m \notin ms
    <3>1. ls[m] = line
      BY <2>3
    <3> QED BY <2>1, <3>1 DEF LineOK
  <2> QED BY <2>2, <2>3
<1>3. ls = [m \in DOMAIN ls |-> ls[m]] /\ DOMAIN ls = DOMAIN os[original].lines
  OBVIOUS
<1>4. r = [os EXCEPT ![original].lines = ls]
  BY DEF TakeReversed
<1>5. r = [os EXCEPT ![original] = op]
  BY <1>4
<1> HIDE DEF ls
<1>6. op = [type |-> os[original].type, at |-> os[original].at, source |-> os[original].source,
            mini |-> os[original].mini, reversalOf |-> os[original].reversalOf,
            request |-> os[original].request, version |-> os[original].version, lines |-> ls]
  BY <1>1 DEF OperationOK
<1>7. OperationOK(op)
  BY <1>1, <1>2, <1>3, <1>6 DEF OperationOK
<1>8. op.type = os[original].type /\ op.at = os[original].at /\ op.lines = ls
      /\ op.request = os[original].request /\ op.mini = os[original].mini
      /\ op.reversalOf = os[original].reversalOf
  BY <1>6
<1> HIDE DEF op, r
<1>9. /\ LedgerOK(r) /\ DOMAIN r = DOMAIN os /\ r[original] = op
      /\ \A i \in DOMAIN os : i # original => r[i] = os[i]
  BY <1>5, <1>7, ReplacedShape
<1>10. \A i \in DOMAIN os :
         /\ r[i].type = os[i].type /\ r[i].at = os[i].at
         /\ r[i].request = os[i].request /\ r[i].mini = os[i].mini
         /\ r[i].reversalOf = os[i].reversalOf
         /\ DOMAIN r[i].lines = DOMAIN os[i].lines
         /\ \A m \in DOMAIN os[i].lines :
             /\ r[i].lines[m].quantity = os[i].lines[m].quantity
             /\ r[i].lines[m].remaining <= os[i].lines[m].remaining
  <2>1. \A i \in DOMAIN os : \A m \in DOMAIN os[i].lines :
          os[i].lines[m].remaining \in Nat
    BY DEF LedgerOK, OperationOK, LineOK
  <2> QED BY <1>2, <1>3, <1>8, <1>9, <2>1
<1>11. ASSUME NEW m PROVE Running(r, m) = Running(os, m)
  <2>1. {j \in DOMAIN r : m \in DOMAIN r[j].lines} = {j \in DOMAIN os : m \in DOMAIN os[j].lines}
    BY <1>9, <1>10
  <2>2. \A j \in DOMAIN os : m \in DOMAIN os[j].lines => Entry(r, j, m) = Entry(os, j, m)
    BY <1>10 DEF Entry, Signed
  <2>3. Entries(r, m) = Entries(os, m)
    BY <2>1, <2>2 DEF Entries
  <2> QED BY <2>3 DEF Running
<1> QED BY <1>9, <1>10, <1>11 DEF r

-----------------------------------------------------------------------------
(* The inductive invariant *)

IInv == TypeOK /\ BalanceIsRunning /\ RemainingWithinQuantity

Bounded(os) ==
    \A i \in DOMAIN os : \A m \in DOMAIN os[i].lines :
        os[i].lines[m].remaining <= os[i].lines[m].quantity

LinesInStock(os) == \A i \in DOMAIN os : DOMAIN os[i].lines \subseteq stock

\* What a request has to show about the ledger it computed before replaying it.
Prepared(os, ms) ==
    /\ LedgerOK(os) /\ Bounded(os) /\ LinesInStock(os)
    /\ \A m \in stock \ ms : Running(os, m) = Running(ops, m)
    /\ \A i \in DOMAIN ops :
        /\ i \in DOMAIN os
        /\ os[i].request = ops[i].request
        /\ os[i].reversalOf = ops[i].reversalOf
        /\ os[i].mini = ops[i].mini

\* The tail common to the three inventory requests: replay the affected materials,
\* set their balances, append to the log.  The balances of the others stay right
\* because their entries did not change.
LEMMA Booked ==
    ASSUME IInv, NEW os, NEW ms \in SUBSET stock, NEW id, NEW action,
           Prepared(os, ms), DOMAIN os = DOMAIN ops \cup {id},
           id = NextId \/ id \in DOMAIN ops,
           LogEvent(id, action), ops' = Replayed(os, ms), SetBalances(os, ms), stock' = stock,
           events' \subseteq Nat \X OperationTypes
    PROVE  IInv' /\ KeepsHistory
<1>1. SameButReplayed(ops', os)
  BY ReplayedShape DEF Prepared
<1>2. \A m : Running(ops', m) = Running(os, m)
  BY <1>1, ReplayedRunning
<1>3. BalanceIsRunning'
  <2>1. SUFFICES ASSUME NEW m \in stock PROVE balance'[m] = Running(ops', m)
    BY <1>2 DEF BalanceIsRunning, Running, Entries, Entry, Signed
  <2>2. CASE m \in ms
    BY <1>2, <2>2 DEF SetBalances
  <2>3. CASE m \notin ms
    BY <1>2, <2>3 DEF SetBalances, Prepared, IInv, BalanceIsRunning
  <2> QED BY <2>2, <2>3
<1>4. RemainingWithinQuantity'
  BY <1>1 DEF RemainingWithinQuantity, SameButReplayed, Prepared, Bounded
<1>5. TypeOK'
  <2>1. DOMAIN ops = 1..Cardinality(DOMAIN ops) /\ Cardinality(DOMAIN ops) \in Nat
    BY FS_CardinalityType DEF IInv, TypeOK
  <2>2. DOMAIN ops' = DOMAIN ops \cup {id}
    BY <1>1 DEF SameButReplayed
  <2>3. IsFiniteSet(DOMAIN ops') /\ DOMAIN ops' = 1..Cardinality(DOMAIN ops')
    <3>1. CASE id = NextId
      <4>1. DOMAIN ops' = 1..(Cardinality(DOMAIN ops) + 1)
        BY <2>1, <2>2, <3>1 DEF NextId
      <4> QED BY <2>1, <4>1, FS_Interval
    <3>2. CASE id \in DOMAIN ops
      <4>1. DOMAIN ops' = DOMAIN ops
        BY <2>2, <3>2
      <4> QED BY <4>1 DEF IInv, TypeOK
    <3> QED BY <3>1, <3>2
  <2>4. /\ ops' = [i \in DOMAIN ops' |-> ops'[i]]
        /\ \A i \in DOMAIN ops' : OperationOK(ops'[i]) /\ DOMAIN ops'[i].lines \subseteq stock
    BY <1>1 DEF SameButReplayed, Prepared, LinesInStock
  <2>5. balance' = [m \in stock' |-> balance'[m]] /\ balanceVersion' \in [stock' -> Nat]
    BY DEF SetBalances, IInv, TypeOK
  <2>6. DOMAIN log' = DOMAIN ops'
    BY <2>2 DEF LogEvent, IInv, TypeOK
  <2> QED BY <2>3, <2>4, <2>5, <2>6 DEF TypeOK, OperationOK, LineOK, IInv
<1>6. KeepsHistory
  BY <1>1 DEF KeepsHistory, SameButReplayed, Prepared
<1> QED BY <1>3, <1>4, <1>5, <1>6 DEF IInv

\* What IInv says of the ledger alone.
LEMMA IInvLedger ==
    ASSUME IInv
    PROVE  LedgerOK(ops) /\ Bounded(ops) /\ LinesInStock(ops)
BY DEF IInv, TypeOK, RemainingWithinQuantity, LedgerOK, Bounded, LinesInStock

\* The id a new operation gets is free and continues the ids without a gap.
LEMMA NextIdIsNew ==
    ASSUME IInv
    PROVE  NextId \in Nat \ {0} /\ NextId \notin DOMAIN ops /\ DOMAIN ops \subseteq Nat \ {0}
<1>1. DOMAIN ops = 1..Cardinality(DOMAIN ops) /\ Cardinality(DOMAIN ops) \in Nat
  BY FS_CardinalityType DEF IInv, TypeOK
<1> QED BY <1>1 DEF NextId

-----------------------------------------------------------------------------
(* Every request preserves the invariant. *)

\* The lines of a request name some of the materials that exist.
LEMMA RequestLinesShape ==
    ASSUME NEW qs \in RequestLines
    PROVE  DOMAIN qs \in SUBSET stock /\ qs \in [DOMAIN qs -> Quantities]
BY DEF RequestLines

\* The total of no lines is zero.
LEMMA TotalOfNothing == Total({}) = 0
<1> DEFINE iter == CHOOSE f : f = [s \in SUBSET {} |->
                     IF s = {} THEN 0
                     ELSE (CHOOSE x \in s : TRUE).delta + f[s \ {CHOOSE x \in s : TRUE}]]
<1>1. Total({}) = iter[{}]
  BY DEF Total, MapThenSumSet, MapThenFoldSet
<1>2. \E f : f = [s \in SUBSET {} |->
                     IF s = {} THEN 0
                     ELSE (CHOOSE x \in s : TRUE).delta + f[s \ {CHOOSE x \in s : TRUE}]]
  OBVIOUS
<1> QED BY <1>1, <1>2

\* A material that no operation moves has the total zero.
LEMMA UnmovedRunning ==
    ASSUME NEW os, NEW m, \A i \in DOMAIN os : m \notin DOMAIN os[i].lines
    PROVE  Running(os, m) = 0
<1>1. Entries(os, m) = {}
  BY DEF Entries
<1> QED BY <1>1, TotalOfNothing DEF Running

\* A new stock material keeps IInv: no line refers to it yet, and its balance is zero.
LEMMA CreateMaterialKeepsIInv ==
    ASSUME IInv, NEW m \in Materials, create_stock_material(m)
    PROVE  IInv' /\ KeepsHistory
<1>1. /\ ops' = ops /\ log' = log /\ events' = events
      /\ m \notin stock /\ stock' = stock \cup {m} /\ stock' \subseteq Materials
  BY DEF create_stock_material, IInv, TypeOK
<1>2. /\ balance' = [n \in stock' |-> IF n = m THEN 0 ELSE balance[n]]
      /\ balanceVersion' = [n \in stock' |-> IF n = m THEN 1 ELSE balanceVersion[n]]
  BY DEF create_stock_material
<1>3. BalanceIsRunning'
  <2>1. \A n : Running(ops', n) = Running(ops, n)
    BY <1>1
  <2>2. Running(ops, m) = 0
    BY <1>1, UnmovedRunning DEF IInv, TypeOK
  <2> QED BY <1>1, <1>2, <2>1, <2>2 DEF IInv, BalanceIsRunning
<1>4. TypeOK'
  BY <1>1, <1>2 DEF IInv, TypeOK, OperationOK, LineOK
<1>5. RemainingWithinQuantity'
  BY <1>1 DEF IInv, RemainingWithinQuantity
<1>6. KeepsHistory
  BY <1>1 DEF KeepsHistory
<1> QED BY <1>3, <1>4, <1>5, <1>6 DEF IInv

\* Deleting a stock material keeps IInv, because only a material without lines is deleted.
LEMMA DeleteMaterialKeepsIInv ==
    ASSUME IInv, NEW m \in Materials, delete_stock_material(m)
    PROVE  IInv' /\ KeepsHistory
<1>1. ops' = ops /\ log' = log /\ events' = events /\ stock' = stock \ {m} /\ stock' \subseteq stock
  BY DEF delete_stock_material
<1>2. /\ balance' = [n \in stock' |-> balance[n]]
      /\ balanceVersion' = [n \in stock' |-> balanceVersion[n]]
  BY DEF delete_stock_material
<1>3. BalanceIsRunning'
  <2>1. \A n : Running(ops', n) = Running(ops, n)
    BY <1>1
  <2> QED BY <1>1, <1>2, <2>1 DEF IInv, BalanceIsRunning
<1>4. \A i \in DOMAIN ops : DOMAIN ops[i].lines \subseteq stock'
  BY <1>1 DEF delete_stock_material, IInv, TypeOK
<1>5. TypeOK'
  BY <1>1, <1>2, <1>4 DEF IInv, TypeOK, OperationOK, LineOK
<1>6. RemainingWithinQuantity'
  BY <1>1 DEF IInv, RemainingWithinQuantity
<1>7. KeepsHistory
  BY <1>1 DEF KeepsHistory
<1> QED BY <1>3, <1>5, <1>6, <1>7 DEF IInv

\* create_operation keeps IInv.
LEMMA CreateKeepsIInv ==
    ASSUME IInv, NEW qs \in RequestLines, NEW request \in RequestIds,
           NEW type \in OperationTypes, NEW at \in Times, NEW source \in Sources,
           NEW mini \in BOOLEAN, create_operation(request, type, at, source, mini, qs)
    PROVE  IInv' /\ KeepsHistory
<1> DEFINE op == NewOperation(type, at, source, mini, NoOperation, request, qs)
           os == AddOperation(ops, NextId, op)
<1>1. /\ events' = events \cup {<<NextId, type>>} /\ LogEvent(NextId, "CREATED")
      /\ ops' = Replayed(os, DOMAIN qs) /\ SetBalances(os, DOMAIN qs) /\ stock' = stock
  BY DEF create_operation
<1>2. DOMAIN qs \in SUBSET stock /\ qs \in [DOMAIN qs -> Quantities]
  BY RequestLinesShape
<1>3. OperationOK(op) /\ DOMAIN op.lines = DOMAIN qs
  BY <1>2, NewOperationOK, TimesAssumption, SourcesAssumption DEF NoOperation
<1>4. \A m \in DOMAIN op.lines : op.lines[m].remaining <= op.lines[m].quantity
  BY <1>2, QuantitiesAssumption DEF NewOperation, NewLine
<1>5. LedgerOK(ops) /\ Bounded(ops) /\ LinesInStock(ops)
  BY IInvLedger
<1>6. NextId \in Nat \ {0} /\ NextId \notin DOMAIN ops
  BY NextIdIsNew
<1>a. os = AddOperation(ops, NextId, op)
  OBVIOUS
<1> HIDE DEF op, os
<1>b. LedgerOK(os)
  BY <1>3, <1>5, <1>a, AddedShape
<1>7. /\ DOMAIN os = DOMAIN ops \cup {NextId} /\ os[NextId] = op
      /\ \A i \in DOMAIN ops : i # NextId => os[i] = ops[i]
  BY <1>a DEF AddOperation
<1>8. Bounded(os) /\ LinesInStock(os)
  BY <1>2, <1>3, <1>4, <1>5, <1>7 DEF Bounded, LinesInStock
<1>9. \A m \in stock \ DOMAIN qs : Running(os, m) = Running(ops, m)
  BY <1>3, <1>6, <1>7, UntouchedRunning
<1>10. events' \subseteq Nat \X OperationTypes
  BY <1>1, <1>6 DEF IInv, TypeOK
<1>11. Prepared(os, DOMAIN qs)
  BY <1>b, <1>6, <1>7, <1>8, <1>9 DEF Prepared
<1> QED BY <1>1, <1>2, <1>7, <1>10, <1>11, Booked

\* reverse_operation keeps IInv: what it takes off the original was left there.
LEMMA ReverseKeepsIInv ==
    ASSUME IInv, NEW qs \in RequestLines, NEW request \in RequestIds,
           NEW original \in DOMAIN ops, NEW now \in Times,
           reverse_operation(original, request, now, qs)
    PROVE  IInv' /\ KeepsHistory
<1> DEFINE type == OtherType(ops[original].type)
           at == ReversalTime(now, ops[original].at)
           op == NewOperation(type, at, REVERSAL, FALSE, original, request, qs)
           taken == TakeReversed(ops, original, qs)
           os == AddOperation(taken, NextId, op)
<1>1. /\ LogEvent(NextId, "REVERSED") /\ CanReverse(ops[original].lines, qs)
      /\ ops' = Replayed(os, DOMAIN qs) /\ SetBalances(os, DOMAIN qs)
      /\ stock' = stock /\ events' = events
  BY DEF reverse_operation
<1>2. DOMAIN qs \in SUBSET stock /\ qs \in [DOMAIN qs -> Quantities]
  BY RequestLinesShape
<1>3. LedgerOK(ops) /\ Bounded(ops) /\ LinesInStock(ops)
  BY IInvLedger
<1>4. NextId \in Nat \ {0} /\ NextId \notin DOMAIN ops /\ DOMAIN ops \subseteq Nat \ {0}
  BY NextIdIsNew
<1>5. type \in OperationTypes /\ at \in Nat
  <2>1. ops[original].at \in Nat /\ now \in Nat
    BY <1>3, TimesAssumption DEF LedgerOK, OperationOK
  <2>2. at \in Nat
    BY <2>1 DEF ReversalTime
  <2> QED BY <2>2 DEF OtherType, OperationTypes
<1> HIDE DEF type, at
<1>6. OperationOK(op) /\ DOMAIN op.lines = DOMAIN qs
  <2>1. REVERSAL \in SourceTypes /\ original \in Nat
    BY <1>4 DEF SourceTypes
  <2> DEFINE source == REVERSAL
             mini == FALSE
  <2>2. source \in SourceTypes /\ mini \in BOOLEAN
    BY <2>1
  <2>3. op = NewOperation(type, at, source, mini, original, request, qs)
    OBVIOUS
  <2> HIDE DEF op, source, mini
  <2> QED BY <1>2, <1>5, <2>1, <2>2, <2>3, NewOperationOK
<1>7. \A m \in DOMAIN op.lines : op.lines[m].remaining <= op.lines[m].quantity
  BY <1>2, QuantitiesAssumption DEF NewOperation, NewLine
<1>a. taken = TakeReversed(ops, original, qs) /\ os = AddOperation(taken, NextId, op)
  OBVIOUS
<1> HIDE DEF op, taken, os
<1>8. /\ LedgerOK(taken) /\ DOMAIN taken = DOMAIN ops
      /\ \A m : Running(taken, m) = Running(ops, m)
      /\ \A i \in DOMAIN ops :
           /\ taken[i].request = ops[i].request /\ taken[i].mini = ops[i].mini
           /\ taken[i].reversalOf = ops[i].reversalOf
           /\ DOMAIN taken[i].lines = DOMAIN ops[i].lines
           /\ \A m \in DOMAIN ops[i].lines :
               /\ taken[i].lines[m].quantity = ops[i].lines[m].quantity
               /\ taken[i].lines[m].remaining <= ops[i].lines[m].remaining
  BY <1>1, <1>2, <1>3, <1>a, TakenShape
<1>9. Bounded(taken) /\ LinesInStock(taken)
  <2>1. LinesInStock(taken)
    BY <1>3, <1>8 DEF LinesInStock
  <2>2. ASSUME NEW i \in DOMAIN ops, NEW m \in DOMAIN ops[i].lines
        PROVE  taken[i].lines[m].remaining <= taken[i].lines[m].quantity
    <3>1. LineOK(ops[i].lines[m]) /\ LineOK(taken[i].lines[m])
      BY <1>3, <1>8 DEF LedgerOK, OperationOK
    <3>2. ops[i].lines[m].remaining <= ops[i].lines[m].quantity
      BY <1>3 DEF Bounded
    <3> QED BY <1>8, <3>1, <3>2 DEF LineOK
  <2> QED BY <1>8, <2>1, <2>2 DEF Bounded
<1>b. LedgerOK(os)
  BY <1>6, <1>8, <1>a, AddedShape
<1>10. /\ DOMAIN os = DOMAIN ops \cup {NextId} /\ os[NextId] = op
       /\ \A i \in DOMAIN ops : i # NextId => os[i] = taken[i]
  BY <1>8, <1>a DEF AddOperation
<1>11. Bounded(os) /\ LinesInStock(os)
  BY <1>2, <1>6, <1>7, <1>8, <1>9, <1>10 DEF Bounded, LinesInStock
<1>12. \A m \in stock \ DOMAIN qs : Running(os, m) = Running(ops, m)
  <2>1. ASSUME NEW m \in stock \ DOMAIN qs PROVE Running(os, m) = Running(taken, m)
    <3>1. /\ DOMAIN os = DOMAIN taken \cup {NextId}
          /\ \A i \in DOMAIN taken : i # NextId => os[i] = taken[i]
          /\ m \notin DOMAIN os[NextId].lines
          /\ NextId \notin DOMAIN taken
      BY <1>4, <1>6, <1>8, <1>10
    <3> QED BY <3>1, UntouchedRunning
  <2> QED BY <1>8, <2>1
<1>13. events' \subseteq Nat \X OperationTypes
  BY <1>1 DEF IInv, TypeOK
<1>14. Prepared(os, DOMAIN qs)
  BY <1>b, <1>4, <1>8, <1>10, <1>11, <1>12 DEF Prepared
<1> QED BY <1>1, <1>2, <1>10, <1>13, <1>14, Booked

\* update_operation keeps IInv: old and new materials of the operation are replayed.
LEMMA UpdateKeepsIInv ==
    ASSUME IInv, NEW id \in DOMAIN ops, NEW qs \in RequestLines, NEW version,
           NEW type \in OperationTypes, NEW at \in Times, NEW source \in Sources,
           update_operation(id, version, type, at, source, qs)
    PROVE  IInv' /\ KeepsHistory
<1> DEFINE op == EditedOperation(ops[id], type, at, source, qs)
           os == [ops EXCEPT ![id] = op]
           affected == DOMAIN ops[id].lines \cup DOMAIN qs
<1>1. /\ LogEvent(id, "UPDATED")
      /\ ops' = Replayed(os, affected) /\ SetBalances(os, affected)
      /\ stock' = stock /\ events' = events
  BY DEF update_operation
<1>2. DOMAIN qs \in SUBSET stock /\ qs \in [DOMAIN qs -> Quantities]
  BY RequestLinesShape
<1>3. LedgerOK(ops) /\ Bounded(ops) /\ LinesInStock(ops)
  BY IInvLedger
<1>4. OperationOK(ops[id])
  BY <1>3 DEF LedgerOK
<1>5. /\ OperationOK(op) /\ DOMAIN op.lines = DOMAIN qs
      /\ op.request = ops[id].request /\ op.mini = ops[id].mini
      /\ op.reversalOf = ops[id].reversalOf
  BY <1>2, <1>4, EditedOperationOK, TimesAssumption, SourcesAssumption
<1>6. \A m \in DOMAIN op.lines : op.lines[m].remaining <= op.lines[m].quantity
  <2> SUFFICES ASSUME NEW m \in DOMAIN qs
               PROVE  op.lines[m].remaining <= op.lines[m].quantity
    BY <1>5
  <2>1. qs[m] \in Nat \ {0}
    BY <1>2, QuantitiesAssumption
  <2> DEFINE ls == [n \in DOMAIN qs |-> IF n \in DOMAIN ops[id].lines
                                        THEN EditedLine(ops[id].lines[n], qs[n])
                                        ELSE NewLine(qs[n])]
  <2>2. ls[m].remaining <= ls[m].quantity
    <3>1. CASE m \in DOMAIN ops[id].lines
      <4>1. LineOK(ops[id].lines[m])
        BY <1>4, <3>1 DEF OperationOK
      <4> QED BY <2>1, <3>1, <4>1, EditedLineOK
    <3>2. CASE m \notin DOMAIN ops[id].lines
      BY <2>1, <3>2 DEF NewLine
    <3> QED BY <3>1, <3>2
  <2> HIDE DEF ls
  <2>3. op = [ops[id] EXCEPT !.type = type, !.at = at, !.source = source,
                             !.version = ops[id].version + 1, !.lines = ls]
    BY DEF EditedOperation, ls
  <2>4. op.lines = ls
    BY <1>4, <2>3 DEF OperationOK
  <2> QED BY <2>2, <2>4
<1> HIDE DEF op, os
<1>7. /\ LedgerOK(os) /\ DOMAIN os = DOMAIN ops /\ os[id] = op
      /\ \A i \in DOMAIN ops : i # id => os[i] = ops[i]
  BY <1>3, <1>5, ReplacedShape DEF os
<1>8. Bounded(os) /\ LinesInStock(os)
  BY <1>2, <1>3, <1>5, <1>6, <1>7 DEF Bounded, LinesInStock
<1>9. affected \in SUBSET stock
  BY <1>2, <1>3 DEF LinesInStock
<1>10. \A m \in stock \ affected : Running(os, m) = Running(ops, m)
  <2>1. ASSUME NEW m \in stock \ affected PROVE Running(os, m) = Running(ops, m)
    <3>1. /\ DOMAIN os = DOMAIN ops \cup {id}
          /\ \A i \in DOMAIN ops : i # id => os[i] = ops[i]
          /\ m \notin DOMAIN os[id].lines
          /\ id \in DOMAIN ops => m \notin DOMAIN ops[id].lines
      BY <1>5, <1>7
    <3> HIDE DEF affected
    <3> QED BY <3>1, UntouchedRunning
  <2> QED BY <2>1
<1>11. events' \subseteq Nat \X OperationTypes
  BY <1>1 DEF IInv, TypeOK
<1>12. Prepared(os, affected)
  BY <1>5, <1>7, <1>8, <1>10 DEF Prepared
<1>13. DOMAIN os = DOMAIN ops \cup {id}
  BY <1>7
<1> HIDE DEF affected
<1> QED BY <1>1, <1>9, <1>11, <1>12, <1>13, Booked

\* Every step keeps IInv and the history.
LEMMA NextKeepsIInv == IInv /\ [Next]_vars => IInv' /\ [KeepsHistory]_vars
<1> SUFFICES ASSUME IInv, [Next]_vars PROVE IInv' /\ [KeepsHistory]_vars
  OBVIOUS
<1>1. CASE UNCHANGED vars
  BY <1>1 DEF vars, IInv, TypeOK, OperationOK, LineOK, BalanceIsRunning, Running, Entries,
              Entry, Signed, RemainingWithinQuantity
<1>2. ASSUME NEW m \in Materials, create_stock_material(m) PROVE IInv' /\ KeepsHistory
  BY <1>2, CreateMaterialKeepsIInv
<1>3. ASSUME NEW m \in Materials, delete_stock_material(m) PROVE IInv' /\ KeepsHistory
  BY <1>3, DeleteMaterialKeepsIInv
<1>4. ASSUME NEW qs \in RequestLines, NEW request \in RequestIds, NEW type \in OperationTypes,
             NEW at \in Times, NEW source \in Sources, NEW mini \in BOOLEAN,
             create_operation(request, type, at, source, mini, qs)
      PROVE  IInv' /\ KeepsHistory
  BY <1>4, CreateKeepsIInv
<1>5. ASSUME NEW qs \in RequestLines, NEW request \in RequestIds, NEW original \in DOMAIN ops,
             NEW now \in Times, reverse_operation(original, request, now, qs)
      PROVE  IInv' /\ KeepsHistory
  BY <1>5, ReverseKeepsIInv
<1>6. ASSUME NEW id \in DOMAIN ops, NEW qs \in RequestLines, NEW version \in 1..MaxEdits,
             NEW type \in OperationTypes, NEW at \in Times, NEW source \in Sources,
             update_operation(id, version, type, at, source, qs)
      PROVE  IInv' /\ KeepsHistory
  BY <1>6, UpdateKeepsIInv
<1> QED BY <1>1, <1>2, <1>3, <1>4, <1>5, <1>6 DEF Next

\* IInv holds of the empty ledger.
LEMMA InitIInv == Init => IInv
<1> SUFFICES ASSUME Init PROVE IInv
  OBVIOUS
<1>1. ops = << >> /\ DOMAIN ops = {} /\ Cardinality({}) = 0 /\ IsFiniteSet({})
  BY FS_EmptySet DEF Init
<1>2. \A m : Running(ops, m) = 0
  BY <1>1, UnmovedRunning
<1>3. TypeOK
  BY <1>1 DEF Init, TypeOK
<1>4. BalanceIsRunning
  BY <1>2 DEF Init, BalanceIsRunning
<1> QED BY <1>1, <1>3, <1>4 DEF IInv, RemainingWithinQuantity

-----------------------------------------------------------------------------
(* The theorems *)

\* The tables keep their shape: in particular no line outlives its material, although
\* nothing but delete_stock_material's query for lines protects it.
THEOREM TypeCorrect == Spec => []TypeOK
<1>1. IInv => TypeOK BY DEF IInv
<1> QED BY InitIInv, NextKeepsIInv, <1>1, PTL DEF Spec

\* The balance of every material is the total of its ledger lines, after any number of
\* creations, edits and reversals by any number of users.
THEOREM BalanceCorrect == Spec => []BalanceIsRunning
<1>1. IInv => BalanceIsRunning BY DEF IInv
<1> QED BY InitIInv, NextKeepsIInv, <1>1, PTL DEF Spec

\* No line ever has more left to reverse than its quantity.
THEOREM RemainingBounded == Spec => []RemainingWithinQuantity
<1>1. IInv => RemainingWithinQuantity BY DEF IInv
<1> QED BY InitIInv, NextKeepsIInv, <1>1, PTL DEF Spec

\* No request removes an operation, moves a client_request_id to another one, or
\* detaches a reversal from its original.
THEOREM HistoryKept == Spec => HistoryIsKept
BY InitIInv, NextKeepsIInv, PTL DEF Spec, HistoryIsKept

-----------------------------------------------------------------------------
(* Mirrors.                                                                 *)

\* Two operations that differ in their lines, request or mark at most.
SameHead(a, b) ==
    /\ a.type = b.type /\ a.at = b.at /\ a.source = b.source
    /\ a.reversalOf = b.reversalOf /\ a.version = b.version

\* The strengthening of the property, beside IInv.
MInv ==
    /\ \A i \in DOMAIN ops : ops[i].version \in Nat \ {0}
    /\ \A i, t : <<i, t>> \in events => i \in DOMAIN ops
    /\ ReversalMirrorsOriginal

\* New lines leave the head of an operation.
LEMMA HeadStays ==
    ASSUME NEW op, OperationOK(op), NEW ls
    PROVE  SameHead([op EXCEPT !.lines = ls], op)
<1>1. [op EXCEPT !.lines = ls] =
        [type |-> op.type, at |-> op.at, source |-> op.source, mini |-> op.mini,
         reversalOf |-> op.reversalOf, request |-> op.request, version |-> op.version,
         lines |-> ls]
  BY DEF OperationOK
<1> QED BY <1>1 DEF SameHead

\* Replaying leaves the heads of all operations.
LEMMA ReplayedHeads ==
    ASSUME NEW os, LedgerOK(os), NEW ms, NEW i \in DOMAIN os
    PROVE  SameHead(Replayed(os, ms)[i], os[i])
<1> DEFINE ls == [m \in DOMAIN os[i].lines |->
                    IF m \in ms THEN ReplayedLine(os, i, m) ELSE os[i].lines[m]]
<1>1. Replayed(os, ms)[i] = [os[i] EXCEPT !.lines = ls]
  BY DEF Replayed
<1>2. OperationOK(os[i])
  BY DEF LedgerOK
<1> HIDE DEF ls
<1> QED BY <1>1, <1>2, HeadStays

\* So does taking a reversal off its original.
LEMMA TakenHeads ==
    ASSUME NEW os, LedgerOK(os), NEW original \in DOMAIN os, NEW qs, NEW i \in DOMAIN os
    PROVE  /\ SameHead(TakeReversed(os, original, qs)[i], os[i])
           /\ DOMAIN TakeReversed(os, original, qs) = DOMAIN os
<1> DEFINE ls == [m \in DOMAIN os[original].lines |->
                    IF m \in DOMAIN qs
                    THEN [os[original].lines[m] EXCEPT !.remaining = @ - qs[m]]
                    ELSE os[original].lines[m]]
<1>1. TakeReversed(os, original, qs) = [os EXCEPT ![original].lines = ls]
  BY DEF TakeReversed
<1>2. OperationOK(os[i]) /\ OperationOK(os[original])
  BY DEF LedgerOK
<1> HIDE DEF ls
<1>3. CASE i = original
  BY <1>1, <1>2, <1>3, HeadStays DEF LedgerOK
<1>4. CASE i # original
  BY <1>1, <1>4 DEF SameHead, LedgerOK
<1> QED BY <1>1, <1>3, <1>4 DEF LedgerOK

\* An edit counts on and keeps what the operation reverses.
LEMMA EditedHead ==
    ASSUME NEW op, OperationOK(op), NEW type, NEW at, NEW source, NEW qs
    PROVE  LET e == EditedOperation(op, type, at, source, qs)
           IN  e.version = op.version + 1 /\ e.reversalOf = op.reversalOf
<1> DEFINE ls == [m \in DOMAIN qs |-> IF m \in DOMAIN op.lines THEN EditedLine(op.lines[m], qs[m])
                                                               ELSE NewLine(qs[m])]
<1> HIDE DEF ls
<1>1. EditedOperation(op, type, at, source, qs)
        = [op EXCEPT !.type = type, !.at = at, !.source = source,
                     !.version = op.version + 1, !.lines = ls]
  BY DEF EditedOperation, ls
<1>2. op = [type |-> op.type, at |-> op.at, source |-> op.source, mini |-> op.mini,
            reversalOf |-> op.reversalOf, request |-> op.request,
            version |-> op.version, lines |-> op.lines]
  BY DEF OperationOK
<1>3. EditedOperation(op, type, at, source, qs) =
        [type |-> type, at |-> at, source |-> source, mini |-> op.mini,
         reversalOf |-> op.reversalOf, request |-> op.request, version |-> op.version + 1,
         lines |-> ls]
  BY <1>1, <1>2
<1> QED BY <1>3

-----------------------------------------------------------------------------
\* What a new operation has to show: it is a movement of its own, or it mirrors an
\* operation that exists and no event names it.
NewMirrors(j) ==
    LET i == ops'[j].reversalOf
    IN  /\ i \in DOMAIN ops
        /\ ops'[j].type = OtherType(ops'[i].type)
        /\ ops'[j].source = REVERSAL
        /\ ops'[j].at > ops'[i].at
        /\ events' = events

\* Old operations keep their heads or count on; a new one mirrors or reverses nothing.
LEMMA MirrorsStay ==
    ASSUME IInv, MInv, DOMAIN ops \subseteq DOMAIN ops',
           \A i \in DOMAIN ops :
               \/ SameHead(ops'[i], ops[i])
               \/ ops'[i].version = ops[i].version + 1 /\ ops'[i].reversalOf = ops[i].reversalOf,
           \A j \in DOMAIN ops' \ DOMAIN ops :
               /\ j = NextId /\ ops'[j].version = 1
               /\ ops'[j].reversalOf = NoOperation \/ NewMirrors(j),
           \A i, t : <<i, t>> \in events' =>
               \/ <<i, t>> \in events
               \/ i \in DOMAIN ops' \ DOMAIN ops /\ ops'[i].reversalOf = NoOperation
    PROVE  MInv'
<1>1. \A i \in DOMAIN ops' : ops'[i].version \in Nat \ {0}
  BY DEF MInv, SameHead
<1>2. \A i, t : <<i, t>> \in events' => i \in DOMAIN ops'
  BY DEF MInv
<1>3. ASSUME NEW j \in DOMAIN ops', ops'[j].reversalOf # NoOperation
      PROVE  LET i == ops'[j].reversalOf
             IN  /\ i \in DOMAIN ops' /\ i < j
                 /\ \A t \in OperationTypes : <<j, t>> \notin events'
                 /\ ops'[i].version = 1 /\ ops'[j].version = 1 =>
                      /\ ops'[j].type = OtherType(ops'[i].type)
                      /\ ops'[j].source = REVERSAL
                      /\ ops'[j].at > ops'[i].at
  <2> DEFINE i == ops'[j].reversalOf
  <2>1. CASE j \in DOMAIN ops
    <3>1. i = ops[j].reversalOf
      BY <2>1 DEF SameHead
    <3>2. /\ i \in DOMAIN ops /\ i < j
          /\ \A t \in OperationTypes : <<j, t>> \notin events
          /\ ops[i].version = 1 /\ ops[j].version = 1 =>
               /\ ops[j].type = OtherType(ops[i].type)
               /\ ops[j].source = REVERSAL
               /\ ops[j].at > ops[i].at
      BY <1>3, <2>1, <3>1 DEF MInv, ReversalMirrorsOriginal
    <3>3. \A t \in OperationTypes : <<j, t>> \notin events'
      BY <2>1, <3>2
    <3>4. /\ ops'[i].version = 1 => SameHead(ops'[i], ops[i])
          /\ ops'[j].version = 1 => SameHead(ops'[j], ops[j])
      BY <2>1, <3>2 DEF MInv
    <3>5. /\ ops'[i].version = 1 /\ ops'[j].version = 1 =>
               /\ ops'[j].type = OtherType(ops'[i].type)
               /\ ops'[j].source = REVERSAL
               /\ ops'[j].at > ops'[i].at
      BY <3>2, <3>4 DEF SameHead
    <3> QED BY <3>2, <3>3, <3>5
  <2>2. CASE j \notin DOMAIN ops
    <3>1. NewMirrors(j) /\ j = NextId
      BY <1>3, <2>2
    <3>2. i < j
      <4>1. i \in 1..Cardinality(DOMAIN ops) /\ Cardinality(DOMAIN ops) \in Nat
        BY <3>1, FS_CardinalityType DEF NewMirrors, IInv, TypeOK
      <4> QED BY <3>1, <4>1 DEF NextId
    <3>3. \A t \in OperationTypes : <<j, t>> \notin events'
      BY <2>2, <3>1 DEF NewMirrors, MInv
    <3> QED BY <3>1, <3>2, <3>3 DEF NewMirrors
  <2> QED BY <2>1, <2>2
<1>4. ReversalMirrorsOriginal'
  BY <1>3 DEF ReversalMirrorsOriginal
<1> QED BY <1>1, <1>2, <1>4 DEF MInv

-----------------------------------------------------------------------------
(* Every request preserves the property. *)

\* A request that leaves the ledger and the events alone.
LEMMA UntouchedKeepsMInv ==
    ASSUME MInv, ops' = ops, events' = events
    PROVE  MInv'
BY DEF MInv, ReversalMirrorsOriginal

\* A movement of a user's own reverses nothing; its event bears its own new number.
LEMMA CreateKeepsMInv ==
    ASSUME IInv, MInv, NEW qs \in RequestLines, NEW request \in RequestIds,
           NEW type \in OperationTypes, NEW at \in Times, NEW source \in Sources,
           NEW mini \in BOOLEAN, create_operation(request, type, at, source, mini, qs)
    PROVE  MInv'
<1> DEFINE op == NewOperation(type, at, source, mini, NoOperation, request, qs)
           os == AddOperation(ops, NextId, op)
<1>1. events' = events \cup {<<NextId, type>>} /\ ops' = Replayed(os, DOMAIN qs)
  BY DEF create_operation
<1>2. LedgerOK(ops) /\ NextId \notin DOMAIN ops
  BY IInvLedger, NextIdIsNew
<1>3. OperationOK(op)
  BY RequestLinesShape, NewOperationOK, TimesAssumption, SourcesAssumption DEF NoOperation
<1>4. op.version = 1 /\ op.reversalOf = NoOperation
  BY DEF NewOperation
<1>5. os = AddOperation(ops, NextId, op)
  OBVIOUS
<1> HIDE DEF op, os
<1>6. LedgerOK(os)
  BY <1>2, <1>3, <1>5, AddedShape
<1>7. /\ DOMAIN os = DOMAIN ops \cup {NextId} /\ os[NextId] = op
      /\ \A i \in DOMAIN ops : os[i] = ops[i]
  BY <1>2, <1>5 DEF AddOperation
<1>8. DOMAIN ops' = DOMAIN os
  BY <1>1 DEF Replayed
<1>9. \A i \in DOMAIN os : SameHead(ops'[i], os[i])
  BY <1>1, <1>6, ReplayedHeads
<1>10. \A i \in DOMAIN ops : SameHead(ops'[i], ops[i])
  BY <1>7, <1>9
<1>11. ops'[NextId].version = 1 /\ ops'[NextId].reversalOf = NoOperation
  BY <1>4, <1>7, <1>9 DEF SameHead
<1>12. DOMAIN ops' \ DOMAIN ops = {NextId}
  BY <1>2, <1>7, <1>8
<1> QED BY <1>1, <1>7, <1>8, <1>10, <1>11, <1>12, MirrorsStay

\* A reversal is dated after its original, in the other direction, without an event.
LEMMA ReverseKeepsMInv ==
    ASSUME IInv, MInv, NEW qs \in RequestLines, NEW request \in RequestIds,
           NEW original \in DOMAIN ops, NEW now \in Times,
           reverse_operation(original, request, now, qs)
    PROVE  MInv'
<1> DEFINE type == OtherType(ops[original].type)
           at == ReversalTime(now, ops[original].at)
           op == NewOperation(type, at, REVERSAL, FALSE, original, request, qs)
           taken == TakeReversed(ops, original, qs)
           os == AddOperation(taken, NextId, op)
<1>1. /\ CanReverse(ops[original].lines, qs)
      /\ ops' = Replayed(os, DOMAIN qs) /\ events' = events
  BY DEF reverse_operation
<1>2. /\ LedgerOK(ops) /\ NextId \notin DOMAIN ops
      /\ DOMAIN ops \subseteq Nat \ {0}
      /\ qs \in [DOMAIN qs -> Quantities]
  BY IInvLedger, NextIdIsNew, RequestLinesShape
<1>3. at \in Nat /\ at > ops[original].at /\ type \in OperationTypes
  <2>1. ops[original].at \in Nat /\ now \in Nat
    BY <1>2, TimesAssumption DEF LedgerOK, OperationOK
  <2>2. at \in Nat /\ at > ops[original].at
    BY <2>1 DEF ReversalTime
  <2> QED BY <2>2 DEF OtherType, OperationTypes
<1>4. type = OtherType(ops[original].type)
  OBVIOUS
<1> HIDE DEF type, at
<1>5. OperationOK(op)
  <2> DEFINE source == REVERSAL
             mini == FALSE
  <2>1. source \in SourceTypes /\ mini \in BOOLEAN /\ original \in Nat
    BY <1>2 DEF SourceTypes
  <2>2. op = NewOperation(type, at, source, mini, original, request, qs)
    OBVIOUS
  <2> HIDE DEF op, source, mini
  <2> QED BY <1>2, <1>3, <2>1, <2>2, NewOperationOK
<1>6. /\ op.version = 1 /\ op.reversalOf = original /\ op.type = type
      /\ op.source = REVERSAL /\ op.at = at
  BY DEF NewOperation
<1>a. taken = TakeReversed(ops, original, qs) /\ os = AddOperation(taken, NextId, op)
  OBVIOUS
<1> HIDE DEF op, taken, os
<1>7. LedgerOK(taken) /\ DOMAIN taken = DOMAIN ops
  BY <1>1, <1>2, <1>a, TakenShape
<1>8. \A i \in DOMAIN ops : SameHead(taken[i], ops[i])
  BY <1>2, <1>a, TakenHeads
<1>9. LedgerOK(os)
  BY <1>5, <1>7, <1>a, AddedShape
<1>10. /\ DOMAIN os = DOMAIN ops \cup {NextId} /\ os[NextId] = op
       /\ \A i \in DOMAIN ops : os[i] = taken[i]
  BY <1>2, <1>7, <1>a DEF AddOperation
<1>11. DOMAIN ops' = DOMAIN os
  BY <1>1 DEF Replayed
<1>12. \A i \in DOMAIN os : SameHead(ops'[i], os[i])
  BY <1>1, <1>9, ReplayedHeads
<1>13. \A i \in DOMAIN ops : SameHead(ops'[i], ops[i])
  BY <1>8, <1>10, <1>12 DEF SameHead
<1>14. NewMirrors(NextId) /\ ops'[NextId].version = 1
  <2>1. SameHead(ops'[NextId], op) /\ SameHead(ops'[original], ops[original])
    BY <1>10, <1>12, <1>13
  <2> QED BY <1>1, <1>3, <1>4, <1>6, <2>1 DEF NewMirrors, SameHead
<1>15. DOMAIN ops' \ DOMAIN ops = {NextId}
  BY <1>2, <1>10, <1>11
<1> QED BY <1>1, <1>10, <1>11, <1>13, <1>14, <1>15, MirrorsStay

\* An edit takes its operation out of the comparison and leaves the others alone.
LEMMA UpdateKeepsMInv ==
    ASSUME IInv, MInv, NEW id \in DOMAIN ops, NEW qs \in RequestLines, NEW version,
           NEW type \in OperationTypes, NEW at \in Times, NEW source \in Sources,
           update_operation(id, version, type, at, source, qs)
    PROVE  MInv'
<1> DEFINE op == EditedOperation(ops[id], type, at, source, qs)
           os == [ops EXCEPT ![id] = op]
           affected == DOMAIN ops[id].lines \cup DOMAIN qs
<1>1. ops' = Replayed(os, affected) /\ events' = events
  BY DEF update_operation
<1>2. LedgerOK(ops) /\ OperationOK(ops[id]) /\ qs \in [DOMAIN qs -> Quantities]
  BY IInvLedger, RequestLinesShape DEF LedgerOK
<1>3. OperationOK(op)
  BY <1>2, EditedOperationOK, TimesAssumption, SourcesAssumption
<1>4. op.version = ops[id].version + 1 /\ op.reversalOf = ops[id].reversalOf
  BY <1>2, EditedHead
<1> HIDE DEF op, os, affected
<1>5. /\ LedgerOK(os) /\ DOMAIN os = DOMAIN ops /\ os[id] = op
      /\ \A i \in DOMAIN ops : i # id => os[i] = ops[i]
  BY <1>2, <1>3, ReplacedShape DEF os
<1>6. DOMAIN ops' = DOMAIN ops
  BY <1>1, <1>5 DEF Replayed
<1>7. \A i \in DOMAIN ops : SameHead(ops'[i], os[i])
  BY <1>1, <1>5, ReplayedHeads
<1>8. \A i \in DOMAIN ops :
        \/ SameHead(ops'[i], ops[i])
        \/ ops'[i].version = ops[i].version + 1 /\ ops'[i].reversalOf = ops[i].reversalOf
  BY <1>4, <1>5, <1>7 DEF SameHead
<1> QED BY <1>1, <1>6, <1>8, MirrorsStay

\* Every step keeps the invariant of the mirrors.
LEMMA NextKeepsMInv == IInv /\ MInv /\ [Next]_vars => MInv'
<1> SUFFICES ASSUME IInv, MInv, [Next]_vars PROVE MInv'
  OBVIOUS
<1>1. CASE UNCHANGED vars
  BY <1>1, UntouchedKeepsMInv DEF vars
<1>2. ASSUME NEW m \in Materials, create_stock_material(m) \/ delete_stock_material(m)
      PROVE  MInv'
  BY <1>2, UntouchedKeepsMInv DEF create_stock_material, delete_stock_material
<1>3. ASSUME NEW qs \in RequestLines, NEW request \in RequestIds, NEW type \in OperationTypes,
             NEW at \in Times, NEW source \in Sources, NEW mini \in BOOLEAN,
             create_operation(request, type, at, source, mini, qs)
      PROVE  MInv'
  BY <1>3, CreateKeepsMInv
<1>4. ASSUME NEW qs \in RequestLines, NEW request \in RequestIds, NEW original \in DOMAIN ops,
             NEW now \in Times, reverse_operation(original, request, now, qs)
      PROVE  MInv'
  BY <1>4, ReverseKeepsMInv
<1>5. ASSUME NEW id \in DOMAIN ops, NEW qs \in RequestLines, NEW version \in 1..MaxEdits,
             NEW type \in OperationTypes, NEW at \in Times, NEW source \in Sources,
             update_operation(id, version, type, at, source, qs)
      PROVE  MInv'
  BY <1>5, UpdateKeepsMInv
<1> QED BY <1>1, <1>2, <1>3, <1>4, <1>5 DEF Next

\* As long as neither has been edited, a reversal (POST /operations/{id}/reverse) is the
\* opposite movement of an older operation, dated after it and marked REVERSAL; and no
\* webhook event ever announces a reversal as a movement, edited or not.
THEOREM ReversalsMirror == Spec => []ReversalMirrorsOriginal
<1>1. Init => MInv
  BY DEF Init, MInv, ReversalMirrorsOriginal
<1>2. MInv => ReversalMirrorsOriginal
  BY DEF MInv
<1> QED BY <1>1, <1>2, InitIInv, NextKeepsIInv, NextKeepsMInv, PTL DEF Spec

-----------------------------------------------------------------------------
(* Chain.                                                                   *)

\* The total of a set of entries is a sum.
LEMMA TotalIsSum ==
    ASSUME NEW S, IsFiniteSet(S)
    PROVE  \E g : IsSummation(g, [e \in S |-> e.delta], S) /\ Total(S) = g[S]
<1> DEFINE f == [e \in S |-> e.delta]
           Eq(g) == g = [s \in SUBSET S |->
                           IF s = {} THEN 0
                           ELSE (CHOOSE x \in s : TRUE).delta + g[s \ {CHOOSE x \in s : TRUE}]]
           iter == CHOOSE g : Eq(g)
<1>1. Total(S) = iter[S]
  BY DEF Total, MapThenSumSet, MapThenFoldSet
<1>2. \A s \in SUBSET S : s # {} => f[Pick(s)] = (CHOOSE x \in s : TRUE).delta
  BY PickIn DEF Pick
<1>3. ASSUME NEW g PROVE IsSummation(g, f, S) <=> Eq(g)
  <2> HIDE DEF f
  <2>1. [s \in SUBSET S |-> IF s = {} THEN 0 ELSE f[Pick(s)] + g[s \ {Pick(s)}]]
          = [s \in SUBSET S |->
                           IF s = {} THEN 0
                           ELSE (CHOOSE x \in s : TRUE).delta + g[s \ {CHOOSE x \in s : TRUE}]]
    BY <1>2 DEF Pick
  <2> QED BY <2>1 DEF IsSummation
<1>4. \E g : IsSummation(g, f, S)
  BY SummationExists
<1> HIDE DEF f, Eq
<1>5. Eq(iter)
  BY <1>3, <1>4
<1> QED BY <1>1, <1>3, <1>5 DEF f

\* One entry more adds its quantity.
LEMMA TotalOfOneMore ==
    ASSUME NEW S, IsFiniteSet(S), NEW e \in S, \A x \in S : x.delta \in Int
    PROVE  Total(S) = Total(S \ {e}) + e.delta
<1> DEFINE f == [x \in S |-> x.delta]
           T == S \ {e}
           d == [x \in T |-> x.delta]
<1>1. IsFiniteSet(T)
  BY FS_RemoveElement
<1>2. PICK g : IsSummation(g, f, S) /\ Total(S) = g[S]
  BY TotalIsSum
<1>3. PICK h : IsSummation(h, d, T) /\ Total(T) = h[T]
  BY <1>1, TotalIsSum
<1>4. \A x \in S : f[x] \in Int
  OBVIOUS
<1>5. \A x \in T : f[x] = d[x]
  OBVIOUS
<1>6. f[e] = e.delta /\ T \subseteq S /\ S \in SUBSET S
  OBVIOUS
<1> HIDE DEF f, d
<1>7. g[S] = g[T] + f[e]
  BY <1>2, <1>4, SummationStep
<1>8. g[T] = h[T]
  <2> HIDE DEF T
  <2> QED BY <1>1, <1>2, <1>3, <1>5, <1>6, SummationsAgree
<1> QED BY <1>2, <1>3, <1>6, <1>7, <1>8

-----------------------------------------------------------------------------
(* The chain *)

\* Every line holds what replaying it now would write.
LinesReplayed(os) ==
    \A i \in DOMAIN os : \A m \in DOMAIN os[i].lines :
        /\ os[i].lines[m].before = RunningBefore(os, i, m)
        /\ os[i].lines[m].after = os[i].lines[m].before + Signed(os[i], m)

\* A request replays what it touches: of the other materials it leaves the entries, and
\* what was written into their lines.
Undisturbed(os, ms) ==
    \A m : m \notin ms =>
        /\ Entries(os, m) = Entries(ops, m)
        /\ \A i \in DOMAIN os : m \in DOMAIN os[i].lines =>
             /\ i \in DOMAIN ops /\ m \in DOMAIN ops[i].lines
             /\ Entry(os, i, m) = Entry(ops, i, m)
             /\ Signed(os[i], m) = Signed(ops[i], m)
             /\ os[i].lines[m].before = ops[i].lines[m].before
             /\ os[i].lines[m].after = ops[i].lines[m].after

\* A replay writes the lines of its materials; the others are as a replay wrote them.
LEMMA ReplayWritesLines ==
    ASSUME NEW os, LedgerOK(os), NEW ms, Undisturbed(os, ms), LinesReplayed(ops)
    PROVE  LinesReplayed(Replayed(os, ms))
<1> DEFINE r == Replayed(os, ms)
<1>1. SameButReplayed(r, os)
  BY ReplayedShape
<1>2. ASSUME NEW i \in DOMAIN r, NEW m \in DOMAIN r[i].lines
      PROVE  /\ r[i].lines[m].before = RunningBefore(r, i, m)
             /\ r[i].lines[m].after = r[i].lines[m].before + Signed(r[i], m)
  <2>1. i \in DOMAIN os /\ m \in DOMAIN os[i].lines
    BY <1>1, <1>2 DEF SameButReplayed
  <2>2. Entries(r, m) = Entries(os, m)
    BY <1>1, ReplayedEntries
  <2>3. Signed(r[i], m) = Signed(os[i], m) /\ Entry(r, i, m) = Entry(os, i, m)
    <3>1. r[i].type = os[i].type /\ r[i].at = os[i].at
          /\ r[i].lines[m].quantity = os[i].lines[m].quantity
      BY <1>1, <2>1 DEF SameButReplayed
    <3> QED BY <3>1 DEF Signed, Entry
  <2>4. RunningBefore(r, i, m) = RunningBefore(os, i, m)
    BY <2>2, <2>3 DEF RunningBefore
  <2>5. r[i].lines[m] = IF m \in ms THEN ReplayedLine(os, i, m) ELSE os[i].lines[m]
    <3> DEFINE ls == [n \in DOMAIN os[i].lines |->
                        IF n \in ms THEN ReplayedLine(os, i, n) ELSE os[i].lines[n]]
    <3>1. r[i] = [os[i] EXCEPT !.lines = ls]
      BY <2>1 DEF Replayed
    <3>2. OperationOK(os[i])
      BY <2>1 DEF LedgerOK
    <3> HIDE DEF ls, r
    <3>3. r[i].lines = ls
      BY <3>1, <3>2 DEF OperationOK
    <3> QED BY <2>1, <3>3 DEF ls
  <2> HIDE DEF r
  <2>6. CASE m \in ms
    <3> DEFINE line == os[i].lines[m]
               b == RunningBefore(os, i, m)
               d == Signed(os[i], m)
    <3>1. LineOK(line)
      BY <2>1 DEF LedgerOK, OperationOK
    <3>2. r[i].lines[m] = [line EXCEPT !.before = b, !.after = b + d]
      BY <2>5, <2>6 DEF ReplayedLine
    <3> HIDE DEF line, b, d
    <3>3. r[i].lines[m].before = b /\ r[i].lines[m].after = b + d
      BY <3>1, <3>2 DEF LineOK
    <3> QED BY <2>3, <2>4, <3>3 DEF b, d
  <2>7. CASE m \notin ms
    <3>1. /\ i \in DOMAIN ops /\ m \in DOMAIN ops[i].lines
          /\ Entry(os, i, m) = Entry(ops, i, m) /\ Entries(os, m) = Entries(ops, m)
          /\ Signed(os[i], m) = Signed(ops[i], m)
          /\ os[i].lines[m].before = ops[i].lines[m].before
          /\ os[i].lines[m].after = ops[i].lines[m].after
      BY <2>1, <2>7 DEF Undisturbed
    <3>2. RunningBefore(os, i, m) = RunningBefore(ops, i, m)
      BY <3>1 DEF RunningBefore
    <3>3. /\ ops[i].lines[m].before = RunningBefore(ops, i, m)
          /\ ops[i].lines[m].after = ops[i].lines[m].before + Signed(ops[i], m)
      BY <3>1 DEF LinesReplayed
    <3> QED BY <2>3, <2>4, <2>5, <2>7, <3>1, <3>2, <3>3
  <2> QED BY <2>6, <2>7
<1> QED BY <1>2 DEF LinesReplayed

\* A ledger that differs from ops in one operation, which moves only replayed materials.
LEMMA OneOperationUndisturbed ==
    ASSUME NEW os, NEW id, NEW ms,
           DOMAIN os = DOMAIN ops \cup {id},
           \A i \in DOMAIN ops : i # id => os[i] = ops[i],
           DOMAIN os[id].lines \subseteq ms,
           id \in DOMAIN ops => DOMAIN ops[id].lines \subseteq ms
    PROVE  Undisturbed(os, ms)
<1> SUFFICES ASSUME NEW m, m \notin ms
             PROVE  /\ Entries(os, m) = Entries(ops, m)
                    /\ \A i \in DOMAIN os : m \in DOMAIN os[i].lines =>
                         /\ i \in DOMAIN ops /\ m \in DOMAIN ops[i].lines
                         /\ Entry(os, i, m) = Entry(ops, i, m)
                         /\ Signed(os[i], m) = Signed(ops[i], m)
                         /\ os[i].lines[m].before = ops[i].lines[m].before
                         /\ os[i].lines[m].after = ops[i].lines[m].after
  BY DEF Undisturbed
<1>1. {j \in DOMAIN os : m \in DOMAIN os[j].lines} = {j \in DOMAIN ops : m \in DOMAIN ops[j].lines}
  OBVIOUS
<1>2. \A i \in DOMAIN os : m \in DOMAIN os[i].lines => i \in DOMAIN ops /\ os[i] = ops[i]
  OBVIOUS
<1>3. \A i \in DOMAIN os : m \in DOMAIN os[i].lines =>
        Entry(os, i, m) = Entry(ops, i, m)
  BY <1>2 DEF Entry
<1>4. Entries(os, m) = Entries(ops, m)
  BY <1>1, <1>3 DEF Entries
<1> QED BY <1>2, <1>3, <1>4

\* Taking a reversal off its original writes no before and no after.
LEMMA TakenLines ==
    ASSUME NEW os, LedgerOK(os), NEW original \in DOMAIN os,
           NEW ms, NEW qs \in [ms -> Quantities], CanReverse(os[original].lines, qs),
           NEW i \in DOMAIN os, NEW m \in DOMAIN os[i].lines
    PROVE  /\ TakeReversed(os, original, qs)[i].lines[m].before = os[i].lines[m].before
           /\ TakeReversed(os, original, qs)[i].lines[m].after = os[i].lines[m].after
<1> DEFINE ls == [n \in DOMAIN os[original].lines |->
                    IF n \in DOMAIN qs
                    THEN [os[original].lines[n] EXCEPT !.remaining = @ - qs[n]]
                    ELSE os[original].lines[n]]
<1>1. TakeReversed(os, original, qs) = [os EXCEPT ![original].lines = ls]
  BY DEF TakeReversed
<1>2. OperationOK(os[original]) /\ OperationOK(os[i])
  BY DEF LedgerOK
<1>3. CASE i = original
  <2>1. LineOK(os[original].lines[m])
    BY <1>2, <1>3 DEF OperationOK
  <2>2. ls[m].before = os[original].lines[m].before /\ ls[m].after = os[original].lines[m].after
    BY <1>3, <2>1 DEF LineOK
  <2> HIDE DEF ls
  <2>3. TakeReversed(os, original, qs)[i].lines = ls
    BY <1>1, <1>2, <1>3 DEF OperationOK, LedgerOK
  <2> QED BY <1>3, <2>2, <2>3
<1>4. CASE i # original
  <2> HIDE DEF ls
  <2> QED BY <1>1, <1>4 DEF LedgerOK
<1> QED BY <1>3, <1>4

\* create_operation leaves every line as a replay would write it.
LEMMA CreateKeepsLines ==
    ASSUME IInv, LinesReplayed(ops), NEW qs \in RequestLines, NEW request \in RequestIds,
           NEW type \in OperationTypes, NEW at \in Times, NEW source \in Sources,
           NEW mini \in BOOLEAN, create_operation(request, type, at, source, mini, qs)
    PROVE  LinesReplayed(ops')
<1> DEFINE op == NewOperation(type, at, source, mini, NoOperation, request, qs)
           os == AddOperation(ops, NextId, op)
<1>1. ops' = Replayed(os, DOMAIN qs)
  BY DEF create_operation
<1>2. LedgerOK(ops) /\ NextId \notin DOMAIN ops
  BY IInvLedger, NextIdIsNew
<1>a. qs \in [DOMAIN qs -> Quantities]
  BY RequestLinesShape
<1>3. OperationOK(op) /\ DOMAIN op.lines = DOMAIN qs
  BY <1>a, NewOperationOK, TimesAssumption, SourcesAssumption DEF NoOperation
<1>4. os = AddOperation(ops, NextId, op)
  OBVIOUS
<1> HIDE DEF op, os
<1>5. LedgerOK(os)
  BY <1>2, <1>3, <1>4, AddedShape
<1>6. /\ DOMAIN os = DOMAIN ops \cup {NextId} /\ os[NextId] = op
      /\ \A i \in DOMAIN ops : i # NextId => os[i] = ops[i]
  BY <1>4 DEF AddOperation
<1>7. Undisturbed(os, DOMAIN qs)
  BY <1>2, <1>3, <1>6, OneOperationUndisturbed
<1> QED BY <1>1, <1>5, <1>7, ReplayWritesLines

\* So does update_operation, which replays the old and the new materials.
LEMMA UpdateKeepsLines ==
    ASSUME IInv, LinesReplayed(ops), NEW id \in DOMAIN ops, NEW qs \in RequestLines, NEW version,
           NEW type \in OperationTypes, NEW at \in Times, NEW source \in Sources,
           update_operation(id, version, type, at, source, qs)
    PROVE  LinesReplayed(ops')
<1> DEFINE op == EditedOperation(ops[id], type, at, source, qs)
           os == [ops EXCEPT ![id] = op]
           affected == DOMAIN ops[id].lines \cup DOMAIN qs
<1>1. ops' = Replayed(os, affected)
  BY DEF update_operation
<1>2. LedgerOK(ops) /\ OperationOK(ops[id]) /\ qs \in [DOMAIN qs -> Quantities]
  BY IInvLedger, RequestLinesShape DEF LedgerOK
<1>3. OperationOK(op) /\ DOMAIN op.lines = DOMAIN qs
  BY <1>2, EditedOperationOK, TimesAssumption, SourcesAssumption
<1> HIDE DEF op, os
<1>4. /\ LedgerOK(os) /\ DOMAIN os = DOMAIN ops /\ os[id] = op
      /\ \A i \in DOMAIN ops : i # id => os[i] = ops[i]
  BY <1>2, <1>3, ReplacedShape DEF os
<1>5. DOMAIN os = DOMAIN ops \cup {id} /\ DOMAIN os[id].lines \subseteq affected
      /\ DOMAIN ops[id].lines \subseteq affected
  BY <1>3, <1>4
<1> HIDE DEF affected
<1>6. Undisturbed(os, affected)
  BY <1>4, <1>5, OneOperationUndisturbed
<1> QED BY <1>1, <1>4, <1>6, ReplayWritesLines

\* And reverse_operation, which changes two operations, the original in what remains only.
LEMMA ReverseKeepsLines ==
    ASSUME IInv, LinesReplayed(ops), NEW qs \in RequestLines, NEW request \in RequestIds,
           NEW original \in DOMAIN ops, NEW now \in Times,
           reverse_operation(original, request, now, qs)
    PROVE  LinesReplayed(ops')
<1> DEFINE type == OtherType(ops[original].type)
           at == ReversalTime(now, ops[original].at)
           op == NewOperation(type, at, REVERSAL, FALSE, original, request, qs)
           taken == TakeReversed(ops, original, qs)
           os == AddOperation(taken, NextId, op)
<1>1. CanReverse(ops[original].lines, qs) /\ ops' = Replayed(os, DOMAIN qs)
  BY DEF reverse_operation
<1>2. /\ LedgerOK(ops) /\ NextId \notin DOMAIN ops
      /\ DOMAIN ops \subseteq Nat \ {0}
      /\ qs \in [DOMAIN qs -> Quantities]
  BY IInvLedger, NextIdIsNew, RequestLinesShape
<1>3. at \in Nat /\ type \in OperationTypes
  <2>1. ops[original].at \in Nat /\ now \in Nat
    BY <1>2, TimesAssumption DEF LedgerOK, OperationOK
  <2>2. at \in Nat
    BY <2>1 DEF ReversalTime
  <2> QED BY <2>2 DEF OtherType, OperationTypes
<1> HIDE DEF type, at
<1>4. OperationOK(op) /\ DOMAIN op.lines = DOMAIN qs
  <2> DEFINE source == REVERSAL
             mini == FALSE
  <2>1. source \in SourceTypes /\ mini \in BOOLEAN /\ original \in Nat
    BY <1>2 DEF SourceTypes
  <2>2. op = NewOperation(type, at, source, mini, original, request, qs)
    OBVIOUS
  <2> HIDE DEF op, source, mini
  <2> QED BY <1>2, <1>3, <2>1, <2>2, NewOperationOK
<1>a. taken = TakeReversed(ops, original, qs) /\ os = AddOperation(taken, NextId, op)
  OBVIOUS
<1> HIDE DEF op, taken, os
<1>5. /\ LedgerOK(taken) /\ DOMAIN taken = DOMAIN ops
      /\ \A i \in DOMAIN ops : /\ DOMAIN taken[i].lines = DOMAIN ops[i].lines
                               /\ \A m \in DOMAIN ops[i].lines :
                                     taken[i].lines[m].quantity = ops[i].lines[m].quantity
  BY <1>1, <1>2, <1>a, TakenShape
<1>6. \A i \in DOMAIN ops : SameHead(taken[i], ops[i])
  BY <1>2, <1>a, TakenHeads
<1>7. \A i \in DOMAIN ops : \A m \in DOMAIN ops[i].lines :
        /\ taken[i].lines[m].before = ops[i].lines[m].before
        /\ taken[i].lines[m].after = ops[i].lines[m].after
  BY <1>1, <1>2, <1>a, TakenLines
<1>8. LedgerOK(os)
  BY <1>4, <1>5, <1>a, AddedShape
<1>9. /\ DOMAIN os = DOMAIN ops \cup {NextId} /\ os[NextId] = op
      /\ \A i \in DOMAIN ops : os[i] = taken[i]
  BY <1>2, <1>5, <1>a DEF AddOperation
<1>10. Undisturbed(os, DOMAIN qs)
  <2> SUFFICES ASSUME NEW m, m \notin DOMAIN qs
               PROVE  /\ Entries(os, m) = Entries(ops, m)
                      /\ \A i \in DOMAIN os : m \in DOMAIN os[i].lines =>
                           /\ i \in DOMAIN ops /\ m \in DOMAIN ops[i].lines
                           /\ Entry(os, i, m) = Entry(ops, i, m)
                           /\ Signed(os[i], m) = Signed(ops[i], m)
                           /\ os[i].lines[m].before = ops[i].lines[m].before
                           /\ os[i].lines[m].after = ops[i].lines[m].after
    BY DEF Undisturbed
  <2>1. \A i \in DOMAIN os : m \in DOMAIN os[i].lines =>
          i \in DOMAIN ops /\ m \in DOMAIN ops[i].lines
    BY <1>4, <1>5, <1>9
  <2>2. \A i \in DOMAIN ops : m \in DOMAIN ops[i].lines =>
          i \in DOMAIN os /\ m \in DOMAIN os[i].lines
    BY <1>5, <1>9
  <2>3. {j \in DOMAIN os : m \in DOMAIN os[j].lines} = {j \in DOMAIN ops : m \in DOMAIN ops[j].lines}
    BY <2>1, <2>2
  <2>4. ASSUME NEW i \in DOMAIN os, m \in DOMAIN os[i].lines
        PROVE  Entry(os, i, m) = Entry(ops, i, m) /\ Signed(os[i], m) = Signed(ops[i], m)
    <3>1. os[i].type = ops[i].type /\ os[i].at = ops[i].at
          /\ os[i].lines[m].quantity = ops[i].lines[m].quantity
      BY <1>5, <1>6, <1>9, <2>1, <2>4 DEF SameHead
    <3> QED BY <3>1 DEF Entry, Signed
  <2>5. Entries(os, m) = Entries(ops, m)
    BY <2>3, <2>4 DEF Entries
  <2> QED BY <1>7, <1>9, <2>1, <2>4, <2>5
<1> QED BY <1>1, <1>8, <1>10, ReplayWritesLines

\* Every step leaves all lines as a replay would write them.
LEMMA NextKeepsLines == IInv /\ LinesReplayed(ops) /\ [Next]_vars => LinesReplayed(ops')
<1> SUFFICES ASSUME IInv, LinesReplayed(ops), [Next]_vars PROVE LinesReplayed(ops')
  OBVIOUS
<1>1. CASE UNCHANGED vars
  BY <1>1 DEF vars
<1>2. ASSUME NEW m \in Materials, create_stock_material(m) \/ delete_stock_material(m)
      PROVE  LinesReplayed(ops')
  <2>1. ops' = ops
    BY <1>2 DEF create_stock_material, delete_stock_material
  <2> QED BY <2>1
<1>3. ASSUME NEW qs \in RequestLines, NEW request \in RequestIds, NEW type \in OperationTypes,
             NEW at \in Times, NEW source \in Sources, NEW mini \in BOOLEAN,
             create_operation(request, type, at, source, mini, qs)
      PROVE  LinesReplayed(ops')
  BY <1>3, CreateKeepsLines
<1>4. ASSUME NEW qs \in RequestLines, NEW request \in RequestIds, NEW original \in DOMAIN ops,
             NEW now \in Times, reverse_operation(original, request, now, qs)
      PROVE  LinesReplayed(ops')
  BY <1>4, ReverseKeepsLines
<1>5. ASSUME NEW id \in DOMAIN ops, NEW qs \in RequestLines, NEW version \in 1..MaxEdits,
             NEW type \in OperationTypes, NEW at \in Times, NEW source \in Sources,
             update_operation(id, version, type, at, source, qs)
      PROVE  LinesReplayed(ops')
  BY <1>5, UpdateKeepsLines
<1> QED BY <1>1, <1>2, <1>3, <1>4, <1>5 DEF Next

\* There are no lines at first.
LEMMA InitLines == Init => LinesReplayed(ops)
BY DEF Init, LinesReplayed

\* The entries of a material are finitely many, one for each operation that moves it, and
\* their quantities are integers.
LEMMA EntriesOf ==
    ASSUME IInv, NEW m
    PROVE  /\ IsFiniteSet(Entries(ops, m))
           /\ \A e \in Entries(ops, m) :
                e.delta \in Int /\ e.at \in Int /\ e.id \in IdsOf(m) /\ e = Entry(ops, e.id, m)
           /\ \A i \in IdsOf(m) :
                /\ Entry(ops, i, m) \in Entries(ops, m)
                /\ Entry(ops, i, m).id = i /\ Entry(ops, i, m).delta = Signed(ops[i], m)
           /\ IdsOf(m) \subseteq Int
<1> DEFINE f == [i \in IdsOf(m) |-> Entry(ops, i, m)]
<1>1. IsFiniteSet(IdsOf(m)) /\ IdsOf(m) \subseteq Int
  <2>1. IdsOf(m) \subseteq DOMAIN ops
    BY DEF IdsOf
  <2> QED BY <2>1, FS_Subset, NextIdIsNew DEF IInv, TypeOK
<1>2. Entries(ops, m) = {f[i] : i \in IdsOf(m)}
  BY DEF Entries, IdsOf
<1>3. IsFiniteSet(Entries(ops, m))
  <2>1. f \in Surjection(IdsOf(m), Entries(ops, m))
    BY <1>2 DEF Surjection
  <2> HIDE DEF f
  <2> QED BY <1>1, <2>1, FS_Surjection
<1>4. ASSUME NEW i \in IdsOf(m)
      PROVE  /\ Entry(ops, i, m) \in Entries(ops, m)
             /\ Entry(ops, i, m).id = i /\ Entry(ops, i, m).delta = Signed(ops[i], m)
             /\ Entry(ops, i, m).delta \in Int /\ Entry(ops, i, m).at \in Int
  <2>1. i \in DOMAIN ops /\ m \in DOMAIN ops[i].lines
    BY <1>4 DEF IdsOf
  <2>2. ops[i].at \in Int /\ ops[i].lines[m].quantity \in Int
    <3>1. OperationOK(ops[i])
      BY <2>1 DEF IInv, TypeOK
    <3>2. LineOK(ops[i].lines[m])
      BY <2>1, <3>1 DEF OperationOK
    <3> QED BY <3>1, <3>2 DEF OperationOK, LineOK
  <2>3. Entry(ops, i, m) = f[i]
    BY <1>4
  <2> QED BY <1>2, <1>4, <2>2, <2>3 DEF Entry, Signed
<1>5. ASSUME NEW e \in Entries(ops, m)
      PROVE  e.delta \in Int /\ e.at \in Int /\ e.id \in IdsOf(m) /\ e = Entry(ops, e.id, m)
  <2>1. PICK i \in IdsOf(m) : e = Entry(ops, i, m)
    BY <1>2
  <2> QED BY <1>4, <2>1
<1> QED BY <1>1, <1>3, <1>4, <1>5

\* The chain follows from the lines being replayed: what comes before the next line is
\* what comes before this one, and this one.
LEMMA ChainFollows == IInv /\ LinesReplayed(ops) => ChainUnbroken
<1> SUFFICES ASSUME IInv, LinesReplayed(ops), NEW m \in stock
             PROVE  /\ IdsOf(m) = {} => balance[m] = 0
                    /\ \A j \in IdsOf(m) :
                        LET line == ops[j].lines[m]
                            earlier == {i \in IdsOf(m) : Before(i, j, m)}
                            later == {i \in IdsOf(m) : Before(j, i, m)}
                        IN  /\ line.after = line.before + Signed(ops[j], m)
                            /\ earlier = {} => line.before = 0
                            /\ \A i \in earlier :
                                 (\A k \in earlier : ~Before(i, k, m))
                                   => line.before = ops[i].lines[m].after
                            /\ later = {} => line.after = balance[m]
  BY DEF ChainUnbroken
<1> DEFINE E == Entries(ops, m)
           e(i) == Entry(ops, i, m)
           B(i) == {x \in E : EarlierThan(x, e(i))}
<1>1. balance[m] = Total(E)
  BY DEF IInv, BalanceIsRunning, Running
<1>2. ASSUME IdsOf(m) = {} PROVE balance[m] = 0
  <2>1. \A i \in DOMAIN ops : m \notin DOMAIN ops[i].lines
    BY <1>2 DEF IdsOf
  <2> QED BY <2>1, UnmovedRunning DEF IInv, BalanceIsRunning
<1>3. ASSUME NEW j \in IdsOf(m)
      PROVE  /\ ops[j].lines[m].before = Total(B(j))
             /\ ops[j].lines[m].after = ops[j].lines[m].before + Signed(ops[j], m)
  BY <1>3 DEF LinesReplayed, IdsOf, RunningBefore
<1>4. /\ IsFiniteSet(E)
      /\ \A x \in E : x.delta \in Int /\ x.at \in Int /\ x.id \in IdsOf(m) /\ x = e(x.id)
      /\ \A i \in IdsOf(m) : e(i) \in E /\ e(i).id = i /\ e(i).delta = Signed(ops[i], m)
      /\ IdsOf(m) \subseteq Int
  BY EntriesOf
<1>5. \A i, j \in IdsOf(m) : Before(i, j, m) <=> EarlierThan(e(i), e(j))
  BY DEF Before
<1> HIDE DEF E, e
<1>6. \A i, j \in IdsOf(m) : i # j => EarlierThan(e(i), e(j)) \/ EarlierThan(e(j), e(i))
  BY <1>4 DEF EarlierThan
<1>7. \A i, j, k \in IdsOf(m) :
        EarlierThan(e(i), e(j)) /\ EarlierThan(e(j), e(k)) => EarlierThan(e(i), e(k))
  BY <1>4 DEF EarlierThan
<1>8. \A i \in IdsOf(m) : ~EarlierThan(e(i), e(i))
  BY <1>4 DEF EarlierThan
<1>9. ASSUME NEW j \in IdsOf(m), {i \in IdsOf(m) : Before(i, j, m)} = {}
      PROVE  ops[j].lines[m].before = 0
  <2>1. B(j) = {}
    BY <1>4, <1>5, <1>9
  <2> HIDE DEF B
  <2> QED BY <1>3, <2>1, TotalOfNothing
<1>10. ASSUME NEW j \in IdsOf(m), {i \in IdsOf(m) : Before(j, i, m)} = {}
       PROVE  ops[j].lines[m].after = balance[m]
  <2>1. B(j) = E \ {e(j)}
    BY <1>4, <1>5, <1>6, <1>8, <1>10
  <2>2. Total(E) = Total(E \ {e(j)}) + e(j).delta
    BY <1>4, TotalOfOneMore
  <2>3. e(j).delta = Signed(ops[j], m)
    BY <1>4
  <2>4. Total(B(j)) = Total(E \ {e(j)})
    BY <2>1
  <2> HIDE DEF B
  <2> QED BY <1>1, <1>3, <2>2, <2>3, <2>4
<1>11. ASSUME NEW j \in IdsOf(m), NEW i \in IdsOf(m), Before(i, j, m),
              \A k \in IdsOf(m) : Before(k, j, m) => ~Before(i, k, m)
       PROVE  ops[j].lines[m].before = ops[i].lines[m].after
  <2>1. B(j) \ {e(i)} = B(i)
    <3>1. ASSUME NEW x \in B(j) \ {e(i)} PROVE x \in B(i)
      <4>1. x.id \in IdsOf(m) /\ x = e(x.id) /\ EarlierThan(e(x.id), e(j)) /\ x.id # i
        BY <1>4, <3>1
      <4>2. ~EarlierThan(e(i), e(x.id))
        BY <1>5, <1>11, <4>1
      <4> QED BY <1>6, <3>1, <4>1, <4>2
    <3>2. ASSUME NEW x \in B(i) PROVE x \in B(j) \ {e(i)}
      <4>1. x.id \in IdsOf(m) /\ x = e(x.id) /\ EarlierThan(e(x.id), e(i))
        BY <1>4, <3>2
      <4>2. EarlierThan(e(i), e(j))
        BY <1>5, <1>11
      <4> QED BY <1>7, <1>8, <3>2, <4>1, <4>2
    <3> QED BY <3>1, <3>2
  <2>2. e(i) \in B(j)
    BY <1>4, <1>5, <1>11
  <2>3. IsFiniteSet(B(j)) /\ \A x \in B(j) : x.delta \in Int
    BY <1>4, FS_Subset
  <2> HIDE DEF B
  <2>4. Total(B(j)) = Total(B(j) \ {e(i)}) + e(i).delta
    BY <2>2, <2>3, TotalOfOneMore
  <2>5. e(i).delta = Signed(ops[i], m)
    BY <1>4
  <2>6. Total(B(j)) = Total(B(i)) + Signed(ops[i], m)
    BY <2>1, <2>4, <2>5
  <2> QED BY <1>3, <2>6
<1> QED BY <1>2, <1>3, <1>9, <1>10, <1>11

\* The ledger printed for a material reads as one account: every line starts where the
\* line before it ended and the last one ends at the balance, however many movements in
\* the past were inserted, edited, moved to other materials or reversed.
THEOREM ChainHolds == Spec => []ChainUnbroken
<1> DEFINE L == LinesReplayed(ops)
<1>1. Init => L
  BY InitLines
<1>2. IInv /\ L /\ [Next]_vars => L'
  BY NextKeepsLines
<1>3. IInv /\ L => ChainUnbroken
  BY ChainFollows
<1> HIDE DEF L
<1> QED BY <1>1, <1>2, <1>3, InitIInv, NextKeepsIInv, PTL DEF Spec

-----------------------------------------------------------------------------
(* Accounts.                                                                *)

\* The reversals of i that move m.
ReversalIds(os, i, m) == {j \in DOMAIN os : os[j].reversalOf = i /\ m \in DOMAIN os[j].lines}

\* ReversalsAccountedFor of any ledger, and what it says of one line.
Unedited(os, i) ==
    os[i].version = 1 /\ \A j \in DOMAIN os : os[j].reversalOf = i => os[j].version = 1
LineAccounted(os, i, m) ==
    os[i].lines[m].quantity = os[i].lines[m].remaining + Moved(os, m, ReversalIds(os, i, m))
Accounted(os) ==
    \A i \in DOMAIN os : \A m \in DOMAIN os[i].lines : Unedited(os, i) => LineAccounted(os, i, m)

\* A line whose operation has the same reversals with the same quantities stays accounted.
LEMMA AccountStays ==
    ASSUME NEW os, NEW r, NEW i, NEW m, IsFiniteSet(DOMAIN os),
           r[i].lines[m].quantity = os[i].lines[m].quantity,
           r[i].lines[m].remaining = os[i].lines[m].remaining,
           ReversalIds(r, i, m) = ReversalIds(os, i, m),
           \A j \in ReversalIds(os, i, m) : r[j].lines[m].quantity = os[j].lines[m].quantity,
           LineAccounted(os, i, m)
    PROVE  LineAccounted(r, i, m)
<1>1. IsFiniteSet(ReversalIds(os, i, m))
  BY FS_Subset DEF ReversalIds
<1>2. Moved(r, m, ReversalIds(os, i, m)) = Moved(os, m, ReversalIds(os, i, m))
  BY <1>1, MovedSame
<1> QED BY <1>2 DEF LineAccounted

\* Replaying changes neither quantities nor what remains nor who reverses whom.
LEMMA ReplayKeepsAccounts ==
    ASSUME NEW os, LedgerOK(os), IsFiniteSet(DOMAIN os), NEW ms, Accounted(os)
    PROVE  Accounted(Replayed(os, ms))
<1> DEFINE r == Replayed(os, ms)
<1>1. SameButReplayed(r, os)
  BY ReplayedShape
<1>2. \A i \in DOMAIN os : SameHead(r[i], os[i])
  BY ReplayedHeads
<1> HIDE DEF r
<1>3. DOMAIN r = DOMAIN os /\ \A i, m : ReversalIds(r, i, m) = ReversalIds(os, i, m)
  BY <1>1 DEF SameButReplayed, ReversalIds
<1>4. \A i \in DOMAIN os : Unedited(r, i) => Unedited(os, i)
  BY <1>2, <1>3 DEF Unedited, SameHead
<1>5. ASSUME NEW i \in DOMAIN r, NEW m \in DOMAIN r[i].lines, Unedited(r, i)
      PROVE  LineAccounted(r, i, m)
  <2>1. i \in DOMAIN os /\ m \in DOMAIN os[i].lines
    BY <1>1, <1>5 DEF SameButReplayed
  <2>2. LineAccounted(os, i, m)
    BY <1>4, <1>5, <2>1 DEF Accounted
  <2>3. /\ r[i].lines[m].quantity = os[i].lines[m].quantity
        /\ r[i].lines[m].remaining = os[i].lines[m].remaining
        /\ \A j \in ReversalIds(os, i, m) : r[j].lines[m].quantity = os[j].lines[m].quantity
    BY <1>1, <2>1 DEF SameButReplayed, ReversalIds
  <2> QED BY <1>3, <2>2, <2>3, AccountStays
<1> QED BY <1>5 DEF Accounted, r

\* No operation reverses one that does not exist, so a new number has no reversals yet.
LEMMA ReversesExisting ==
    ASSUME IInv, MInv, NEW j \in DOMAIN ops
    PROVE  ops[j].reversalOf = NoOperation \/ ops[j].reversalOf \in DOMAIN ops
BY DEF MInv, ReversalMirrorsOriginal

\* The number 0 is no operation's.
LEMMA NoOperationIsNone == IInv => NoOperation \notin DOMAIN ops
BY NextIdIsNew DEF NoOperation

\* A movement starts with all of its quantity left to reverse.
LEMMA CreateKeepsAccounts ==
    ASSUME IInv, MInv, Accounted(ops), NEW qs \in RequestLines, NEW request \in RequestIds,
           NEW type \in OperationTypes, NEW at \in Times, NEW source \in Sources,
           NEW mini \in BOOLEAN, create_operation(request, type, at, source, mini, qs)
    PROVE  Accounted(ops')
<1> DEFINE op == NewOperation(type, at, source, mini, NoOperation, request, qs)
           os == AddOperation(ops, NextId, op)
<1>1. ops' = Replayed(os, DOMAIN qs)
  BY DEF create_operation
<1>2. LedgerOK(ops) /\ NextId \notin DOMAIN ops /\ IsFiniteSet(DOMAIN ops)
      /\ NextId # NoOperation /\ NoOperation \notin DOMAIN ops
  BY IInvLedger, NextIdIsNew, NoOperationIsNone DEF IInv, TypeOK, NoOperation
<1>3. qs \in [DOMAIN qs -> Quantities]
  BY RequestLinesShape
<1>4. OperationOK(op) /\ DOMAIN op.lines = DOMAIN qs
  BY <1>3, NewOperationOK, TimesAssumption, SourcesAssumption DEF NoOperation
<1>5. op.reversalOf = NoOperation /\ op.version = 1
      /\ \A m \in DOMAIN qs : op.lines[m].quantity = qs[m] /\ op.lines[m].remaining = qs[m]
  BY DEF NewOperation, NewLine
<1>6. os = AddOperation(ops, NextId, op)
  OBVIOUS
<1> HIDE DEF op, os
<1>7. LedgerOK(os)
  BY <1>2, <1>4, <1>6, AddedShape
<1>8. /\ DOMAIN os = DOMAIN ops \cup {NextId} /\ os[NextId] = op
      /\ \A i \in DOMAIN ops : os[i] = ops[i]
  BY <1>2, <1>6 DEF AddOperation
<1>9. IsFiniteSet(DOMAIN os)
  BY <1>2, <1>8, FS_AddElement
<1>10. ASSUME NEW i \in DOMAIN os, NEW m \in DOMAIN os[i].lines, Unedited(os, i)
       PROVE  LineAccounted(os, i, m)
  <2>1. CASE i = NextId
    <3>1. ReversalIds(os, i, m) = {}
      BY <1>2, <1>5, <1>8, <2>1, ReversesExisting DEF ReversalIds
    <3>2. qs[m] \in Nat
      BY <1>3, <1>4, <1>8, <1>10, <2>1, QuantitiesAssumption
    <3>3. m \in DOMAIN qs
      BY <1>4, <1>8, <1>10, <2>1
    <3> QED BY <1>5, <1>8, <2>1, <3>1, <3>2, <3>3, MovedByNone DEF LineAccounted
  <2>2. CASE i # NextId
    <3>1. i \in DOMAIN ops /\ m \in DOMAIN ops[i].lines /\ os[i] = ops[i]
      BY <1>8, <1>10, <2>2
    <3>2. ReversalIds(os, i, m) = ReversalIds(ops, i, m)
      BY <1>2, <1>5, <1>8, <3>1 DEF ReversalIds
    <3>3. Unedited(ops, i)
      BY <1>8, <1>10, <3>1 DEF Unedited
    <3>4. LineAccounted(ops, i, m)
      BY <3>1, <3>3 DEF Accounted
    <3>5. \A j \in ReversalIds(ops, i, m) : os[j].lines[m].quantity = ops[j].lines[m].quantity
      BY <1>8 DEF ReversalIds
    <3> QED BY <1>2, <3>1, <3>2, <3>4, <3>5, AccountStays
  <2> QED BY <2>1, <2>2
<1>11. Accounted(os)
  BY <1>10 DEF Accounted
<1> QED BY <1>1, <1>7, <1>9, <1>11, ReplayKeepsAccounts

\* Taking a reversal off its original lowers what remains by what is reversed.
LEMMA TakenRemaining ==
    ASSUME NEW os, LedgerOK(os), NEW original \in DOMAIN os,
           NEW ms, NEW qs \in [ms -> Quantities], CanReverse(os[original].lines, qs)
    PROVE  LET r == TakeReversed(os, original, qs)
           IN  /\ \A i \in DOMAIN os : i # original => r[i] = os[i]
               /\ \A m \in DOMAIN os[original].lines :
                    r[original].lines[m].remaining
                      = IF m \in ms THEN os[original].lines[m].remaining - qs[m]
                                    ELSE os[original].lines[m].remaining
<1> DEFINE ls == [n \in DOMAIN os[original].lines |->
                    IF n \in DOMAIN qs
                    THEN [os[original].lines[n] EXCEPT !.remaining = @ - qs[n]]
                    ELSE os[original].lines[n]]
<1>1. TakeReversed(os, original, qs) = [os EXCEPT ![original].lines = ls]
  BY DEF TakeReversed
<1>2. OperationOK(os[original])
  BY DEF LedgerOK
<1>3. ASSUME NEW m \in DOMAIN os[original].lines
      PROVE  ls[m].remaining = IF m \in ms THEN os[original].lines[m].remaining - qs[m]
                                           ELSE os[original].lines[m].remaining
  <2>1. LineOK(os[original].lines[m])
    BY <1>2, <1>3 DEF OperationOK
  <2> QED BY <1>3, <2>1 DEF LineOK
<1> HIDE DEF ls
<1>4. TakeReversed(os, original, qs)[original].lines = ls
  BY <1>1, <1>2 DEF OperationOK, LedgerOK
<1>5. \A i \in DOMAIN os : i # original => TakeReversed(os, original, qs)[i] = os[i]
  BY <1>1 DEF LedgerOK
<1> QED BY <1>3, <1>4, <1>5

\* A reversal takes from its original what it moves itself.
LEMMA ReverseKeepsAccounts ==
    ASSUME IInv, MInv, Accounted(ops), NEW qs \in RequestLines, NEW request \in RequestIds,
           NEW original \in DOMAIN ops, NEW now \in Times,
           reverse_operation(original, request, now, qs)
    PROVE  Accounted(ops')
<1> DEFINE type == OtherType(ops[original].type)
           at == ReversalTime(now, ops[original].at)
           op == NewOperation(type, at, REVERSAL, FALSE, original, request, qs)
           taken == TakeReversed(ops, original, qs)
           os == AddOperation(taken, NextId, op)
<1>1. CanReverse(ops[original].lines, qs) /\ ops' = Replayed(os, DOMAIN qs)
  BY DEF reverse_operation
<1>2. /\ LedgerOK(ops) /\ NextId \notin DOMAIN ops /\ IsFiniteSet(DOMAIN ops)
      /\ DOMAIN ops \subseteq Nat \ {0} /\ NextId # NoOperation /\ NoOperation \notin DOMAIN ops
      /\ qs \in [DOMAIN qs -> Quantities]
  BY IInvLedger, NextIdIsNew, NoOperationIsNone, RequestLinesShape DEF IInv, TypeOK, NoOperation
<1>3. at \in Nat /\ type \in OperationTypes
  <2>1. ops[original].at \in Nat /\ now \in Nat
    BY <1>2, TimesAssumption DEF LedgerOK, OperationOK
  <2>2. at \in Nat
    BY <2>1 DEF ReversalTime
  <2> QED BY <2>2 DEF OtherType, OperationTypes
<1> HIDE DEF type, at
<1>4. OperationOK(op) /\ DOMAIN op.lines = DOMAIN qs
  <2> DEFINE source == REVERSAL
             mini == FALSE
  <2>1. source \in SourceTypes /\ mini \in BOOLEAN /\ original \in Nat
    BY <1>2 DEF SourceTypes
  <2>2. op = NewOperation(type, at, source, mini, original, request, qs)
    OBVIOUS
  <2> HIDE DEF op, source, mini
  <2> QED BY <1>2, <1>3, <2>1, <2>2, NewOperationOK
<1>5. op.reversalOf = original /\ op.version = 1
      /\ \A m \in DOMAIN qs : op.lines[m].quantity = qs[m] /\ op.lines[m].remaining = qs[m]
  BY DEF NewOperation, NewLine
<1>a. taken = TakeReversed(ops, original, qs) /\ os = AddOperation(taken, NextId, op)
  OBVIOUS
<1> HIDE DEF op, taken, os
<1>6. /\ LedgerOK(taken) /\ DOMAIN taken = DOMAIN ops
      /\ \A i \in DOMAIN ops : /\ DOMAIN taken[i].lines = DOMAIN ops[i].lines
                               /\ \A m \in DOMAIN ops[i].lines :
                                     taken[i].lines[m].quantity = ops[i].lines[m].quantity
  BY <1>1, <1>2, <1>a, TakenShape
<1>7. \A i \in DOMAIN ops : SameHead(taken[i], ops[i])
  BY <1>2, <1>a, TakenHeads
<1>8. /\ \A i \in DOMAIN ops : i # original => taken[i] = ops[i]
      /\ \A m \in DOMAIN ops[original].lines :
           taken[original].lines[m].remaining
             = IF m \in DOMAIN qs THEN ops[original].lines[m].remaining - qs[m]
                                  ELSE ops[original].lines[m].remaining
  BY <1>1, <1>2, <1>a, TakenRemaining
<1>9. LedgerOK(os)
  BY <1>4, <1>6, <1>a, AddedShape
<1>10. /\ DOMAIN os = DOMAIN ops \cup {NextId} /\ os[NextId] = op
       /\ \A i \in DOMAIN ops : os[i] = taken[i]
  BY <1>2, <1>6, <1>a DEF AddOperation
<1>11. \A i \in DOMAIN ops : /\ SameHead(os[i], ops[i]) /\ DOMAIN os[i].lines = DOMAIN ops[i].lines
                             /\ \A m \in DOMAIN ops[i].lines :
                                  os[i].lines[m].quantity = ops[i].lines[m].quantity
  BY <1>6, <1>7, <1>10
<1>12. ASSUME NEW i \in DOMAIN os, NEW m \in DOMAIN os[i].lines, Unedited(os, i)
       PROVE  LineAccounted(os, i, m)
  <2>1. CASE i = NextId
    <3>1. ReversalIds(os, i, m) = {}
      BY <1>2, <1>5, <1>10, <1>11, <2>1, ReversesExisting DEF ReversalIds, SameHead
    <3>2. m \in DOMAIN qs
      BY <1>4, <1>10, <1>12, <2>1
    <3>3. qs[m] \in Nat
      BY <1>2, <3>2, QuantitiesAssumption
    <3> QED BY <1>5, <1>10, <2>1, <3>1, <3>2, <3>3, MovedByNone DEF LineAccounted
  <2>2. CASE i # NextId
    <3>1. i \in DOMAIN ops /\ m \in DOMAIN ops[i].lines
      BY <1>10, <1>11, <1>12, <2>2
    <3>2. Unedited(ops, i)
      BY <1>10, <1>11, <1>12, <3>1 DEF Unedited, SameHead
    <3>3. LineAccounted(ops, i, m)
      BY <3>1, <3>2 DEF Accounted
    <3>4. /\ os[i].lines[m].quantity = ops[i].lines[m].quantity
          /\ \A j \in ReversalIds(ops, i, m) :
               os[j].lines[m].quantity = ops[j].lines[m].quantity
      BY <1>11, <3>1 DEF ReversalIds
    <3>5. CASE i = original /\ m \in DOMAIN qs
      <4> DEFINE R == ReversalIds(ops, i, m)
      <4>1. ReversalIds(os, i, m) = R \cup {NextId}
        BY <1>4, <1>5, <1>10, <1>11, <3>5 DEF ReversalIds, SameHead
      <4>2. IsFiniteSet(R) /\ NextId \notin R /\ R \subseteq DOMAIN ops
        BY <1>2, FS_Subset DEF ReversalIds
      <4>3. qs[m] \in Int /\ os[NextId].lines[m].quantity = qs[m]
        BY <1>2, <1>5, <1>10, <3>5, QuantitiesAssumption
      <4>4. \A j \in R : os[j].lines[m].quantity \in Int
        <5> SUFFICES ASSUME NEW j \in R PROVE ops[j].lines[m].quantity \in Int
          BY <3>4
        <5>1. OperationOK(ops[j]) /\ m \in DOMAIN ops[j].lines
          BY <1>2 DEF ReversalIds, LedgerOK
        <5>2. LineOK(ops[j].lines[m])
          BY <5>1 DEF OperationOK
        <5> QED BY <5>2 DEF LineOK
      <4>5. Moved(os, m, R \cup {NextId}) = Moved(os, m, R) + qs[m]
        <5> HIDE DEF R
        <5>1. \A j \in R \cup {NextId} : os[j].lines[m].quantity \in Int
          BY <4>3, <4>4
        <5> QED BY <4>2, <4>3, <5>1, MovedByOneMore
      <4>6. Moved(os, m, R) = Moved(ops, m, R)
        BY <3>4, <4>2, MovedSame
      <4>7. os[i].lines[m].remaining = ops[i].lines[m].remaining - qs[m]
        BY <1>8, <1>10, <3>1, <3>5
      <4>8. LineOK(ops[i].lines[m])
        BY <1>2, <3>1 DEF LedgerOK, OperationOK
      <4>9. ops[i].lines[m].quantity = ops[i].lines[m].remaining + Moved(ops, m, R)
        BY <3>3 DEF LineAccounted
      <4>10. Moved(ops, m, R) \in Int
        <5>1. \A j \in R : ops[j].lines[m].quantity \in Int
          BY <3>4, <4>4
        <5> HIDE DEF R
        <5> QED BY <4>2, <5>1, MovedIsInt
      <4> HIDE DEF R
      <4> QED BY <3>4, <4>1, <4>3, <4>5, <4>6, <4>7, <4>8, <4>9, <4>10 DEF LineAccounted, LineOK
    <3>6. CASE ~(i = original /\ m \in DOMAIN qs)
      <4>1. ReversalIds(os, i, m) = ReversalIds(ops, i, m)
        BY <1>4, <1>5, <1>10, <1>11, <3>6 DEF ReversalIds, SameHead
      <4>2. os[i].lines[m].remaining = ops[i].lines[m].remaining
        BY <1>8, <1>10, <3>1, <3>6
      <4> QED BY <1>2, <3>3, <3>4, <4>1, <4>2, AccountStays
    <3> QED BY <3>5, <3>6
  <2> QED BY <2>1, <2>2
<1>13. Accounted(os)
  BY <1>12 DEF Accounted
<1>14. IsFiniteSet(DOMAIN os)
  BY <1>2, <1>10, FS_AddElement
<1> QED BY <1>1, <1>9, <1>13, <1>14, ReplayKeepsAccounts

\* An edit takes its operation, and what that reverses, out of the account.
LEMMA UpdateKeepsAccounts ==
    ASSUME IInv, MInv, Accounted(ops), NEW id \in DOMAIN ops, NEW qs \in RequestLines,
           NEW version, NEW type \in OperationTypes, NEW at \in Times, NEW source \in Sources,
           update_operation(id, version, type, at, source, qs)
    PROVE  Accounted(ops')
<1> DEFINE op == EditedOperation(ops[id], type, at, source, qs)
           os == [ops EXCEPT ![id] = op]
           affected == DOMAIN ops[id].lines \cup DOMAIN qs
<1>1. ops' = Replayed(os, affected)
  BY DEF update_operation
<1>2. LedgerOK(ops) /\ OperationOK(ops[id]) /\ qs \in [DOMAIN qs -> Quantities]
      /\ IsFiniteSet(DOMAIN ops)
  BY IInvLedger, RequestLinesShape DEF LedgerOK, IInv, TypeOK
<1>3. OperationOK(op)
  BY <1>2, EditedOperationOK, TimesAssumption, SourcesAssumption
<1>4. op.version = ops[id].version + 1 /\ op.reversalOf = ops[id].reversalOf
  BY <1>2, EditedHead
<1>5. ops[id].version \in Nat \ {0}
  BY DEF MInv
<1> HIDE DEF op, affected
<1>6. /\ LedgerOK(os) /\ DOMAIN os = DOMAIN ops /\ os[id] = op
      /\ \A i \in DOMAIN ops : i # id => os[i] = ops[i]
  BY <1>2, <1>3, ReplacedShape
<1> HIDE DEF os
<1>7. ASSUME NEW i \in DOMAIN os, NEW m \in DOMAIN os[i].lines, Unedited(os, i)
      PROVE  LineAccounted(os, i, m)
  <2>1. i # id /\ op.reversalOf # i
    BY <1>4, <1>5, <1>6, <1>7 DEF Unedited
  <2>2. Unedited(ops, i)
    BY <1>4, <1>6, <1>7, <2>1 DEF Unedited
  <2>3. ReversalIds(os, i, m) = ReversalIds(ops, i, m) /\ id \notin ReversalIds(ops, i, m)
    BY <1>4, <1>6, <2>1 DEF ReversalIds
  <2>4. LineAccounted(ops, i, m)
    BY <1>6, <1>7, <2>1, <2>2 DEF Accounted
  <2>5. os[i] = ops[i] /\ \A j \in ReversalIds(ops, i, m) : os[j] = ops[j]
    BY <1>6, <2>1, <2>3 DEF ReversalIds
  <2> QED BY <1>2, <2>3, <2>4, <2>5, AccountStays
<1>8. Accounted(os)
  BY <1>7 DEF Accounted
<1> QED BY <1>1, <1>2, <1>6, <1>8, ReplayKeepsAccounts

\* Every step keeps the account.
LEMMA NextKeepsAccounts == IInv /\ MInv /\ Accounted(ops) /\ [Next]_vars => Accounted(ops')
<1> SUFFICES ASSUME IInv, MInv, Accounted(ops), [Next]_vars PROVE Accounted(ops')
  OBVIOUS
<1>1. CASE UNCHANGED vars
  BY <1>1 DEF vars
<1>2. ASSUME NEW m \in Materials, create_stock_material(m) \/ delete_stock_material(m)
      PROVE  Accounted(ops')
  <2>1. ops' = ops
    BY <1>2 DEF create_stock_material, delete_stock_material
  <2> QED BY <2>1
<1>3. ASSUME NEW qs \in RequestLines, NEW request \in RequestIds, NEW type \in OperationTypes,
             NEW at \in Times, NEW source \in Sources, NEW mini \in BOOLEAN,
             create_operation(request, type, at, source, mini, qs)
      PROVE  Accounted(ops')
  BY <1>3, CreateKeepsAccounts
<1>4. ASSUME NEW qs \in RequestLines, NEW request \in RequestIds, NEW original \in DOMAIN ops,
             NEW now \in Times, reverse_operation(original, request, now, qs)
      PROVE  Accounted(ops')
  BY <1>4, ReverseKeepsAccounts
<1>5. ASSUME NEW id \in DOMAIN ops, NEW qs \in RequestLines, NEW version \in 1..MaxEdits,
             NEW type \in OperationTypes, NEW at \in Times, NEW source \in Sources,
             update_operation(id, version, type, at, source, qs)
      PROVE  Accounted(ops')
  BY <1>5, UpdateKeepsAccounts
<1> QED BY <1>1, <1>2, <1>3, <1>4, <1>5 DEF Next

\* As long as an operation and its reversals are unedited, what was reversed of a line and
\* what is left to reverse make up its quantity: any number of partial reversals
\* (POST /operations/{id}/reverse) undoes a movement once and no more.
THEOREM ReversalsAccounted == Spec => []ReversalsAccountedFor
<1> DEFINE A == Accounted(ops)
<1>1. Init => A
  BY DEF Init, Accounted
<1>2. IInv /\ MInv /\ A /\ [Next]_vars => A'
  BY NextKeepsAccounts
<1>3. A => ReversalsAccountedFor
  BY DEF Accounted, Unedited, LineAccounted, ReversalIds, ReversalsAccountedFor, ReversalsOf, Moved
<1> HIDE DEF A
<1>4. Init => MInv
  BY DEF Init, MInv, ReversalMirrorsOriginal
<1> QED BY <1>1, <1>2, <1>3, <1>4, InitIInv, NextKeepsIInv, NextKeepsMInv, PTL DEF Spec
=============================================================================
