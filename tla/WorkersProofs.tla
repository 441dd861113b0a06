--------------------------- MODULE WorkersProofs ---------------------------
(***************************************************************************)
(* Proofs about the components of Workers, for every set of clients, of    *)
(* batch dates, of exports and of links.                                   *)
(*                                                                         *)
(* Purchase plans: a need is never in two rows, a number names one need,   *)
(* and the plan and record tables implement NeedLifecycle.                 *)
(*                                                                         *)
(* A request changes the tables in one of three ways.  It edits or deletes *)
(* rows (Shrunk), enters a new need (Inserted), or moves needs from one    *)
(* table to the other (RowsMoved); each keeps what the invariant says of   *)
(* the tables, whatever the request.                                       *)
(*                                                                         *)
(* What a request does is decided on rows it read earlier.  SeenOK relates *)
(* them to the tables of now: a line still refers to the plan it referred  *)
(* to or, when that was deleted, to none, and lines that came since are on *)
(* later records.  With the re-read rows that a request checks its         *)
(* versions against, this makes a stale decision either refused or the one *)
(* it would take now.                                                      *)
(*                                                                         *)
(* Exports and share links are in sections of their own at the end.        *)
(***************************************************************************)
EXTENDS Workers, FiniteSetLemmas

-----------------------------------------------------------------------------
(* Purchase plans: the inductive invariant.                                 *)

PlanRows == [need : Nat, no : BatchDates \X Nat, date : BatchDates, version : Int]

LineRows == [need : Nat, plan : Nat, no : BatchDates \X Nat, date : BatchDates, header : Nat]

\* Tables of the right shape, with finitely many rows.
TablesOK(d) ==
    /\ d = [plans |-> d.plans, lines |-> d.lines, headers |-> d.headers]
    /\ d.plans \in [DOMAIN d.plans -> PlanRows]
    /\ d.lines \in [DOMAIN d.lines -> LineRows]
    /\ IsFiniteSet(DOMAIN d.plans)
    /\ IsFiniteSet(DOMAIN d.lines)

\* A line refers to a plan of the table or to none (the foreign key).
RefersOK(d) == \A l \in DOMAIN d.lines : d.lines[l].plan \in DOMAIN d.plans \cup {NoPlan}

\* Ids are given out by the counters c, so that the next ones are unused.
IdsOK(d, c) ==
    /\ DOMAIN d.plans \subseteq 1..c.plan
    /\ DOMAIN d.lines \subseteq 1..c.line
    /\ \A l \in DOMAIN d.lines : d.lines[l].header \in 1..c.header

\* A need has at most one plan and at most one line; the line refers to the plan
\* when there are both, and never to the plan of another need.
OnceOK(d) ==
    /\ \A i, j \in DOMAIN d.plans : d.plans[i].need = d.plans[j].need => i = j
    /\ \A l, k \in DOMAIN d.lines : d.lines[l].need = d.lines[k].need => l = k
    /\ \A l \in DOMAIN d.lines, i \in DOMAIN d.plans :
          d.lines[l].need = d.plans[i].need <=> d.lines[l].plan = i

\* Rows with one number are of one need.
NosOK(d) ==
    /\ \A i, j \in DOMAIN d.plans : d.plans[i].no = d.plans[j].no => d.plans[i].need = d.plans[j].need
    /\ \A l, k \in DOMAIN d.lines : d.lines[l].no = d.lines[k].no => d.lines[l].need = d.lines[k].need
    /\ \A l \in DOMAIN d.lines, i \in DOMAIN d.plans :
          d.lines[l].no = d.plans[i].no => d.lines[l].need = d.plans[i].need

DbOK(d, c) == TablesOK(d) /\ RefersOK(d) /\ IdsOK(d, c) /\ OnceOK(d) /\ NosOK(d)

\* What the tables d still have of the lines of an earlier state s of them: a line
\* is on its record and refers to its plan or, when the plan was deleted, to none;
\* and the records of later lines are later records.
SeenOK(s, d, c) ==
    /\ TablesOK(s)
    /\ RefersOK(s)
    /\ IdsOK(s, c)
    /\ \A l \in DOMAIN d.lines \cap DOMAIN s.lines :
          /\ d.lines[l].plan \in {s.lines[l].plan, NoPlan}
          /\ d.lines[l].header = s.lines[l].header
    /\ \A l \in DOMAIN d.lines \ DOMAIN s.lines, k \in DOMAIN s.lines :
          d.lines[l].header # s.lines[k].header

PlanNeeds(d) == {d.plans[i].need : i \in DOMAIN d.plans}
LineNeeds(d) == {d.lines[l].need : l \in DOMAIN d.lines}

CountersOK ==
    /\ last \in [plan : Nat, line : Nat, header : Nat]
    /\ entered \in 0..MaxNeeds
    /\ deleted \subseteq 1..entered

SnapsOK ==
    /\ snap = [r \in Requests |-> snap[r]]
    /\ \A r \in Requests : snap[r] = Idle \/ SeenOK(snap[r], db, last)

PInv ==
    /\ CountersOK
    /\ DbOK(db, last)
    /\ PlanNeeds(db) \cup LineNeeds(db) = 1..entered \ deleted
    /\ SnapsOK

-----------------------------------------------------------------------------
(* Numbers.                                                                 *)

\* The values of a function with a finite domain are finitely many.
LEMMA FiniteRange ==
    ASSUME NEW f, IsFiniteSet(DOMAIN f) PROVE IsFiniteSet({f[x] : x \in DOMAIN f})
<1> DEFINE T == {f[x] : x \in DOMAIN f}
           g == [x \in DOMAIN f |-> f[x]]
<1>1. g \in Surjection(DOMAIN f, T)
  BY DEF Surjection, Range
<1> QED BY <1>1, FS_Surjection

\* NextIndex is a number above those of the day that a plan or a line carries.
LEMMA NextIndexIsNew ==
    ASSUME NEW d, TablesOK(d), NEW day
    PROVE  /\ NextIndex(d, day) \in Nat
           /\ \A n \in Nat : n >= NextIndex(d, day) => <<day, n>> \notin PlanNos(d) \cup LineNos(d)
<1> DEFINE nos == PlanNos(d) \cup LineNos(d)
           ofDay == {no[2] : no \in {n \in nos : n[1] = day}}
           pn == [i \in DOMAIN d.plans |-> d.plans[i].no[2]]
           ln == [l \in DOMAIN d.lines |-> d.lines[l].no[2]]
           P == {pn[i] : i \in DOMAIN pn}
           L == {ln[l] : l \in DOMAIN ln}
<1>1. /\ \A i \in DOMAIN d.plans : d.plans[i].no \in BatchDates \X Nat
      /\ \A l \in DOMAIN d.lines : d.lines[l].no \in BatchDates \X Nat
  BY DEF TablesOK, PlanRows, LineRows
<1>2. IsFiniteSet(P) /\ IsFiniteSet(L)
  BY FiniteRange DEF TablesOK
<1>3. ofDay \subseteq P \cup L
  BY DEF PlanNos, LineNos
<1>4. ofDay \subseteq Nat
  BY <1>1 DEF PlanNos, LineNos
<1> HIDE DEF ofDay, P, L
<1>5. IsFiniteSet(ofDay)
  <2>1. IsFiniteSet(P \cup L)
    BY <1>2, FS_Union
  <2> QED BY <1>3, <2>1, FS_Subset
<1> DEFINE all == ofDay \cup {0}
<1>6. Max(all) \in all /\ \A y \in all : Max(all) >= y
  <2>1. IsFiniteSet(all) /\ all \subseteq Int /\ all # {}
    BY <1>4, <1>5, FS_AddElement
  <2> HIDE DEF all
  <2> QED BY <2>1, MaxIsLargest
<1>7. NextIndex(d, day) = Max(all) + 1
  BY DEF NextIndex, ofDay
<1>8. Max(all) \in Nat
  <2>1. all \subseteq Nat
    BY <1>4
  <2> HIDE DEF all
  <2> QED BY <1>6, <2>1
<1>9. ASSUME NEW n \in Nat, n >= NextIndex(d, day), <<day, n>> \in nos PROVE FALSE
  <2>1. n \in all
    BY <1>9 DEF ofDay
  <2> HIDE DEF all
  <2>2. Max(all) >= n
    BY <1>6, <2>1
  <2> QED BY <1>7, <1>8, <1>9, <2>2
<1> HIDE DEF all
<1>10. NextIndex(d, day) \in Nat
  BY <1>7, <1>8
<1> QED BY <1>9, <1>10

\* A numbering gives the rows different numbers that no plan or line carries.
LEMMA NumberingsAreNew ==
    ASSUME NEW d, TablesOK(d), NEW day, NEW rows, IsFiniteSet(rows), NEW f \in Numberings(d, day, rows)
    PROVE  /\ f \in [rows -> Nat]
           /\ \A i, j \in rows : f[i] = f[j] => i = j
           /\ \A i \in rows : <<day, f[i]>> \notin PlanNos(d) \cup LineNos(d)
<1> DEFINE first == NextIndex(d, day)
           past == first + Cardinality(rows) - 1
<1>1. f \in Bijection(rows, first..past)
  BY DEF Numberings
<1>2. first \in Nat /\ past \in Int
  BY NextIndexIsNew, FS_CardinalityType
<1>3. f \in [rows -> first..past] /\ \A i, j \in rows : f[i] = f[j] => i = j
  BY <1>1 DEF Bijection, Injection, IsInjective
<1>4. \A i \in rows : f[i] \in Nat /\ f[i] >= first
  <2> HIDE DEF first, past
  <2> QED BY <1>2, <1>3
<1> QED BY <1>3, <1>4, NextIndexIsNew

-----------------------------------------------------------------------------
(* What changes of the tables preserve.                                     *)

\* The tables e are the tables d with rows edited and deleted: rows keep their
\* needs and their records, a line whose plan is gone refers to none, and rows
\* that have one number now had one number before.
Shrunk(d, e) ==
    /\ TablesOK(e)
    /\ DOMAIN e.plans \subseteq DOMAIN d.plans
    /\ DOMAIN e.lines \subseteq DOMAIN d.lines
    /\ \A i \in DOMAIN e.plans : e.plans[i].need = d.plans[i].need
    /\ \A l \in DOMAIN e.lines :
          /\ e.lines[l].need = d.lines[l].need
          /\ e.lines[l].header = d.lines[l].header
          /\ e.lines[l].plan = IF d.lines[l].plan \in DOMAIN e.plans THEN d.lines[l].plan ELSE NoPlan
    /\ \A i, j \in DOMAIN e.plans :
          e.plans[i].no = e.plans[j].no => i = j \/ d.plans[i].no = d.plans[j].no
    /\ \A l, k \in DOMAIN e.lines :
          e.lines[l].no = e.lines[k].no => l = k \/ d.lines[l].no = d.lines[k].no
    /\ \A l \in DOMAIN e.lines, i \in DOMAIN e.plans :
          e.lines[l].no = e.plans[i].no => d.lines[l].no = d.plans[i].no

Counters == [plan : Nat, line : Nat, header : Nat]

\* Editing and deleting rows keeps the invariant of the tables.
LEMMA ShrunkOK ==
    ASSUME NEW d, NEW e, NEW c \in Counters, DbOK(d, c), Shrunk(d, e)
    PROVE  DbOK(e, c) /\ \A s : SeenOK(s, d, c) => SeenOK(s, e, c)
<1>1. RefersOK(e)
  BY DEF RefersOK, Shrunk
<1>2. IdsOK(e, c)
  BY DEF IdsOK, Shrunk, DbOK
<1>3. OnceOK(e)
  <2>1. \A i, j \in DOMAIN e.plans : e.plans[i].need = e.plans[j].need => i = j
    BY DEF DbOK, OnceOK, Shrunk
  <2>2. \A l, k \in DOMAIN e.lines : e.lines[l].need = e.lines[k].need => l = k
    BY DEF DbOK, OnceOK, Shrunk
  <2>3. ASSUME NEW l \in DOMAIN e.lines, NEW i \in DOMAIN e.plans
        PROVE  e.lines[l].need = e.plans[i].need <=> e.lines[l].plan = i
    <3>1. l \in DOMAIN d.lines /\ i \in DOMAIN d.plans /\ i # NoPlan
      BY DEF DbOK, IdsOK, Shrunk, Counters, NoPlan
    <3>2. e.lines[l].need = d.lines[l].need /\ e.plans[i].need = d.plans[i].need
      BY DEF Shrunk
    <3>3. d.lines[l].need = d.plans[i].need <=> d.lines[l].plan = i
      BY <3>1 DEF DbOK, OnceOK
    <3>4. e.lines[l].plan = i <=> d.lines[l].plan = i
      BY <3>1 DEF Shrunk
    <3> QED BY <3>2, <3>3, <3>4
  <2> QED BY <2>1, <2>2, <2>3 DEF OnceOK
<1>4. NosOK(e)
  <2>1. \A i, j \in DOMAIN e.plans : e.plans[i].no = e.plans[j].no => e.plans[i].need = e.plans[j].need
    BY DEF DbOK, NosOK, Shrunk
  <2>2. \A l, k \in DOMAIN e.lines : e.lines[l].no = e.lines[k].no => e.lines[l].need = e.lines[k].need
    BY DEF DbOK, NosOK, Shrunk
  <2>3. \A l \in DOMAIN e.lines, i \in DOMAIN e.plans :
            e.lines[l].no = e.plans[i].no => e.lines[l].need = e.plans[i].need
    BY DEF DbOK, NosOK, Shrunk
  <2> QED BY <2>1, <2>2, <2>3 DEF NosOK
<1>5. ASSUME NEW s, SeenOK(s, d, c) PROVE SeenOK(s, e, c)
  <2>1. \A l \in DOMAIN e.lines \cap DOMAIN s.lines :
            /\ e.lines[l].plan \in {s.lines[l].plan, NoPlan}
            /\ e.lines[l].header = s.lines[l].header
    BY <1>5 DEF SeenOK, Shrunk
  <2>2. \A l \in DOMAIN e.lines \ DOMAIN s.lines, k \in DOMAIN s.lines :
            e.lines[l].header # s.lines[k].header
    BY <1>5 DEF SeenOK, Shrunk
  <2> QED BY <1>5, <2>1, <2>2 DEF SeenOK
<1> QED BY <1>1, <1>2, <1>3, <1>4, <1>5 DEF DbOK, Shrunk

\* A new plan with the next id, for a need that has no row and under a number that
\* no row carries.
LEMMA InsertedOK ==
    ASSUME NEW d, NEW c \in Counters, DbOK(d, c), NEW p \in PlanRows,
           p.need \notin PlanNeeds(d) \cup LineNeeds(d), p.no \notin PlanNos(d) \cup LineNos(d),
           NEW new, new = [i \in {c.plan + 1} |-> p],
           NEW e, e = [d EXCEPT !.plans = WithRows(@, new)],
           NEW b, b = [c EXCEPT !.plan = @ + 1]
    PROVE  /\ b \in Counters
           /\ DbOK(e, b)
           /\ \A s : SeenOK(s, d, c) => SeenOK(s, e, b)
           /\ PlanNeeds(e) = PlanNeeds(d) \cup {p.need}
           /\ LineNeeds(e) = LineNeeds(d)
<1> DEFINE id == c.plan + 1
<1>1. b = [plan |-> c.plan + 1, line |-> c.line, header |-> c.header] /\ b \in Counters
  BY DEF Counters
<1>2. e = [plans |-> WithRows(d.plans, new), lines |-> d.lines, headers |-> d.headers]
  BY DEF DbOK, TablesOK
<1>3. /\ e.lines = d.lines
      /\ DOMAIN e.plans = DOMAIN d.plans \cup {id}
      /\ e.plans = [i \in DOMAIN d.plans \cup {id} |-> IF i = id THEN p ELSE d.plans[i]]
  BY <1>2 DEF WithRows
<1>4. id \in Nat /\ id # NoPlan /\ id \notin DOMAIN d.plans /\ \A i \in DOMAIN d.plans : i \in 1..c.plan
  BY DEF DbOK, IdsOK, Counters, NoPlan
<1>5. e.plans[id] = p /\ \A i \in DOMAIN d.plans : e.plans[i] = d.plans[i]
  BY <1>3, <1>4
<1>6. TablesOK(e)
  <2>1. e.plans \in [DOMAIN e.plans -> PlanRows]
    BY <1>3 DEF DbOK, TablesOK
  <2>2. IsFiniteSet(DOMAIN e.plans)
    BY <1>3, FS_AddElement DEF DbOK, TablesOK
  <2> QED BY <1>2, <1>3, <2>1, <2>2 DEF DbOK, TablesOK
<1>7. RefersOK(e)
  BY <1>3 DEF DbOK, RefersOK
<1>8. IdsOK(e, b)
  BY <1>1, <1>3, <1>4 DEF DbOK, IdsOK, Counters
<1>9. /\ \A i \in DOMAIN d.plans : d.plans[i].need # p.need /\ d.plans[i].no # p.no
      /\ \A l \in DOMAIN d.lines : d.lines[l].need # p.need /\ d.lines[l].no # p.no
  BY DEF PlanNeeds, LineNeeds, PlanNos, LineNos
<1>10. \A l \in DOMAIN d.lines : d.lines[l].plan # id
  BY <1>4 DEF DbOK, RefersOK
<1> HIDE DEF id
<1>11. OnceOK(e)
  <2>1. \A i, j \in DOMAIN e.plans : e.plans[i].need = e.plans[j].need => i = j
    BY <1>3, <1>5, <1>9 DEF DbOK, OnceOK
  <2>2. \A l \in DOMAIN e.lines, i \in DOMAIN e.plans :
            e.lines[l].need = e.plans[i].need <=> e.lines[l].plan = i
    BY <1>3, <1>5, <1>9, <1>10 DEF DbOK, OnceOK
  <2> QED BY <1>3, <2>1, <2>2 DEF DbOK, OnceOK
<1>12. NosOK(e)
  <2>1. \A i, j \in DOMAIN e.plans : e.plans[i].no = e.plans[j].no => e.plans[i].need = e.plans[j].need
    BY <1>3, <1>5, <1>9 DEF DbOK, NosOK
  <2>2. \A l \in DOMAIN e.lines, i \in DOMAIN e.plans :
            e.lines[l].no = e.plans[i].no => e.lines[l].need = e.plans[i].need
    BY <1>3, <1>5, <1>9 DEF DbOK, NosOK
  <2> QED BY <1>3, <2>1, <2>2 DEF DbOK, NosOK
<1>13. ASSUME NEW s, SeenOK(s, d, c) PROVE SeenOK(s, e, b)
  <2>1. IdsOK(s, b)
    BY <1>1, <1>13 DEF SeenOK, IdsOK, Counters
  <2> QED BY <1>3, <1>13, <2>1 DEF SeenOK
<1>14. PlanNeeds(e) = PlanNeeds(d) \cup {p.need} /\ LineNeeds(e) = LineNeeds(d)
  BY <1>3, <1>5 DEF PlanNeeds, LineNeeds
<1> QED BY <1>1, <1>6, <1>7, <1>8, <1>11, <1>12, <1>13, <1>14 DEF DbOK

\* The tables e are the tables d with lines put on a new record h: line l, not yet
\* in use, is that of the plan of[l], and each plan of is gets one.
RowsMoved(d, e, is, of, h) ==
    /\ of \in [DOMAIN of -> is]
    /\ \A l, k \in DOMAIN of : of[l] = of[k] => l = k
    /\ \A i \in is : \E l \in DOMAIN of : of[l] = i
    /\ TablesOK(e)
    /\ e.plans = d.plans
    /\ DOMAIN e.lines = DOMAIN d.lines \cup DOMAIN of
    /\ \A l \in DOMAIN d.lines : l \notin DOMAIN of /\ e.lines[l] = d.lines[l]
    /\ \A l \in DOMAIN of : /\ e.lines[l].need = d.plans[of[l]].need
                            /\ e.lines[l].no = d.plans[of[l]].no
                            /\ e.lines[l].plan = of[l]
                            /\ e.lines[l].header = h

\* Plans no line refers to get lines with the next ids, on a new record.
LEMMA MovedOK ==
    ASSUME NEW d, NEW c \in Counters, DbOK(d, c), NEW is, is \subseteq DOMAIN d.plans,
           \A i \in is : LinesOfPlan(d, i) = {},
           NEW b \in Counters, b.plan = c.plan, b.line >= c.line, b.header = c.header + 1,
           NEW of, \A l \in DOMAIN of : l \in Int /\ l > c.line /\ l <= b.line,
           NEW e, RowsMoved(d, e, is, of, b.header)
    PROVE  /\ DbOK(e, b)
           /\ \A s : SeenOK(s, d, c) => SeenOK(s, e, b)
           /\ PlanNeeds(e) = PlanNeeds(d)
           /\ LineNeeds(e) = LineNeeds(d) \cup {d.plans[i].need : i \in is}
           /\ LineNeeds(d) \cap {d.plans[i].need : i \in is} = {}
<1> DEFINE new == DOMAIN of
           ns == {d.plans[i].need : i \in is}
<1>1. /\ e.plans = d.plans
      /\ DOMAIN e.lines = DOMAIN d.lines \cup new
      /\ \A l \in DOMAIN d.lines : e.lines[l] = d.lines[l]
  BY DEF RowsMoved
<1>2. \A l \in new : /\ of[l] \in is /\ of[l] \in DOMAIN d.plans
                     /\ e.lines[l].need = d.plans[of[l]].need
                     /\ e.lines[l].no = d.plans[of[l]].no
                     /\ e.lines[l].plan = of[l]
                     /\ e.lines[l].header = b.header
  BY DEF RowsMoved
<1>3. \A l, k \in new : of[l] = of[k] => l = k
  BY DEF RowsMoved
<1>4. c.plan \in Nat /\ c.line \in Nat /\ c.header \in Nat /\ b.line \in Nat /\ b.header \in Nat
  BY DEF Counters
<1>5. \A i \in is, l \in DOMAIN d.lines : d.lines[l].plan # i /\ d.lines[l].need # d.plans[i].need
  BY DEF LinesOfPlan, DbOK, OnceOK
<1>6. \A l \in new : l \in 1..b.line /\ l \notin 1..c.line
  BY <1>4
<1> HIDE DEF new, ns
<1>7. RefersOK(e)
  BY <1>1, <1>2 DEF DbOK, RefersOK
<1>8. IdsOK(e, b)
  <2>1. DOMAIN e.plans \subseteq 1..b.plan
    BY <1>1 DEF DbOK, IdsOK
  <2>2. \A l \in DOMAIN d.lines : l \in 1..b.line
    BY <1>4 DEF DbOK, IdsOK
  <2>3. DOMAIN e.lines \subseteq 1..b.line
    BY <1>1, <1>6, <2>2
  <2>4. \A l \in DOMAIN d.lines : e.lines[l].header \in 1..b.header
    BY <1>1, <1>4 DEF DbOK, IdsOK
  <2>5. \A l \in new : e.lines[l].header \in 1..b.header
    BY <1>2, <1>4
  <2> QED BY <1>1, <2>1, <2>3, <2>4, <2>5 DEF IdsOK
<1>9. OnceOK(e)
  <2>1. \A l, k \in new : e.lines[l].need = e.lines[k].need => l = k
    BY <1>2, <1>3 DEF DbOK, OnceOK
  <2>2. \A l \in new, k \in DOMAIN d.lines : e.lines[l].need # e.lines[k].need
    BY <1>1, <1>2, <1>5
  <2>3. \A l, k \in DOMAIN d.lines : e.lines[l].need = e.lines[k].need => l = k
    BY <1>1 DEF DbOK, OnceOK
  <2>4. \A l, k \in DOMAIN e.lines : e.lines[l].need = e.lines[k].need => l = k
    BY <1>1, <2>1, <2>2, <2>3
  <2>5. \A l \in new, i \in DOMAIN d.plans : e.lines[l].need = d.plans[i].need <=> e.lines[l].plan = i
    BY <1>2 DEF DbOK, OnceOK
  <2>6. \A l \in DOMAIN d.lines, i \in DOMAIN d.plans :
            e.lines[l].need = d.plans[i].need <=> e.lines[l].plan = i
    BY <1>1 DEF DbOK, OnceOK
  <2>7. \A l \in DOMAIN e.lines, i \in DOMAIN e.plans :
            e.lines[l].need = e.plans[i].need <=> e.lines[l].plan = i
    BY <1>1, <2>5, <2>6
  <2>8. \A i, j \in DOMAIN e.plans : e.plans[i].need = e.plans[j].need => i = j
    BY <1>1 DEF DbOK, OnceOK
  <2> QED BY <2>4, <2>7, <2>8 DEF OnceOK
<1>10. NosOK(e)
  <2>1. \A l \in new, i \in DOMAIN d.plans :
            e.lines[l].no = d.plans[i].no => e.lines[l].need = d.plans[i].need
    BY <1>2 DEF DbOK, NosOK
  <2>2. \A l \in DOMAIN d.lines, i \in DOMAIN d.plans :
            e.lines[l].no = d.plans[i].no => e.lines[l].need = d.plans[i].need
    BY <1>1 DEF DbOK, NosOK
  <2>3. \A l, k \in new : e.lines[l].no = e.lines[k].no => e.lines[l].need = e.lines[k].need
    BY <1>2 DEF DbOK, NosOK
  <2>4. \A l \in new, k \in DOMAIN d.lines :
            e.lines[l].no = e.lines[k].no => e.lines[l].need = e.lines[k].need
    BY <1>1, <1>2 DEF DbOK, NosOK
  <2>5. \A l, k \in DOMAIN d.lines : e.lines[l].no = e.lines[k].no => e.lines[l].need = e.lines[k].need
    BY <1>1 DEF DbOK, NosOK
  <2>6. \A l, k \in DOMAIN e.lines : e.lines[l].no = e.lines[k].no => e.lines[l].need = e.lines[k].need
    BY <1>1, <2>3, <2>4, <2>5
  <2>7. \A l \in DOMAIN e.lines, i \in DOMAIN e.plans :
            e.lines[l].no = e.plans[i].no => e.lines[l].need = e.plans[i].need
    BY <1>1, <2>1, <2>2
  <2>8. \A i, j \in DOMAIN e.plans : e.plans[i].no = e.plans[j].no => e.plans[i].need = e.plans[j].need
    BY <1>1 DEF DbOK, NosOK
  <2> QED BY <2>6, <2>7, <2>8 DEF NosOK
<1>11. ASSUME NEW s, SeenOK(s, d, c) PROVE SeenOK(s, e, b)
  <2>1. \A l \in DOMAIN s.lines : l \in 1..c.line /\ s.lines[l].header \in 1..c.header
    BY <1>11 DEF SeenOK, IdsOK
  <2>2. DOMAIN s.plans \subseteq 1..c.plan
    BY <1>11 DEF SeenOK, IdsOK
  <2>3. IdsOK(s, b)
    <3>1. \A l \in DOMAIN s.lines : l \in 1..b.line /\ s.lines[l].header \in 1..b.header
      BY <1>4, <2>1
    <3> QED BY <2>2, <3>1 DEF IdsOK
  <2>4. \A l \in new : l \notin DOMAIN s.lines
    BY <1>6, <2>1
  <2>5. \A l \in DOMAIN e.lines \cap DOMAIN s.lines :
            /\ e.lines[l].plan \in {s.lines[l].plan, NoPlan}
            /\ e.lines[l].header = s.lines[l].header
    BY <1>1, <1>11, <2>4 DEF SeenOK
  <2>6. \A k \in DOMAIN s.lines : s.lines[k].header # b.header
    BY <1>4, <2>1
  <2>7. \A l \in DOMAIN e.lines \ DOMAIN s.lines, k \in DOMAIN s.lines :
            e.lines[l].header # s.lines[k].header
    BY <1>1, <1>2, <1>11, <2>6 DEF SeenOK
  <2> QED BY <1>11, <2>3, <2>5, <2>7 DEF SeenOK
<1>12. LineNeeds(e) = LineNeeds(d) \cup ns
  <2>1. ASSUME NEW l \in DOMAIN e.lines PROVE e.lines[l].need \in LineNeeds(d) \cup ns
    <3>1. CASE l \in DOMAIN d.lines
      BY <1>1, <3>1 DEF LineNeeds
    <3>2. CASE l \in new
      BY <1>2, <3>2 DEF ns
    <3> QED BY <1>1, <3>1, <3>2
  <2>2. LineNeeds(d) \subseteq LineNeeds(e)
    BY <1>1 DEF LineNeeds
  <2>3. ASSUME NEW i \in is PROVE d.plans[i].need \in LineNeeds(e)
    <3>1. PICK l \in new : of[l] = i
      BY DEF RowsMoved, new
    <3> QED BY <1>1, <1>2, <3>1 DEF LineNeeds
  <2>4. ns \subseteq LineNeeds(e)
    BY <2>3 DEF ns
  <2>5. LineNeeds(e) \subseteq LineNeeds(d) \cup ns
    BY <2>1 DEF LineNeeds
  <2> QED BY <2>2, <2>4, <2>5
<1>13. LineNeeds(d) \cap ns = {}
  BY <1>5 DEF LineNeeds, ns
<1>14. PlanNeeds(e) = PlanNeeds(d)
  BY <1>1 DEF PlanNeeds
<1>15. TablesOK(e)
  BY DEF RowsMoved
<1> QED BY <1>7, <1>8, <1>9, <1>10, <1>11, <1>12, <1>13, <1>14, <1>15 DEF DbOK, ns

\* Editing plans: they keep their needs, and a number changes to one of no other row.
LEMMA PlansEdited ==
    ASSUME NEW d, NEW c \in Counters, DbOK(d, c), NEW rows \in [DOMAIN d.plans -> PlanRows],
           \A i \in DOMAIN d.plans : rows[i].need = d.plans[i].need,
           \A i, j \in DOMAIN d.plans : rows[i].no = rows[j].no => i = j \/ d.plans[i].no = d.plans[j].no,
           \A i \in DOMAIN d.plans, l \in DOMAIN d.lines :
               d.lines[l].no = rows[i].no => d.lines[l].no = d.plans[i].no,
           NEW e, e = [d EXCEPT !.plans = rows]
    PROVE  Shrunk(d, e) /\ PlanNeeds(e) = PlanNeeds(d) /\ LineNeeds(e) = LineNeeds(d)
<1>1. e = [plans |-> rows, lines |-> d.lines, headers |-> d.headers]
  BY DEF DbOK, TablesOK
<1>2. e.plans = rows /\ e.lines = d.lines /\ DOMAIN rows = DOMAIN d.plans
  BY <1>1
<1>3. TablesOK(e)
  BY <1>1, <1>2 DEF DbOK, TablesOK
<1>4. \A l \in DOMAIN d.lines : d.lines[l].plan \in DOMAIN d.plans \cup {NoPlan}
  BY DEF DbOK, RefersOK
<1>5. Shrunk(d, e)
  BY <1>2, <1>3, <1>4 DEF Shrunk
<1>6. PlanNeeds(e) = PlanNeeds(d) /\ LineNeeds(e) = LineNeeds(d)
  BY <1>2 DEF PlanNeeds, LineNeeds
<1> QED BY <1>5, <1>6

\* Editing lines likewise.
LEMMA LinesEdited ==
    ASSUME NEW d, NEW c \in Counters, DbOK(d, c), NEW rows \in [DOMAIN d.lines -> LineRows],
           \A l \in DOMAIN d.lines : /\ rows[l].need = d.lines[l].need
                                     /\ rows[l].header = d.lines[l].header
                                     /\ rows[l].plan = d.lines[l].plan,
           \A l, k \in DOMAIN d.lines : rows[l].no = rows[k].no => l = k \/ d.lines[l].no = d.lines[k].no,
           \A i \in DOMAIN d.plans, l \in DOMAIN d.lines :
               rows[l].no = d.plans[i].no => d.lines[l].no = d.plans[i].no,
           NEW e, e = [d EXCEPT !.lines = rows]
    PROVE  Shrunk(d, e) /\ PlanNeeds(e) = PlanNeeds(d) /\ LineNeeds(e) = LineNeeds(d)
<1>1. e = [plans |-> d.plans, lines |-> rows, headers |-> d.headers]
  BY DEF DbOK, TablesOK
<1>2. e.plans = d.plans /\ e.lines = rows /\ DOMAIN rows = DOMAIN d.lines
  BY <1>1
<1>3. TablesOK(e)
  BY <1>1, <1>2 DEF DbOK, TablesOK
<1>4. \A l \in DOMAIN d.lines : d.lines[l].plan \in DOMAIN d.plans \cup {NoPlan}
  BY DEF DbOK, RefersOK
<1>5. Shrunk(d, e)
  BY <1>2, <1>3, <1>4 DEF Shrunk
<1>6. PlanNeeds(e) = PlanNeeds(d) /\ LineNeeds(e) = LineNeeds(d)
  BY <1>2 DEF PlanNeeds, LineNeeds
<1> QED BY <1>5, <1>6

\* Numbers f of a day for moving rows make no two rows of old numbers alike.
LEMMA NumbersStayApart ==
    ASSUME NEW rows, NEW moving, NEW day, NEW f, NEW old, NEW new,
           \A i, j \in moving : f[i] = f[j] => i = j,
           \A i \in moving : new[i] = <<day, f[i]>> /\ \A j \in rows : new[i] # old[j],
           \A i \in rows \ moving : new[i] = old[i]
    PROVE  \A i, j \in rows : new[i] = new[j] => i = j \/ old[i] = old[j]
<1> SUFFICES ASSUME NEW i \in rows, NEW j \in rows, new[i] = new[j] PROVE i = j \/ old[i] = old[j]
  OBVIOUS
<1>1. CASE i \in moving /\ j \in moving
  <2>1. new[i] = <<day, f[i]>> /\ new[j] = <<day, f[j]>>
    BY <1>1
  <2>2. <<day, f[i]>>[2] = <<day, f[j]>>[2]
    BY <2>1
  <2>3. f[i] = f[j]
    BY <2>2
  <2> QED BY <1>1, <2>3
<1>2. CASE i \in moving /\ j \notin moving
  BY <1>2
<1>3. CASE i \notin moving /\ j \in moving
  BY <1>3
<1>4. CASE i \notin moving /\ j \notin moving
  BY <1>4
<1> QED BY <1>1, <1>2, <1>3, <1>4

\* Renumbering plans after an edit of other columns.
LEMMA PlansRenumbered ==
    ASSUME NEW d, NEW c \in Counters, DbOK(d, c), NEW rows \in [DOMAIN d.plans -> PlanRows],
           \A i \in DOMAIN d.plans : rows[i].need = d.plans[i].need /\ rows[i].no = d.plans[i].no,
           NEW day \in BatchDates, NEW moving, moving \subseteq DOMAIN d.plans,
           NEW f \in Numberings(d, day, moving),
           NEW e, e = [d EXCEPT !.plans = Renumbered(rows, day, f)]
    PROVE  Shrunk(d, e) /\ PlanNeeds(e) = PlanNeeds(d) /\ LineNeeds(e) = LineNeeds(d)
<1> DEFINE new == Renumbered(rows, day, f)
<1>1. TablesOK(d) /\ IsFiniteSet(moving)
  BY FS_Subset DEF DbOK, TablesOK
<1>2. /\ f \in [moving -> Nat]
      /\ \A i, j \in moving : f[i] = f[j] => i = j
      /\ \A i \in moving : <<day, f[i]>> \notin PlanNos(d) \cup LineNos(d)
  BY <1>1, NumberingsAreNew
<1>3. \A i \in moving : new[i] \in PlanRows /\ new[i].need = d.plans[i].need /\ new[i].no = <<day, f[i]>>
  <2>1. ASSUME NEW i \in moving
        PROVE  new[i] \in PlanRows /\ new[i].need = d.plans[i].need /\ new[i].no = <<day, f[i]>>
    <3>1. new[i] = [rows[i] EXCEPT !.no = <<day, f[i]>>, !.date = day]
      BY <1>2 DEF Renumbered
    <3>2. <<day, f[i]>> \in BatchDates \X Nat /\ rows[i] \in PlanRows
      BY <1>2
    <3>3. PICK no \in BatchDates \X Nat : no = <<day, f[i]>>
      BY <3>2
    <3>4. PICK q : q = new[i]
      OBVIOUS
    <3>5. PICK p \in PlanRows : p = rows[i]
      BY <3>2
    <3>6. q = [p EXCEPT !.no = no, !.date = day]
      BY <3>1, <3>3, <3>4, <3>5
    <3>7. q \in PlanRows /\ q.need = p.need /\ q.no = no
      <4>1. q = [need |-> p.need, no |-> no, date |-> day, version |-> p.version]
        BY <3>6 DEF PlanRows
      <4> QED BY <4>1 DEF PlanRows
    <3> QED BY <3>3, <3>4, <3>5, <3>7
  <2> QED BY <2>1
<1>4. DOMAIN new = DOMAIN d.plans /\ \A i \in DOMAIN d.plans \ moving : new[i] = rows[i]
  BY <1>2 DEF Renumbered
<1>5. new = [i \in DOMAIN d.plans |-> new[i]]
  BY DEF Renumbered
<1> HIDE DEF new
<1>6. new \in [DOMAIN d.plans -> PlanRows]
  BY <1>3, <1>4, <1>5
<1>7. \A i \in DOMAIN d.plans : new[i].need = d.plans[i].need
  BY <1>3, <1>4
<1>8. \A i \in DOMAIN d.plans : d.plans[i].no \in PlanNos(d)
  BY DEF PlanNos
<1>9. \A l \in DOMAIN d.lines : d.lines[l].no \in LineNos(d)
  BY DEF LineNos
<1> DEFINE oldNos == [i \in DOMAIN d.plans |-> d.plans[i].no]
           newNos == [i \in DOMAIN d.plans |-> new[i].no]
<1>10. \A i, j \in DOMAIN d.plans : new[i].no = new[j].no => i = j \/ d.plans[i].no = d.plans[j].no
  <2>1. \A i \in moving : newNos[i] = <<day, f[i]>> /\ \A j \in DOMAIN d.plans : newNos[i] # oldNos[j]
    BY <1>2, <1>3, <1>8
  <2>2. \A i \in DOMAIN d.plans \ moving : newNos[i] = oldNos[i]
    BY <1>4
  <2>3. /\ \A i \in DOMAIN d.plans : newNos[i] = new[i].no
        /\ \A i \in DOMAIN d.plans : oldNos[i] = d.plans[i].no
    OBVIOUS
  <2> HIDE DEF oldNos, newNos
  <2>4. \A i, j \in DOMAIN d.plans : newNos[i] = newNos[j] => i = j \/ oldNos[i] = oldNos[j]
    BY <1>2, <2>1, <2>2, NumbersStayApart
  <2> QED BY <2>3, <2>4
<1>11. ASSUME NEW i \in DOMAIN d.plans, NEW l \in DOMAIN d.lines, d.lines[l].no = new[i].no
       PROVE  d.lines[l].no = d.plans[i].no
  <2>1. i \notin moving
    BY <1>2, <1>3, <1>9, <1>11
  <2> QED BY <1>4, <1>11, <2>1
<1>12. e = [d EXCEPT !.plans = new]
  BY DEF new
<1> QED BY <1>6, <1>7, <1>10, <1>11, <1>12, PlansEdited

\* Renumbering lines.
LEMMA LinesRenumbered ==
    ASSUME NEW d, NEW c \in Counters, DbOK(d, c),
           NEW day \in BatchDates, NEW moving, moving \subseteq DOMAIN d.lines,
           NEW f \in Numberings(d, day, moving),
           NEW e, e = [d EXCEPT !.lines = Renumbered(@, day, f)]
    PROVE  Shrunk(d, e) /\ PlanNeeds(e) = PlanNeeds(d) /\ LineNeeds(e) = LineNeeds(d)
<1> DEFINE new == Renumbered(d.lines, day, f)
<1>1. TablesOK(d) /\ IsFiniteSet(moving)
  BY FS_Subset DEF DbOK, TablesOK
<1>2. /\ f \in [moving -> Nat]
      /\ \A l, k \in moving : f[l] = f[k] => l = k
      /\ \A l \in moving : <<day, f[l]>> \notin PlanNos(d) \cup LineNos(d)
  BY <1>1, NumberingsAreNew
<1>3. \A l \in DOMAIN d.lines : d.lines[l] \in LineRows
  BY DEF DbOK, TablesOK
<1>4. \A l \in moving : /\ new[l] \in LineRows
                        /\ new[l].need = d.lines[l].need
                        /\ new[l].plan = d.lines[l].plan
                        /\ new[l].header = d.lines[l].header
                        /\ new[l].no = <<day, f[l]>>
  <2>1. ASSUME NEW l \in moving
        PROVE  /\ new[l] \in LineRows
               /\ new[l].need = d.lines[l].need
               /\ new[l].plan = d.lines[l].plan
               /\ new[l].header = d.lines[l].header
               /\ new[l].no = <<day, f[l]>>
    <3>1. new[l] = [d.lines[l] EXCEPT !.no = <<day, f[l]>>, !.date = day]
      BY <1>2 DEF Renumbered
    <3>2. <<day, f[l]>> \in BatchDates \X Nat /\ d.lines[l] \in LineRows
      BY <1>2, <1>3
    <3>3. PICK no \in BatchDates \X Nat : no = <<day, f[l]>>
      BY <3>2
    <3>4. PICK q : q = new[l]
      OBVIOUS
    <3>5. PICK p \in LineRows : p = d.lines[l]
      BY <3>2
    <3>6. q = [p EXCEPT !.no = no, !.date = day]
      BY <3>1, <3>3, <3>4, <3>5
    <3>7. /\ q \in LineRows /\ q.need = p.need /\ q.no = no
          /\ q.plan = p.plan /\ q.header = p.header
      <4>1. q = [need |-> p.need, plan |-> p.plan, no |-> no, date |-> day, header |-> p.header]
        BY <3>6 DEF LineRows
      <4> QED BY <4>1 DEF LineRows
    <3> QED BY <3>3, <3>4, <3>5, <3>7
  <2> QED BY <2>1
<1>5. DOMAIN new = DOMAIN d.lines /\ \A l \in DOMAIN d.lines \ moving : new[l] = d.lines[l]
  BY <1>2 DEF Renumbered
<1>6. new = [l \in DOMAIN d.lines |-> new[l]]
  BY DEF Renumbered
<1>7. e = [d EXCEPT !.lines = new]
  BY DEF DbOK, TablesOK
<1> HIDE DEF new
<1>8. new \in [DOMAIN d.lines -> LineRows]
  BY <1>3, <1>4, <1>5, <1>6
<1>9. \A l \in DOMAIN d.lines : /\ new[l].need = d.lines[l].need
                                /\ new[l].header = d.lines[l].header
                                /\ new[l].plan = d.lines[l].plan
  BY <1>4, <1>5
<1>10. \A i \in DOMAIN d.plans : d.plans[i].no \in PlanNos(d)
  BY DEF PlanNos
<1>11. \A l \in DOMAIN d.lines : d.lines[l].no \in LineNos(d)
  BY DEF LineNos
<1> DEFINE oldNos == [l \in DOMAIN d.lines |-> d.lines[l].no]
           newNos == [l \in DOMAIN d.lines |-> new[l].no]
<1>12. \A l, k \in DOMAIN d.lines : new[l].no = new[k].no => l = k \/ d.lines[l].no = d.lines[k].no
  <2>1. \A l \in moving : newNos[l] = <<day, f[l]>> /\ \A k \in DOMAIN d.lines : newNos[l] # oldNos[k]
    BY <1>2, <1>4, <1>11
  <2>2. \A l \in DOMAIN d.lines \ moving : newNos[l] = oldNos[l]
    BY <1>5
  <2>3. /\ \A l \in DOMAIN d.lines : newNos[l] = new[l].no
        /\ \A l \in DOMAIN d.lines : oldNos[l] = d.lines[l].no
    OBVIOUS
  <2> HIDE DEF oldNos, newNos
  <2>4. \A l, k \in DOMAIN d.lines : newNos[l] = newNos[k] => l = k \/ oldNos[l] = oldNos[k]
    BY <1>2, <2>1, <2>2, NumbersStayApart
  <2> QED BY <2>3, <2>4
<1>13. ASSUME NEW i \in DOMAIN d.plans, NEW l \in DOMAIN d.lines, new[l].no = d.plans[i].no
       PROVE  d.lines[l].no = d.plans[i].no
  <2>1. l \notin moving
    BY <1>2, <1>4, <1>10, <1>13
  <2> QED BY <1>5, <1>13, <2>1
<1> QED BY <1>7, <1>8, <1>9, <1>12, <1>13, LinesEdited

\* Deleting plans: their lines refer to none now.
LEMMA PlansDeleted ==
    ASSUME NEW d, NEW c \in Counters, DbOK(d, c), NEW gone, gone \subseteq DOMAIN d.plans,
           NEW e, e = WithoutPlans(d, gone)
    PROVE  /\ Shrunk(d, e)
           /\ PlanNeeds(e) = PlanNeeds(d) \ {d.plans[i].need : i \in gone}
           /\ LineNeeds(e) = LineNeeds(d)
<1> DEFINE plans == Restrict(d.plans, DOMAIN d.plans \ gone)
           lines == [l \in DOMAIN d.lines |->
                        IF d.lines[l].plan \in gone THEN [d.lines[l] EXCEPT !.plan = NoPlan] ELSE d.lines[l]]
<1>1. e = [plans |-> plans, lines |-> lines, headers |-> d.headers]
  BY DEF WithoutPlans, DbOK, TablesOK
<1>2. plans = [i \in DOMAIN d.plans \ gone |-> d.plans[i]]
  BY DEF Restrict
<1>3. \A l \in DOMAIN d.lines : d.lines[l] \in LineRows
  BY DEF DbOK, TablesOK
<1>4. ASSUME NEW l \in DOMAIN d.lines
      PROVE  /\ lines[l] \in LineRows
             /\ lines[l].need = d.lines[l].need
             /\ lines[l].no = d.lines[l].no
             /\ lines[l].header = d.lines[l].header
             /\ lines[l].plan = IF d.lines[l].plan \in gone THEN NoPlan ELSE d.lines[l].plan
  <2>1. CASE d.lines[l].plan \in gone
    <3>1. lines[l] = [d.lines[l] EXCEPT !.plan = NoPlan]
      BY <2>1
    <3> QED BY <1>3, <2>1, <3>1 DEF LineRows, NoPlan
  <2>2. CASE d.lines[l].plan \notin gone
    BY <1>3, <2>2
  <2> QED BY <2>1, <2>2
<1>5. lines = [l \in DOMAIN d.lines |-> lines[l]]
  OBVIOUS
<1> HIDE DEF plans, lines
<1>6. /\ e.plans = plans /\ DOMAIN e.plans = DOMAIN d.plans \ gone
      /\ e.lines = lines /\ DOMAIN e.lines = DOMAIN d.lines
      /\ \A i \in DOMAIN e.plans : e.plans[i] = d.plans[i]
  BY <1>1, <1>2, <1>5
<1>7. TablesOK(e)
  <2>1. plans \in [DOMAIN plans -> PlanRows]
    BY <1>2 DEF DbOK, TablesOK
  <2>2. lines \in [DOMAIN lines -> LineRows]
    BY <1>4, <1>5
  <2>3. IsFiniteSet(DOMAIN plans)
    BY <1>2, FS_Subset DEF DbOK, TablesOK
  <2> QED BY <1>1, <1>5, <1>6, <2>1, <2>2, <2>3 DEF DbOK, TablesOK
<1>8. ASSUME NEW l \in DOMAIN d.lines
      PROVE  lines[l].plan = IF d.lines[l].plan \in DOMAIN e.plans THEN d.lines[l].plan ELSE NoPlan
  BY <1>4, <1>6 DEF DbOK, RefersOK
<1>9. Shrunk(d, e)
  BY <1>4, <1>6, <1>7, <1>8 DEF Shrunk
<1>10. LineNeeds(e) = LineNeeds(d)
  BY <1>4, <1>6 DEF LineNeeds
<1>11. PlanNeeds(e) = PlanNeeds(d) \ {d.plans[i].need : i \in gone}
  BY <1>6 DEF PlanNeeds, DbOK, OnceOK
<1> QED BY <1>9, <1>10, <1>11

\* Deleting lines, with records of theirs or not.
LEMMA LinesDeleted ==
    ASSUME NEW d, NEW c \in Counters, DbOK(d, c), NEW gone, gone \subseteq DOMAIN d.lines,
           NEW e, e = [plans |-> e.plans, lines |-> e.lines, headers |-> e.headers],
           e.plans = d.plans, e.lines = Restrict(d.lines, DOMAIN d.lines \ gone)
    PROVE  /\ Shrunk(d, e)
           /\ PlanNeeds(e) = PlanNeeds(d)
           /\ LineNeeds(e) = LineNeeds(d) \ {d.lines[l].need : l \in gone}
<1>1. /\ e.plans = d.plans
      /\ DOMAIN e.lines = DOMAIN d.lines \ gone
      /\ e.lines = [l \in DOMAIN d.lines \ gone |-> d.lines[l]]
      /\ \A l \in DOMAIN e.lines : e.lines[l] = d.lines[l]
  BY DEF Restrict
<1>2. TablesOK(e)
  <2>1. e.lines \in [DOMAIN e.lines -> LineRows]
    BY <1>1 DEF DbOK, TablesOK
  <2>2. IsFiniteSet(DOMAIN e.lines)
    BY <1>1, FS_Subset DEF DbOK, TablesOK
  <2> QED BY <1>1, <2>1, <2>2 DEF DbOK, TablesOK
<1>3. \A l \in DOMAIN d.lines : d.lines[l].plan \in DOMAIN d.plans \cup {NoPlan}
  BY DEF DbOK, RefersOK
<1>4. Shrunk(d, e)
  BY <1>1, <1>2, <1>3 DEF Shrunk
<1>5. PlanNeeds(e) = PlanNeeds(d)
  BY <1>1 DEF PlanNeeds
<1>6. LineNeeds(e) = LineNeeds(d) \ {d.lines[l].need : l \in gone}
  BY <1>1 DEF LineNeeds, DbOK, OnceOK
<1> QED BY <1>4, <1>5, <1>6

-----------------------------------------------------------------------------
(* What a step does to the needs.                                           *)

NeedsKept == UNCHANGED <<PlanNeeds(db), LineNeeds(db), entered, deleted>>

NeedEntered ==
    /\ entered < MaxNeeds
    /\ entered' = entered + 1
    /\ PlanNeeds(db)' = PlanNeeds(db) \cup {entered + 1}
    /\ UNCHANGED <<LineNeeds(db), deleted>>

\* The plan of need n is deleted by its user.
NeedDeleted(n) ==
    /\ n \in PlanNeeds(db)
    /\ PlanNeeds(db)' = PlanNeeds(db) \ {n}
    /\ deleted' = IF n \in LineNeeds(db) THEN deleted ELSE deleted \cup {n}
    /\ UNCHANGED <<LineNeeds(db), entered>>

NeedsMoved(ns) ==
    /\ ns \subseteq PlanNeeds(db) \ LineNeeds(db)
    /\ LineNeeds(db)' = LineNeeds(db) \cup ns
    /\ UNCHANGED <<PlanNeeds(db), entered, deleted>>

NeedRestored(n) ==
    /\ n \in LineNeeds(db)
    /\ LineNeeds(db)' = LineNeeds(db) \ {n}
    /\ PlanNeeds(db)' = PlanNeeds(db) \cup {n}
    /\ UNCHANGED <<entered, deleted>>

NeedsCleaned(ns) ==
    /\ ns \subseteq PlanNeeds(db) \cap LineNeeds(db)
    /\ PlanNeeds(db)' = PlanNeeds(db) \ ns
    /\ UNCHANGED <<LineNeeds(db), entered, deleted>>

NeedsStep ==
    \/ NeedsKept
    \/ NeedEntered
    \/ \E n \in Nat : NeedDeleted(n) \/ NeedRestored(n)
    \/ \E ns \in SUBSET Nat : NeedsMoved(ns) \/ NeedsCleaned(ns)

\* What every step does to the tables, as later requests see them.
TablesStep ==
    /\ last' \in Counters
    /\ DbOK(db, last)'
    /\ \A s : SeenOK(s, db, last) => SeenOK(s, db', last')

\* A step that edits rows, or deletes some, does nothing else to the tables.
LEMMA ShrinkingStep ==
    ASSUME PInv, Shrunk(db, db'), UNCHANGED last PROVE TablesStep
BY ShrunkOK DEF TablesStep, PInv, CountersOK, Counters

\* Needs are numbers.
LEMMA NeedsAreNat ==
    ASSUME NEW d, TablesOK(d) PROVE PlanNeeds(d) \subseteq Nat /\ LineNeeds(d) \subseteq Nat
BY DEF TablesOK, PlanNeeds, LineNeeds, PlanRows, LineRows

-----------------------------------------------------------------------------
(* The requests and the nightly job, one by one.                            *)

\* EnterNeed gives its plan an id, a number and a need no row has.
LEMMA EnterNeedOK ==
    ASSUME PInv, NEW r \in Requests, NEW day \in Days, EnterNeed(r, day)
    PROVE  TablesStep /\ NeedsStep
<1> DEFINE no == <<day, NextIndex(db, day)>>
           p == Plan(entered + 1, no, day, 1)
<1>1. DbOK(db, last) /\ last \in Counters /\ entered \in Nat /\ entered \in 0..MaxNeeds
  BY MaxNeedsAssumption DEF PInv, CountersOK, Counters
<1>2. NextIndex(db, day) \in Nat /\ no \notin PlanNos(db) \cup LineNos(db)
  BY <1>1, NextIndexIsNew DEF DbOK
<1>3. p \in PlanRows /\ p.need = entered + 1 /\ p.no = no
  BY <1>1, <1>2 DEF Plan, PlanRows, BatchDates
<1>4. entered + 1 \notin PlanNeeds(db) \cup LineNeeds(db)
  BY <1>1 DEF PInv
<1>5. /\ db' = [db EXCEPT !.plans = WithRows(@, [i \in {last.plan + 1} |-> p])]
      /\ last' = [last EXCEPT !.plan = @ + 1]
  BY DEF EnterNeed, InsertPlan
<1> DEFINE new == [i \in {last.plan + 1} |-> p]
<1>6. /\ last' \in Counters
      /\ DbOK(db', last')
      /\ \A s : SeenOK(s, db, last) => SeenOK(s, db', last')
      /\ PlanNeeds(db') = PlanNeeds(db) \cup {entered + 1}
      /\ LineNeeds(db') = LineNeeds(db)
  <2>1. new = [i \in {last.plan + 1} |-> p] /\ db' = [db EXCEPT !.plans = WithRows(@, new)]
    BY <1>5
  <2> HIDE DEF p, no, new
  <2>2. p.need \notin PlanNeeds(db) \cup LineNeeds(db) /\ p.no \notin PlanNos(db) \cup LineNos(db)
    BY <1>2, <1>3, <1>4
  <2> QED BY <1>1, <1>3, <1>5, <2>1, <2>2, InsertedOK
<1>7. NeedEntered
  BY <1>6 DEF NeedEntered, EnterNeed
<1> QED BY <1>6, <1>7 DEF TablesStep, NeedsStep

\* An edit of a plan keeps its need, and numbers it anew when it gets another day.
LEMMA PlanUpdateOK ==
    ASSUME PInv, NEW r \in Requests, snap[r] # Idle, update_purchase_material(r)
    PROVE  TablesStep /\ NeedsStep
<1>1. DbOK(db, last) /\ last \in Counters /\ TablesOK(snap[r])
  BY DEF PInv, CountersOK, Counters, SnapsOK, SeenOK
<1>2. PICK i \in DOMAIN snap[r].plans \cap DOMAIN db.plans, day \in Days :
        LET counted == [db.plans EXCEPT ![i].version = snap[r].plans[i].version + 1]
        IN  /\ \/ db' = [db EXCEPT !.plans = counted]
               \/ \E f \in Numberings(db, day, {i}) : db' = [db EXCEPT !.plans = Renumbered(counted, day, f)]
            /\ UNCHANGED <<last, entered, deleted>>
  BY DEF update_purchase_material
<1> DEFINE v == snap[r].plans[i].version + 1
           counted == [db.plans EXCEPT ![i].version = v]
<1>3. v \in Int
  BY <1>1 DEF TablesOK, PlanRows
<1> HIDE DEF v
<1>4. /\ counted \in [DOMAIN db.plans -> PlanRows]
      /\ \A j \in DOMAIN db.plans : counted[j].need = db.plans[j].need /\ counted[j].no = db.plans[j].no
  BY <1>1, <1>3 DEF DbOK, TablesOK, PlanRows
<1> HIDE DEF counted
<1>5. CASE db' = [db EXCEPT !.plans = counted]
  <2>1. \A l \in DOMAIN db.lines, j \in DOMAIN db.plans :
            db.lines[l].no = counted[j].no => db.lines[l].no = db.plans[j].no
    BY <1>4
  <2>2. Shrunk(db, db') /\ PlanNeeds(db') = PlanNeeds(db) /\ LineNeeds(db') = LineNeeds(db)
    BY <1>1, <1>4, <1>5, <2>1, PlansEdited
  <2> QED BY <1>2, <2>2, ShrinkingStep DEF NeedsStep, NeedsKept
<1>6. ASSUME NEW f \in Numberings(db, day, {i}), db' = [db EXCEPT !.plans = Renumbered(counted, day, f)]
      PROVE  TablesStep /\ NeedsStep
  <2>1. {i} \subseteq DOMAIN db.plans /\ day \in BatchDates
    BY DEF BatchDates
  <2>2. Shrunk(db, db') /\ PlanNeeds(db') = PlanNeeds(db) /\ LineNeeds(db') = LineNeeds(db)
    BY <1>1, <1>4, <1>6, <2>1, PlansRenumbered
  <2> QED BY <1>2, <2>2, ShrinkingStep DEF NeedsStep, NeedsKept
<1> QED BY <1>2, <1>5, <1>6 DEF v, counted

\* Linking a stock material changes nothing of a need.
LEMMA LinkOK ==
    ASSUME PInv, NEW r \in Requests, snap[r] # Idle, link_stock_material(r)
    PROVE  TablesStep /\ NeedsStep
<1>1. DbOK(db, last) /\ last \in Counters /\ TablesOK(snap[r])
  BY DEF PInv, CountersOK, Counters, SnapsOK, SeenOK
<1>2. PICK i \in DOMAIN snap[r].plans \cap DOMAIN db.plans :
        /\ db' = [db EXCEPT !.plans[i].version = snap[r].plans[i].version + 1]
        /\ UNCHANGED <<last, entered, deleted>>
  BY DEF link_stock_material
<1> DEFINE v == snap[r].plans[i].version + 1
           counted == [db.plans EXCEPT ![i].version = v]
<1>3. v \in Int
  BY <1>1 DEF TablesOK, PlanRows
<1>4. db' = [db EXCEPT !.plans = counted]
  BY <1>1, <1>2 DEF DbOK, TablesOK
<1> HIDE DEF v
<1>5. /\ counted \in [DOMAIN db.plans -> PlanRows]
      /\ \A j \in DOMAIN db.plans : counted[j].need = db.plans[j].need /\ counted[j].no = db.plans[j].no
  BY <1>1, <1>3 DEF DbOK, TablesOK, PlanRows
<1> HIDE DEF counted
<1>6. \A l \in DOMAIN db.lines, j \in DOMAIN db.plans :
          db.lines[l].no = counted[j].no => db.lines[l].no = db.plans[j].no
  BY <1>5
<1>7. Shrunk(db, db') /\ PlanNeeds(db') = PlanNeeds(db) /\ LineNeeds(db') = LineNeeds(db)
  BY <1>1, <1>4, <1>5, <1>6, PlansEdited
<1> QED BY <1>2, <1>7, ShrinkingStep DEF NeedsStep, NeedsKept

\* A batch edit numbers the plans it gives another day.
LEMMA PlansUpdateOK ==
    ASSUME PInv, NEW r \in Requests, snap[r] # Idle, batch_update_purchase_materials(r)
    PROVE  TablesStep /\ NeedsStep
<1>1. DbOK(db, last) /\ last \in Counters
  BY DEF PInv, CountersOK, Counters
<1>2. PICK is \in Chosen(DOMAIN snap[r].plans \cap DOMAIN db.plans), day \in BatchDates :
        LET moving == IF day = NoDate THEN {} ELSE {i \in is : db.plans[i].date # day}
            counted == [i \in DOMAIN db.plans |->
                           IF i \in is THEN [db.plans[i] EXCEPT !.version = @ + 1] ELSE db.plans[i]]
        IN  /\ \E f \in Numberings(db, day, moving) :
                  db' = [db EXCEPT !.plans = Renumbered(counted, day, f)]
            /\ UNCHANGED <<last, entered, deleted>>
  BY DEF batch_update_purchase_materials
<1> DEFINE moving == IF day = NoDate THEN {} ELSE {i \in is : db.plans[i].date # day}
           counted == [i \in DOMAIN db.plans |->
                          IF i \in is THEN [db.plans[i] EXCEPT !.version = @ + 1] ELSE db.plans[i]]
<1>3. PICK f \in Numberings(db, day, moving) : db' = [db EXCEPT !.plans = Renumbered(counted, day, f)]
  BY <1>2
<1>4. ASSUME NEW i \in DOMAIN db.plans
      PROVE  counted[i] \in PlanRows /\ counted[i].need = db.plans[i].need /\ counted[i].no = db.plans[i].no
  <2>1. db.plans[i] \in PlanRows
    BY <1>1 DEF DbOK, TablesOK
  <2>2. CASE i \in is
    <3>1. counted[i] = [db.plans[i] EXCEPT !.version = @ + 1]
      BY <2>2
    <3> QED BY <2>1, <3>1 DEF PlanRows
  <2>3. CASE i \notin is
    BY <2>1, <2>3
  <2> QED BY <2>2, <2>3
<1>5. moving \subseteq DOMAIN db.plans
  BY DEF Chosen
<1>6. counted \in [DOMAIN db.plans -> PlanRows]
  BY <1>4
<1> HIDE DEF moving, counted
<1>7. Shrunk(db, db') /\ PlanNeeds(db') = PlanNeeds(db) /\ LineNeeds(db') = LineNeeds(db)
  BY <1>1, <1>3, <1>4, <1>5, <1>6, PlansRenumbered
<1> QED BY <1>2, <1>7, ShrinkingStep DEF NeedsStep, NeedsKept

\* A plan that is deleted takes its need along unless the need has a line, which
\* then refers to that very plan.
LEMMA PlanDeleteOK ==
    ASSUME PInv, NEW r \in Requests, snap[r] # Idle, delete_purchase_material(r)
    PROVE  TablesStep /\ NeedsStep
<1>1. DbOK(db, last) /\ last \in Counters
  BY DEF PInv, CountersOK, Counters
<1>2. PICK i \in DOMAIN snap[r].plans \cap DOMAIN db.plans :
        /\ db' = WithoutPlans(db, {i})
        /\ deleted' = deleted \cup (IF LinesOfPlan(db, i) = {} THEN {db.plans[i].need} ELSE {})
        /\ UNCHANGED <<last, entered>>
  BY DEF delete_purchase_material
<1> DEFINE n == db.plans[i].need
<1>3. /\ Shrunk(db, db')
      /\ PlanNeeds(db') = PlanNeeds(db) \ {n}
      /\ LineNeeds(db') = LineNeeds(db)
  <2>1. {i} \subseteq DOMAIN db.plans /\ {db.plans[j].need : j \in {i}} = {n}
    OBVIOUS
  <2> QED BY <1>1, <1>2, <2>1, PlansDeleted
<1>4. LinesOfPlan(db, i) = {} <=> n \notin LineNeeds(db)
  BY <1>1 DEF LinesOfPlan, LineNeeds, DbOK, OnceOK
<1>5. n \in PlanNeeds(db) /\ n \in Nat
  BY <1>1, NeedsAreNat DEF PlanNeeds, DbOK
<1>6. NeedDeleted(n)
  BY <1>2, <1>3, <1>4, <1>5 DEF NeedDeleted
<1> QED BY <1>2, <1>3, <1>5, <1>6, ShrinkingStep DEF NeedsStep

\* Plans that are moved had no line: each gets its line.
LEMMA MoveOK ==
    ASSUME PInv, NEW r \in Requests, snap[r] # Idle, move_plans_to_record(r)
    PROVE  TablesStep /\ NeedsStep
<1>1. DbOK(db, last) /\ last \in Counters
  BY DEF PInv, CountersOK, Counters
<1>2. PICK is \in Chosen(DOMAIN snap[r].plans \cap DOMAIN db.plans) :
        /\ Unmoved(r, is)
        /\ \E f \in Bijection(is, last.line + 1 .. last.line + Cardinality(is)) :
              db' = [db EXCEPT !.headers = @ \cup {last.header + 1},
                               !.lines = WithRows(@, [l \in Range(f) |->
                                   Line(db, CHOOSE i \in is : f[i] = l, last.header + 1)])]
        /\ last' = [last EXCEPT !.line = @ + Cardinality(is), !.header = @ + 1]
        /\ UNCHANGED <<entered, deleted>>
  BY DEF move_plans_to_record
<1>3. PICK f \in Bijection(is, last.line + 1 .. last.line + Cardinality(is)) :
        db' = [db EXCEPT !.headers = @ \cup {last.header + 1},
                         !.lines = WithRows(@, [l \in Range(f) |->
                             Line(db, CHOOSE i \in is : f[i] = l, last.header + 1)])]
  BY <1>2
<1> DEFINE ns == {db.plans[i].need : i \in is}
<1>4. is \subseteq DOMAIN db.plans /\ \A i \in is : LinesOfPlan(db, i) = {}
  BY <1>2 DEF Chosen, Unmoved
<1>5. /\ last' \in Counters
      /\ DbOK(db', last')
      /\ \A s : SeenOK(s, db, last) => SeenOK(s, db', last')
      /\ PlanNeeds(db') = PlanNeeds(db)
      /\ LineNeeds(db') = LineNeeds(db) \cup ns
      /\ LineNeeds(db) \cap ns = {}
  <2> DEFINE n == Cardinality(is)
             new == last.line + 1 .. last.line + n
             h == last.header + 1
             of == [l \in new |-> CHOOSE i \in is : f[i] = l]
             lines == WithRows(db.lines, [l \in new |-> Line(db, of[l], h)])
  <2>1. n \in Nat
    BY <1>1, <1>4, FS_Subset, FS_CardinalityType DEF DbOK, TablesOK
  <2>2. /\ f \in [is -> new]
        /\ \A i, j \in is : f[i] = f[j] => i = j
        /\ \A l \in new : \E i \in is : f[i] = l
        /\ Range(f) = new
    BY DEF Bijection, Injection, IsInjective, Surjection, Range
  <2>3. \A l \in new : of[l] \in is /\ f[of[l]] = l
    BY <2>2
  <2>4. of \in [new -> is] /\ (\A l, k \in new : of[l] = of[k] => l = k)
    BY <2>3
  <2>5. \A i \in is : \E l \in new : of[l] = i
    BY <2>2, <2>3
  <2>6. [l \in Range(f) |-> Line(db, CHOOSE i \in is : f[i] = l, last.header + 1)]
          = [l \in new |-> Line(db, of[l], h)]
    BY <2>2
  <2>7. last' = [last EXCEPT !.line = last.line + n, !.header = h]
    BY <1>2
  <2>8. last' = [plan |-> last.plan, line |-> last.line + n, header |-> h]
    <3> HIDE DEF n, h
    <3>1. ASSUME NEW c \in Counters, NEW x, NEW y, NEW b, b = [c EXCEPT !.line = x, !.header = y]
          PROVE  b = [plan |-> c.plan, line |-> x, header |-> y]
      BY <3>1 DEF Counters
    <3> QED BY <1>1, <2>7, <3>1
  <2>9. db' = [db EXCEPT !.headers = db.headers \cup {h}, !.lines = lines]
    BY <1>3, <2>6
  <2>10. db' = [plans |-> db.plans, lines |-> lines, headers |-> db.headers \cup {h}]
    <3> HIDE DEF lines, h
    <3>1. ASSUME NEW d, d = [plans |-> d.plans, lines |-> d.lines, headers |-> d.headers], NEW x, NEW y,
                 NEW e, e = [d EXCEPT !.headers = x, !.lines = y]
          PROVE  e = [plans |-> d.plans, lines |-> y, headers |-> x]
      BY <3>1
    <3>2. db = [plans |-> db.plans, lines |-> db.lines, headers |-> db.headers]
      BY <1>1 DEF DbOK, TablesOK
    <3> QED BY <2>9, <3>1, <3>2
  <2>11. DOMAIN of = new /\ h \in Nat /\ last.line \in Nat
    BY <1>1 DEF Counters
  <2>12. \A l \in new : l \in Int /\ l > last.line /\ l <= last.line + n
    BY <2>1, <2>11
  <2>13. IsFiniteSet(new)
    <3>1. last.line + 1 \in Int /\ last.line + n \in Int
      BY <2>1, <2>11
    <3> QED BY <3>1, FS_Interval
  <2>14. \A l \in DOMAIN db.lines : l \notin new
    BY <1>1, <2>12, <2>11 DEF DbOK, IdsOK
  <2> HIDE DEF n, of, new, h, ns
  <2>15. /\ last' \in Counters
         /\ last'.plan = last.plan
         /\ last'.line = last.line + n
         /\ last'.header = h
    BY <1>1, <2>1, <2>8, <2>11 DEF Counters
  <2>16. db'.plans = db.plans /\ db'.lines = lines
    <3> HIDE DEF lines
    <3> QED BY <2>10
  <2>17. /\ DOMAIN lines = DOMAIN db.lines \cup new
         /\ \A l \in DOMAIN db.lines : lines[l] = db.lines[l]
         /\ \A l \in new : lines[l] = Line(db, of[l], h)
         /\ lines = [l \in DOMAIN lines |-> lines[l]]
    BY <2>14 DEF WithRows
  <2> HIDE DEF lines
  <2>18. ASSUME NEW l \in new
         PROVE  /\ lines[l].need = db.plans[of[l]].need
                /\ lines[l].no = db.plans[of[l]].no
                /\ lines[l].plan = of[l]
                /\ lines[l].header = h
                /\ lines[l] \in LineRows
    <3>1. lines[l] = [need |-> db.plans[of[l]].need, plan |-> of[l], no |-> db.plans[of[l]].no,
                      date |-> db.plans[of[l]].date, header |-> h]
      BY <2>17 DEF Line
    <3>2. of[l] \in DOMAIN db.plans
      BY <1>4, <2>4
    <3>3. db.plans[of[l]] \in PlanRows /\ of[l] \in Nat
      BY <1>1, <3>2 DEF DbOK, TablesOK, IdsOK
    <3> QED BY <2>11, <3>1, <3>3 DEF PlanRows, LineRows
  <2>19. TablesOK(db')
    <3>1. \A l \in DOMAIN db.lines : lines[l] \in LineRows
      BY <1>1, <2>17 DEF DbOK, TablesOK
    <3>2. lines \in [DOMAIN lines -> LineRows]
      BY <2>17, <2>18, <3>1
    <3>3. IsFiniteSet(DOMAIN db.lines)
      BY <1>1 DEF DbOK, TablesOK
    <3>4. IsFiniteSet(DOMAIN lines)
      <4>1. IsFiniteSet(DOMAIN db.lines \cup new)
        BY <2>13, <3>3, FS_Union
      <4>2. DOMAIN lines = DOMAIN db.lines \cup new
        BY <2>17
      <4> QED BY <4>1, <4>2
    <3>5. db' = [plans |-> db'.plans, lines |-> db'.lines, headers |-> db'.headers]
      BY <2>10
    <3> QED BY <1>1, <2>16, <3>2, <3>4, <3>5 DEF DbOK, TablesOK
  <2>20. RowsMoved(db, db', is, of, h)
    BY <2>4, <2>5, <2>11, <2>14, <2>16, <2>17, <2>18, <2>19 DEF RowsMoved
  <2>21. last'.line >= last.line /\ \A l \in DOMAIN of : l \in Int /\ l > last.line /\ l <= last'.line
    BY <2>1, <2>11, <2>12, <2>15
  <2>22. last'.header = last.header + 1
    BY <2>15 DEF h
  <2>23. last' \in Counters /\ last'.plan = last.plan /\ RowsMoved(db, db', is, of, last'.header)
    BY <2>15, <2>20
  <2>24. /\ DbOK(db', last')
         /\ \A s : SeenOK(s, db, last) => SeenOK(s, db', last')
         /\ PlanNeeds(db') = PlanNeeds(db)
         /\ LineNeeds(db') = LineNeeds(db) \cup {db.plans[i].need : i \in is}
         /\ LineNeeds(db) \cap {db.plans[i].need : i \in is} = {}
    BY <1>1, <1>4, <2>21, <2>22, <2>23, MovedOK
  <2> QED BY <2>23, <2>24 DEF ns
<1>6. ns \subseteq PlanNeeds(db) /\ ns \in SUBSET Nat
  BY <1>1, <1>4, NeedsAreNat DEF PlanNeeds, DbOK
<1>7. NeedsMoved(ns)
  BY <1>2, <1>5, <1>6 DEF NeedsMoved
<1> QED BY <1>5, <1>6, <1>7 DEF TablesStep, NeedsStep

\* An edit of a record's line keeps its number.
LEMMA LineUpdateOK ==
    ASSUME PInv, NEW r \in Requests, snap[r] # Idle, update_purchase_record(r)
    PROVE  TablesStep /\ NeedsStep
<1>1. DbOK(db, last) /\ last \in Counters
  BY DEF PInv, CountersOK, Counters
<1>2. PICK l \in DOMAIN snap[r].lines \cap DOMAIN db.lines, day \in Days :
        db' = [db EXCEPT !.lines[l].date = day] /\ UNCHANGED <<last, entered, deleted>>
  BY DEF update_purchase_record
<1> DEFINE rows == [db.lines EXCEPT ![l].date = day]
<1>3. db' = [db EXCEPT !.lines = rows]
  BY <1>1, <1>2 DEF DbOK, TablesOK
<1>4. day \in BatchDates
  BY DEF BatchDates
<1>5. rows \in [DOMAIN db.lines -> LineRows]
  BY <1>1, <1>4 DEF DbOK, TablesOK, LineRows
<1>6. \A k \in DOMAIN db.lines : /\ rows[k].need = db.lines[k].need
                                 /\ rows[k].no = db.lines[k].no
                                 /\ rows[k].header = db.lines[k].header
                                 /\ rows[k].plan = db.lines[k].plan
  BY <1>1 DEF DbOK, TablesOK, LineRows
<1> HIDE DEF rows
<1>7. \A i \in DOMAIN db.plans, k \in DOMAIN db.lines :
          rows[k].no = db.plans[i].no => db.lines[k].no = db.plans[i].no
  BY <1>6
<1>8. Shrunk(db, db') /\ PlanNeeds(db') = PlanNeeds(db) /\ LineNeeds(db') = LineNeeds(db)
  BY <1>1, <1>3, <1>5, <1>6, <1>7, LinesEdited
<1> QED BY <1>2, <1>8, ShrinkingStep DEF NeedsStep, NeedsKept

\* A batch edit of lines numbers those it gives another day.
LEMMA LinesUpdateOK ==
    ASSUME PInv, NEW r \in Requests, snap[r] # Idle, batch_update_purchase_records(r)
    PROVE  TablesStep /\ NeedsStep
<1>1. DbOK(db, last) /\ last \in Counters
  BY DEF PInv, CountersOK, Counters
<1>2. PICK ls \in Chosen(DOMAIN snap[r].lines \cap DOMAIN db.lines), day \in Days :
        LET moving == {l \in ls : db.lines[l].date # day}
        IN  /\ \E f \in Numberings(db, day, moving) :
                  db' = [db EXCEPT !.lines = Renumbered(@, day, f)]
            /\ UNCHANGED <<last, entered, deleted>>
  BY DEF batch_update_purchase_records
<1> DEFINE moving == {l \in ls : db.lines[l].date # day}
<1>3. PICK f \in Numberings(db, day, moving) : db' = [db EXCEPT !.lines = Renumbered(@, day, f)]
  BY <1>2
<1>4. moving \subseteq DOMAIN db.lines /\ day \in BatchDates
  BY DEF Chosen, BatchDates
<1>5. Shrunk(db, db') /\ PlanNeeds(db') = PlanNeeds(db) /\ LineNeeds(db') = LineNeeds(db)
  BY <1>1, <1>3, <1>4, LinesRenumbered
<1> QED BY <1>2, <1>5, ShrinkingStep DEF NeedsStep, NeedsKept

\* A line that leaves its record leaves alone, whatever else the record has had:
\* if the snapshot shows no other line of the record there is none, since lines
\* are put on a new record only.
LEMMA LeaveRecordTakesLine ==
    ASSUME PInv, NEW r \in Requests, snap[r] # Idle,
           NEW l \in DOMAIN snap[r].lines \cap DOMAIN db.lines
    PROVE  \E hs : LeaveRecord(r, l) = [plans |-> db.plans,
                                        lines |-> Restrict(db.lines, DOMAIN db.lines \ {l}),
                                        headers |-> hs]
<1> DEFINE h == db.lines[l].header
           s == snap[r]
<1>1. SeenOK(s, db, last)
  BY DEF PInv, SnapsOK
<1>2. db = [plans |-> db.plans, lines |-> db.lines, headers |-> db.headers]
  BY DEF PInv, DbOK, TablesOK
<1>3. \A gone : WithoutLines(db, gone) = [plans |-> db.plans,
                                          lines |-> Restrict(db.lines, DOMAIN db.lines \ gone),
                                          headers |-> db.headers]
  BY <1>2 DEF WithoutLines
<1>4. CASE LinesOfHeader(s, h) = {l}
  <2>1. ASSUME NEW k \in DOMAIN db.lines, db.lines[k].header = h PROVE k = l
    <3>1. s.lines[l].header = h
      BY <1>1 DEF SeenOK
    <3>2. k \in DOMAIN s.lines
      BY <1>1, <2>1, <3>1 DEF SeenOK
    <3>3. s.lines[k].header = h
      BY <1>1, <2>1, <3>2 DEF SeenOK
    <3> QED BY <1>4, <3>2, <3>3 DEF LinesOfHeader
  <2>2. LinesOfHeader(db, h) = {l}
    BY <2>1 DEF LinesOfHeader
  <2>3. LeaveRecord(r, l) = [WithoutLines(db, {l}) EXCEPT !.headers = @ \ {h}]
    BY <1>4, <2>2 DEF LeaveRecord
  <2>4. LeaveRecord(r, l) = [plans |-> db.plans,
                             lines |-> Restrict(db.lines, DOMAIN db.lines \ {l}),
                             headers |-> db.headers \ {h}]
    <3> DEFINE rest == Restrict(db.lines, DOMAIN db.lines \ {l})
    <3>1. PICK w : w = WithoutLines(db, {l})
      OBVIOUS
    <3>2. w = [plans |-> db.plans, lines |-> rest, headers |-> db.headers]
      BY <1>3, <3>1
    <3>3. LeaveRecord(r, l) = [w EXCEPT !.headers = @ \ {h}]
      BY <2>3, <3>1
    <3> HIDE DEF rest
    <3>4. LeaveRecord(r, l) = [plans |-> db.plans, lines |-> rest, headers |-> db.headers \ {h}]
      BY <3>2, <3>3
    <3> QED BY <3>4 DEF rest
  <2> QED BY <2>4
<1>5. CASE LinesOfHeader(s, h) # {l}
  <2>1. LeaveRecord(r, l) = WithoutLines(db, {l})
    BY <1>5 DEF LeaveRecord
  <2> QED BY <1>3, <2>1
<1> QED BY <1>4, <1>5

\* A restored line gives its need back to the plan it refers to, or to a rebuilt
\* plan.  The rebuilt plan is the need's only one: a plan of the need would be the
\* one the line refers to, and that one is in the snapshot, where the line already
\* refers to it.
LEMMA RestoreOK ==
    ASSUME PInv, NEW r \in Requests, snap[r] # Idle, restore_purchase_record_to_plan(r)
    PROVE  TablesStep /\ NeedsStep
<1> DEFINE s == snap[r]
<1>1. DbOK(db, last) /\ last \in Counters /\ SeenOK(s, db, last)
  BY DEF PInv, CountersOK, Counters, SnapsOK
<1>2. PICK l \in DOMAIN s.lines \cap DOMAIN db.lines :
        LET line == db.lines[l]
            left == LeaveRecord(r, l)
        IN  /\ \/ /\ line.plan \in DOMAIN s.plans
                  /\ line.plan \in DOMAIN db.plans
                  /\ db' = [left EXCEPT !.plans[line.plan].version = s.plans[line.plan].version + 1]
                  /\ UNCHANGED last
               \/ /\ line.plan \notin DOMAIN s.plans
                  /\ line.no \notin PlanNos(db)
                  /\ last' = [last EXCEPT !.plan = @ + 1]
                  /\ db' = [left EXCEPT !.plans = WithRows(@,
                               [i \in {last.plan + 1} |-> Plan(line.need, line.no, line.date, 1)])]
            /\ UNCHANGED <<entered, deleted>>
  BY DEF restore_purchase_record_to_plan
<1> DEFINE line == db.lines[l]
           n == line.need
           left == LeaveRecord(r, l)
<1>3. PICK hs : left = [plans |-> db.plans,
                        lines |-> Restrict(db.lines, DOMAIN db.lines \ {l}),
                        headers |-> hs]
  BY LeaveRecordTakesLine
<1>4. left.plans = db.plans /\ left.lines = [k \in DOMAIN db.lines \ {l} |-> db.lines[k]]
  BY <1>3 DEF Restrict
<1>5. /\ Shrunk(db, left)
      /\ PlanNeeds(left) = PlanNeeds(db)
      /\ LineNeeds(left) = LineNeeds(db) \ {n}
  <2>1. {l} \subseteq DOMAIN db.lines /\ {db.lines[k].need : k \in {l}} = {n}
    OBVIOUS
  <2> HIDE DEF left, n
  <2>2. PICK gone : gone = {l}
    OBVIOUS
  <2>3. /\ gone \subseteq DOMAIN db.lines
        /\ left = [plans |-> left.plans, lines |-> left.lines, headers |-> left.headers]
        /\ left.plans = db.plans
        /\ left.lines = Restrict(db.lines, DOMAIN db.lines \ gone)
        /\ {db.lines[k].need : k \in gone} = {n}
    BY <1>3, <2>1, <2>2
  <2>4. /\ Shrunk(db, left)
        /\ PlanNeeds(left) = PlanNeeds(db)
        /\ LineNeeds(left) = LineNeeds(db) \ {db.lines[k].need : k \in gone}
    BY <1>1, <2>3, LinesDeleted
  <2> QED BY <2>3, <2>4
<1>6. DbOK(left, last) /\ \A t : SeenOK(t, db, last) => SeenOK(t, left, last)
  <2> HIDE DEF left
  <2> QED BY <1>1, <1>5, ShrunkOK
<1>7. n \in LineNeeds(db) /\ n \in Nat /\ line \in LineRows
  BY <1>1 DEF DbOK, TablesOK, LineNeeds, LineRows
<1>8. CASE line.plan \in DOMAIN s.plans
  <2> DEFINE i == line.plan
             v == s.plans[i].version + 1
             counted == [left.plans EXCEPT ![i].version = v]
  <2>1. /\ i \in DOMAIN left.plans
        /\ db' = [left EXCEPT !.plans[i].version = v]
        /\ UNCHANGED <<last, entered, deleted>>
    BY <1>2, <1>4, <1>8
  <2>2. v \in Int
    BY <1>1, <1>8 DEF SeenOK, TablesOK, PlanRows
  <2>3. PlanNeeds(db) \cup {n} = PlanNeeds(db)
    <3>1. db.plans[i].need = n
      BY <1>1, <1>4, <2>1 DEF DbOK, OnceOK
    <3> QED BY <1>4, <2>1, <3>1 DEF PlanNeeds
  <2> HIDE DEF left, v, i, n, line
  <2>4. db' = [left EXCEPT !.plans = counted]
    BY <1>6, <2>1 DEF DbOK, TablesOK
  <2>5. left.plans \in [DOMAIN left.plans -> PlanRows]
    BY <1>6 DEF DbOK, TablesOK
  <2>6. /\ counted \in [DOMAIN left.plans -> PlanRows]
        /\ \A j \in DOMAIN left.plans : /\ counted[j].need = left.plans[j].need
                                        /\ counted[j].no = left.plans[j].no
    BY <2>2, <2>5 DEF PlanRows
  <2> HIDE DEF counted
  <2>7. \A k \in DOMAIN left.lines, j \in DOMAIN left.plans :
            left.lines[k].no = counted[j].no => left.lines[k].no = left.plans[j].no
    BY <2>6
  <2>8. Shrunk(left, db') /\ PlanNeeds(db') = PlanNeeds(left) /\ LineNeeds(db') = LineNeeds(left)
    BY <1>1, <1>6, <2>4, <2>6, <2>7, PlansEdited
  <2>9. DbOK(db', last) /\ \A t : SeenOK(t, left, last) => SeenOK(t, db', last)
    BY <1>1, <1>6, <2>8, ShrunkOK
  <2>10. TablesStep
    BY <1>1, <1>6, <2>1, <2>9 DEF TablesStep
  <2>11. NeedRestored(n)
    BY <1>5, <1>7, <2>1, <2>3, <2>8 DEF NeedRestored
  <2> QED BY <1>7, <2>10, <2>11 DEF NeedsStep
<1>9. CASE line.plan \notin DOMAIN s.plans
  <2> DEFINE p == Plan(n, line.no, line.date, 1)
  <2>1. /\ line.no \notin PlanNos(db)
        /\ last' = [last EXCEPT !.plan = @ + 1]
        /\ db' = [left EXCEPT !.plans = WithRows(@, [i \in {last.plan + 1} |-> p])]
        /\ UNCHANGED <<entered, deleted>>
    BY <1>2, <1>9
  <2>2. p \in PlanRows /\ p.need = n /\ p.no = line.no
    BY <1>7 DEF Plan, PlanRows, LineRows
  <2>3. ASSUME NEW i \in DOMAIN db.plans, db.plans[i].need = n PROVE FALSE
    <3>1. line.plan = i /\ i # NoPlan
      BY <1>1, <2>3 DEF DbOK, OnceOK, IdsOK, NoPlan
    <3>2. s.lines[l].plan = i
      BY <1>1, <3>1 DEF SeenOK
    <3>3. i \in DOMAIN s.plans
      BY <1>1, <3>1, <3>2 DEF SeenOK, RefersOK
    <3> QED BY <1>9, <3>1, <3>3
  <2>4. n \notin PlanNeeds(left) \cup LineNeeds(left)
    BY <1>5, <2>3 DEF PlanNeeds
  <2>5. line.no \notin PlanNos(left) \cup LineNos(left)
    <3>1. line.no \notin PlanNos(left)
      BY <1>4, <2>1 DEF PlanNos
    <3>2. ASSUME NEW k \in DOMAIN left.lines, left.lines[k].no = line.no PROVE FALSE
      <4>1. k \in DOMAIN db.lines /\ k # l /\ db.lines[k].no = line.no
        BY <1>4, <3>2
      <4> QED BY <1>1, <4>1 DEF DbOK, NosOK, OnceOK
    <3> QED BY <3>1, <3>2 DEF LineNos
  <2> HIDE DEF left, p, n, line
  <2>6. /\ last' \in Counters
        /\ DbOK(db', last')
        /\ \A t : SeenOK(t, left, last) => SeenOK(t, db', last')
        /\ PlanNeeds(db') = PlanNeeds(left) \cup {n}
        /\ LineNeeds(db') = LineNeeds(left)
    BY <1>1, <1>6, <2>1, <2>2, <2>4, <2>5, InsertedOK
  <2>7. TablesStep
    BY <1>6, <2>6 DEF TablesStep
  <2>8. NeedRestored(n)
    BY <1>5, <1>7, <2>1, <2>6 DEF NeedRestored
  <2> QED BY <1>7, <2>7, <2>8 DEF NeedsStep
<1> QED BY <1>8, <1>9

\* The nightly job deletes plans whose needs have lines.
LEMMA CleanupOK ==
    ASSUME PInv, cleanup_moved_plans_once PROVE TablesStep /\ NeedsStep
<1>1. DbOK(db, last) /\ last \in Counters
  BY DEF PInv, CountersOK, Counters
<1>2. PICK batch : /\ batch \subseteq Candidates
                   /\ db' = WithoutPlans(db, batch)
                   /\ UNCHANGED <<last, entered, deleted, snap, started>>
  BY DEF cleanup_moved_plans_once
<1> DEFINE ns == {db.plans[i].need : i \in batch}
<1>3. batch \subseteq DOMAIN db.plans
  BY <1>2 DEF Candidates
<1>4. Shrunk(db, db') /\ PlanNeeds(db') = PlanNeeds(db) \ ns /\ LineNeeds(db') = LineNeeds(db)
  BY <1>1, <1>2, <1>3, PlansDeleted
<1>5. ns \subseteq PlanNeeds(db)
  BY <1>3 DEF PlanNeeds
<1>6. ns \subseteq LineNeeds(db)
  <2>1. ASSUME NEW i \in batch PROVE db.plans[i].need \in LineNeeds(db)
    <3>1. PICK l \in DOMAIN db.lines : db.lines[l].plan = i
      BY <1>2 DEF Candidates, LinesOfPlan
    <3> QED BY <1>1, <1>3, <3>1 DEF DbOK, OnceOK, LineNeeds
  <2> QED BY <2>1
<1>7. ns \in SUBSET Nat
  BY <1>1, <1>5, NeedsAreNat DEF DbOK
<1> HIDE DEF ns
<1>8. NeedsCleaned(ns)
  BY <1>2, <1>4, <1>5, <1>6 DEF NeedsCleaned
<1> QED BY <1>2, <1>4, <1>7, <1>8, ShrinkingStep DEF NeedsStep

-----------------------------------------------------------------------------
(* The theorems.                                                            *)

\* In the first state there are no rows.
LEMMA InitPInv == Init => PInv
<1> SUFFICES ASSUME Init PROVE PInv
  OBVIOUS
<1>1. db.plans = <<>> /\ db.lines = <<>> /\ db = [plans |-> <<>>, lines |-> <<>>, headers |-> {}]
  BY DEF Init, EmptyTables
<1>2. DOMAIN db.plans = {} /\ DOMAIN db.lines = {}
  BY <1>1
<1>3. TablesOK(db)
  BY <1>1, <1>2, FS_EmptySet DEF TablesOK
<1>4. DbOK(db, last)
  BY <1>2, <1>3 DEF DbOK, RefersOK, IdsOK, OnceOK, NosOK
<1>5. PlanNeeds(db) \cup LineNeeds(db) = 1..entered \ deleted
  BY <1>2 DEF Init, PlanNeeds, LineNeeds
<1>6. CountersOK
  BY MaxNeedsAssumption DEF Init, CountersOK
<1>7. SnapsOK
  BY DEF Init, SnapsOK
<1> QED BY <1>4, <1>5, <1>6, <1>7 DEF PInv

\* Every step leaves the needs as they are or changes them as one request can.
LEMMA EveryStep ==
    ASSUME PInv, Next
    PROVE  /\ TablesStep /\ NeedsStep
           /\ \A r \in Requests : snap'[r] = snap[r] \/ snap'[r] = Idle \/ snap'[r] = db
           /\ snap' = [r \in Requests |-> snap'[r]]
<1>1. DbOK(db, last) /\ last \in Counters /\ snap = [r \in Requests |-> snap[r]]
  BY DEF PInv, CountersOK, Counters, SnapsOK
<1>2. ASSUME UNCHANGED <<db, last, entered, deleted>> PROVE TablesStep /\ NeedsStep
  BY <1>1, <1>2 DEF TablesStep, NeedsStep, NeedsKept, PlanNeeds, LineNeeds
<1>3. ASSUME NEW r \in Requests, Begin(r)
      PROVE  /\ TablesStep /\ NeedsStep
             /\ \A q \in Requests : snap'[q] = snap[q] \/ snap'[q] = Idle \/ snap'[q] = db
             /\ snap' = [q \in Requests |-> snap'[q]]
  <2>1. snap' = [snap EXCEPT ![r] = db] /\ UNCHANGED <<db, last, entered, deleted>>
    BY <1>3 DEF Begin
  <2>2. snap' = [q \in Requests |-> IF q = r THEN db ELSE snap[q]]
    BY <1>1, <2>1
  <2> QED BY <1>2, <2>1, <2>2
<1>4. ASSUME NEW r \in Requests, Close(r)
      PROVE  /\ \A q \in Requests : snap'[q] = snap[q] \/ snap'[q] = Idle \/ snap'[q] = db
             /\ snap' = [q \in Requests |-> snap'[q]]
  <2>1. snap' = [q \in Requests |-> IF q = r THEN Idle ELSE snap[q]]
    BY <1>1, <1>4 DEF Close
  <2> QED BY <2>1
<1>5. ASSUME NEW r \in Requests, Fail(r) PROVE TablesStep /\ NeedsStep /\ Close(r)
  BY <1>2, <1>5 DEF Fail
<1>6. ASSUME NEW r \in Requests, Commit(r) PROVE TablesStep /\ NeedsStep /\ Close(r)
  BY <1>6, EnterNeedOK, PlanUpdateOK, LinkOK, PlansUpdateOK, PlanDeleteOK, MoveOK, LineUpdateOK,
     LinesUpdateOK, RestoreOK DEF Commit, create_purchase_material, generate_purchase_plan
<1>7. ASSUME cleanup_moved_plans_once PROVE TablesStep /\ NeedsStep /\ UNCHANGED snap
  BY <1>7, CleanupOK DEF cleanup_moved_plans_once
<1> QED BY <1>1, <1>3, <1>4, <1>5, <1>6, <1>7 DEF Next

\* What a step does to the needs keeps every need entered in a plan or on a line,
\* unless it was deleted.
LEMMA NeedsStepOK ==
    ASSUME PInv, NeedsStep
    PROVE  /\ entered' \in 0..MaxNeeds
           /\ deleted' \subseteq 1..entered'
           /\ PlanNeeds(db)' \cup LineNeeds(db)' = 1..entered' \ deleted'
<1> DEFINE P == PlanNeeds(db)
           L == LineNeeds(db)
<1>1. /\ P \cup L = 1..entered \ deleted
      /\ entered \in 0..MaxNeeds
      /\ deleted \subseteq 1..entered
      /\ MaxNeeds \in Nat
  BY MaxNeedsAssumption DEF PInv, CountersOK
<1> HIDE DEF P, L
<1>2. CASE NeedsKept
  BY <1>1, <1>2 DEF NeedsKept, P, L
<1>3. CASE NeedEntered
  <2>1. /\ entered' = entered + 1 /\ deleted' = deleted /\ P' = P \cup {entered + 1} /\ L' = L
        /\ entered < MaxNeeds
    BY <1>3 DEF NeedEntered, P, L
  <2> QED BY <1>1, <2>1 DEF P, L
<1>4. ASSUME NEW n \in Nat, NeedDeleted(n)
      PROVE  /\ entered' \in 0..MaxNeeds
             /\ deleted' \subseteq 1..entered'
             /\ P' \cup L' = 1..entered' \ deleted'
  <2>1. /\ n \in P /\ P' = P \ {n} /\ L' = L /\ entered' = entered
        /\ deleted' = IF n \in L THEN deleted ELSE deleted \cup {n}
    BY <1>4 DEF NeedDeleted, P, L
  <2> QED BY <1>1, <2>1
<1>5. ASSUME NEW n \in Nat, NeedRestored(n) PROVE P' \cup L' = P \cup L /\ UNCHANGED <<entered, deleted>>
  BY <1>5 DEF NeedRestored, P, L
<1>6. ASSUME NEW ns, NeedsMoved(ns) PROVE P' \cup L' = P \cup L /\ UNCHANGED <<entered, deleted>>
  BY <1>6 DEF NeedsMoved, P, L
<1>7. ASSUME NEW ns, NeedsCleaned(ns) PROVE P' \cup L' = P \cup L /\ UNCHANGED <<entered, deleted>>
  BY <1>7 DEF NeedsCleaned, P, L
<1> QED BY <1>1, <1>2, <1>3, <1>4, <1>5, <1>6, <1>7 DEF NeedsStep, P, L

\* The invariant is inductive.
LEMMA NextPInv == PInv /\ [Next]_vars => PInv'
<1> SUFFICES ASSUME PInv, [Next]_vars PROVE PInv'
  OBVIOUS
<1>1. CASE Next
  <2>1. /\ TablesStep /\ NeedsStep
        /\ \A r \in Requests : snap'[r] = snap[r] \/ snap'[r] = Idle \/ snap'[r] = db
        /\ snap' = [r \in Requests |-> snap'[r]]
    BY <1>1, EveryStep
  <2>2. /\ entered' \in 0..MaxNeeds
        /\ deleted' \subseteq 1..entered'
        /\ PlanNeeds(db)' \cup LineNeeds(db)' = 1..entered' \ deleted'
    BY <2>1, NeedsStepOK
  <2>3. CountersOK'
    BY <2>1, <2>2 DEF TablesStep, Counters, CountersOK
  <2>4. SeenOK(db, db, last)
    BY DEF PInv, DbOK, SeenOK
  <2>5. ASSUME NEW r \in Requests PROVE snap'[r] = Idle \/ SeenOK(snap'[r], db', last')
    BY <2>1, <2>4 DEF PInv, SnapsOK, TablesStep
  <2>6. SnapsOK'
    BY <2>1, <2>5 DEF SnapsOK
  <2> QED BY <2>1, <2>2, <2>3, <2>6 DEF PInv, TablesStep
<1>2. CASE UNCHANGED vars
  <2>1. UNCHANGED <<db, last, entered, deleted, snap>>
    BY <1>2 DEF vars
  <2>2. CountersOK' /\ (PlanNeeds(db) \cup LineNeeds(db) = 1..entered \ deleted)'
    BY <2>1 DEF PInv, CountersOK, PlanNeeds, LineNeeds
  <2>3. DbOK(db, last)'
    BY <2>1 DEF PInv, DbOK, TablesOK, RefersOK, IdsOK, OnceOK, NosOK
  <2>4. SnapsOK'
    BY <2>1 DEF PInv, SnapsOK, SeenOK, TablesOK, RefersOK, IdsOK
  <2> QED BY <2>2, <2>3, <2>4 DEF PInv
<1> QED BY <1>1, <1>2

\* The invariant holds in every state.
LEMMA PInvHolds == Spec => []PInv
BY InitPInv, NextPInv, PTL DEF Spec

\* However requests with old snapshots and the nightly job interleave, a need has at
\* most one plan and at most one record line, and the line refers to the plan.
THEOREM NeedsOnce == Spec => []EachNeedOnce
<1>1. PInv => EachNeedOnce
  BY DEF PInv, DbOK, OnceOK, EachNeedOnce
<1> QED BY <1>1, PInvHolds, PTL

\* However plans and lines are renumbered, moved and rebuilt, a number never stands
\* for two needs.
THEOREM NumbersIdentify == Spec => []PlanNoIdentifiesNeed
<1>1. ASSUME PInv PROVE PlanNoIdentifiesNeed
  <2>1. NosOK(db)
    BY <1>1 DEF PInv, DbOK
  <2>2. ASSUME NEW a \in Range(db.plans) \cup Range(db.lines), NEW b \in Range(db.plans) \cup Range(db.lines),
               a.no = b.no
        PROVE  a.need = b.need
    <3>1. CASE a \in Range(db.plans) /\ b \in Range(db.plans)
      BY <2>1, <2>2, <3>1 DEF NosOK, Range
    <3>2. CASE a \in Range(db.lines) /\ b \in Range(db.lines)
      BY <2>1, <2>2, <3>2 DEF NosOK, Range
    <3>3. CASE a \in Range(db.lines) /\ b \in Range(db.plans)
      BY <2>1, <2>2, <3>3 DEF NosOK, Range
    <3>4. CASE a \in Range(db.plans) /\ b \in Range(db.lines)
      BY <2>1, <2>2, <3>4 DEF NosOK, Range
    <3> QED BY <3>1, <3>2, <3>3, <3>4
  <2> QED BY <2>2 DEF PlanNoIdentifiesNeed
<1> QED BY <1>1, PInvHolds, PTL

-----------------------------------------------------------------------------
(* The refinement.                                                          *)

\* The place of a need, from the needs P that have plans, the needs L that have
\* lines, the number e of needs entered and the needs x deleted.
PlaceIn(P, L, e, x, n) ==
    IF n > e THEN "none"
    ELSE IF n \in x THEN "deleted"
    ELSE IF n \in L THEN "record"
    ELSE IF n \in P THEN "plan"
    ELSE "lost"

\* What a step does to the needs moves one of them on in its life, or all the plans
\* of one request.
LEMMA EveryStepIsOfALife ==
    ASSUME PInv, NeedsStep PROVE [Lifecycle!Next]_([n \in Needs |-> Place(n)])
<1> DEFINE P == PlanNeeds(db)
           L == LineNeeds(db)
           now(n) == PlaceIn(P, L, entered, deleted, n)
           next(n) == PlaceIn(P', L', entered', deleted', n)
           place == [n \in Needs |-> now(n)]
           later == [n \in Needs |-> next(n)]
<1>1. [n \in Needs |-> Place(n)] = place
  BY DEF Place, PlaceIn, PlanNeeds, LineNeeds
<1>2. [n \in Needs |-> Place(n)]' = later
  BY DEF Place, PlaceIn, PlanNeeds, LineNeeds
<1>3. /\ P \cup L = 1..entered \ deleted
      /\ entered \in 0..MaxNeeds
      /\ deleted \subseteq 1..entered
      /\ MaxNeeds \in Nat
  BY MaxNeedsAssumption DEF PInv, CountersOK
<1>4. /\ \A n \in Needs : place[n] = now(n) /\ later[n] = next(n)
      /\ place = [n \in Needs |-> place[n]]
      /\ later = [n \in Needs |-> later[n]]
  OBVIOUS
<1> DEFINE Becomes(n, v) == \A m \in Needs : next(m) = IF m = n THEN v ELSE now(m)
<1>5. CASE NeedsKept
  <2>1. P' = P /\ L' = L /\ entered' = entered /\ deleted' = deleted
    BY <1>5 DEF NeedsKept
  <2> QED BY <1>1, <1>2, <2>1
<1>6. CASE NeedEntered
  <2>1. /\ entered' = entered + 1 /\ deleted' = deleted /\ P' = P \cup {entered + 1} /\ L' = L
        /\ entered < MaxNeeds
    BY <1>6 DEF NeedEntered
  <2> HIDE DEF P, L
  <2>2. entered + 1 \in Needs /\ now(entered + 1) = "none"
    BY <1>3, <2>1 DEF Needs, PlaceIn
  <2>3. Becomes(entered + 1, "plan")
    BY <1>3, <2>1 DEF Needs, PlaceIn
  <2> HIDE DEF now, next
  <2>4. later = [place EXCEPT ![entered + 1] = "plan"]
    BY <1>4, <2>2, <2>3
  <2> HIDE DEF place, later
  <2> QED BY <1>1, <1>2, <1>4, <2>2, <2>4 DEF Lifecycle!Next, Lifecycle!Enter
<1>7. ASSUME NEW n \in Nat, NeedDeleted(n) PROVE [Lifecycle!Next]_([m \in Needs |-> Place(m)])
  <2>1. /\ n \in P /\ P' = P \ {n} /\ L' = L /\ entered' = entered
        /\ deleted' = IF n \in L THEN deleted ELSE deleted \cup {n}
    BY <1>7 DEF NeedDeleted
  <2> HIDE DEF P, L
  <2>2. CASE n \in L
    <3>1. \A m \in Needs : next(m) = now(m)
      BY <2>1, <2>2 DEF PlaceIn
    <3> QED BY <1>1, <1>2, <3>1
  <2>3. CASE n \notin L
    <3>1. n \in Needs /\ now(n) = "plan"
      BY <1>3, <2>1, <2>3 DEF Needs, PlaceIn
    <3>2. Becomes(n, "deleted")
      BY <1>3, <2>1, <2>3 DEF Needs, PlaceIn
    <3> HIDE DEF now, next
    <3>3. later = [place EXCEPT ![n] = "deleted"]
      BY <1>4, <3>1, <3>2
    <3> HIDE DEF place, later
    <3> QED BY <1>1, <1>2, <1>4, <3>1, <3>3 DEF Lifecycle!Next, Lifecycle!Delete
  <2> QED BY <2>2, <2>3
<1>8. ASSUME NEW n \in Nat, NeedRestored(n) PROVE [Lifecycle!Next]_([m \in Needs |-> Place(m)])
  <2>1. n \in L /\ L' = L \ {n} /\ P' = P \cup {n} /\ entered' = entered /\ deleted' = deleted
    BY <1>8 DEF NeedRestored
  <2> HIDE DEF P, L
  <2>2. n \in Needs /\ now(n) = "record"
    BY <1>3, <2>1 DEF Needs, PlaceIn
  <2>3. Becomes(n, "plan")
    BY <1>3, <2>1 DEF Needs, PlaceIn
  <2> HIDE DEF now, next
  <2>4. later = [place EXCEPT ![n] = "plan"]
    BY <1>4, <2>2, <2>3
  <2> HIDE DEF place, later
  <2> QED BY <1>1, <1>2, <1>4, <2>2, <2>4 DEF Lifecycle!Next, Lifecycle!Restore
<1>9. ASSUME NEW ns \in SUBSET Nat, NeedsMoved(ns) PROVE [Lifecycle!Next]_([m \in Needs |-> Place(m)])
  <2>1. ns \subseteq P \ L /\ L' = L \cup ns /\ P' = P /\ entered' = entered /\ deleted' = deleted
    BY <1>9 DEF NeedsMoved
  <2> HIDE DEF P, L
  <2>2. ns \in SUBSET Needs /\ \A n \in ns : now(n) = "plan"
    BY <1>3, <2>1 DEF Needs, PlaceIn
  <2>3. \A n \in Needs : next(n) = IF n \in ns THEN "record" ELSE now(n)
    BY <1>3, <2>1 DEF Needs, PlaceIn
  <2> HIDE DEF now, next
  <2>4. \A n \in ns : place[n] = "plan"
    BY <1>4, <2>2
  <2>5. later = [n \in Needs |-> IF n \in ns THEN "record" ELSE place[n]]
    BY <2>3
  <2> HIDE DEF place, later
  <2> QED BY <1>1, <1>2, <2>2, <2>4, <2>5 DEF Lifecycle!Next, Lifecycle!Move
<1>10. ASSUME NEW ns \in SUBSET Nat, NeedsCleaned(ns) PROVE [Lifecycle!Next]_([m \in Needs |-> Place(m)])
  <2>1. ns \subseteq P \cap L /\ L' = L /\ P' = P \ ns /\ entered' = entered /\ deleted' = deleted
    BY <1>10 DEF NeedsCleaned
  <2> HIDE DEF P, L
  <2>2. \A n \in Needs : next(n) = now(n)
    BY <2>1 DEF PlaceIn
  <2> QED BY <1>1, <1>2, <2>2
<1> QED BY <1>5, <1>6, <1>7, <1>8, <1>9, <1>10 DEF NeedsStep

\* Procurement implements the life of a need: nothing the nightly job or overlapping
\* requests do loses a need, or brings back one that was deleted.
THEOREM NeedsLiveTheirLife == Spec => NeedsLive
<1>1. Init => Lifecycle!Init
  BY MaxNeedsAssumption DEF Init, Lifecycle!Init, Place, Needs
<1>2. PInv /\ [Next]_vars => [Lifecycle!Next]_([n \in Needs |-> Place(n)])
  <2>1. ASSUME PInv, Next PROVE [Lifecycle!Next]_([n \in Needs |-> Place(n)])
    BY <2>1, EveryStep, EveryStepIsOfALife
  <2>2. ASSUME UNCHANGED vars PROVE UNCHANGED [n \in Needs |-> Place(n)]
    BY <2>2 DEF vars, Place
  <2> QED BY <2>1, <2>2
<1> QED BY <1>1, <1>2, PInvHolds, PTL DEF Spec, NeedsLive, Lifecycle!Spec

-----------------------------------------------------------------------------
(* Exports.  A task knows the status of its row, as nobody else writes the  *)
(* row of a job that has a task; rows are written at start-up, when no task *)
(* runs.                                                                    *)

\* What the row of a job is while its task stands at pc.
StatusKnown(j, pc) ==
    /\ pc = "created" => j \in DOMAIN row /\ row[j].status = "PENDING"
    /\ pc \in {"rendering", "writing", "returned", "raised"} =>
          j \in DOMAIN row /\ row[j].status = "RUNNING"
    /\ pc = "removing" /\ j \in DOMAIN row => row[j].status = "FAILED"
    /\ pc = "returned" /\ j \notin cancelled => j \in file
    /\ pc \in {"none", "lost", "created", "rendering", "writing", "returned", "raised", "removing"}

ExportRow(x) == DOMAIN x = {"status", "path", "expired"}

ExportsInv ==
    /\ row = [j \in DOMAIN row |-> row[j]] /\ \A j \in DOMAIN row : ExportRow(row[j])
    /\ DOMAIN row \subseteq asked
    /\ task = [j \in Jobs |-> task[j]] /\ \A j \in Jobs : StatusKnown(j, task[j])
    /\ server \in {"down", "marking", "cleaning"} => \A j \in Jobs : ~Exports!Alive(j)
    /\ \A j \in unlink : j \in asked /\ (j \in DOMAIN row => row[j].status = "FAILED")
    /\ OnlyCancelledLacksFile

LEMMA ExportsInit == Exports!Init => ExportsInv
  BY DEF Exports!Init, ExportsInv, StatusKnown, Exports!Alive, OnlyCancelledLacksFile,
         Exports!OnlyCancelledLacksFile, Exports!With

\* A step of one task that leaves the server alone: row and task of the job change together.
LEMMA TaskStep ==
    ASSUME ExportsInv, NEW j \in Jobs, NEW pc, NEW status, Exports!Alive(j),
           UNCHANGED <<asked, cancelled, server, unlink>>,
           task' = [task EXCEPT ![j] = pc],
           row' \in {row, [row EXCEPT ![j].status = status], [row EXCEPT ![j].status = status, ![j].path = TRUE]},
           row' = row => j \notin DOMAIN row \/ status = row[j].status,
           file \ {j} \subseteq file',
           j \in unlink /\ j \in DOMAIN row => status = "FAILED",
           pc = "created" => j \in DOMAIN row /\ status = "PENDING",
           pc \in {"rendering", "writing", "returned", "raised"} => j \in DOMAIN row /\ status = "RUNNING",
           pc = "removing" /\ j \in DOMAIN row => status = "FAILED",
           pc = "returned" /\ j \notin cancelled => j \in file',
           pc \in {"none", "lost", "created", "rendering", "writing", "returned", "raised", "removing"},
           j \in DOMAIN row /\ status = "SUCCEEDED" /\ j \notin cancelled => j \in file'
    PROVE  ExportsInv'
<1>1. /\ row = [i \in DOMAIN row |-> row[i]] /\ \A i \in DOMAIN row : ExportRow(row[i])
      /\ DOMAIN row \subseteq asked
      /\ task = [i \in Jobs |-> task[i]] /\ \A i \in Jobs : StatusKnown(i, task[i])
      /\ \A i \in unlink : i \in asked /\ (i \in DOMAIN row => row[i].status = "FAILED")
      /\ \A i \in DOMAIN row : row[i].status = "SUCCEEDED" /\ i \notin cancelled => i \in file
  BY DEF ExportsInv, OnlyCancelledLacksFile, Exports!OnlyCancelledLacksFile, Exports!With
<1>2. /\ row' = [i \in DOMAIN row |-> row'[i]] /\ DOMAIN row' = DOMAIN row
      /\ \A i \in DOMAIN row : ExportRow(row'[i])
      /\ \A i \in DOMAIN row : row'[i].status = IF i = j THEN status ELSE row[i].status
  BY <1>1 DEF ExportRow
<1>3. task' = [i \in Jobs |-> task'[i]] /\ \A i \in Jobs : task'[i] = IF i = j THEN pc ELSE task[i]
  BY <1>1
<1>4. ASSUME NEW i \in Jobs PROVE StatusKnown(i, task[i])'
  <2>1. CASE i = j
    BY <1>2, <1>3, <2>1 DEF StatusKnown
  <2>2. CASE i # j
    <3>1. task'[i] = task[i] /\ StatusKnown(i, task[i]) /\ (i \in file => i \in file')
      BY <1>1, <1>3, <2>2
    <3> QED BY <1>2, <2>2, <3>1 DEF StatusKnown
  <2> QED BY <2>1, <2>2
<1>5. \A i \in DOMAIN row' : row'[i].status = "SUCCEEDED" /\ i \notin cancelled' => i \in file'
  BY <1>1, <1>2
<1>6. server' \in {"down", "marking", "cleaning"} => \A i \in Jobs : ~Exports!Alive(i)'
  BY DEF ExportsInv
<1>7. \A i \in unlink' : i \in asked' /\ (i \in DOMAIN row' => row'[i].status = "FAILED")
  BY <1>1, <1>2
<1> QED BY <1>1, <1>2, <1>3, <1>4, <1>5, <1>6, <1>7
        DEF ExportsInv, OnlyCancelledLacksFile, Exports!OnlyCancelledLacksFile, Exports!With

LEMMA ExportsStep == ExportsInv /\ [Exports!Next]_(Exports!vars) => ExportsInv'
<1> SUFFICES ASSUME ExportsInv, [Exports!Next]_(Exports!vars) PROVE ExportsInv'
  OBVIOUS
<1>0. /\ row = [j \in DOMAIN row |-> row[j]] /\ \A j \in DOMAIN row : ExportRow(row[j])
      /\ DOMAIN row \subseteq asked
      /\ task = [j \in Jobs |-> task[j]] /\ \A j \in Jobs : StatusKnown(j, task[j])
      /\ \A j \in unlink : j \in asked /\ (j \in DOMAIN row => row[j].status = "FAILED")
      /\ \A j \in DOMAIN row : row[j].status = "SUCCEEDED" /\ j \notin cancelled => j \in file
  BY DEF ExportsInv, OnlyCancelledLacksFile, Exports!OnlyCancelledLacksFile, Exports!With
<1>1. ASSUME NEW j \in Jobs, Exports!enqueue_export(j) PROVE ExportsInv'
  <2>1. /\ j \notin DOMAIN row /\ j \notin unlink /\ server = "up"
        /\ UNCHANGED <<file, tmp, cancelled, server, unlink>> /\ asked' = asked \cup {j}
        /\ row' = [i \in DOMAIN row \cup {j} |->
                     IF i = j THEN [status |-> "PENDING", path |-> FALSE, expired |-> FALSE] ELSE row[i]]
        /\ task' = [task EXCEPT ![j] = "created"]
    BY <1>0, <1>1 DEF Exports!enqueue_export
  <2>2. ASSUME NEW i \in Jobs PROVE StatusKnown(i, task[i])'
    <3>1. CASE i = j
      BY <1>0, <2>1, <3>1 DEF StatusKnown
    <3>2. CASE i # j
      <4>1. task'[i] = task[i] /\ StatusKnown(i, task[i])
        BY <1>0, <2>1, <3>2
      <4> QED BY <2>1, <3>2, <4>1 DEF StatusKnown
    <3> QED BY <3>1, <3>2
  <2> QED BY <1>0, <2>1, <2>2 DEF ExportsInv, ExportRow, OnlyCancelledLacksFile,
                                  Exports!OnlyCancelledLacksFile, Exports!With
<1>2. ASSUME NEW j \in Jobs, Exports!StartJob(j) PROVE ExportsInv'
  <2>1. /\ UNCHANGED <<asked, file, cancelled, server, unlink>> /\ task[j] = "created"
        /\ task' = [task EXCEPT ![j] = "rendering"]
        /\ row' = [row EXCEPT ![j].status = "RUNNING", ![j].path = TRUE]
    BY <1>2 DEF Exports!StartJob
  <2>4. PICK pc, status : pc = "rendering" /\ status = "RUNNING"
    OBVIOUS
  <2>5. /\ task' = [task EXCEPT ![j] = pc]
        /\ row' \in {row, [row EXCEPT ![j].status = status],
                    [row EXCEPT ![j].status = status, ![j].path = TRUE]}
    BY <2>1, <2>4
  <2>2. j \in DOMAIN row /\ row[j].status = "PENDING" /\ j \notin unlink
    BY <1>0, <2>1 DEF StatusKnown
  <2>3. row' # row
    <3>1. row'[j].status = "RUNNING"
      BY <1>0, <2>1, <2>2 DEF ExportRow
    <3> QED BY <2>2, <3>1
  <2>6. /\ Exports!Alive(j) /\ UNCHANGED <<asked, cancelled, server, unlink>>
        /\ file \ {j} \subseteq file' /\ (row' = row => j \notin DOMAIN row \/ status = row[j].status)
    BY <2>1, <2>3 DEF Exports!Alive
  <2>7. /\ pc # "created" /\ pc # "removing" /\ pc # "returned" /\ status # "SUCCEEDED"
        /\ (pc \in {"rendering", "writing", "returned", "raised"} => j \in DOMAIN row /\ status = "RUNNING")
        /\ pc \in {"none", "lost", "created", "rendering", "writing", "returned", "raised", "removing"}
    BY <2>2, <2>4
  <2> QED BY <2>2, <2>5, <2>6, <2>7, TaskStep
<1>3. ASSUME NEW j \in Jobs, Exports!WriteTmp(j) PROVE ExportsInv'
  BY <1>0, <1>3, TaskStep DEF Exports!WriteTmp, StatusKnown, Exports!Alive
<1>4. ASSUME NEW j \in Jobs, Exports!Rename(j) PROVE ExportsInv'
  BY <1>0, <1>4, TaskStep DEF Exports!Rename, StatusKnown, Exports!Alive
<1>5. ASSUME NEW j \in Jobs, Exports!ProcessorFails(j) PROVE ExportsInv'
  BY <1>0, <1>5, TaskStep DEF Exports!ProcessorFails, StatusKnown, Exports!Alive
<1>6. ASSUME NEW j \in Jobs, Exports!FinishJob(j) PROVE ExportsInv'
  <2>1. PICK pc, status :
           /\ pc = IF task[j] = "returned" THEN "none" ELSE "removing"
           /\ status = IF task[j] = "returned" THEN "SUCCEEDED" ELSE "FAILED"
    OBVIOUS
  <2>2. /\ UNCHANGED <<asked, file, cancelled, server, unlink>> /\ task[j] \in {"returned", "raised"}
        /\ task' = [task EXCEPT ![j] = pc] /\ row' = [row EXCEPT ![j].status = status]
    BY <1>6, <2>1 DEF Exports!FinishJob, Exports!Outcome
  <2>3. j \in DOMAIN row /\ row[j].status = "RUNNING" /\ j \notin unlink
        /\ (task[j] = "returned" /\ j \notin cancelled => j \in file)
    BY <1>0, <2>2 DEF StatusKnown
  <2>4. row' # row
    <3>1. row'[j].status = status
      BY <1>0, <2>2, <2>3 DEF ExportRow
    <3> QED BY <2>1, <2>2, <2>3, <3>1
  <2>5. pc \in {"none", "removing"} /\ (pc = "removing" => status = "FAILED")
        /\ (status = "SUCCEEDED" /\ j \notin cancelled => j \in file')
    BY <2>1, <2>2, <2>3
  <2> QED BY <2>2, <2>3, <2>4, <2>5, TaskStep DEF Exports!Alive
<1>7. ASSUME NEW j \in Jobs, Exports!RemoveFailed(j) PROVE ExportsInv'
  BY <1>0, <1>7, TaskStep DEF Exports!RemoveFailed, StatusKnown, Exports!Alive
<1>8. ASSUME NEW j \in Jobs, Exports!TransactionFails(j) PROVE ExportsInv'
  BY <1>0, <1>8, TaskStep DEF Exports!TransactionFails, StatusKnown, Exports!Alive
<1>9. CASE UNCHANGED Exports!vars
  BY <1>9 DEF Exports!vars, ExportsInv, StatusKnown, Exports!Alive, OnlyCancelledLacksFile,
              Exports!OnlyCancelledLacksFile, Exports!With
<1>10. ASSUME NEW j \in Jobs, Exports!Expire(j) PROVE ExportsInv'
  <2>1. /\ UNCHANGED <<asked, file, tmp, task, cancelled, server, unlink>>
        /\ row' = [row EXCEPT ![j].expired = TRUE]
    BY <1>10 DEF Exports!Expire
  <2>2. /\ row' = [i \in DOMAIN row |-> row'[i]] /\ DOMAIN row' = DOMAIN row
        /\ \A i \in DOMAIN row : ExportRow(row'[i])
        /\ \A i \in DOMAIN row : row'[i].status = row[i].status
    BY <1>0, <2>1 DEF ExportRow
  <2>3. \A i \in Jobs : StatusKnown(i, task[i])'
    BY <1>0, <2>1, <2>2 DEF StatusKnown
  <2>4. \A i \in unlink' : i \in asked' /\ (i \in DOMAIN row' => row'[i].status = "FAILED")
    BY <1>0, <2>1, <2>2
  <2>5. server' \in {"down", "marking", "cleaning"} => \A i \in Jobs : ~Exports!Alive(i)'
    <3>1. server \in {"down", "marking", "cleaning"} => \A i \in Jobs : ~Exports!Alive(i)
      BY <1>0 DEF ExportsInv
    <3> QED BY <2>1, <3>1 DEF Exports!Alive
  <2>6. OnlyCancelledLacksFile'
    BY <1>0, <2>1, <2>2 DEF OnlyCancelledLacksFile, Exports!OnlyCancelledLacksFile, Exports!With
  <2> QED BY <1>0, <2>1, <2>2, <2>3, <2>4, <2>5, <2>6 DEF ExportsInv
<1>11. CASE Exports!Exit
  BY <1>11 DEF Exports!Exit, ExportsInv, StatusKnown, Exports!Alive, OnlyCancelledLacksFile,
               Exports!OnlyCancelledLacksFile, Exports!With
<1>12. CASE Exports!mark_stale_exports_failed
  <2>1. /\ \A j \in Jobs : ~Exports!Alive(j)
        /\ UNCHANGED <<asked, file, tmp, task, cancelled>> /\ server' = "marking"
        /\ unlink' = Exports!StalePaths
        /\ row' = IF Exports!StalePaths = {} THEN row
                  ELSE [j \in DOMAIN row |->
                          IF row[j].status \in Exports!Interrupted
                          THEN [row[j] EXCEPT !.status = "FAILED"] ELSE row[j]]
    BY <1>12 DEF Exports!mark_stale_exports_failed, ExportsInv
  <2>2. /\ row' = [j \in DOMAIN row |-> row'[j]] /\ DOMAIN row' = DOMAIN row
        /\ \A j \in DOMAIN row : ExportRow(row'[j])
        /\ \A j \in DOMAIN row : row'[j].status = "SUCCEEDED" => row[j].status = "SUCCEEDED"
        /\ \A j \in unlink' : j \in DOMAIN row /\ row'[j].status = "FAILED"
    BY <1>0, <2>1 DEF ExportRow, Exports!StalePaths, Exports!With, Exports!Interrupted
  <2>3. \A j \in Jobs : task[j] \in {"none", "lost"}
    BY <1>0, <2>1 DEF Exports!Alive
  <2>4. \A j \in Jobs : StatusKnown(j, task[j])'
    BY <2>1, <2>3 DEF StatusKnown
  <2> QED BY <1>0, <2>1, <2>2, <2>3, <2>4 DEF ExportsInv, Exports!Alive, OnlyCancelledLacksFile,
                                  Exports!OnlyCancelledLacksFile, Exports!With
<1>13. CASE Exports!DeleteRows
  <2>1. /\ UNCHANGED <<asked, file, tmp, task, cancelled>>
        /\ row' = [j \in DOMAIN row \ Exports!Expired |-> row[j]]
        /\ unlink' = {j \in Exports!Expired : row[j].path}
        /\ server' = IF server = "marking" THEN "cleaning" ELSE server
        /\ Exports!Expired \subseteq DOMAIN row
        /\ \A j \in Exports!Expired : row[j].status \in {"SUCCEEDED", "FAILED"} /\ row[j].expired
    BY <1>13 DEF Exports!DeleteRows, Exports!Expired, Exports!With, Exports!Terminal
  <2>2. \A j \in Jobs : StatusKnown(j, task[j])'
    BY <1>0, <2>1 DEF StatusKnown
  <2> QED BY <1>0, <2>1, <2>2 DEF ExportsInv, Exports!Alive, OnlyCancelledLacksFile,
                                  Exports!OnlyCancelledLacksFile, Exports!With
<1>14. CASE Exports!Started \/ Exports!SweepTmp
  <2>1. UNCHANGED <<row, asked, file, task, cancelled, unlink>> /\ server' \in {server, "up"}
    BY <1>14 DEF Exports!Started, Exports!SweepTmp
  <2> QED BY <2>1 DEF ExportsInv, StatusKnown, Exports!Alive, OnlyCancelledLacksFile,
                      Exports!OnlyCancelledLacksFile, Exports!With
<1>15. ASSUME NEW j \in Jobs, Exports!UnlinkFile(j) PROVE ExportsInv'
  <2>1. /\ UNCHANGED <<row, asked, task, cancelled, server>>
        /\ j \in unlink /\ file' = file \ {j} /\ unlink' = unlink \ {j}
    BY <1>15 DEF Exports!UnlinkFile
  <2>2. \A i \in Jobs : StatusKnown(i, task[i])'
    BY <1>0, <2>1 DEF StatusKnown
  <2> QED BY <1>0, <2>1, <2>2 DEF ExportsInv, Exports!Alive, OnlyCancelledLacksFile,
                                  Exports!OnlyCancelledLacksFile, Exports!With
<1>16. ASSUME NEW j \in Jobs, Exports!ThreadEnds(j) PROVE ExportsInv'
  BY <1>16 DEF Exports!ThreadEnds, ExportsInv, StatusKnown, Exports!Alive, OnlyCancelledLacksFile,
               Exports!OnlyCancelledLacksFile, Exports!With
<1>17. CASE Exports!Crash
  BY <1>17 DEF Exports!Crash, ExportsInv, StatusKnown, Exports!Alive, OnlyCancelledLacksFile,
               Exports!OnlyCancelledLacksFile, Exports!With
<1>18. CASE Exports!Stop
  <2>1. /\ UNCHANGED <<row, asked, file, unlink>> /\ server' = "stopping"
        /\ task' = [j \in Jobs |-> IF Exports!Waiting(j) THEN "returned" ELSE "none"]
        /\ cancelled' = cancelled \cup {j \in Jobs : Exports!Waiting(j)}
    BY <1>18 DEF Exports!Stop
  <2>2. \A j \in Jobs : StatusKnown(j, task[j])'
    BY <1>0, <2>1 DEF StatusKnown, Exports!Waiting
  <2> QED BY <1>0, <2>1, <2>2 DEF ExportsInv, OnlyCancelledLacksFile,
                                  Exports!OnlyCancelledLacksFile, Exports!With
<1> QED BY <1>1, <1>2, <1>3, <1>4, <1>5, <1>6, <1>7, <1>8, <1>9, <1>10, <1>11, <1>12, <1>13, <1>14,
           <1>15, <1>16, <1>17, <1>18 DEF Exports!Next, Exports!JobStep, Exports!ServerStep

\* A successful export has its file unless a cancellation parted them: no crash, no failed
\* transaction and no cleanup does (excel_export_job_service).
THEOREM ExportsKeepFiles == Exports!Spec => []OnlyCancelledLacksFile
<1>1. ExportsInv => OnlyCancelledLacksFile
  BY DEF ExportsInv
<1> QED BY <1>1, ExportsInit, ExportsStep, PTL DEF Exports!Spec

-----------------------------------------------------------------------------
(* Share links.                                                             *)

\* Links expire at a time or never; the cutoff of a running cleanup has passed.
SharingInv ==
    /\ time \in Nat
    /\ \A t \in DOMAIN expires : expires[t] \in {Permanent} \cup Nat
    /\ edit = [u \in Users |-> edit[u]]
    /\ cleanup.pc = "delete" => cleanup.now \in Nat /\ cleanup.now <= time

LEMMA SharingInit == Sharing!Init => SharingInv
  BY DEF Sharing!Init, SharingInv

LEMMA SharingStep == SharingInv /\ [Sharing!Next]_(Sharing!vars) => SharingInv'
<1> SUFFICES ASSUME SharingInv, [Sharing!Next]_(Sharing!vars) PROVE SharingInv'
  OBVIOUS
<1>0. Sharing!Expiries \subseteq {Permanent} \cup Nat
  BY DurationsAssumption DEF SharingInv, Sharing!Expiries
<1>1. CASE Sharing!create_share
  BY <1>0, <1>1 DEF Sharing!create_share, SharingInv, Sharing!Links
<1>2. CASE Sharing!SelectExpired
  <2>1. cleanup'.now = time
    BY <1>2 DEF Sharing!SelectExpired, Sharing!Cutoff
  <2> QED BY <1>2, <2>1 DEF Sharing!SelectExpired, SharingInv
<1>3. CASE Sharing!cleanup_expired
  BY <1>3 DEF Sharing!cleanup_expired, SharingInv, Sharing!Restrict, Sharing!Links
<1>4. CASE Sharing!Tick
  BY <1>4 DEF Sharing!Tick, SharingInv
<1>5. ASSUME NEW u \in Users, Sharing!BeginEdit(u) PROVE SharingInv'
  BY <1>5 DEF Sharing!BeginEdit, SharingInv
<1>6. ASSUME NEW u \in Users, Sharing!update_share(u) PROVE SharingInv'
  BY <1>0, <1>6 DEF Sharing!update_share, Sharing!Done, SharingInv, Sharing!Links
<1>7. ASSUME NEW u \in Users, Sharing!revoke_share(u) PROVE SharingInv'
  BY <1>7 DEF Sharing!revoke_share, Sharing!Done, SharingInv, Sharing!Restrict, Sharing!Links
<1>8. ASSUME NEW u \in Users, Sharing!EditFails(u) PROVE SharingInv'
  BY <1>8 DEF Sharing!EditFails, Sharing!Done, SharingInv
<1>9. CASE UNCHANGED Sharing!vars
  BY <1>9 DEF Sharing!vars, SharingInv
<1> QED BY <1>1, <1>2, <1>3, <1>4, <1>5, <1>6, <1>7, <1>8, <1>9
        DEF Sharing!Next, Sharing!WorkerStep

\* The daily cleanup deletes no link that works, not even one that was extended after the
\* cleanup had found it expired (cleanup_expired of the share service).
THEOREM LinksStay == Sharing!Spec => WorkingLinksStay
<1>1. SharingInv /\ [Sharing!Next]_(Sharing!vars) =>
         [Sharing!cleanup_expired =>
             \A t \in Sharing!Links : Sharing!get_public_share(t) => t \in DOMAIN expires']_(Sharing!vars)
  <2> SUFFICES ASSUME SharingInv, Sharing!cleanup_expired, NEW t \in Sharing!Links,
                      Sharing!get_public_share(t)
               PROVE  t \in DOMAIN expires'
    OBVIOUS
  <2>1. /\ time \in Nat /\ expires[t] \in {Permanent} \cup Nat
        /\ cleanup.now \in Nat /\ cleanup.now <= time
        /\ expires' = Sharing!Restrict(expires, Sharing!Links \ Sharing!Purged)
    BY DEF SharingInv, Sharing!Links, Sharing!cleanup_expired
  <2>2. ~(expires[t] # Permanent /\ expires[t] < time)
    BY DEF Sharing!get_public_share, Sharing!Past
  <2>3. t \notin Sharing!Purged
    BY <2>1, <2>2 DEF Sharing!Purged, Sharing!Expired, Sharing!Past
  <2> QED BY <2>1, <2>3 DEF Sharing!Restrict
<1> QED BY <1>1, SharingInit, SharingStep, PTL
        DEF Sharing!Spec, WorkingLinksStay, Sharing!WorkingLinksStay

-----------------------------------------------------------------------------
(* The whole.                                                               *)

\* A behaviour of the whole is one of each component: the others leave its state alone.
THEOREM EachComponent == AllSpec => Spec /\ Exports!Spec /\ Sharing!Spec
<1> USE DEF AllNext, OfPlans, OfExports, OfLinks, allVars, planning, exporting, sharing
<1>1. AllInit => Init /\ Exports!Init /\ Sharing!Init
  BY DEF AllInit
<1>2. [AllNext]_allVars => [Next]_vars
  BY DEF vars
<1>3. [AllNext]_allVars => [Exports!Next]_(Exports!vars)
  BY DEF Exports!vars
<1>4. [AllNext]_allVars => [Sharing!Next]_(Sharing!vars)
  BY DEF Sharing!vars
<1> QED BY <1>1, <1>2, <1>3, <1>4, PTL DEF AllSpec, Spec, Exports!Spec, Sharing!Spec

\* What every component promises holds of the whole.
THEOREM AllPromisesKept ==
    AllSpec => /\ []EachNeedOnce /\ []PlanNoIdentifiesNeed /\ NeedsLive
               /\ []OnlyCancelledLacksFile
               /\ WorkingLinksStay
  BY EachComponent, NeedsOnce, NumbersIdentify, NeedsLiveTheirLife, ExportsKeepFiles, LinksStay, PTL
=============================================================================
