---------------------------- MODULE ImportTables ----------------------------
(***************************************************************************)
(* What an import reads from an uploaded table, and how it replaces the    *)
(* table of its kind: the step ReplaceTable and ProcessorFails of          *)
(* ImportJobs, in detail, for one file.                                    *)
(*                                                                         *)
(* A sheet is a sequence of rows, a row a sequence of cells.  A cell is a  *)
(* text, a day (in writing or as a date cell, with or without a time) or a *)
(* number of thousandths (in digits, in digits with zeros behind, or as a  *)
(* float cell); "written" is what tells cells of one day or number apart.  *)
(* Of the text columns two stand for all: "key", which must not be blank,  *)
(* and "rest", which may.                                                  *)
(***************************************************************************)
EXTENDS Integers, SequencesExt

CONSTANTS
    Rows, Sheets,   \* rows a sheet can have, and the sheets: sequences of them
    HeaderSearch,   \* the header is looked for in so many rows (20)
    BatchSize       \* rows of one INSERT (2000)

VARIABLES
    job,     \* what the import is doing
    sheet,   \* the file
    table,   \* the committed table
    fresh    \* the rows inserted and not committed

vars == <<job, sheet, table, fresh>>

Kinds == {"huaxing", "codes", "lite"}

\* Blank is also what the database stores as NULL; Bad is longer than a text column; NaN is
\* a Decimal that the column of quantities cannot hold (not a number, or too many digits).
Blank == [text |-> ""]
Bad == [text |-> "bad"]
NaN == [text |-> "nan"]

\* EXPECTED_HEADERS of a kind.
Headers(kind) ==
    CASE kind = "huaxing" -> {"key", "rest", "date", "quantity"}
      [] kind = "lite"    -> {"key", "rest", "quantity"}
      [] kind = "codes"   -> {"key", "rest"}

\* The sheet of an .xlsx, .xls or .csv file.
read_tabular_rows ==
    /\ job.pc = "uploaded"
    /\ \E s \in Sheets : sheet' = s
    /\ job' = [job EXCEPT !.pc = "read"]
    /\ UNCHANGED <<table, fresh>>

\* An import of some kind, and what an earlier one left.
Init ==
    /\ job \in [pc : {"uploaded"}, kind : Kinds] /\ sheet = <<>> /\ fresh = <<>>
    /\ table = <<[h \in Headers(job.kind) |-> IF h = "key" THEN [text |-> "old"] ELSE Blank]>>

Refused == [pc |-> "refused", kind |-> job.kind]

Has(row, h) == \E c \in DOMAIN row : row[c] = [text |-> h]

\* The first row that has every expected column; 0 if none of the first has.
HeaderRow(kind, s) ==
    LET found == {i \in 1..Min({HeaderSearch, Len(s)}) : \A h \in Headers(kind) : Has(s[i], h)}
    IN  IF found = {} THEN 0 ELSE Min(found)

\* A column named twice is read where its name stands last.
Column(kind, s, h) ==
    Max({c \in DOMAIN s[HeaderRow(kind, s)] : s[HeaderRow(kind, s)][c] = [text |-> h]})

\* Row i under the header; cells the row is too short for are blank.
Cells(kind, s, i) ==
    [h \in Headers(kind) |->
        IF Column(kind, s, h) \in DOMAIN s[i] THEN s[i][Column(kind, s, h)] ELSE Blank]

Empty(cells) == \A h \in DOMAIN cells : cells[h] = Blank

\* _cell_text: a float cell reads like its digits.
Text(cell) ==
    IF "number" \in DOMAIN cell /\ cell.written = "float" THEN [cell EXCEPT !.written = "digits"]
    ELSE cell

\* _cell_date: a time is cut off, and what cannot be read as a date counts as blank.
Date(cell) == IF "day" \in DOMAIN cell THEN [day |-> cell.day] ELSE Blank

\* _cell_quantity: numbers are equal however they are written.
Quantity(cell) == IF "number" \in DOMAIN cell THEN [number |-> cell.number] ELSE cell

Parsed(cells) ==
    [h \in DOMAIN cells |->
        CASE h = "date"     -> Date(cells[h])
          [] h = "quantity" -> Quantity(cells[h])
          [] OTHER          -> Text(cells[h])]

\* Line i of the sheet as the parser of a kind reads it.
Fields(kind, s, i) == Parsed(Cells(kind, s, i))

IsQuantity(value) == value \in {Blank, NaN} \/ "number" \in DOMAIN value

\* Without its key, with a text that is too long, or a quantity that is none.
Unusable(fields) ==
    \/ fields.key = Blank
    \/ Bad \in {fields.key, fields.rest}
    \/ "quantity" \in DOMAIN fields /\ ~IsQuantity(fields.quantity)

locate ==
    /\ job.pc = "read"
    /\ job' = IF HeaderRow(job.kind, sheet) = 0 THEN Refused
              ELSE [pc |-> "rows", kind |-> job.kind, next |-> HeaderRow(job.kind, sheet) + 1,
                    parsed |-> <<>>]
    /\ UNCHANGED <<sheet, table, fresh>>

\* The inventories take every row that can be used.
HuaxingRefuses(fields, parsed) == Unusable(fields)
LiteRefuses(fields, parsed) == Unusable(fields)

\* Codes also need their unit (part of "rest"), and each code stands in the file once.
CodesRefuse(fields, parsed) ==
    \/ Unusable(fields)
    \/ fields.rest = Blank
    \/ \E p \in Range(parsed) : p.key = fields.key

Refuses(fields, parsed) ==
    CASE job.kind = "huaxing" -> HuaxingRefuses(fields, parsed)
      [] job.kind = "lite"    -> LiteRefuses(fields, parsed)
      [] job.kind = "codes"   -> CodesRefuse(fields, parsed)

\* The next row: passed over when empty; one that is unusable refuses the whole file.
parse_row ==
    /\ job.pc = "rows" /\ job.next <= Len(sheet)
    /\ LET empty == Empty(Cells(job.kind, sheet, job.next))
           fields == Fields(job.kind, sheet, job.next)
           taken == IF empty THEN <<>> ELSE <<fields>>
       IN  job' = IF ~empty /\ Refuses(fields, job.parsed) THEN Refused
                  ELSE [job EXCEPT !.next = @ + 1, !.parsed = @ \o taken]
    /\ UNCHANGED <<sheet, table, fresh>>

\* A faulty key that is not the whole row.
KeyOfColumn(row) == row.key

\* Rows equal in all fields, as they were read, are one.
DedupeKey(row) == row

\* The inventories keep the first of equal rows; codes cannot be equal.
Deduplicated(kind, rows) ==
    IF kind = "codes" THEN rows
    ELSE LET firsts == {i \in DOMAIN rows :
                          \A j \in 1..(i - 1) : DedupeKey(rows[j]) # DedupeKey(rows[i])}
         IN  [n \in 1..Cardinality(firsts) |->
                 rows[CHOOSE i \in firsts : Cardinality({j \in firsts : j <= i}) = n]]

\* A file without a single row is refused; else the table is emptied.
delete_rows ==
    /\ job.pc = "rows" /\ job.next > Len(sheet)
    /\ job' = IF job.parsed = <<>> THEN Refused
              ELSE [pc |-> "insert", kind |-> job.kind, offset |-> 0, parsed |-> Len(job.parsed),
                    rows |-> Deduplicated(job.kind, job.parsed)]
    /\ fresh' = <<>>
    /\ UNCHANGED <<sheet, table>>

\* A DECIMAL(18,2) rounds to hundredths, halves away from zero.
Rounded(n) == IF n < 0 THEN -(((5 - n) \div 10) * 10) ELSE ((n + 5) \div 10) * 10

\* The row of the table for a row that was read.
Stored(row) ==
    IF "quantity" \in DOMAIN row /\ "number" \in DOMAIN row.quantity
    THEN [row EXCEPT !.quantity = [number |-> Rounded(row.quantity.number)]] ELSE row

Storable(row) == "quantity" \in DOMAIN row => row.quantity # NaN

\* The rows of the next INSERT.
Batch == SubSeq(job.rows, job.offset + 1, Min({job.offset + BatchSize, Len(job.rows)}))

insert_batch ==
    /\ job.pc = "insert" /\ job.offset < Len(job.rows)
    /\ \A n \in DOMAIN Batch : Storable(Batch[n])
    /\ fresh' = fresh \o [n \in DOMAIN Batch |-> Stored(Batch[n])]
    /\ job' = [job EXCEPT !.offset = @ + BatchSize]
    /\ UNCHANGED <<sheet, table>>

commit ==
    /\ job.pc = "insert" /\ job.offset >= Len(job.rows)
    /\ table' = fresh
    /\ job' = [pc |-> "done", kind |-> job.kind, imported |-> Len(job.rows),
               deduplicated |-> job.parsed - Len(job.rows)]
    /\ UNCHANGED <<sheet, fresh>>

\* The database refuses a statement (a quantity it cannot hold, codes its collation takes
\* for equal, a lost connection), or the server stops: all is rolled back.
roll_back ==
    /\ job.pc = "insert"
    /\ job' = Refused
    /\ fresh' = <<>>
    /\ UNCHANGED <<sheet, table>>

Next ==
    \/ read_tabular_rows \/ locate \/ parse_row \/ delete_rows \/ insert_batch \/ commit \/ roll_back

Spec == Init /\ [][Next]_vars

-----------------------------------------------------------------------------
(* Properties.                                                              *)

\* Rows have the columns of their kind; a batch begins where the last one ended.
TypeOK ==
    /\ job.pc \in {"uploaded", "read", "rows", "insert", "done", "refused"}
    /\ job.kind \in Kinds
    /\ \A row \in Range(table) \cup Range(fresh) : DOMAIN row = Headers(job.kind)
    /\ job.pc = "insert" => Len(fresh) = Min({job.offset, Len(job.rows)})

\* The lines of the sheet that carry data: below the first header and not empty.
DataRows ==
    {i \in 1..Len(sheet) : i > HeaderRow(job.kind, sheet) /\ ~Empty(Cells(job.kind, sheet, i))}

Line(i) == Fields(job.kind, sheet, i)

\* Those of them that no earlier line equals, as the parser reads them.
FirstLines == {i \in DataRows : \A k \in DataRows : k < i => Line(k) # Line(i)}

\* Rows t are the first lines, one row for each and in their order, as the database
\* stores them.
AreTheFirstLines(t) ==
    \E line \in [DOMAIN t -> FirstLines] :
        /\ \A i \in FirstLines : \E n \in DOMAIN t : line[n] = i
        /\ \A m, n \in DOMAIN t : m < n => line[m] < line[n]
        /\ \A n \in DOMAIN t : t[n] = Stored(Line(line[n]))

\* The table is replaced as a whole or not at all, and what replaces it is the sheet up to
\* what the parsers and the column of quantities do to a cell: the parser cuts the time off
\* a date or loses it altogether and forgets how a number was written, the lines it then
\* reads alike are one row, and the database rounds the quantities of what is left.  No
\* other line is lost, added or moved; a file with an unusable line replaces nothing; and
\* the two counts reported add up to the lines with data.
ImportIsTheSheet ==
    [][table' # table =>
        /\ HeaderRow(job.kind, sheet) # 0
        /\ AreTheFirstLines(table')
        /\ \A i \in DataRows : ~Unusable(Line(i))
        /\ job.kind = "codes" =>
              \A m, n \in DOMAIN table' : table'[m].key = table'[n].key => m = n
        /\ job'.imported = Len(table')
        /\ job'.imported + job'.deduplicated = Cardinality(DataRows)]_vars
=============================================================================
