-------------------------- MODULE RecordSyncProofs --------------------------
(***************************************************************************)
(* Proofs about RecordSync, for every set of records and users and for     *)
(* whatever the platform answers: a post of the synchronisation fills      *)
(* blanks and moves statuses forward.  A post decides on headers it loaded *)
(* before it had their locks, so the proof turns on what is left of the    *)
(* loaded value when the column is written.                                *)
(***************************************************************************)
EXTENDS RecordSync, TLAPS

\* The columns of the two tables.
RecordsOK(d) ==
    /\ d = [headers |-> d.headers, lines |-> d.lines]
    /\ d.headers = [h \in Headers |-> d.headers[h]]
    /\ \A h \in Headers : DOMAIN d.headers[h] = {"contract", "version"}
    /\ d.lines = [l \in Lines |-> d.lines[l]]
    /\ \A l \in Lines : DOMAIN d.lines[l] = {"trace", "salesperson", "status"}

RecordsInv == RecordsOK(db) /\ editor = [e \in Editors |-> editor[e]]

LEMMA RecordsInit == Init => RecordsInv
  BY DEF Init, RecordsInv, RecordsOK

LEMMA HeaderOfLine == \A l \in Lines : HeaderOf[l] \in Headers
  BY DEF Headers

\* What is written of a header are its two columns; the text only where it differs from the
\* loaded one.
LEMMA WrittenColumns ==
    ASSUME NEW d, RecordsOK(d), NEW loaded, NEW h \in Headers, NEW text
    PROVE  /\ DOMAIN Written(d, loaded, h, text) = {"contract", "version"}
           /\ Written(d, loaded, h, text).contract =
                 Stored(d.headers[h].contract, loaded.headers[h].contract, text)
  BY DEF RecordsOK, Written

LEMMA SyncedColumns ==
    ASSUME NEW d, RecordsOK(d), NEW loaded, NEW h \in Headers, NEW data
    PROVE  DOMAIN SyncedHeader(d, loaded, h, data) = {"contract", "version"}
  BY WrittenColumns DEF RecordsOK, SyncedHeader

\* A post leaves tables of the same shape.
LEMMA SyncColumns ==
    ASSUME NEW d, RecordsOK(d), NEW loaded, NEW trace, NEW data
    PROVE  RecordsOK(apply_trace_sync(d, loaded, trace, data))
<1> DEFINE s == apply_trace_sync(d, loaded, trace, data)
           ls == {l \in Lines : d.lines[l].trace = trace}
<1>1. /\ s = [headers |-> s.headers, lines |-> s.lines]
      /\ s.headers = [h \in Headers |->
                        IF \E l \in ls : HeaderOf[l] = h THEN SyncedHeader(d, loaded, h, data)
                        ELSE d.headers[h]]
      /\ s.lines = [l \in Lines |->
                        IF l \in ls
                        THEN [d.lines[l] EXCEPT !.salesperson = Filled(@, data.salesperson),
                                                !.status = Raised(@, data.status)]
                        ELSE d.lines[l]]
  BY DEF apply_trace_sync
<1> HIDE DEF s, ls
<1>2. \A h \in Headers : DOMAIN s.headers[h] = {"contract", "version"}
  <2> SUFFICES ASSUME NEW h \in Headers PROVE DOMAIN s.headers[h] = {"contract", "version"}
    OBVIOUS
  <2>1. DOMAIN SyncedHeader(d, loaded, h, data) = {"contract", "version"}
    BY SyncedColumns
  <2>2. DOMAIN d.headers[h] = {"contract", "version"}
    BY DEF RecordsOK
  <2>3. s.headers[h] \in {SyncedHeader(d, loaded, h, data), d.headers[h]}
    BY <1>1
  <2> QED BY <2>1, <2>2, <2>3
<1>3. \A l \in Lines : DOMAIN s.lines[l] = {"trace", "salesperson", "status"}
  BY <1>1 DEF RecordsOK
<1> QED BY <1>1, <1>2, <1>3 DEF RecordsOK, s

\* An edit leaves tables of the same shape.
LEMMA EditColumns ==
    ASSUME RecordsInv, NEW e \in Editors, NEW l \in Lines, update_purchase_record(e, l)
    PROVE  RecordsOK(db)'
<1>1. PICK form \in Forms(e, l) :
         db' = [db EXCEPT
                   !.headers[HeaderOf[l]] = Written(db, editor[e].snap, HeaderOf[l], form.contract),
                   !.lines[l] = [trace |-> form.trace, salesperson |-> form.salesperson,
                                 status |-> form.status]]
  BY DEF update_purchase_record
<1>2. PICK header : header = Written(db, editor[e].snap, HeaderOf[l], form.contract)
  OBVIOUS
<1>3. PICK line : line = [trace |-> form.trace, salesperson |-> form.salesperson, status |-> form.status]
  OBVIOUS
<1>4. DOMAIN header = {"contract", "version"} /\ DOMAIN line = {"trace", "salesperson", "status"}
  <2>1. RecordsOK(db) /\ HeaderOf[l] \in Headers
    BY HeaderOfLine DEF RecordsInv
  <2>2. PICK d, loaded, h, text :
         d = db /\ loaded = editor[e].snap /\ h = HeaderOf[l] /\ text = form.contract
    OBVIOUS
  <2>3. RecordsOK(d) /\ h \in Headers
    BY <2>1, <2>2
  <2>4. DOMAIN Written(d, loaded, h, text) = {"contract", "version"}
    BY <2>3, WrittenColumns
  <2>5. DOMAIN Written(db, editor[e].snap, HeaderOf[l], form.contract) = {"contract", "version"}
    BY <2>2, <2>4
  <2>6. DOMAIN line = {"trace", "salesperson", "status"}
    BY <1>3
  <2> QED BY <1>2, <2>5, <2>6
<1>5. db' = [headers |-> [db.headers EXCEPT ![HeaderOf[l]] = header],
             lines |-> [db.lines EXCEPT ![l] = line]]
  BY <1>1, <1>2, <1>3 DEF RecordsInv, RecordsOK
<1> QED BY <1>4, <1>5 DEF RecordsInv, RecordsOK

\* So does a batch edit.
LEMMA BatchColumns ==
    ASSUME RecordsInv, NEW e \in Editors, batch_update_purchase_records(e)
    PROVE  RecordsOK(db)'
<1>0. RecordsOK(db)
  BY DEF RecordsInv
<1>1. PICK ls \in SUBSET Lines :
         \/ db' = [db EXCEPT !.headers = BatchHeaders(e, ls, [h \in Headers |-> "user"])]
         \/ \E change \in BatchChanges :
               db' = [headers |-> BatchHeaders(e, ls, [h \in Headers |-> editor[e].snap.headers[h].contract]),
                      lines |-> [l \in Lines |->
                          IF l \in ls THEN [db.lines[l] EXCEPT ![change[1]] = change[2]]
                          ELSE db.lines[l]]]
  BY DEF batch_update_purchase_records
<1>2. ASSUME NEW text
      PROVE  /\ BatchHeaders(e, ls, text) = [h \in Headers |-> BatchHeaders(e, ls, text)[h]]
             /\ \A h \in Headers : DOMAIN BatchHeaders(e, ls, text)[h] = {"contract", "version"}
  <2>1. BatchHeaders(e, ls, text) = [h \in Headers |-> BatchHeaders(e, ls, text)[h]]
    BY DEF BatchHeaders
  <2>2. ASSUME NEW h \in Headers
        PROVE  DOMAIN BatchHeaders(e, ls, text)[h] = {"contract", "version"}
    <3>1. PICK d, loaded, t : d = db /\ loaded = editor[e].snap /\ t = text[h]
      OBVIOUS
    <3>2. RecordsOK(d)
      BY <1>0, <3>1
    <3>3. DOMAIN Written(d, loaded, h, t) = {"contract", "version"}
      BY <3>2, WrittenColumns
    <3>4. DOMAIN Written(db, editor[e].snap, h, text[h]) = {"contract", "version"}
      BY <3>1, <3>3
    <3>5. DOMAIN db.headers[h] = {"contract", "version"}
      BY <1>0 DEF RecordsOK
    <3>6. BatchHeaders(e, ls, text)[h] \in {Written(db, editor[e].snap, h, text[h]), db.headers[h]}
      BY DEF BatchHeaders
    <3> QED BY <3>4, <3>5, <3>6
  <2> QED BY <2>1, <2>2
<1>3. CASE db' = [db EXCEPT !.headers = BatchHeaders(e, ls, [h \in Headers |-> "user"])]
  <2>1. PICK headers : headers = BatchHeaders(e, ls, [h \in Headers |-> "user"])
    OBVIOUS
  <2>2. db' = [headers |-> headers, lines |-> db.lines]
    BY <1>0, <1>3, <2>1 DEF RecordsOK
  <2>3. headers = [h \in Headers |-> headers[h]]
        /\ \A h \in Headers : DOMAIN headers[h] = {"contract", "version"}
    BY <1>2, <2>1
  <2> QED BY <1>0, <2>2, <2>3 DEF RecordsOK
<1>4. ASSUME NEW change \in BatchChanges,
             db' = [headers |-> BatchHeaders(e, ls, [h \in Headers |-> editor[e].snap.headers[h].contract]),
                    lines |-> [l \in Lines |->
                        IF l \in ls THEN [db.lines[l] EXCEPT ![change[1]] = change[2]]
                        ELSE db.lines[l]]]
      PROVE  RecordsOK(db)'
  <2>1. PICK headers :
           headers = BatchHeaders(e, ls, [h \in Headers |-> editor[e].snap.headers[h].contract])
    OBVIOUS
  <2>2. headers = [h \in Headers |-> headers[h]]
        /\ \A h \in Headers : DOMAIN headers[h] = {"contract", "version"}
    BY <1>2, <2>1
  <2>3. db' = [headers |-> headers,
               lines |-> [l \in Lines |->
                   IF l \in ls THEN [db.lines[l] EXCEPT ![change[1]] = change[2]] ELSE db.lines[l]]]
    BY <1>4, <2>1
  <2> QED BY <1>0, <2>2, <2>3 DEF RecordsOK
<1> QED BY <1>1, <1>3, <1>4

LEMMA RecordsStep == RecordsInv /\ [Next]_vars => RecordsInv'
<1> SUFFICES ASSUME RecordsInv, [Next]_vars PROVE RecordsInv'
  OBVIOUS
<1>1. CASE sync_trace
  <2>1. RecordsOK(db') /\ UNCHANGED editor
    BY <1>1, SyncColumns DEF sync_trace, RecordsInv
  <2> QED BY <2>1 DEF RecordsInv, RecordsOK
<1>2. CASE targets \/ updateTarget \/ SyncFails \/ EndOfRun
  BY <1>2 DEF targets, updateTarget, SyncFails, EndOfRun, RecordsInv, RecordsOK
<1>3. ASSUME NEW e \in Editors, purchase_record(e) \/ Send(e) \/ Fail(e)
      PROVE  RecordsInv'
  BY <1>3 DEF purchase_record, Send, Fail, Done, RecordsInv, RecordsOK
<1>4. ASSUME NEW e \in Editors, NEW l \in Lines, update_purchase_record(e, l)
      PROVE  RecordsInv'
  <2>1. editor' = [editor EXCEPT ![e] = [pc |-> "idle"]]
    BY <1>4 DEF update_purchase_record, Done
  <2> QED BY <1>4, <2>1, EditColumns DEF RecordsInv
<1>5. ASSUME NEW e \in Editors, batch_update_purchase_records(e)
      PROVE  RecordsInv'
  <2>1. editor' = [editor EXCEPT ![e] = [pc |-> "idle"]]
    BY <1>5 DEF batch_update_purchase_records, Done
  <2> QED BY <1>5, <2>1, BatchColumns DEF RecordsInv
<1>6. CASE UNCHANGED vars
  BY <1>6 DEF vars, RecordsInv, RecordsOK
<1> QED BY <1>1, <1>2, <1>3, <1>4, <1>5, <1>6 DEF Next, ScriptStep, EditEnds

\* A status that is replaced is replaced by a later one.
LEMMA RaisedIsLater ==
    ASSUME NEW status, NEW target
    PROVE  Raised(status, target) = status \/ Later(status, Raised(status, target))
<1>1. CASE Raised(status, target) = status
  BY <1>1
<1>2. CASE Raised(status, target) # status
  <2>1. Raised(status, target) = target /\ target \in DOMAIN Progression
        /\ status \in Progression[target] /\ status # target
    BY <1>2 DEF Raised, ReplacedBy
  <2>2. target \in {"stored", "partly", "purchased"}
    BY <2>1 DEF Progression
  <2> DEFINE course == <<"applied", "purchased", "partly", "stored">>
  <2>3. /\ 1 \in 1..4 /\ 2 \in 1..4 /\ 3 \in 1..4 /\ 4 \in 1..4 /\ 1 < 2 /\ 2 < 3 /\ 3 < 4 /\ 1 < 3 /\ 1 < 4 /\ 2 < 4
        /\ course[1] = "applied" /\ course[2] = "purchased" /\ course[3] = "partly" /\ course[4] = "stored"
    OBVIOUS
  <2>4. CASE target = "stored"
    <3>1. status \in {"applied", "purchased", "partly"}
      BY <2>1, <2>4 DEF Progression
    <3> QED BY <2>1, <2>3, <2>4, <3>1 DEF Later
  <2>5. CASE target = "partly"
    <3>1. status \in {"applied", "purchased"}
      BY <2>1, <2>5 DEF Progression
    <3> QED BY <2>1, <2>3, <2>5, <3>1 DEF Later
  <2>6. CASE target = "purchased"
    <3>1. status = "applied"
      BY <2>1, <2>6 DEF Progression
    <3> QED BY <2>1, <2>3, <2>6, <3>1 DEF Later
  <2> QED BY <2>2, <2>4, <2>5, <2>6
<1> QED BY <1>1, <1>2

\* What a post does to one line, and to one header.
LEMMA PostOfLine ==
    ASSUME RecordsInv, sync_trace, NEW l \in Lines
    PROVE  /\ db'.lines[l].salesperson = db.lines[l].salesperson \/ db.lines[l].salesperson = Blank
           /\ db'.lines[l].status = db.lines[l].status \/ Later(db.lines[l].status, db'.lines[l].status)
<1>1. PICK trace, data : db' = apply_trace_sync(db, script.snap, trace, data)
  BY DEF sync_trace
<1>2. db'.lines[l] \in {db.lines[l],
                        [db.lines[l] EXCEPT !.salesperson = Filled(@, data.salesperson),
                                            !.status = Raised(@, data.status)]}
  BY <1>1 DEF apply_trace_sync
<1>3. CASE db'.lines[l] = db.lines[l]
  BY <1>3
<1>4. CASE db'.lines[l] = [db.lines[l] EXCEPT !.salesperson = Filled(@, data.salesperson),
                                              !.status = Raised(@, data.status)]
  <2>1. /\ db'.lines[l].salesperson = Filled(db.lines[l].salesperson, data.salesperson)
        /\ db'.lines[l].status = Raised(db.lines[l].status, data.status)
    BY <1>4 DEF RecordsInv, RecordsOK
  <2> QED BY <2>1, RaisedIsLater DEF Filled
<1> QED BY <1>2, <1>3, <1>4

LEMMA PostOfHeader ==
    ASSUME RecordsInv, sync_trace, NEW h \in Headers
    PROVE  \/ db'.headers[h].contract = db.headers[h].contract
           \/ db.headers[h].contract = Blank
           \/ EditedSince(script.snap, h)
<1> SUFFICES ASSUME db.headers[h] = script.snap.headers[h], db.headers[h].contract # Blank
             PROVE  db'.headers[h].contract = db.headers[h].contract
  BY DEF EditedSince
<1>1. PICK trace, data : db' = apply_trace_sync(db, script.snap, trace, data)
  BY DEF sync_trace
<1>2. db'.headers[h] \in {db.headers[h], SyncedHeader(db, script.snap, h, data)}
  BY <1>1 DEF apply_trace_sync
<1>3. SyncedHeader(db, script.snap, h, data) = db.headers[h]
  BY DEF SyncedHeader, Filled
<1> QED BY <1>2, <1>3

\* The synchronisation replaces no text and takes no status back; what it can replace is the
\* text of a header a user changed while the post was under way (apply_trace_sync).
THEOREM SyncOnlyFills == Spec => SyncFillsBlanks
<1>1. RecordsInv /\ [Next]_vars =>
         [sync_trace =>
            /\ \A l \in Lines :
                  /\ db'.lines[l].salesperson = db.lines[l].salesperson \/ db.lines[l].salesperson = Blank
                  /\ \/ db'.lines[l].status = db.lines[l].status
                     \/ Later(db.lines[l].status, db'.lines[l].status)
            /\ \A h \in Headers :
                  \/ db'.headers[h].contract = db.headers[h].contract
                  \/ db.headers[h].contract = Blank
                  \/ EditedSince(script.snap, h)]_vars
  BY PostOfLine, PostOfHeader
<1> QED BY <1>1, RecordsInit, RecordsStep, PTL DEF Spec, SyncFillsBlanks
=============================================================================
