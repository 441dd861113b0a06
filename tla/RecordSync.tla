----------------------------- MODULE RecordSync -----------------------------
(***************************************************************************)
(* The contents of purchase records, edited by users and filled in by the  *)
(* synchronisation script, which pages through the records that still lack *)
(* something, asks the supplier platform about each trace number and posts *)
(* the answer back.                                                        *)
(*                                                                         *)
(* A record is a header with lines; one header text (contract_no) and one  *)
(* line text (salesperson) stand for all the texts treated alike.  Users   *)
(* see the header's version, and it is the one their edits are checked     *)
(* against; line.version is counted and never compared, so it is left out. *)
(*                                                                         *)
(* Transactions are as in PurchasePlans: a snapshot when the request       *)
(* begins, locked reads of the committed rows, one atomic commit.  Lines   *)
(* are loaded by locking SELECTs.  Their header comes with them by a plain *)
(* SELECT (lazy="selectin"), and the later SELECT ... FOR UPDATE of the    *)
(* header does not refresh the object: header values are the snapshot's.   *)
(***************************************************************************)
EXTENDS Integers, FiniteSets, FiniteSetsExt, Sequences

CONSTANTS
    Lines,          \* line ids, numbered in the order of their insertion
    HeaderOf,       \* the header of each line
    TraceOf,        \* the trace number each line starts with
    Platform,       \* what the platform answers: trace number -> texts and status
    NoTrace,        \* a trace number the platform does not know
    Editors,        \* users editing records at the same time
    Limit,          \* targets in a page (1..200)
    MaxEdits        \* bound: forms the users open

ASSUME RecordSyncAssumption ==
    /\ Lines \subseteq Nat \ {0} /\ IsFiniteSet(Lines)
    /\ Limit \in Nat \ {0} /\ MaxEdits \in Nat
    /\ NoTrace \notin DOMAIN Platform

VARIABLES
    db,       \* committed rows: headers and lines
    editor,   \* per user: idle, looking at a form, or with an edit in progress
    opened,   \* how many forms were opened
    script    \* the synchronisation script

vars == <<db, editor, opened, script>>

Headers == {HeaderOf[l] : l \in Lines}
Traces == DOMAIN Platform \cup {NoTrace}
Blank == ""
\* The statuses the synchronisation still asks about; "partly" is partly stored.
OpenStatuses == {"applied", "purchased", "partly"}

\* Status targets, and the statuses each of them may replace.
Progression ==
    [stored |-> {"applied", "purchased", "partly", "stored"},
     partly |-> {"applied", "purchased", "partly"},
     purchased |-> {"applied", "purchased"}]

\* Records as move_plans_to_record leaves them.
Init ==
    /\ db = [headers |-> [h \in Headers |-> [contract |-> Blank, version |-> 1]],
             lines |-> [l \in Lines |-> [trace |-> TraceOf[l], salesperson |-> Blank,
                                         status |-> "applied"]]]
    /\ editor = [e \in Editors |-> [pc |-> "idle"]]
    /\ opened = 0
    /\ script = [pc |-> "idle", cursor |-> 0]

-----------------------------------------------------------------------------
(* Users.                                                                   *)

\* The user opens the records: seen is what the forms show.
purchase_record(e) ==
    /\ editor[e].pc = "idle"
    /\ opened < MaxEdits
    /\ opened' = opened + 1
    /\ editor' = [editor EXCEPT ![e] = [pc |-> "form", seen |-> db]]
    /\ UNCHANGED <<db, script>>

\* The edit is sent: its transaction takes its snapshot.
Send(e) ==
    /\ editor[e].pc = "form"
    /\ editor' = [editor EXCEPT ![e] = [pc |-> "sent", seen |-> @.seen, snap |-> db]]
    /\ UNCHANGED <<db, opened, script>>

Done(e) == editor' = [editor EXCEPT ![e] = [pc |-> "idle"]] /\ UNCHANGED <<opened, script>>

\* Refused (a version conflict, bad input) or rolled back (a deadlock).
Fail(e) == editor[e].pc = "sent" /\ Done(e) /\ UNCHANGED db

\* validate_version: the version of the form against the header as loaded.
SeenIsLoaded(e, h) == editor[e].seen.headers[h].version = editor[e].snap.headers[h].version

\* A flush writes a column only where the value differs from the loaded one.
Stored(now, loaded, value) == IF value = loaded THEN now ELSE value

\* What is stored of a header: the loaded version plus one, and the text.
Written(d, loaded, h, text) ==
    [d.headers[h] EXCEPT !.contract = Stored(@, loaded.headers[h].contract, text),
                         !.version = loaded.headers[h].version + 1]

\* A form sends every field; the user has changed one of them.
Forms(e, l) ==
    LET seen == editor[e].seen
        shown == [contract |-> seen.headers[HeaderOf[l]].contract, trace |-> seen.lines[l].trace,
                  salesperson |-> seen.lines[l].salesperson, status |-> seen.lines[l].status]
    IN  {[shown EXCEPT !.contract = t] : t \in {Blank, "user"}}
        \cup {[shown EXCEPT !.trace = t] : t \in Traces}
        \cup {[shown EXCEPT !.salesperson = t] : t \in {Blank, "user"}}
        \cup {[shown EXCEPT !.status = s] : s \in {"applied", "other"}}

update_purchase_record(e, l) ==
    LET h == HeaderOf[l]
    IN  /\ editor[e].pc = "sent"
        /\ SeenIsLoaded(e, h)
        /\ \E form \in Forms(e, l) :
              db' = [db EXCEPT
                        !.headers[h] = Written(db, editor[e].snap, h, form.contract),
                        !.lines[l] = [trace |-> form.trace, salesperson |-> form.salesperson,
                                      status |-> form.status]]
        /\ Done(e)

\* One version step for each header of the batch, however many of its lines are in it.
BatchHeaders(e, ls, text) ==
    [h \in Headers |-> IF \E l \in ls : HeaderOf[l] = h
                       THEN Written(db, editor[e].snap, h, text[h]) ELSE db.headers[h]]

\* What a batch edit sets of every line chosen: one field, the others stay.
BatchChanges ==
    {<<"status", "other">>, <<"salesperson", "user">>} \cup {<<"trace", t>> : t \in Traces}

\* A batch edit sets one field of several lines, or of their headers.
batch_update_purchase_records(e) ==
    /\ editor[e].pc = "sent"
    /\ \E ls \in (SUBSET Lines) \ {{}} :
          /\ \A l \in ls : SeenIsLoaded(e, HeaderOf[l])
          /\ \/ db' = [db EXCEPT !.headers = BatchHeaders(e, ls, [h \in Headers |-> "user"])]
             \/ \E change \in BatchChanges :
                   db' = [headers |-> BatchHeaders(e, ls, [h \in Headers |->
                                          editor[e].snap.headers[h].contract]),
                          lines |-> [l \in Lines |->
                              IF l \in ls THEN [db.lines[l] EXCEPT ![change[1]] = change[2]]
                              ELSE db.lines[l]]]
    /\ Done(e)

-----------------------------------------------------------------------------
(* The server's side of the synchronisation.                                *)

\* Lines with a trace number that lack a text or whose status is not final.
Pending(d, l) ==
    /\ d.lines[l].trace # Blank
    /\ \/ d.headers[HeaderOf[l]].contract = Blank
       \/ d.lines[l].salesperson = Blank
       \/ d.lines[l].status \in OpenStatuses

Below(l, cursor) == cursor = 0 \/ l < cursor

\* One page: lines below the cursor grouped by trace number, each group at its
\* largest line id, the largest first.
list_sync_targets(d, cursor) ==
    LET ls == {l \in Lines : Pending(d, l) /\ Below(l, cursor)}
        groups == {Max({l \in ls : d.lines[l].trace = t}) : t \in {d.lines[l].trace : l \in ls}}
        page == {i \in groups : Cardinality({j \in groups : j > i}) < Limit}
    IN  {[trace |-> d.lines[i].trace, cursor_id |-> i] : i \in page}

\* A faulty filler that fills whatever is there.
FilledAlways(loaded, value) == value

\* A text is filled only where the loaded one is blank.
Filled(loaded, value) == IF loaded = Blank THEN value ELSE loaded

\* A status only moves forward; a status that is no target replaces none.
ReplacedBy(target) == IF target \in DOMAIN Progression THEN Progression[target] ELSE {}
Raised(status, target) == IF status \in ReplacedBy(target) THEN target ELSE status

SyncedHeader(d, snap, h, data) ==
    LET loaded == snap.headers[h].contract
    IN  IF Filled(loaded, data.contract) = loaded THEN d.headers[h]
        ELSE Written(d, snap, h, Filled(loaded, data.contract))

apply_trace_sync(d, snap, trace, data) ==
    LET ls == {l \in Lines : d.lines[l].trace = trace}
    IN  [headers |-> [h \in Headers |->
            IF \E l \in ls : HeaderOf[l] = h THEN SyncedHeader(d, snap, h, data) ELSE d.headers[h]],
         lines |-> [l \in Lines |->
            IF l \in ls
            THEN [d.lines[l] EXCEPT !.salesperson = Filled(@, data.salesperson),
                                    !.status = Raised(@, data.status)]
            ELSE d.lines[l]]]

-----------------------------------------------------------------------------
(* The script: one page per run, its cursor kept between runs.              *)

\* A page past the last target is empty: the walk starts again at the top.
targets ==
    /\ script.pc = "idle"
    /\ LET rows == list_sync_targets(db, script.cursor)
       IN  script' = IF rows = {} THEN [script EXCEPT !.cursor = 0]
                     ELSE [pc |-> "page", cursor |-> script.cursor, rows |-> rows, todo |-> rows]
    /\ UNCHANGED <<db, editor, opened>>

\* The target the script works on: the rows in the order of the page.
Current == CHOOSE row \in script.todo : \A other \in script.todo : other.cursor_id <= row.cursor_id

\* What the script asks the platform and posts; unknown trace numbers are passed over.
updateTarget ==
    /\ script.pc = "page" /\ script.todo # {}
    /\ script' = IF Current.trace \in DOMAIN Platform
                 THEN [pc |-> "post", cursor |-> script.cursor, rows |-> script.rows,
                       todo |-> script.todo, snap |-> db]
                 ELSE [script EXCEPT !.todo = @ \ {Current}]
    /\ UNCHANGED <<db, editor, opened>>

NextTarget ==
    script' = [pc |-> "page", cursor |-> script.cursor, rows |-> script.rows,
               todo |-> script.todo \ {Current}]

sync_trace ==
    /\ script.pc = "post"
    /\ db' = apply_trace_sync(db, script.snap, Current.trace, Platform[Current.trace])
    /\ NextTarget
    /\ UNCHANGED <<editor, opened>>

\* The post fails as the victim of a deadlock with a user's request; the script goes on.
SyncFails ==
    /\ script.pc = "post"
    /\ \E e \in Editors : editor[e].pc = "sent"
    /\ NextTarget
    /\ UNCHANGED <<db, editor, opened>>

\* A faulty next cursor: past the oldest line of the page's trace numbers.
CursorPastTraces ==
    Min({l \in Lines : db.lines[l].trace \in {row.trace : row \in script.rows}}
        \cup {row.cursor_id : row \in script.rows})

\* The next page starts below the smallest cursor of this one.
NextCursor == Min({row.cursor_id : row \in script.rows})

EndOfRun ==
    /\ script.pc = "page" /\ script.todo = {}
    /\ script' = [pc |-> "idle", cursor |-> NextCursor]
    /\ UNCHANGED <<db, editor, opened>>

ScriptStep == targets \/ updateTarget \/ sync_trace \/ SyncFails \/ EndOfRun

EditEnds(e) ==
    \/ Fail(e)
    \/ \E l \in Lines : update_purchase_record(e, l)
    \/ batch_update_purchase_records(e)

Next ==
    \/ ScriptStep
    \/ \E e \in Editors : purchase_record(e) \/ Send(e) \/ EditEnds(e)

Spec == Init /\ [][Next]_vars

\* Requests end, and the script, run by its timer, takes its next step.
Fairness ==
    /\ WF_vars(ScriptStep)
    /\ \A e \in Editors : WF_editor(editor[e].pc = "sent" /\ Done(e))

FairSpec == Spec /\ Fairness

-----------------------------------------------------------------------------
(* Properties.                                                              *)

\* The order in which a purchase progresses; a status a user typed is outside it.
Later(before, after) ==
    LET course == <<"applied", "purchased", "partly", "stored">>
    IN  \E i, j \in 1..4 : i < j /\ course[i] = before /\ course[j] = after

\* Edited by hand since the script's snapshot: what the post cannot know of.
EditedSince(snap, h) == db.headers[h] # snap.headers[h]

\* The synchronisation fills blanks and only moves a status forward: a post never
\* replaces a salesperson or takes a status back, and replaces a header text only
\* when a user changed that header after the post had begun.
SyncFillsBlanks ==
    [][sync_trace =>
        /\ \A l \in Lines :
              /\ db'.lines[l].salesperson = db.lines[l].salesperson \/ db.lines[l].salesperson = Blank
              /\ \/ db'.lines[l].status = db.lines[l].status
                 \/ Later(db.lines[l].status, db'.lines[l].status)
        /\ \A h \in Headers :
              \/ db'.headers[h].contract = db.headers[h].contract
              \/ db.headers[h].contract = Blank
              \/ EditedSince(script.snap, h)]_vars

\* Nothing the platform knows about line l is missing or still to be raised.
Synced(l) ==
    db.lines[l].trace \in DOMAIN Platform =>
        LET data == Platform[db.lines[l].trace]
        IN  /\ db.headers[HeaderOf[l]].contract # Blank
            /\ db.lines[l].salesperson # Blank
            /\ db.lines[l].status \notin ReplacedBy(data.status) \ {data.status}

\* Once the users stop, every record the platform knows is completed, although
\* targets that can never be completed stay in the list: the cursor passes them.
EveryTargetSynced == \A l \in Lines : <>[]Synced(l)

\* An edit that no other request overlaps is accepted only if it was made from the
\* record as it stands: the header and the line are still what the form showed.
StaleEditRefused ==
    [][\A e \in Editors, l \in Lines :
        update_purchase_record(e, l) /\ editor[e].snap = db =>
            /\ editor[e].seen.lines[l] = db.lines[l]
            /\ editor[e].seen.headers[HeaderOf[l]] = db.headers[HeaderOf[l]]]_vars
=============================================================================
