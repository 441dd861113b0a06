----------------------------- MODULE ImageFiles -----------------------------
(***************************************************************************)
(* Uploaded images: a row of file_object and a file on disk for each, kept *)
(* together by uploads that reuse an image already stored, by deletions    *)
(* and by the administrator's cleanup of orphans, while materials, plans,  *)
(* record lines and plan templates refer to the rows.                      *)
(*                                                                         *)
(* A request reads file_object in the snapshot of its transaction (MySQL's *)
(* REPEATABLE READ); the disk and foreign keys are read as they are.       *)
(* Uploads of one content (sha256) exclude each other by a lock of the     *)
(* server process, taken after the snapshot.  The server may crash between *)
(* any two steps, a file may be written half or not be removed (the disk   *)
(* is full, a directory cannot be written), and files may be lost outside  *)
(* the program.                                                            *)
(***************************************************************************)
EXTENDS Integers, FiniteSets, FiniteSetsExt, Functions

CONSTANTS
    Requests,    \* requests in progress at the same time
    Contents,    \* image contents clients upload
    MaxFiles,    \* bound: ids uploads draw
    MaxRequests  \* bound: requests the clients send

VARIABLES
    content,   \* the content of every id drawn so far (ids are drawn in time order)
    records,   \* rows of file_object
    disk,      \* files in upload_dir
    damaged,   \* files written half: the write is under way, or it failed
    refs,      \* the images shown by purchase plans (stock materials are treated alike),
               \* by record lines and by plan templates
    oldRows,   \* rows older than the protection period (created_at)
    oldFiles,  \* files older than the protection period (mtime)
    req,       \* requests in progress
    sent,      \* how many requests clients have sent
    lost,      \* ghost: records whose file was lost outside the program
    stray      \* ghost: files without a record left by a crash, by repairing a deleted row,
               \* or by a write or a removal that failed

vars == <<content, records, disk, damaged, refs, oldRows, oldFiles, req, sent, lost, stray>>

Ids == DOMAIN content
Kinds == {"plan", "line", "template"}
Idle == [pc |-> "idle"]
Referenced == UNION {refs[k] : k \in Kinds}

Init ==
    /\ content = <<>>
    /\ records = {} /\ disk = {} /\ damaged = {} /\ oldRows = {} /\ oldFiles = {}
    /\ refs = [k \in Kinds |-> {}]
    /\ req = [r \in Requests |-> Idle]
    /\ sent = 0
    /\ lost = {} /\ stray = {}

\* What is left of files fs without rows, if nobody goes on with them.
Left(fs) == (fs \cap disk) \ records

To(r, state) == req' = [req EXCEPT ![r] = state]

\* A request begins: the login check fixes its snapshot of the tables.
Begin(r, state) ==
    /\ req[r] = Idle
    /\ sent < MaxRequests
    /\ sent' = sent + 1
    /\ To(r, state)
    /\ UNCHANGED <<content, records, disk, damaged, refs, oldRows, oldFiles, lost, stray>>

-----------------------------------------------------------------------------
(* save_image                                                               *)

upload(r) == \E c \in Contents : Begin(r, [pc |-> "upload", content |-> c, rows |-> records])

\* A faulty lock that excludes nobody.
NoLock(c) == TRUE

\* The lock of a content is free: nobody is between its decision and its commit.
DigestFree(c) ==
    \A r \in Requests : req[r].pc \in {"writing", "written"} => req[r].content # c

\* The rows of this content in the snapshot; those of them whose file is there and has
\* this content; and those that have no file.
Same(r) == {f \in req[r].rows : content[f] = req[r].content}
Present(r) == (Same(r) \cap disk) \ damaged
Missing(r) == Same(r) \ disk

\* A file with this content is there: its row is the answer.
ReuseImage(r) ==
    /\ Present(r) # {}
    /\ To(r, Idle)
    /\ lost' = lost \ {Min(Present(r))}
    /\ UNCHANGED <<content, disk, damaged, oldFiles>>

\* The file of an upload is opened: until the last byte is written it is there in part.
Open(r, f, new) ==
    /\ disk' = disk \cup {f}
    /\ damaged' = damaged \cup {f}
    /\ oldFiles' = oldFiles \ {f}
    /\ To(r, [pc |-> "writing", content |-> req[r].content, file |-> f, new |-> new])
    /\ UNCHANGED lost

\* The oldest row of this content without a file: the file is written again.
RepairImage(r) ==
    /\ Present(r) = {} /\ Missing(r) # {}
    /\ Open(r, Min(Missing(r)), FALSE)
    /\ UNCHANGED content

\* A new image: its file is written before its row.
NewImage(r) ==
    LET f == Cardinality(Ids) + 1
    IN  /\ Present(r) = {} /\ Missing(r) = {}
        /\ f <= MaxFiles
        /\ content' = [g \in Ids \cup {f} |-> IF g = f THEN req[r].content ELSE content[g]]
        /\ Open(r, f, TRUE)

DecideUpload(r) ==
    /\ req[r].pc = "upload"
    /\ DigestFree(req[r].content)
    /\ ReuseImage(r) \/ RepairImage(r) \/ NewImage(r)
    /\ UNCHANGED <<records, refs, oldRows, sent, stray>>

FinishWrite(r) ==
    /\ req[r].pc = "writing"
    /\ damaged' = damaged \ {req[r].file}
    /\ To(r, [req[r] EXCEPT !.pc = "written"])
    /\ UNCHANGED <<content, records, disk, refs, oldRows, oldFiles, sent, lost, stray>>

\* write_bytes raises outside the try that removes the file: what is written stays.
FailWrite(r) ==
    /\ req[r].pc = "writing"
    /\ stray' = stray \cup Left({req[r].file})
    /\ To(r, Idle)
    /\ UNCHANGED <<content, records, disk, damaged, refs, oldRows, oldFiles, sent, lost>>

\* Repairing changes no column of a row that was complete, so nothing is written:
\* the commit succeeds and the id is answered even when the row was deleted meanwhile.
CommitUpload(r) ==
    /\ req[r].pc = "written"
    /\ records' = IF req[r].new THEN records \cup {req[r].file} ELSE records
    /\ lost' = lost \ ({req[r].file} \cap disk)
    /\ stray' = IF req[r].new THEN stray ELSE stray \cup Left({req[r].file})
    /\ To(r, Idle)
    /\ UNCHANGED <<content, disk, damaged, refs, oldRows, oldFiles, sent>>

Remove(fs) == disk' = disk \ fs /\ damaged' = damaged \ fs /\ oldFiles' = oldFiles \ fs

\* A faulty rollback that leaves its file.
NothingWritten(r) == {}

\* The file a rollback removes.
Written(r) == {req[r].file}

\* The commit fails: the file written is removed.
RollBackUpload(r) ==
    /\ req[r].pc = "written"
    /\ Remove(Written(r))
    /\ To(r, Idle)
    /\ UNCHANGED <<content, records, refs, oldRows, sent, lost, stray>>

-----------------------------------------------------------------------------
(* delete_image and cleanup_orphans                                         *)

\* The kinds of owner whose references the service looks at: not the templates.
CheckedKinds == {"plan", "line"}

\* The foreign keys of the link tables: a row still shown cannot be deleted.
Held(fs) == fs \cap Referenced # {}

remove(r) ==
    \E f \in records :
        Begin(r, [pc |-> "delete", file |-> f, used |-> \E k \in CheckedKinds : f \in refs[k]])

Sweeping(r, fs) == To(r, [pc |-> "sweep", todo |-> fs])

delete_image(r) ==
    /\ req[r].pc = "delete"
    /\ ~req[r].used
    /\ ~Held({req[r].file})
    /\ records' = records \ {req[r].file}
    /\ oldRows' = oldRows \ {req[r].file}
    /\ To(r, [pc |-> "unlink", file |-> req[r].file])
    /\ UNCHANGED <<content, disk, damaged, refs, oldFiles, sent, lost, stray>>

\* The rows of the report: unreferenced and old, in the snapshot.
remove_orphans(r) ==
    Begin(r, [pc |-> "cleanup", rows |-> records,
              unused |-> {f \in oldRows : \A k \in CheckedKinds : f \notin refs[k]}])

\* The files of the report: old and without a row in the snapshot, as the directory is now.
Untracked(r) == {f \in oldFiles : f \notin req[r].rows}

inspect_orphans(r) ==
    /\ req[r].pc = "cleanup"
    /\ To(r, [pc |-> "report", unused |-> req[r].unused, untracked |-> Untracked(r)])
    /\ UNCHANGED <<content, records, disk, damaged, refs, oldRows, oldFiles, sent, lost, stray>>

\* All rows of the report leave in one commit, or none does; then the files go.
cleanup_orphans(r) ==
    /\ req[r].pc = "report"
    /\ ~Held(req[r].unused)
    /\ records' = records \ req[r].unused
    /\ oldRows' = oldRows \ req[r].unused
    /\ Sweeping(r, req[r].unused \cup req[r].untracked)
    /\ UNCHANGED <<content, disk, damaged, refs, oldFiles, sent, lost, stray>>

\* delete_image removes the file, if it is still there.
UnlinkFile(r) ==
    /\ req[r].pc = "unlink"
    /\ Remove({req[r].file})
    /\ To(r, Idle)
    /\ UNCHANGED <<content, records, refs, oldRows, sent, lost, stray>>

\* cleanup_orphans goes through its files by name, which is by id: it looks whether one is
\* there, and in a step of its own removes it.
CheckOrphan(r) ==
    /\ req[r].pc = "sweep"
    /\ IF req[r].todo = {} THEN To(r, Idle)
       ELSE IF Min(req[r].todo) \in disk THEN To(r, [req[r] EXCEPT !.pc = "found"])
       ELSE Sweeping(r, req[r].todo \ {Min(req[r].todo)})
    /\ UNCHANGED <<content, records, disk, damaged, refs, oldRows, oldFiles, sent, lost, stray>>

UnlinkOrphan(r) ==
    LET f == Min(req[r].todo)
    IN  /\ req[r].pc = "found"
        /\ f \in disk
        /\ Remove({f})
        /\ Sweeping(r, req[r].todo \ {f})
        /\ UNCHANGED <<content, records, refs, oldRows, sent, lost, stray>>

\* The request ends with an exception after its commit; files fs stay without rows.
Abandon(r, fs) ==
    /\ stray' = stray \cup Left(fs)
    /\ To(r, Idle)
    /\ UNCHANGED <<content, records, disk, damaged, refs, oldRows, oldFiles, sent, lost>>

\* Another request removed the file between the look and the removal, which raises
\* (no missing_ok): the files after it stay too.
OrphanGone(r) ==
    req[r].pc = "found" /\ Min(req[r].todo) \notin disk /\ Abandon(r, req[r].todo)

\* The file system refuses to remove a file.
FailUnlink(r) ==
    \/ req[r].pc \in {"written", "unlink"} /\ req[r].file \in disk /\ Abandon(r, {req[r].file})
    \/ req[r].pc = "found" /\ Min(req[r].todo) \in disk /\ Abandon(r, req[r].todo)

\* Refused (the image is in use) or rolled back (a foreign key, a deadlock).
Refuse(r) ==
    /\ req[r].pc \in {"upload", "delete", "cleanup", "report"}
    /\ To(r, Idle)
    /\ UNCHANGED <<content, records, disk, damaged, refs, oldRows, oldFiles, sent, lost, stray>>

-----------------------------------------------------------------------------
(* The rows that show images.  Every request checks that its images exist   *)
(* (_files), and a foreign key that they still do.                          *)

Show(shown) ==
    /\ \A k \in Kinds : shown[k] \subseteq records
    /\ refs' = shown
    /\ UNCHANGED <<content, records, disk, damaged, oldRows, oldFiles, req, sent, lost, stray>>

\* Owners are created and edited with the images the request names.
update_purchase_material == \E fs \in SUBSET records : Show([refs EXCEPT !.plan = fs])
update_template == \E fs \in SUBSET records : Show([refs EXCEPT !.template = fs])
create_template == \E fs \in SUBSET records : Show([refs EXCEPT !.template = @ \cup fs])

\* An owner that is deleted takes its references with it.
delete_template == \E fs \in SUBSET refs.template : Show([refs EXCEPT !.template = @ \ fs])
delete_purchase_material == \E fs \in SUBSET refs.plan : Show([refs EXCEPT !.plan = @ \ fs])

\* Plans made from templates, and lines made from plans, show the same images;
\* a restored line gives its images back to the plan rebuilt from it.
generate_purchase_plan ==
    \E fs \in SUBSET refs.template : Show([refs EXCEPT !.plan = @ \cup fs])
move_plans_to_record == \E fs \in SUBSET refs.plan : Show([refs EXCEPT !.line = @ \cup fs])
restore_purchase_record_to_plan ==
    \E fs \in SUBSET refs.line : Show([refs EXCEPT !.plan = @ \cup fs, !.line = @ \ fs])

-----------------------------------------------------------------------------
(* The environment.                                                         *)

\* The protection period (older_than_hours) is longer than any request.
ProtectionPasses ==
    /\ \A r \in Requests : req[r] = Idle
    /\ oldRows' = records /\ oldFiles' = disk
    /\ UNCHANGED <<content, records, disk, damaged, refs, req, sent, lost, stray>>

\* The server dies: locks and requests are gone, the tables and the disk stay.
Crash ==
    /\ req' = [r \in Requests |-> Idle]
    /\ stray' = stray \cup Left(disk)
    /\ UNCHANGED <<content, records, disk, damaged, refs, oldRows, oldFiles, sent, lost>>

\* A file is lost outside the program.
LoseFile ==
    /\ \E f \in disk \cap records :
          Remove({f}) /\ lost' = lost \cup {f}
    /\ UNCHANGED <<content, records, refs, oldRows, req, sent, stray>>

Request(r) ==
    \/ upload(r) \/ DecideUpload(r) \/ FinishWrite(r) \/ FailWrite(r)
    \/ CommitUpload(r) \/ RollBackUpload(r)
    \/ remove(r) \/ delete_image(r)
    \/ remove_orphans(r) \/ inspect_orphans(r) \/ cleanup_orphans(r)
    \/ UnlinkFile(r) \/ CheckOrphan(r) \/ UnlinkOrphan(r) \/ OrphanGone(r) \/ FailUnlink(r)
    \/ Refuse(r)

Owners ==
    \/ update_purchase_material \/ delete_purchase_material
    \/ create_template \/ update_template \/ delete_template \/ generate_purchase_plan
    \/ move_plans_to_record \/ restore_purchase_record_to_plan

Next == Owners \/ ProtectionPasses \/ Crash \/ LoseFile \/ \E r \in Requests : Request(r)

Spec == Init /\ [][Next]_vars

-----------------------------------------------------------------------------
(* Properties.                                                              *)

\* Tables and files are made of ids drawn; a reference has its row (the foreign
\* keys); ages are those of rows and files that exist.
TypeOK ==
    /\ Ids \subseteq 1..MaxFiles /\ \A f \in Ids : content[f] \in Contents
    /\ records \subseteq Ids /\ disk \subseteq Ids
    /\ Referenced \subseteq records
    /\ oldRows \subseteq records /\ oldFiles \subseteq disk /\ damaged \subseteq disk
    /\ sent \in 0..MaxRequests

\* An image with a row can be shown: its file is there, whole, unless it was lost outside
\* the program and is not yet repaired, whatever uploads, deletions, cleanups, crashes and
\* failing writes overlap.
RecordedImageReadable == records \ (disk \ damaged) \subseteq lost

\* The files some request is writing or about to remove.
Filed(pcs) == {req[r].file : r \in {q \in Requests : req[q].pc \in pcs}}
InHand ==
    Filed({"writing", "written", "unlink"})
    \cup UNION {req[r].todo : r \in {q \in Requests : req[q].pc \in {"sweep", "found"}}}

\* A file without a row is in the hands of a request, or was left by a crash, by an upload
\* that repaired a deleted row, by a write that failed, or by a removal that failed or came
\* second: requests that overlap in any other way leave none.
NoStrayFiles == disk \ records \subseteq InHand \cup stray
=============================================================================
