# Materials-Manager: specifications

TLA+ specifications of the back end of Materials-Manager (`src/backend`), with the
parts of the web client, the synchronisation script and the mini-program that take part
in its protocols. TLC model-checks them on small instances; TLAPS proves, for every value
of the constants, the invariants and the action properties that these runs check and the
refinements, of every component. Liveness stays with TLC.

1. [The system](#1-the-system)
2. [The modules and the code](#2-the-modules-and-the-code)
3. [The runs](#3-the-runs)
4. [Divergences found](#4-divergences-found)
5. [What is proved](#5-what-is-proved)
6. [What is not modelled](#6-what-is-not-modelled)
7. [Plan](#7-plan)

## 1. The system

One FastAPI process (uvicorn with one worker, in a container that is restarted unless
stopped) serves a Vue client, a WeChat mini-program, a browser script that copies
purchase data from another system, and an MCP endpoint. It keeps its state in MySQL,
in a directory of files and in caches of the process. A request opens one database
session (`get_db`), commits it after its handler has returned and rolls it back if the
handler raised. Background work runs as asyncio tasks in the same process: export and
import jobs, the webhook worker, and cleanups of exports, share links and moved plans.

| component | state | operations | how it interacts |
|---|---|---|---|
| Stock ledger, `inventory_service` | `stock_operation`, `stock_operation_line`, `stock_balance`, `business_event_log` | inbound, outbound, reversal, edit | enqueues webhook events; read by dashboard, replenishment, exports and the mini-program |
| Stock materials, `material_service`, `replenishment_service` | `stock_material` with its policy | create, edit, delete, set a policy, draft a plan for a material that is low | referred to by the ledger, plans and plan templates |
| Procurement, `material_service`, `purchase_request_service`, `purchase_plan_cleanup_service` | `purchase_material` (plans), `purchase_request`, `purchase_request_line` with a copy of the plan | create, edit, delete, number, move to a record, restore, nightly cleanup of moved plans | refers to stock materials and to images |
| Purchase record synchronisation | the same records, by trace number | list targets in pages, post texts and statuses | called by the browser script, races with editors |
| Excel exports, `excel_export_job_service` | `excel_export_job`, one file per job, the task | enqueue, run, download, mark at start-up, daily cleanup | read-only processors over the other tables |
| Excel imports, `import_job_service` | `excel_import_job`, one upload per job, a lock per type, the task | upload, register, run, mark and clean up at start-up | processors replace the table of their type |
| Webhooks, `webhook_service` | `webhook_channel` (encrypted, versioned), `webhook_delivery` (outbox) | save and load settings, enqueue, claim, send, finish | rows are inserted in the transaction of the business event |
| Images, `file_service` | `file_object`, files, locks per digest | upload, repair, reference, delete, clean up orphans | shown by materials, plans, record lines and templates |
| Share links, `share_link_service` | `share_link` | create, open, extend, revoke, daily cleanup | read-only views of procurement |
| Mini-program users, `mini_program_service` | accounts, WeChat identities, registration settings | register, approve, edit, merge, delete | creates stock operations |
| Codes and tokens, `mini_program_service`, `core/wechat` | two caches of the process, their locks | generate a code, fetch a token | asks WeChat |
| AI search, `ai_search_service` | settings row, cache of expansions | save settings, expand a search | asks an AI service |
| Users, `dictionary_service`, `api/v1/auth`, `core/permissions` | accounts, passwords, API tokens, versions | log in, renew, create, edit, delete, issue a token | first `SELECT` of most requests |
| Dashboard, MCP | none of their own | read | over the ledger and procurement |
| Web client, mini-program client | forms with versions, polling, request ids | pages | retries with `client_request_id`, polls jobs |

What is hard here:

- **Interleaved transactions.** Services mix locking reads, plain reads, objects the ORM
  session already holds, and values computed in memory and written as absolutes. The
  code sets no isolation level, so MySQL's default REPEATABLE READ applies, with a
  snapshot the login check takes before the service's first lock, while the tests run on
  SQLite, where none of this shows.
- **Locks taken in different orders** by the web's and the mini-program's requests.
- **Sequences of edits and reversals** over a ledger that is replayed from the beginning
  of time for every material touched.
- **Things that live in two places**: a plan and its record line with a nightly job
  between them, an image's row and its file, an identity and its account.
- **Database and files** change in separate steps, around which the process can be
  killed, shut down with tasks cancelled, or lose a transaction.
- **Repeated requests and repeated deliveries**: `client_request_id`, claims with leases,
  a script that pages through records while they change.
- **Versions** compared on objects that were read without a lock.
- **Caches** filled by answers that were asked for before the cache was emptied, or that
  expire while they are used.

What makes each part correct: a balance is the sum of its lines, lines form one chain, a
reversal never exceeds its original, a request books once, an edit never overwrites a
newer version; a purchase need is in one place and has one number; the synchronisation
fills what is blank and reaches every record; jobs reach a final state and agree with
their files and tables; an imported table is the sheet, up to named conversions of its
cells; a delivery is in one hand at a time and ends; an image that is recorded can be
read; a merge keeps identities; a login ends with its password; an answer from a cache
fits the settings. `PROJECT.json` lists the hazards line by line with the properties that
cover them.

## 2. The modules and the code

```
LedgerOps  <-- StockLedger   <-- MCStockLedger, StockLedgerProofs
     ^             ^
     |             | refined by (SerialSpec)
     +------ InventoryTxn    <-- MCInventoryTxn, InventoryTxnProofs

NeedLifecycle
     ^ refined by (NeedsLive)
PurchasePlans <-- Workers <-- MCWorkers, WorkersProofs
                     |
          ExportJobs, Shares            ExportJobs <-- MCExportJobs

MgmtUsers <-- Services <-- MCServices, ServicesProofs
                 |
MiniUsers, AiSearch, MaterialCodes, ImageFiles, ImportTables, StockMaterials

ImportJobs      <-- MCImportJobs, ImportJobsProofs
WebhookDelivery <-- MCWebhookDelivery, WebhookDeliveryProofs
RecordSync      <-- MCRecordSync, RecordSyncProofs

FiniteSetLemmas <-- StockLedgerProofs, InventoryTxnProofs, WorkersProofs, ServicesProofs
```

Definitions named in `snake_case` or `camelCase` are functions of the source. A
definition whose comment begins with "Faulty variant" or "A faulty" is no part of the
system: it is the form a plausible bug would give a definition of the model, and shows
that a property would see it. Variables commented "ghost" or "history" record what a
property needs and decide nothing.

An arrow is an EXTENDS, a line an INSTANCE. **Workers** extends PurchasePlans and
**Services** extends MgmtUsers; the other components of each are instances. They put
components that share no state into one specification: a behaviour picks a component at
its start and is a behaviour of that component. Nothing is said about their interaction,
because there is none in the code that the properties could tell. Each names the
properties of its components, so that a run checks and a theorem proves the same
definition.

**LedgerOps** is the pure part of `inventory_service`: new operations and lines, the
edited form of both, the reversal's effect on its original, and `replay_materials`. A
ledger is a function from ids to operations, the lines of an operation a function from
materials to lines (the table has a UNIQUE key on the pair). `Running` is the replayed
balance, `RunningBefore` a line's `before_qty`; both are sums over the set of entries,
so no recursion is needed. Quantities are counted in tenths (`DECIMAL(18, 1)`). Names,
units, locations, remarks and receivers are left out, together with the rule that an
outbound has a receiver: no property tells them apart.

**StockLedger** is the ledger with each request executed alone, one action per request:
`create_operation`, `reverse_operation`, `update_operation`, `create_stock_material`,
`delete_stock_material`. A request that is answered with an error or, as a repeated
`client_request_id`, with the earlier operation changes nothing and is no action. Each
action includes the replay, the event log and the webhook event.

**InventoryTxn** is the same requests as concurrent transactions: `Begin` (the login
check fixes the snapshot; the first look for the request id), `LockOperation` or
`LockMaterial`, `LockRow` for each row of `_lock_and_validate_materials`, `Recheck` (the
second look, a locking read), and `WriteAndCommit` or `RefuseWrite`. The three kinds of
read are kept apart: a locking read returns committed rows; a plain read returns `View`,
the snapshot or the committed rows, by `Isolation`; an object in the session keeps the
values it was loaded with (`balances`, `operation`), and a flush writes only columns that
differ from them (`Flushed`). Row locks, gap locks, deadlock victims and the ORM's
flush are external and modelled as MySQL/InnoDB and SQLAlchemy document them, as far as
the code relies on them. What is computed comes from LedgerOps, so the module differs
from StockLedger in what it reads and when, and in nothing else. The write, the flush
and the commit are one action: the locks held then exclude whatever could come between,
except for readers, which see nothing before the commit.

**NeedLifecycle** is what procurement promises about one purchase need: entered as a plan,
moved to a record, restored, deleted only as a plan, and never in two places or none.

**PurchasePlans** is every request on plans and records, each a transaction of two
steps: `Begin` fixes the snapshot, and one of the actions named after the handlers reads,
validates and commits. Which reads are of the snapshot and which lock is kept per
handler: `delete_purchase_material` looks for lines in the snapshot,
`move_plans_to_record` with a lock (`Unmoved`), `restore_purchase_record_to_plan` locks
line and header and looks for the last line in the snapshot. Numbers come from `NextIndex`
over both tables. `cleanup_moved_plans_once` deletes a batch of `Candidates`, passing over
rows a request holds (`SKIP LOCKED`). `need` is a ghost that follows a need from plan to
line and back; `Place` maps the tables to NeedLifecycle.

**RecordSync** has the records, the users' forms and the script: `targets` (a page from
`list_sync_targets`), `updateTarget` (ask the platform, begin the post), `sync_trace`
(`apply_trace_sync`), and the cursor kept between runs. Lines are read with locks, their
header comes with them from the snapshot and is not refreshed by the later lock; one
header text and one line text stand for those treated alike.

**Shares** has the links against the clock: an edit reads a link and later writes it, the
daily `cleanup_expired` selects and then deletes with the condition repeated.

**ImageFiles** keeps rows, files and references apart. An upload decides under the digest
lock from the rows of its snapshot and the files as they are: reuse, repair or write
anew. A write is two steps: the file is there in part (`damaged`) until `FinishWrite`, or
for good after `FailWrite`, since `write_bytes` stands outside the `try` that removes the
file. `delete_image` commits and unlinks one file; `cleanup_orphans` commits and then goes
through its files, with the look (`CheckOrphan`) and the removal (`UnlinkOrphan`) in steps
of their own: a file that is gone by then (`OrphanGone`) or cannot be removed
(`FailUnlink`) raises, and the rest of the list stays. The server may crash between any two
steps. Every kind of owner is there, with the ones the
service looks at (`CheckedKinds`) and those only a foreign key knows.

**MiniUsers** has the accounts, identities and registration settings: `register_user`,
`update_user`, `merge_users`, `delete_user`, with what each reads from its snapshot and
what it locks. **MgmtUsers** has the accounts of the management pages with password, API
token (hash and ciphertext), version, and the refresh tokens issued. **StockMaterials**
has materials with their identity hash, policy and references, the requests on them
and `create_replenishment_draft`; what the ledger does to a material is one action.

**AiSearch** has the settings row, the searches in flight and the cache in the order of its
insertions. **MaterialCodes** has the two caches and locks of `mini_program_service`
against WeChat's clock: a token is alive from some moment of the request on, the server
counts from the answer.

**ExportJobs** has the rows, the complete files, the `.tmp` files, the point each task has
reached and the phase of the server. The steps of `_run_job` are actions of their own,
because the process can end between any two. `Crash` is a kill; `Stop` is the end of the
lifespan, after which `asyncio.run` cancels the tasks that are left: a `CancelledError`
is caught by neither `except` clause, and the `finally` block runs. The thread that
writes the file is not interrupted (`ThreadEnds`). `TransactionFails` is the loss of the
database when the request reads the row back or when the task wants to write it: the
task is then `Lost`. `mark_stale_exports_failed`, `DeleteRows`, `UnlinkFile`, the sweep and
`Started` follow the lifespan of `main.py`.

**ImportJobs** has the same framework with what differs: the upload, the lock per type,
the check and the registration of `enqueue_import`, the processor that replaces its
table in one transaction, and a cleanup at start-up only. **ImportTables** is that
processor in detail, for the three kinds of table: the header row, the conversion and the
checks of a row, the removal of equal rows, and the insertion in batches. A cell is a
text, a day or a number together with the way it is written; `Text`, `Date` and `Quantity`
are `_cell_text`, `_cell_date` and `_cell_quantity` by what they keep and lose: a time is
cut off, a text that is no date becomes blank, 1.50 and 1.5 are one number. Equal rows are
those equal after the conversion (`DedupeKey`). `Stored` is the rounding of `Numeric(18,
2)`, which comes after, so that rows that differ in thousandths stay two rows of the
table.

**WebhookDelivery** has the settings page (`Load`, `Save`), the outbox (`enqueue_event`),
the worker (`claim_delivery`, `_send` as `SendAccepted` or `SendRefused`,
`finish_delivery`) and time. `claim_delivery` takes the due delivery with the lowest id, of
whatever channel; when its credentials cannot be decrypted the claim is rolled back and
nothing is taken. `claim_past_locked` is `SKIP LOCKED`: a worker passes over rows whose
lock another one holds at that moment. `wait` is what is left to `next_retry_at`, `age`
what has passed since `updated_at`. `receipts` counts what the platform accepted and
`hidden` remembers what the database was never told.

## 3. The runs

| run | expected | shows |
|---|---|---|
| `LedgerRequests` | pass | the ledger under any sequence of three requests and an edit over two materials: one chain per material that ends at its balance, reversals within their original, history kept |
| `TxnCreations` | pass | concurrent creations refine `StockLedger` (`SerialSpec`, which includes that a repeated request books once), and every deadlock involves the mini-program |
| `TxnAllRequests` | pass | creations, reversals and edits: reversals within the quantity, no lost edit |
| `TxnLive` | pass | every request ends, deadlocks included |
| `TxnLostMovement` | violation | a movement missing from a balance under REPEATABLE READ |
| `ExportLeftPending` | violation | a PENDING export survives the start-up |
| `ImportRecovery` | pass | imports of a type exclude each other, end, and leave the table they report |
| `WebhookWorkers` | pass | one holder, duplicates only after a hidden receipt, bounded attempts, final states final; every delivery ends unless it waits for one that cannot be decrypted, be it of the other channel |
| `RecordSync` | pass | a post fills blanks and moves statuses forward; in the end every record the platform knows is completed |
| `StaleEdit` | violation | a form opened before a post is accepted after it |
| `Services` | pass | MiniUsers, AiSearch, MaterialCodes, ImageFiles, MgmtUsers, ImportTables, StockMaterials: their safety properties |
| `Workers` | pass | PurchasePlans with the nightly job refines NeedLifecycle, keeps numbers unique and empties the list; exports end and have their files; the cleanup takes no working link |

### Bounds, and why they are enough

- **LedgerRequests**: 2 materials, 3 request ids (so 3 operations), quantities 1 and 2,
  client times {1}, 1 edit. Two materials let an edit move a line from one to another;
  three operations let an original be reversed twice in part, or a reversal be reversed;
  a reversal comes one instant after its original, so a creation at time 1 that follows
  is backdated; two quantities make partial reversals and lowering edits possible.
- **Transactions** (InventoryTxn): 2 requests in progress. The effects sought are between
  two transactions; a third could only lengthen a wait. 2 materials in `TxnCreations` so
  that the order of locks matters; 2 or 3 request ids so that an id is repeated, or two
  operations follow a committed one. `TxnAllRequests` has 3, a creation and two reversals of
  it, one edit beside them (`MaxEdits`), and 1 material because its
  properties are about one operation row. The passing safety runs are made under READ
  COMMITTED, where the properties hold; REPEATABLE READ is what MySQL uses unless told
  otherwise, and `TxnLostMovement` is the run for it. `TxnLive` is made under REPEATABLE
  READ, with its gap locks.
- **Plans** (`Workers`): 2 needs, 5 requests of which 2 overlap, 2 days, 3 numbers a day,
  batches of 1. Five requests are enter, enter, move, restore and one more, so a restored
  or cleaned plan meets another request; a batch of 1 makes the job need several rounds;
  the limit of 3 is reached by renumbering.
- **Exports** (`Workers`): 2 jobs, 2 stops: a job of an earlier process beside one of this
  process, and a second stop during the recovery from the first. `ExportLeftPending`
  needs 1. **Links**: 2 links lasting 1 or 3 ticks or for ever, 2 overlapping edits, 5
  ticks: a link expires, is found, is extended before the DELETE and expires again.
- **Imports**: 3 uploads of 2 types, 1 stop: two uploads race for a type while a third
  shows that another type does not matter, and a later import follows a finished one.
  ImportTables: the sheets of `UploadedSheets`: headers in more than one order, with a
  column named twice or without dates, titles above, and up to 3 lines that differ in the
  time of a date, in a date that cannot be read, in the notation of a number, in
  thousandths, or are short, blank or unusable; the header sought in 2 rows, batches of 2.
  Three lines cross the boundary of a batch and let a third equal the first.
- **Webhooks**: 2 channels, 2 deliveries, 2 workers, 2 attempts, a lease of 2 minutes, 2
  faults (a crash, a failed write, a change of key) and 2 saves: each worker can die once
  in the same delivery, or one after the other in each; and after a change of key and a
  save of one channel, an unreadable delivery of the other stands before a readable one,
  new or left behind by a worker that died. The real numbers (5 attempts, a lease of
  minutes) only repeat the same steps.
- **RecordSync**: 3 lines of 2 records, one trace number on lines of both, one target whose
  status the platform never raises to final, pages of 1, one user with 2 forms (1 in
  `StaleEdit`): the cursor has to pass the unfinishable target, and a form can be opened
  before one post and sent after another.
- **Services**: MiniUsers 3 accounts in 2 apps, 4 identities, 5 requests; AiSearch 2
  searches, 2 administrators, a cache of 1 with a lifetime of 1 tick; MaterialCodes 2
  callers, 2 codes, lifetimes on both sides of `Margin`; ImageFiles 1 content, 2 files, 4
  requests (two uploads of the same picture and two that remove: a deletion, or two
  cleanups with the same report);
  MgmtUsers 2 accounts, 5 requests (a login, two overlapping edits, a renewal, and one to
  spare); StockMaterials 2 materials with 2 names and units, 3 requests. Two requests are
  in progress at a time.

Symmetry is used where the sets are model values and the run has no liveness property.
Deadlock checking is off in every run: clients may stop asking, and the bounds end the
behaviours.

### Fairness, and why the code justifies it

- `InventoryTxn!FairSpec`: InnoDB queues the waiters of a row, so a request that can go
  on again and again goes on (strong fairness of its steps), and it always finds a
  deadlock (weak fairness of the victim). Arrivals and failures are not fair.
- `ImportJobs!FairSpec`, and `Workers` for ExportJobs: the event loop runs every task; a
  container that stopped is started again (`restart: unless-stopped`); start-up and the
  daily cleanup go on. Clients, failures and stops are not fair.
- `Workers` for PurchasePlans: a request ends (it commits or fails), and the nightly job
  comes round for a plan that stays a candidate. Which plans it skips is not fair, but it
  skips only what a request in progress holds.
- `RecordSync!FairSpec`: the script's timer makes its next step, and an edit that was sent
  ends. Users need not open or send forms; `EveryTargetSynced` speaks of the time when
  they have stopped, which `MaxEdits` brings about.
- `WebhookDelivery!FairSpec`: the worker polls for ever and survives its exceptions
  (`run_delivery_worker`), and time passes. Nobody has to use the settings page, and
  `claim_past_locked` is not fair: that another worker holds the lock of a delivery at the
  right moment is chance. `EveryDeliveryEnds` speaks of the time when events have stopped,
  which `MaxDeliveries` brings about.

### Assumptions worth knowing

- `Prompt` in `WebhookWorkers`: a worker is done with a delivery before its lease ends.
  One process with one worker is deployed, where the question of a second holder does
  not arise; the run is for more than one process, where the time-out of `_send` against
  the length of the lease has to ensure it. `_finish_delivery` does not compare the row
  with the claim, so without `Prompt` neither `OneHolder` nor `FinalStays` holds.
- `Expire` in the job modules waits for the task of a job: three or thirty days are
  longer than any task needs for its last step. In the same way `ProtectionPasses` of
  ImageFiles waits for the requests in progress, and `Tick` of MaterialCodes lets a
  request to WeChat take at most one tick, which is less than `Margin`.
- `lost` tasks: `NoneLeftBehind`, `StartedExportEnds` and `EveryImportEnds` except a job
  whose own transaction failed in the running process: its row stays as it is until the
  next start.
- An uploaded sheet is a sequence of rows and a row a sequence of cells; which cells a
  spreadsheet library makes of a file is outside.
- The second step of a request in PurchasePlans, MiniUsers, MgmtUsers and StockMaterials is
  atomic: rows it reads with a lock stay locked until its commit, and all else it
  reads is its snapshot, so moving the other requests' commits before or after it loses
  nothing but deadlocks, which `Fail` and `End` contain.
- `repeated`, `rewritten`, `overtaken`, `mixed`, `stray` and `lost` (ghosts) mark what the
  code is known to do wrong under overlapping unlocked edits or crashes, `stray` also what
  a failed write or removal leaves behind; the properties hold for everything not so
  marked, and section 4 says how each mark arises.

## 4. Divergences found

Shown by runs:

- `TxnLostMovement`: `replay_materials` sums `stock_operation_line` with a plain SELECT. In
  a transaction whose snapshot is older than the lock it waited for, the sum lacks what
  committed in between. `docs/development-plan.md` promises that concurrent outbounds
  lose no deduction.
- `ExportLeftPending`: `mark_stale_exports_failed` updates rows only if it found a path, and
  a PENDING job has none.
- `StaleEdit`: `apply_trace_sync` raises the version of the line, edits are checked against
  the version of the request.

Met while modelling, and kept out of the properties that pass, without a run of their own.

The ledger:

- The plan has all balances locked in ascending order "to avoid deadlock"; the
  mini-program's `create_outbound` locks the material before the balance. InnoDB resolves
  it (`TxnLive`), at the price of an error for one of the two; `DeadlockNeedsMini` shows
  that nothing else deadlocks.
- An edit can give an ordinary operation the source REVERSAL, which
  `inventory_service.py:234` reserves for the reversal endpoint. The runs let clients
  give MANUAL only.
- Under REPEATABLE READ two concurrent reversals read the same remaining quantities from
  their snapshots (`inventory_service.py:286`) and take more than there is; with READ
  COMMITTED they do not (`ReversedWithinQuantity`).
- Under READ COMMITTED a balance the session loaded before it had the lock keeps its old
  value; if the replayed total equals it, the flush writes nothing. `SerialSpec` is
  therefore checked for creations only.
- Under REPEATABLE READ the second look for a new `client_request_id` takes a gap lock that
  two creations can share; each then waits for the other's insertion. `TxnLive` contains
  it and shows that both requests end.
- `recent_outbound_consumption` leaves an operation out altogether once any reversal of it
  exists, a partial one too.

Jobs and webhooks:

- `_run_job`, cancelled at shutdown, records SUCCEEDED, for an export without a file.
  `OnlyCancelledLacksFile` and `TableIsLastImport` except cancelled jobs.
- A crash between commit and unlink leaves an export file, or an upload, that nothing
  removes later; so does a crash between a saved upload and its row.
- A failing `refresh` after the registration of an import leaves an active row without a
  task, and its type blocked until the next start.
- After a change of key the message asks to save the webhook settings again; the page
  cannot be loaded, shows version 0, and the save is refused as stale.
  Meanwhile its first undecryptable delivery heads the claim order
  (`webhook_service.py:357-385`): each claim takes it, is rolled back, and so the later
  deliveries of every channel wait. `EveryDeliveryEnds` excepts exactly those (`HeldUp`),
  whichever channel they belong to.
- The comment on `DEDUPE_FIELDS` (`huaxing_inventory_service.py:34`) has two rows merged
  only when they repeat each other in every column, and that of `_replace_rows` (`:181`)
  speaks of full repetitions. `_cell_date` (`:61-74`) makes `None` of every text it cannot
  read, so two lines of 2026/1/5 and 2026/2/5 are equal by then and one of them is
  dropped; a time of day is lost in the same way. `ImportIsTheSheet` is stated about the
  lines as the parser reads them.
- A quantity is rounded to two decimals by the column, after equal rows were removed: the
  table can hold two equal rows. Codes that MySQL's collation takes for equal pass the
  parser and are refused by the unique key; the import then fails as a whole (`roll_back`).

Procurement:

- A plan moved to a record after the snapshot of `delete_purchase_material` is deleted all
  the same, with its line unlinked.
- Two concurrent restores of the two lines of a record each see the other line and leave an
  empty header.
- A restore keeps a plan that still exists as it was, or rebuilds it from the edited line:
  whether edits of the record survive depends on whether the nightly job has come by.
- A plan rebuilt from a record whose date was edited alone has the old day in its number.
- Versions are the snapshot's plus one, so overlapping unlocked edits repeat or lower them.
- The synchronisation writes a header text over one that was committed after its
  snapshot (`SyncFillsBlanks` excepts headers edited since).

Images, links and caches:

- `_unreferenced` and `delete_image` do not look at the images of plan templates: the
  foreign key makes every cleanup fail that meets one, where
  `docs/development-plan.md:527` lists them as referenced.
- A digest lock is taken after the snapshot, so a second upload of a picture can store it
  twice; a reuse or repair can answer the id of a row that was deleted meanwhile, and a
  repair then leaves a file without a row (`stray`).
- `write_bytes` (`file_service.py:142`, `:158`) stands outside the `try` that removes a
  file: a write that fails, on a full disk, leaves half a file, without a row or under a
  row whose file was lost. A damaged file is there and has another content, so the next
  upload of the picture neither reuses nor repairs it and stores the picture anew.
- `cleanup_orphans` looks whether a file is there and awaits its removal without
  `missing_ok` (`file_service.py:287-291`). When another cleanup or a deletion was faster,
  or the file system refuses, the request ends with an exception after its commit, and the
  files behind it stay without rows until a later cleanup. `NoStrayFiles` counts them as
  `stray`.
- `older_than_hours = 0` lets the cleanup take the file of an upload in progress.
- The cache of generated codes has neither age nor bound. The second look of the token
  fetch never finds anything, because the lock of the codes already excludes other callers.
- Two AI settings saved at once can both become version v + 1.

Accounts and materials:

- A deletion of a mini-program account with a snapshot from before a merge removes the
  identities that were moved to the other account.
- Refresh tokens are tied to a version that overlapping edits can write back (`rewritten`).
- A request that fills in the missing ciphertext of an API token while a new one is issued
  leaves one shown that is not accepted (`overtaken`).
- Two administrators can delete each other.
- Two overlapping edits of one stock material leave an `identity_hash` that is not that of
  its columns (`mixed`), where `docs/development-plan.md:166` has it tell materials apart.
- `delete_stock_material` unlinks plans but not plan templates, so a material with a
  template is refused with a general conflict; a draft for a material that is being deleted
  is answered PLAN_NO_CONFLICT.

## 5. What is proved

Every theorem is about the whole specification, for every value of its constants that the
named assumptions allow: any materials, clients, quantities, times, workers, channels,
needs, jobs, and any bounds. The assumptions are what the code ensures (quantities are
positive naturals, materials are finitely many numbered rows, "none" is no job, a bound is
a number, a token lives longer than the least time it is kept, the registration settings
are two flags), and TLC evaluates them in the runs.

### The ledger, one request at a time

`StockLedgerProofs`, from the assumptions of StockLedger:

| theorem | statement |
|---|---|
| `TypeCorrect` | `Spec => []TypeOK` |
| `BalanceCorrect` | `Spec => []BalanceIsRunning` |
| `RemainingBounded` | `Spec => []RemainingWithinQuantity` |
| `HistoryKept` | `Spec => HistoryIsKept` |
| `ReversalsMirror` | `Spec => []ReversalMirrorsOriginal` |
| `ChainHolds` | `Spec => []ChainUnbroken` |
| `ReversalsAccounted` | `Spec => []ReversalsAccountedFor` |

The inductive invariant is `IInv == TypeOK /\ BalanceIsRunning /\ RemainingWithinQuantity`.
`BalanceIsRunning` alone is not inductive: that a request leaves the sum of a material it
does not touch as it is needs the operations to be finite in number and gap-free (so that
the new id is new and sums are over finite sets), lines to belong to existing materials
(so that a deleted material takes no line with it), and integers in every line; all of
that is `TypeOK`. `RemainingWithinQuantity` needs `CanReverse` of the original together with
`TypeOK`'s naturals.

The argument goes through the operators, one lemma each: a replay changes neither type,
quantity nor remainder of a line and hence no sum (`Running` before and after agree);
adding, editing or taking a reversal off an operation keeps every operation well formed;
and a material in no line of the operations that differ keeps its sum. Each action is
then one step with one sub-step per conjunct. `HistoryKept` follows from the same
invariant, since every action only adds an operation or rewrites the one it edits.

`ReversalsMirror` adds `MInv` to `IInv`: versions are positive and events name operations
that exist. Replaying and taking a reversal off leave the head of an operation (type,
time, source, original, version) as it is; an edit counts the version past 1, which takes
the operation out of the comparison for good; and the number of a new reversal is beyond
all operations, so no event can have it. `MirrorsStay` says this once for every action.

`ChainHolds` strengthens the chain to what makes it inductive: every line bears the figures
a replay would write now. A request replays every material whose entries it changes, so
that survives each action; and the entries before a line are those before its
predecessor and the predecessor itself, so the figures meet. `ReversalsAccounted` is the sum
a reversal adds to and takes off in one step; that the sum grows by just the new line
needs the sums of `FiniteSetLemmas`.

**FiniteSetLemmas** has what the proofs need of `MapThenSumSet`, `Max` and `Min`: a sum
over a finite set does not depend on the order in which its members are taken out, grows
by one member's share, and is an integer. The library's induction over finite sets is not
available to the provers; a smallest counterexample takes its place: among the subsets for
which a statement fails there is one all of whose proper subsets it holds for.

### The ledger's transactions

`InventoryTxnProofs`, for any number of requests in progress:

| theorem | under | statement |
|---|---|---|
| `EditsNotLost` | any isolation, all requests | `Spec => NoLostEdit` |
| `ReversalsWithin` | READ COMMITTED, all requests | `Spec => []ReversedWithinQuantity` |
| `WebNeverDeadlocks` | READ COMMITTED, creations | `Spec => []DeadlockNeedsMini` |
| `CreationsSerialize` | READ COMMITTED, creations | `Spec => SerialSpec` |
| `CreationsLoseNothing` | READ COMMITTED, creations | `Spec => []BalanceMatchesLedger` |

None of these hypotheses can be dropped: with other values of `Isolation` and `Kinds` TLC
finds a counterexample to each statement. Under
REPEATABLE READ two reversals compute on one snapshot, the gap locks make creations
deadlock, and a movement is lost (`TxnLostMovement`). A reversal or an edit reads the
balances along with the operation, before it has locked them, so even under READ
COMMITTED it can write too little (section 4), and it locks the operation first, which
makes it part of deadlocks. The theorems say where the trouble ends: reading committed
rows is enough for everything the web and the mini-program create.

- `LInv` carries everything. Tables are well formed; no row is locked by two transactions
  (the gap excepted); a transaction that holds an operation's row has the version that is
  committed. The last is why no edit is lost: the version is compared under the lock, and
  nobody else can count it up while the lock is held, whatever the snapshot.
- `QInv`: what was taken off an unedited line and what it has left are within its
  quantity. A reversal under READ COMMITTED reads the lines after it has locked the
  operation; every request that changes what is left of a line locks that row first. The
  flush of a stale line cannot spoil it, since it writes only columns that the session
  changed (`FlushedFigures`).
- `DInv`: a web creation asks for balances in ascending order and then for materials in
  ascending order, and holds all that precede the row it asks for. In a circle of waiting
  creations there is one whose wanted row is last in this order; its holder has that
  row and wants a later one, or waits for nobody.
- `SInv`: the balances a creation has read are those committed now, because it holds a row
  of each that every writer needs. So what it computes on is the committed ledger, what
  it flushes is what it replayed (`CreationStores`), and its commit is `create_operation` of
  StockLedger (`CommitSerializes`), every other step a stutter. A repeated request is
  refused by the UNIQUE key, which is `UsedRequests` there.

### Procurement

The first part of `WorkersProofs`, for any clients, days, needs and overlapping requests:

| theorem | statement |
|---|---|
| `NeedsOnce` | `Spec => []EachNeedOnce` |
| `NumbersIdentify` | `Spec => []PlanNoIdentifiesNeed` |
| `NeedsLiveTheirLife` | `Spec => NeedsLive` |

A request changes the tables by editing or deleting rows, by entering a need, or by moving
needs from one table to the other, and each of the three keeps what `DbOK` says of the
tables. What a request decides on, though, is its snapshot. `SeenOK` relates the two: ids
are drawn upwards and never reused, a line still refers to the plan it referred to or to
none, and lines that came since are on other records. With the rows that are read again
under a lock, a decision on an old snapshot is either refused or the one that would be
taken now. `NumbersIdentify` needs, besides, that a new number is beyond all numbers of
its day in both tables, and that a number moves with its need. `NeedsLiveTheirLife` maps
every kind of step to a step of NeedLifecycle, need by need, or to a stutter.

### Imports

`ImportJobsProofs`, for any types, uploads and stops, from the assumption that "none" is
no job: `ImportsExcludeEachOther == Spec => []OneActivePerType` and `TableHoldsLastImport
== Spec => []TableIsLastImport`. A request looks for an active import in one step and
registers its own in a later one, so the invariant follows it there: a request let through
holds the lock of its type, and its type has no active row. A task makes a row active
again when it begins; the invariant therefore says that a task not begun still has the row
registered as PENDING. Stops and starts keep it because a server that is not up has no
request and one that marks rows has no task (`QuietWhenDown`).

For the table, `TInv` adds that a processor that has returned, and was not cancelled, has
replaced the table while its row was the active one of its type, so that nobody else
has replaced it since; that a finished job is over for good; and that
the start after a stop marks every row left active, in whatever order, before anything
can be imported again.

### Webhooks

`WebhookDeliveryProofs`, for any finite set of channels, any workers and events, each
theorem of the form `Prompt => (Spec => ...)`, where `Prompt` says that a worker is done
before its lease ends (section 3):

| theorem | property |
|---|---|
| `OneHolderAtATime` | `[]OneHolder` |
| `DuplicatesExplained` | `[]DuplicateOnlyAfterFailure` |
| `AttemptsCounted` | `[]AttemptsBounded` |
| `FinalRowsStay` | `FinalStays` |

A claim and the report of its result are two transactions with the call to the receiver
between them. `WInv` says from both sides that they agree: the row a worker holds is
SENDING, its lease runs, and it is at the attempt the worker counts; and a receiver has got
a row of which the database was told everything only if the row SUCCEEDED or a worker
is about to say so. A claim of a row whose worker died is the one step that breaks the
tie, and it is the one that needs the lease to be over.

### Exports and links

`WorkersProofs` goes on with the two other components that a worker cleans up after:

| theorem | statement |
|---|---|
| `ExportsKeepFiles` | `Exports!Spec => []OnlyCancelledLacksFile` |
| `LinksStay` | `Sharing!Spec => WorkingLinksStay` |

A file is unlinked in a step after the transaction that decided on it, and start-up may
mark jobs in between. `ExportsInv` therefore says that what is to be unlinked has no row or
one that FAILED, that the status in a row agrees with the point its task has reached (a
row is PENDING or RUNNING while a task may still write its file, so a finished job has no
task that could change its row), and that no task is alive while the server is down or
marks and cleans. `SharingInv` needs only that the cutoff of a cleanup in progress lies in
the past: the DELETE repeats the condition, so what it takes expired before now.

### The synchronisation of records

`RecordSyncProofs`: `SyncOnlyFills == Spec => SyncFillsBlanks`, for any records, users,
pages and answers of the platform. The lines are read by locking SELECTs, so what is
filled was blank and what is raised is the committed status; `RaisedIsLater` goes through
`_STATUS_PROGRESSION`. The header is the snapshot's: where the committed header is the one
loaded, a text is written only into a blank; where it is not, a user has changed it since,
and that is the exception the property names. The invariant is that the tables have their
columns, which an edit, a batch and a post must each keep.

### The services

`ServicesProofs` has a section for each component of Services, with its inductive invariant,
and one for the whole:

| theorem | statement |
|---|---|
| `RenewalsKnowPassword` | `Spec => []RenewalKnowsPassword` |
| `ShownTokensAccepted` | `Spec => []ShownTokenIsAccepted` |
| `NewAccountsFollowSettings` | `Accounts!Spec => NewAccountFollowsSetting` |
| `MergesKeepIdentities` | `Accounts!Spec => MergeKeepsIdentities` |
| `ServedAnswersFit` | `Search!Spec => ServedAnswerFits` |
| `CodesAskedInTime` | `Coding!Spec => []TokenAliveWhenSent` |
| `ImagesReadable` | `Images!Spec => []RecordedImageReadable` |
| `FilesAccountedFor` | `Images!Spec => []NoStrayFiles` |
| `ImportsAreTheSheet` | `Reading!Spec => ImportIsTheSheet` |
| `MaterialsToldApart` | `Stock!Spec => []OneMaterialPerIdentity` |
| `TypesCorrect` | `AllSpec => []TypesOK` |

`EachComponent` shows that a behaviour of Services is one of every component (a component
that was not chosen stutters), and `AllPromisesKept` draws the ten properties from it. The
same two theorems close `WorkersProofs`.

- **Accounts of the management pages** (`LoginsInv`). That the tokens of an account know its
  password is not inductive: an edit writes the version its snapshot held plus one, and
  nothing in the property speaks of snapshots. The invariant adds that whatever a
  snapshot or a refresh token holds of an account that is not `rewritten` is `Older`: its
  version is smaller, or it is the same and so is the password. An edit that finds the
  version it loaded then counts past every version anybody holds; one that does not puts
  the account into `rewritten`. The numbers of accounts were drawn upwards, so a new one
  is new to every snapshot and token. One lemma, `Replaced`, covers every action that
  rewrites a row.
- **Accounts of the mini-program** (`AccountsInv`). The properties speak of two reads of one
  request. Every snapshot is a `Registry`: identities belong to accounts, numbers were
  drawn, and the setting was in force once, which decides `NewAccountsFollowSettings`. A
  merge locks the accounts and compares versions, but moves the identities of its
  snapshot: `SeenIdentities` says that an account whose version is still the one seen has
  no identity the snapshot lacks. It holds because whatever gives an account an identity
  counts its version up, as long as no edit writes a version twice (`repeated`). So every
  identity of the accounts a merge deletes is one it moves, and the unique keys say that
  no two of them collide.
- **AI search** (`SearchInv`). An entry of the cache bears the version its search read;
  the pair of version and configuration was committed once (`saved`), and pairs stay
  committed. So it does not matter that an answer is put into the cache after the settings
  were replaced and the cache emptied. Keys are unique in the cache and it never exceeds
  its bound, evictions, hits and late answers included.
- **WeChat tokens** (`CodesInv`). One caller is within the lock. The server's end of a token
  never lies behind WeChat's (`token.until <= token.dies`): with the least time it is the
  comparison of `Least` with the lifetime that makes it so, else that of `Margin` with the
  one tick a request takes. Of a call under way the invariant remembers the tick it left
  at.
- **Images** (`ImagesInv`). Two facts about other requests carry it: a file some request may
  yet remove (`Doomed`) is not the new file of an upload in progress, and what is decided
  to be unlinked has no row (`Rowless`). A file that was
  written is whole until its row commits. Uploads of one content exclude each other by the
  digest lock. `NoStrayFiles` is inductive beside this invariant once it is stated file by
  file (`Kept`): a request lets go of a file only with its row, removed, or recorded in
  `stray`; the steps that fail are among those that record.
- **Imported tables** (`ReadingInv`). While the sheet is read, the rows parsed are those
  between the header and the line reached, converted and all accepted; a row read
  (`ReadRow`) and a row of the table (`TableRow`) differ by the rounding of `Stored`, and
  the rows inserted are those read, rounded, up to the offset (`StoredUpTo`). Removing
  equal rows leaves the first of each, in order (`ListsDistinct`): the positions that are
  the first with their row, taken in ascending order, form an increasing list of lines.
  While batches are inserted, the rows in the table are the first `offset` ones, so the
  last, short batch completes the list. No induction over sequences is used; the folds of
  the model are over sets of positions.
- **Stock materials** (`StockInv`). Hashes are unique, and the hash of a material not
  `mixed` is that of its columns; an edit that finds the columns it loaded stores the hash
  of what it stores, any other marks the material.

### Only model-checked

- Liveness: `EveryRequestEnds`, `EveryImportEnds`, `EveryDeliveryEnds`, `EveryTargetSynced`,
  `MovedPlansLeave`, `StartedExportEnds`. The prover knows neither fairness nor ENABLED.
- `SerialSpec` where the theorem's hypotheses end: reversals and edits are not claimed to
  serialize, and section 4 shows that they do not.
- The three runs that expect a violation are counterexamples and need no proof.

## 6. What is not modelled

- Dashboard, MCP, dictionaries of names, filters and sorting of lists: they read and
  compute. Of replenishment, the suggested amount.
- Roles, signatures and expiry of tokens: stateless checks. Their only effect on the
  modelled parts is the first SELECT of a request, which `Begin` contains.
- Rendering and layout of workbooks, the codecs of the spreadsheet libraries (what
  the parsers make of a cell is modelled), resizing of
  images, message formats of webhooks, prompts and parsing of the AI service's answers.
- The WeChat calls that keep nothing (login code, phone number) and `test_channel`.
- The views of the web client and the pages of the mini-program, apart from the webhook
  settings; the client's polling of jobs, which only reads.
- Interactions between components that share rows only as references: an image that is
  shown by a plan is a reference in ImageFiles and is absent from PurchasePlans; ImportJobs
  takes the processor of ImportTables as one step.

## 7. Plan

Done: the ledger and its transactions, procurement and its synchronisation, jobs, imports,
webhooks, images, links, accounts, codes, AI search, stock materials; every safety property
that a run checks is proved. What would add most next:

1. **Serialization of reversals** in InventoryTxn: a theorem that names what a session has
   read too early, and says that everything else is serial.
2. **OptimisticVersion**: the unlocked version check shared by plans, materials, accounts
   and settings, as one abstract specification its users refine.
3. **Composition** of ImportTables into ImportJobs, and of a mini-program's repeated
outbound with the client that sends it.
4. **Replenishment** as operators, against a reference definition of consumption.
