------------------------------ MODULE Services ------------------------------
(***************************************************************************)
(* Seven components of the server that share no state, side by side: a     *)
(* behaviour is one of the component chosen at its start, while the others *)
(* rest.  MgmtUsers is extended, the others are instances.                 *)
(***************************************************************************)
EXTENDS MgmtUsers, Sequences

CONSTANTS
    \* MiniUsers
    Openids, Settings, MaxUsers, AccountRequests,
    \* AiSearch
    Searches, Admins, Terms, Configs, Off, TTL, MaxCached, MaxSaves, SearchTime,
    \* MaterialCodes
    Callers, Codes, Lifetimes, Margin, Least, MaxCalls, CodeTime,
    \* ImageFiles
    Contents, MaxFiles, ImageRequests,
    \* ImportTables
    Rows, Sheets, HeaderSearch, BatchSize,
    \* StockMaterials
    Names, Units, Quantities, MaxMaterials, MaxDrafts, StockRequests

\* Bounds are numbers; there is an account from the start, and room in the cache,
\* in the search for a header and in a batch.
ASSUME ServicesBounds ==
    /\ {MaxAsked, MaxUsers, AccountRequests, MaxSaves, SearchTime, MaxCalls, CodeTime,
        MaxFiles, ImageRequests, MaxMaterials, MaxDrafts, StockRequests} \subseteq Nat
    /\ {MaxMembers, MaxCached, HeaderSearch, BatchSize} \subseteq Nat \ {0}

\* A token lives longer than the least time the server keeps it (7200 and 60 seconds).
ASSUME TokenLifetimes ==
    /\ Margin \in Nat \ {0} /\ Least \in Nat \ {0}
    /\ \A lifetime \in Lifetimes : lifetime \in Nat /\ lifetime > Least

\* Sheets are sequences of rows.
ASSUME SheetsOfRows == Sheets \subseteq Seq(Rows)

\* The settings of registration are two flags.
ASSUME RegistrationFlags == Settings \subseteq [open : BOOLEAN, approve : BOOLEAN]

VARIABLES
    chosen,
    accounts, last, snap, begun, past, repeated,
    setting, cache, search, admin, saves, saved,
    codes, token, call, calls,
    content, records, disk, damaged, refs, oldRows, oldFiles, req, sent, lost, stray,
    job, sheet, table, fresh,
    materials, drafts, created, seen, sentOff, mixed,
    searchClock, codeClock

users == <<accounts, last, snap, begun, past, repeated>>
searching == <<setting, cache, search, admin, saves, searchClock, saved>>
coding == <<codes, token, call, calls, codeClock>>
storing == <<content, records, disk, damaged, refs, oldRows, oldFiles, req, sent, lost, stray>>
logging == vars
reading == <<job, sheet, table, fresh>>
stocking == <<materials, drafts, created, seen, sentOff, mixed>>
allVars == <<chosen, users, searching, coding, storing, logging, reading, stocking>>

Accounts == INSTANCE MiniUsers WITH MaxRequests <- AccountRequests
Search == INSTANCE AiSearch WITH MaxTime <- SearchTime, time <- searchClock
Coding == INSTANCE MaterialCodes WITH MaxTime <- CodeTime, time <- codeClock
Images == INSTANCE ImageFiles WITH MaxRequests <- ImageRequests
Reading == INSTANCE ImportTables
Stock == INSTANCE StockMaterials WITH
    MaxRequests <- StockRequests, view <- seen, begun <- sentOff

AllInit ==
    /\ chosen \in {"accounts", "search", "coding", "images", "logins", "tables", "materials"}
    /\ Accounts!Init /\ Coding!Init /\ Images!Init /\ Reading!Init /\ Stock!Init
    /\ Init /\ (chosen # "logins" => members[1].cipher = 1)
    /\ Search!Init /\ (chosen # "search" => setting.config = Off)
    /\ (chosen # "accounts" => accounts.setting.open)
    /\ (chosen # "tables" => job.kind = "codes")

AccountsNext ==
    /\ chosen = "accounts" /\ Accounts!Next
    /\ UNCHANGED <<chosen, searching, coding, storing, logging, reading, stocking>>
SearchNext ==
    /\ chosen = "search" /\ Search!Next
    /\ UNCHANGED <<chosen, users, coding, storing, logging, reading, stocking>>
CodingNext ==
    /\ chosen = "coding" /\ Coding!Next
    /\ UNCHANGED <<chosen, users, searching, storing, logging, reading, stocking>>
ImagesNext ==
    /\ chosen = "images" /\ Images!Next
    /\ UNCHANGED <<chosen, users, searching, coding, logging, reading, stocking>>
LoginsNext ==
    /\ chosen = "logins" /\ Next
    /\ UNCHANGED <<chosen, users, searching, coding, storing, reading, stocking>>
TablesNext ==
    /\ chosen = "tables" /\ Reading!Next
    /\ UNCHANGED <<chosen, users, searching, coding, storing, logging, stocking>>
StockNext ==
    /\ chosen = "materials" /\ Stock!Next
    /\ UNCHANGED <<chosen, users, searching, coding, storing, logging, reading>>

AllNext == AccountsNext \/ SearchNext \/ CodingNext \/ ImagesNext \/ LoginsNext \/ TablesNext
           \/ StockNext

AllSpec == AllInit /\ [][AllNext]_allVars

\* The tables, caches and locks of each component are well formed: the unique keys
\* of the accounts, the bounded cache of the search, one holder of the code lock,
\* the foreign keys of the images.
TypesOK == Accounts!TypeOK /\ Search!TypeOK /\ Coding!TypeOK /\ Images!TypeOK
           /\ TypeOK /\ Reading!TypeOK /\ Stock!TypeOK

\* As MiniUsers says: one setting decides on a new account.
NewAccountFollowsSetting == Accounts!NewAccountFollowsSetting

\* As MiniUsers says: a merge of accounts keeps every identity.
MergeKeepsIdentities == Accounts!MergeKeepsIdentities

\* As AiSearch says: a cached expansion fits the version of the settings.
ServedAnswerFits == Search!ServedAnswerFits

\* As MaterialCodes says: tokens are alive when they are used.
TokenAliveWhenSent == Coding!TokenAliveWhenSent

\* As ImageFiles says: a recorded image can be read.
RecordedImageReadable == Images!RecordedImageReadable

\* As ImageFiles says: no request leaves a file without its row.
NoStrayFiles == Images!NoStrayFiles

\* As StockMaterials says: a material is entered once.
OneMaterialPerIdentity == Stock!OneMaterialPerIdentity

\* As ImportTables says: what an import leaves is the sheet.
ImportIsTheSheet == Reading!ImportIsTheSheet
=============================================================================
