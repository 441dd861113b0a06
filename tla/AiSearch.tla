------------------------------ MODULE AiSearch ------------------------------
(***************************************************************************)
(* The advanced settings (one row of system_setting, saved with a version) *)
(* and the search-term expansions an AI service gives under them, kept in  *)
(* a cache of the server process.                                          *)
(*                                                                         *)
(* A request reads the settings in its snapshot.  A saving one writes the  *)
(* row, which it keeps locked, empties the cache and commits later.        *)
(***************************************************************************)
EXTENDS Integers, Sequences, SequencesExt

CONSTANTS
    Searches,    \* search requests in progress at the same time
    Admins,      \* administrators saving settings
    Terms,       \* search terms
    Configs,     \* endpoint, key and model of an AI service
    Off,         \* the settings with the AI search disabled or without a key
    TTL,         \* lifetime of a cached expansion (30 minutes)
    MaxCached,   \* entries of the cache (1000)
    MaxSaves,    \* bound: forms administrators send
    MaxTime      \* bound: the clock

VARIABLES
    setting,   \* the committed settings: version (0: never saved), config, and whether
               \* they are a row or still the last configuration event of old deployments
    cache,     \* entries in the order they were first inserted
    search,    \* per search: idle, begun, asking the AI service
    admin,     \* per administrator: idle, begun, or written and not yet committed
    saves,     \* how many forms were sent
    time,
    saved      \* ghost: <<version, config>> of every settings ever committed

vars == <<setting, cache, search, admin, saves, time, saved>>

Init ==
    /\ setting \in {[version |-> 0, config |-> Off, row |-> FALSE]}
                   \cup [version : {1}, config : Configs, row : BOOLEAN]
    /\ cache = <<>>
    /\ search = [s \in Searches |-> [pc |-> "idle"]]
    /\ admin = [a \in Admins |-> [pc |-> "idle"]]
    /\ saves = 0 /\ time = 0
    /\ saved = {<<setting.version, setting.config>>}

-----------------------------------------------------------------------------
(* Searches.                                                                *)

\* The login check fixes the snapshot the settings are read in.
Begin(s) ==
    /\ search[s].pc = "idle"
    /\ \E t \in Terms :
          search' = [search EXCEPT ![s] = [pc |-> "begun", terms |-> t, seen |-> setting]]
    /\ UNCHANGED <<setting, cache, admin, saves, time, saved>>

Answered(s) == search' = [search EXCEPT ![s] = [pc |-> "idle"]]

\* A faulty key that leaves it to the emptied cache to forget old settings.
TermsOnly(version, terms) == <<terms>>

CacheKey(version, terms) == <<version, terms>>

Entries(key) == {i \in DOMAIN cache : cache[i].key = key}
Fresh(s) == {i \in Entries(CacheKey(search[s].seen.version, search[s].terms)) :
                time - cache[i].at < TTL}

\* The AI search is off: the terms are used as they are.
Unavailable(s) ==
    /\ search[s].pc = "begun"
    /\ search[s].seen.config = Off
    /\ Answered(s)
    /\ UNCHANGED <<setting, cache, admin, saves, time, saved>>

FromCache(s) ==
    /\ search[s].pc = "begun" /\ search[s].seen.config # Off
    /\ Fresh(s) # {}
    /\ Answered(s)
    /\ UNCHANGED <<setting, cache, admin, saves, time, saved>>

Ask(s) ==
    /\ search[s].pc = "begun" /\ search[s].seen.config # Off
    /\ Fresh(s) = {}
    /\ search' = [search EXCEPT ![s] =
                     [pc |-> "asking", terms |-> @.terms, seen |-> @.seen, at |-> time]]
    /\ UNCHANGED <<setting, cache, admin, saves, time, saved>>

\* An entry keeps the place of its key; a new key in a full cache takes the oldest out.
Inserted(entry) ==
    IF Entries(entry.key) # {}
    THEN [i \in DOMAIN cache |-> IF i \in Entries(entry.key) THEN entry ELSE cache[i]]
    ELSE Append(IF Len(cache) >= MaxCached THEN Tail(cache) ELSE cache, entry)

request_expansions(s) ==
    /\ search[s].pc = "asking"
    /\ cache' = Inserted([key |-> CacheKey(search[s].seen.version, search[s].terms),
                          at |-> search[s].at, config |-> search[s].seen.config])
    /\ Answered(s)
    /\ UNCHANGED <<setting, admin, saves, time, saved>>

\* The service fails, times out, or its answer cannot be used.
AskFails(s) ==
    /\ search[s].pc = "asking"
    /\ Answered(s)
    /\ UNCHANGED <<setting, cache, admin, saves, time, saved>>

-----------------------------------------------------------------------------
(* Administrators.  A form carries the version it was loaded with; one that *)
(* does not carry the version of the request's snapshot is refused, which   *)
(* changes nothing.                                                         *)

BeginSave(a) ==
    /\ admin[a].pc = "idle"
    /\ saves < MaxSaves
    /\ saves' = saves + 1
    /\ admin' = [admin EXCEPT ![a] = [pc |-> "begun", seen |-> setting]]
    /\ UNCHANGED <<setting, cache, search, time, saved>>

\* The row is free: nobody has written it without having committed.
RowFree == \A a \in Admins : admin[a].pc # "written"

\* What a form can ask for; an AI search that is on has its endpoint, key and model.
Forms == Configs \cup {Off}

\* A settings row missing in the snapshot is inserted, once.
update_setting(a) ==
    /\ admin[a].pc = "begun"
    /\ RowFree
    /\ admin[a].seen.row = setting.row
    /\ \E c \in Forms :
          admin' = [admin EXCEPT ![a] =
              [pc |-> "written",
               new |-> [version |-> @.seen.version + 1, config |-> c, row |-> TRUE]]]
    /\ cache' = <<>>
    /\ UNCHANGED <<setting, search, saves, time, saved>>

CommitSave(a) ==
    /\ admin[a].pc = "written"
    /\ setting' = admin[a].new
    /\ saved' = saved \cup {<<admin[a].new.version, admin[a].new.config>>}
    /\ admin' = [admin EXCEPT ![a] = [pc |-> "idle"]]
    /\ UNCHANGED <<cache, search, saves, time>>

\* Refused, or rolled back.
SaveFails(a) ==
    /\ admin[a].pc # "idle"
    /\ admin' = [admin EXCEPT ![a] = [pc |-> "idle"]]
    /\ UNCHANGED <<setting, cache, search, saves, time, saved>>

Tick ==
    /\ time < MaxTime
    /\ time' = time + 1
    /\ UNCHANGED <<setting, cache, search, admin, saves, saved>>

Next ==
    \/ Tick
    \/ \E s \in Searches :
          Begin(s) \/ Unavailable(s) \/ FromCache(s) \/ Ask(s) \/ request_expansions(s) \/ AskFails(s)
    \/ \E a \in Admins : BeginSave(a) \/ update_setting(a) \/ CommitSave(a) \/ SaveFails(a)

Spec == Init /\ [][Next]_vars

-----------------------------------------------------------------------------
(* Properties.                                                              *)

\* The cache is bounded and holds a key once; entries are no younger than the clock.
TypeOK ==
    /\ Len(cache) <= MaxCached
    /\ \A i, j \in DOMAIN cache : cache[i].key = cache[j].key => i = j
    /\ \A i \in DOMAIN cache : cache[i].at \in 0..time /\ cache[i].config \in Configs
    /\ <<setting.version, setting.config>> \in saved
    /\ saves \in 0..MaxSaves

\* A cached expansion is given only to a search under settings it fits: the AI
\* service that made it was configured under the same version, also when it
\* answered long after those settings were replaced and the cache emptied.
ServedAnswerFits ==
    [][\A s \in Searches : FromCache(s) =>
          \A i \in Fresh(s) : <<search[s].seen.version, cache[i].config>> \in saved]_vars
=============================================================================
