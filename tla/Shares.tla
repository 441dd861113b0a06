------------------------------- MODULE Shares -------------------------------
(***************************************************************************)
(* Links that show purchase plans or records to anyone who has the token:  *)
(* users create, change and revoke them, a daily worker deletes the        *)
(* expired ones.  A link is read before it is changed; the statement that  *)
(* changes or deletes rows meets the committed ones.  Which items and      *)
(* columns a link shows is left out: they decide nothing here.             *)
(***************************************************************************)
EXTENDS Integers, Functions

CONSTANTS
    Users,       \* users changing links at the same time
    Durations,   \* how long links last
    Permanent,   \* no expiry
    MaxShares,   \* bound: links created
    MaxEdits,    \* bound: changes users begin
    MaxTime      \* bound: the clock

VARIABLES
    expires,   \* rows of share_link: token -> when it expires
    issued,    \* tokens drawn so far
    edit,      \* per user: idle, or the link read for a change or a revocation
    edits,     \* how many changes were begun
    cleanup,   \* the worker: asleep, or its cutoff and the links it found
    time

vars == <<expires, issued, edit, edits, cleanup, time>>

Links == DOMAIN expires

Init ==
    /\ expires = <<>> /\ issued = 0
    /\ edit = [u \in Users |-> [pc |-> "idle"]]
    /\ edits = 0
    /\ cleanup = [pc |-> "asleep"]
    /\ time = 0

\* When a link expires that is created or changed now.
Expiries == {Permanent} \cup {time + d : d \in Durations}
Past(t, now) == expires[t] # Permanent /\ expires[t] < now

create_share ==
    /\ issued < MaxShares
    /\ issued' = issued + 1
    /\ \E e \in Expiries :
          expires' = [t \in Links \cup {issued + 1} |-> IF t = issued + 1 THEN e ELSE expires[t]]
    /\ UNCHANGED <<edit, edits, cleanup, time>>

\* The link shows its items.
get_public_share(t) == t \in Links /\ ~Past(t, time)

\* The link is read; only its creator or a super administrator goes on.
BeginEdit(u) ==
    /\ edit[u].pc = "idle"
    /\ edits < MaxEdits
    /\ edits' = edits + 1
    /\ \E t \in Links : edit' = [edit EXCEPT ![u] = [pc |-> "read", token |-> t]]
    /\ UNCHANGED <<expires, issued, cleanup, time>>

Done(u) ==
    /\ edit' = [edit EXCEPT ![u] = [pc |-> "idle"]]
    /\ UNCHANGED <<issued, edits, cleanup, time>>

\* The expiry is counted anew from now, of an expired link too; the change of a
\* link deleted meanwhile fails.
update_share(u) ==
    /\ edit[u].pc = "read"
    /\ edit[u].token \in Links
    /\ \E e \in Expiries : expires' = [expires EXCEPT ![edit[u].token] = e]
    /\ Done(u)

revoke_share(u) ==
    /\ edit[u].pc = "read"
    /\ expires' = Restrict(expires, Links \ {edit[u].token})
    /\ Done(u)

\* Refused, rolled back, or a change of the columns only.
EditFails(u) == edit[u].pc = "read" /\ Done(u) /\ UNCHANGED expires

-----------------------------------------------------------------------------
(* The daily worker, also run when the server starts.                       *)

Cutoff == time

Expired(now) == {t \in Links : Past(t, now)}

SelectExpired ==
    /\ cleanup.pc = "asleep"
    /\ Expired(Cutoff) # {}
    /\ cleanup' = [pc |-> "delete", now |-> Cutoff, found |-> Expired(Cutoff)]
    /\ UNCHANGED <<expires, issued, edit, edits, time>>

\* A faulty deletion of the links found before.
Found == cleanup.found \cap Links

\* The DELETE repeats the condition on the committed rows.
Purged == Expired(cleanup.now)

cleanup_expired ==
    /\ cleanup.pc = "delete"
    /\ expires' = Restrict(expires, Links \ Purged)
    /\ cleanup' = [pc |-> "asleep"]
    /\ UNCHANGED <<issued, edit, edits, time>>

Tick ==
    /\ time < MaxTime
    /\ time' = time + 1
    /\ UNCHANGED <<expires, issued, edit, edits, cleanup>>

WorkerStep == SelectExpired \/ cleanup_expired

Next ==
    \/ create_share \/ WorkerStep \/ Tick
    \/ \E u \in Users : BeginEdit(u) \/ update_share(u) \/ revoke_share(u) \/ EditFails(u)

Spec == Init /\ [][Next]_vars

-----------------------------------------------------------------------------
(* Properties.                                                              *)

\* The worker takes away no link that still works: not even one whose creator
\* extended it after the worker had found it expired.
WorkingLinksStay ==
    [][cleanup_expired => \A t \in Links : get_public_share(t) => t \in DOMAIN expires']_vars

=============================================================================
