----------------------------- MODULE MiniUsers -----------------------------
(***************************************************************************)
(* Accounts of the mini-program: people register with the identity WeChat  *)
(* gives them in each app, under the registration settings of the moment;  *)
(* administrators enable, edit, merge and delete the accounts.             *)
(*                                                                         *)
(* Requests are transactions as in PurchasePlans: Begin fixes the snapshot *)
(* plain SELECTs read, the second step locks, checks and commits; the      *)
(* version a client sends is the one it saw, at the latest at Begin.       *)
(***************************************************************************)
EXTENDS Integers, FiniteSets, FiniteSetsExt, Functions

CONSTANTS
    Requests,     \* requests in progress at the same time
    Openids,      \* WeChat identities: <<app, openid>>
    Settings,     \* [open, approve]: registration allowed, new accounts enabled
    MaxUsers,     \* bound: accounts registered
    MaxRequests   \* bound: requests sent

VARIABLES
    accounts,   \* committed tables: users, identities, and the settings in force
    last,       \* AUTO_INCREMENT counters of users and identities
    snap,       \* per request: its snapshot of accounts, or Idle
    begun,      \* how many requests were sent
    past,       \* ghost: the settings that have been in force
    repeated    \* ghost: an edit has written a version the account had before

vars == <<accounts, last, snap, begun, past, repeated>>

Idle == [idle |-> TRUE]
Users(d) == DOMAIN d.users
IdentitiesOf(d, u) == {i \in DOMAIN d.identities : d.identities[i].user = u}
Apps(d, ids) == {d.identities[i].openid[1] : i \in ids}
OpenidsOf(d) == {d.identities[i].openid : i \in DOMAIN d.identities}

Init ==
    /\ \E s \in Settings : accounts = [users |-> <<>>, identities |-> <<>>, setting |-> s]
    /\ last = [user |-> 0, identity |-> 0]
    /\ snap = [r \in Requests |-> Idle]
    /\ begun = 0
    /\ past = {accounts.setting}
    /\ repeated = FALSE

\* Faulty tables that accept an openid twice.
UniqueAppOfUser(d) ==
    \A i, j \in DOMAIN d.identities :
        i # j /\ d.identities[i].user = d.identities[j].user =>
            d.identities[i].openid[1] # d.identities[j].openid[1]

\* The unique keys of mini_program_identity: an openid has one account, and an
\* account one identity in each app.
UniqueKeys(d) ==
    /\ UniqueAppOfUser(d)
    /\ \A i, j \in DOMAIN d.identities :
          d.identities[i].openid = d.identities[j].openid => i = j

Begin(r) ==
    /\ snap[r] = Idle
    /\ begun < MaxRequests
    /\ begun' = begun + 1
    /\ snap' = [snap EXCEPT ![r] = accounts]
    /\ UNCHANGED <<accounts, last, past, repeated>>

\* Refused, rolled back, or an answer that changes nothing: a login, the
\* registration of an openid that already has its account.
End(r) ==
    /\ snap[r] # Idle
    /\ snap' = [snap EXCEPT ![r] = Idle]
    /\ UNCHANGED <<accounts, last, begun, past, repeated>>

\* A faulty second look at the settings, outside the snapshot.
ApprovedNow(r) == accounts.setting.approve

\* Both flags are read in the snapshot of the registration.
Approved(r) == snap[r].setting.approve

\* A table with one row more.
WithRow(rows, i, row) == [x \in DOMAIN rows \cup {i} |-> IF x = i THEN row ELSE rows[x]]

register_user(r) ==
    \E o \in Openids \ OpenidsOf(snap[r]) :
        LET u == last.user + 1
            i == last.identity + 1
        IN  /\ snap[r].setting.open
            /\ u <= MaxUsers
            /\ last' = [user |-> u, identity |-> i]
            /\ accounts' = [accounts EXCEPT
                   !.users = WithRow(@, u, [version |-> 1, enabled |-> Approved(r)]),
                   !.identities = WithRow(@, i, [user |-> u, openid |-> o])]
            /\ UNCHANGED <<past, repeated>>

\* The row is read without a lock; its version is the one loaded plus one.
update_user(r) ==
    \E u \in Users(snap[r]) \cap Users(accounts), enabled \in BOOLEAN :
        LET loaded == snap[r].users[u]
        IN  /\ accounts' = [accounts EXCEPT !.users[u] =
                   [version |-> loaded.version + 1,
                    enabled |-> IF enabled = loaded.enabled THEN @.enabled ELSE enabled]]
            /\ repeated' = (repeated \/ loaded.version < accounts.users[u].version)
            /\ UNCHANGED <<last, past>>

\* Tables without the accounts us and the identities ids; the identities of the
\* accounts go with them (ON DELETE CASCADE).
Without(d, us, ids) ==
    LET gone == ids \cup UNION {IdentitiesOf(d, u) : u \in us}
    IN  [users |-> Restrict(d.users, DOMAIN d.users \ us),
         identities |-> Restrict(d.identities, DOMAIN d.identities \ gone),
         setting |-> d.setting]

\* The identities loaded with the account are deleted by id, wherever they now belong.
delete_user(r) ==
    \E u \in Users(snap[r]) :
        /\ accounts' = Without(accounts, {u}, IdentitiesOf(snap[r], u))
        /\ UNCHANGED <<last, past, repeated>>

\* A faulty merge that trusts the versions the client sent.
VersionsTrusted(r, us) == us \subseteq Users(accounts)

\* Both accounts are locked and as the client saw them.
LockedAsSeen(r, us) ==
    \A u \in us : u \in Users(accounts) /\ accounts.users[u].version = snap[r].users[u].version

\* The accounts are locked, the identities come with a plain SELECT.  Moving an
\* identity that is gone rolls the merge back.
merge_users(r) ==
    \E target, source \in Users(snap[r]) :
        LET moved == IdentitiesOf(snap[r], source)
            joined == [i \in DOMAIN accounts.identities |->
                          [user |-> IF i \in moved THEN target ELSE accounts.identities[i].user,
                           openid |-> accounts.identities[i].openid]]
        IN  /\ target # source
            /\ LockedAsSeen(r, {target, source})
            /\ Apps(snap[r], moved) \cap Apps(snap[r], IdentitiesOf(snap[r], target)) = {}
            /\ moved \subseteq DOMAIN accounts.identities
            /\ accounts' = Without([accounts EXCEPT !.identities = joined,
                                                    !.users[target].version = @ + 1], {source}, {})
            /\ UNCHANGED <<last, past, repeated>>

\* An administrator saves other registration settings.
update_setting(r) ==
    \E s \in Settings \ {accounts.setting} :
        /\ accounts' = [accounts EXCEPT !.setting = s]
        /\ past' = past \cup {s}
        /\ UNCHANGED <<last, repeated>>

Merge(r) == snap[r] # Idle /\ merge_users(r)

Commit(r) ==
    /\ snap[r] # Idle
    /\ \/ register_user(r) \/ update_user(r) \/ delete_user(r)
       \/ merge_users(r) \/ update_setting(r)
    /\ UniqueKeys(accounts')
    /\ snap' = [snap EXCEPT ![r] = Idle]
    /\ UNCHANGED begun

Next == \E r \in Requests : Begin(r) \/ End(r) \/ Commit(r)

Spec == Init /\ [][Next]_vars

-----------------------------------------------------------------------------
(* Properties.                                                              *)

\* Identities belong to accounts that exist; an openid has at most one account
\* and an account at most one identity in an app, however registrations and
\* merges overlap.
TypeOK ==
    /\ Users(accounts) \subseteq 1..last.user /\ last.user \in 0..MaxUsers
    /\ \A u \in Users(accounts) :
          accounts.users[u].version \in Nat \ {0} /\ accounts.users[u].enabled \in BOOLEAN
    /\ \A i \in DOMAIN accounts.identities :
          accounts.identities[i].user \in Users(accounts) /\ accounts.identities[i].openid \in Openids
    /\ \A i, j \in DOMAIN accounts.identities :
          LET a == accounts.identities[i]
              b == accounts.identities[j]
          IN  i # j => a.openid # b.openid /\ <<a.user, a.openid[1]>> # <<b.user, b.openid[1]>>
    /\ accounts.setting \in Settings /\ begun \in 0..MaxRequests

\* A new account follows one setting: registration was open in it, and it is the
\* one that decided whether the account starts enabled.
NewAccountFollowsSetting ==
    [][\A u \in Users(accounts') \ Users(accounts) :
          \E s \in past : s.open /\ accounts'.users[u].enabled = s.approve]_vars

\* A merge loses nobody's identity, whatever merges, edits and deletions overlap
\* with it, as long as no edit has written a version twice.
MergeKeepsIdentities ==
    [][(\E r \in Requests : Merge(r)) /\ ~repeated => OpenidsOf(accounts') = OpenidsOf(accounts)]_vars
=============================================================================
