----------------------------- MODULE MgmtUsers -----------------------------
(***************************************************************************)
(* Accounts of the management pages: administrators create, edit and       *)
(* delete them and issue their API tokens; users log in with a password    *)
(* and keep a refresh token that is renewed while the account keeps the    *)
(* version it was issued under.                                            *)
(*                                                                         *)
(* Requests are transactions as in PurchasePlans: Begin fixes the snapshot *)
(* every SELECT reads (nothing is locked here), the second step writes and *)
(* commits.  Roles, names and the expiry of tokens are left out: a request *)
(* they refuse ends like any other refused one.                            *)
(***************************************************************************)
EXTENDS Integers, FiniteSets, Functions

CONSTANTS
    Requests,     \* requests in progress at the same time
    MaxMembers,   \* bound: accounts
    MaxAsked      \* bound: requests sent

VARIABLES
    members,     \* committed rows: account -> enabled, password, API token, version
    drawn,       \* AUTO_INCREMENT counter; passwords and API tokens drawn so far
    view,        \* per request: its snapshot of members, or Idle
    asked,       \* how many requests were sent
    refresh,     \* refresh tokens issued; password is a ghost: the one they were issued for
    rewritten,   \* ghost: accounts that were given a version they had before
    overtaken    \* ghost: accounts whose token was replaced while it was being encrypted

vars == <<members, drawn, view, asked, refresh, rewritten, overtaken>>

Idle == [u \in {0} |-> "no account"]
NoCipher == 0

\* api is the token whose hash is stored, cipher the one the stored ciphertext
\* holds; accounts of old deployments have no ciphertext.
Init ==
    /\ \E cipher \in {NoCipher, 1} :
          members = [u \in {1} |-> [enabled |-> TRUE, password |-> 1, api |-> 1,
                                     cipher |-> cipher, version |-> 1]]
    /\ drawn = [id |-> 1, password |-> 1, api |-> 1]
    /\ view = [r \in Requests |-> Idle]
    /\ asked = 0
    /\ refresh = {} /\ rewritten = {} /\ overtaken = {}

Begin(r) ==
    /\ view[r] = Idle
    /\ asked < MaxAsked
    /\ asked' = asked + 1
    /\ view' = [view EXCEPT ![r] = members]
    /\ UNCHANGED <<members, drawn, refresh, rewritten, overtaken>>

\* Refused, rolled back, or an answer that writes nothing.
End(r) ==
    /\ view[r] # Idle
    /\ view' = [view EXCEPT ![r] = Idle]
    /\ UNCHANGED <<members, drawn, asked, refresh, rewritten, overtaken>>

\* Accounts that were there at the snapshot and still are: an UPDATE of a row that
\* is gone rolls the request back.
Known(r) == DOMAIN view[r] \cap DOMAIN members

\* The column is written only where it differs from the loaded value.
Stored(now, loaded, value) == IF value = loaded THEN now ELSE value

\* A table with one row more.
WithRow(rows, i, row) == [x \in DOMAIN rows \cup {i} |-> IF x = i THEN row ELSE rows[x]]

\* Names of new accounts are new (DUPLICATE_USERNAME is a refusal).
create_user(r) ==
    \E enabled \in BOOLEAN :
        /\ drawn.id < MaxMembers
        /\ drawn' = [id |-> drawn.id + 1, password |-> drawn.password + 1, api |-> drawn.api + 1]
        /\ members' = WithRow(members, drawn.id + 1,
              [enabled |-> enabled, password |-> drawn.password + 1,
               api |-> drawn.api + 1, cipher |-> drawn.api + 1, version |-> 1])
        /\ UNCHANGED <<refresh, rewritten, overtaken>>

\* The version an edit writes is the one loaded plus one: edits that overlap write
\* it twice, or write an older one back.
Rewritten(r, u) == IF view[r][u].version < members[u].version THEN {u} ELSE {}

\* A faulty edit that counts no version when only the password changes.
VersionOfFields(loaded, changed) == IF changed THEN loaded + 1 ELSE loaded
NextVersion(loaded, changed) == loaded + 1

\* The row an edit stores over now, having loaded another.
Edited(now, loaded, enabled, password) ==
    [now EXCEPT !.enabled = Stored(@, loaded.enabled, enabled),
                !.password = password,
                !.version = NextVersion(loaded.version, enabled # loaded.enabled)]

update_user(r) ==
    \E u \in Known(r), enabled \in BOOLEAN, newPassword \in BOOLEAN :
        LET password == IF newPassword THEN drawn.password + 1 ELSE members[u].password
        IN  /\ drawn' = IF newPassword THEN [drawn EXCEPT !.password = @ + 1] ELSE drawn
            /\ members' = [members EXCEPT ![u] = Edited(@, view[r][u], enabled, password)]
            /\ rewritten' = rewritten \cup Rewritten(r, u)
            /\ UNCHANGED <<refresh, overtaken>>

\* A faulty token that is shown as it was before.
CipherKept(u, token) == members[u].cipher

\* The ciphertext stored with the hash of token.
CipherOf(u, token) == token

regenerate_user_api_token(r) ==
    \E u \in Known(r) :
        /\ drawn' = [drawn EXCEPT !.api = @ + 1]
        /\ members' = [members EXCEPT ![u] =
               [@ EXCEPT !.api = drawn.api + 1, !.cipher = CipherOf(u, drawn.api + 1),
                         !.version = view[r][u].version + 1]]
        /\ rewritten' = rewritten \cup Rewritten(r, u)
        /\ UNCHANGED <<refresh, overtaken>>

\* Nobody deletes the account of the request: another one sends it.
delete_user(r) ==
    \E u \in DOMAIN view[r] :
        /\ \E actor \in DOMAIN view[r] \ {u} : view[r][actor].enabled
        /\ members' = Restrict(members, DOMAIN members \ {u})
        /\ UNCHANGED <<drawn, refresh, rewritten, overtaken>>

\* A request with an API token: the snapshot finds its account by the hash, and
\* fills a missing ciphertext in (find_user_by_api_token).
authenticate_user_api_token(r) ==
    \E u \in Known(r) :
        LET loaded == view[r][u]
        IN  /\ loaded.enabled /\ loaded.cipher = NoCipher
            /\ members' = [members EXCEPT ![u].cipher = loaded.api]
            /\ overtaken' = overtaken \cup (IF members[u].api # loaded.api THEN {u} ELSE {})
            /\ UNCHANGED <<drawn, refresh, rewritten>>

Token(u, row) == [user |-> u, version |-> row.version, password |-> row.password]

login(r) ==
    \E u \in DOMAIN view[r] :
        /\ view[r][u].enabled
        /\ refresh' = refresh \cup {Token(u, view[r][u])}
        /\ UNCHANGED <<members, drawn, rewritten, overtaken>>

\* A refresh token an account would be renewed for: the version is the account's.
Renewable(t, rows) ==
    t.user \in DOMAIN rows /\ rows[t.user].enabled /\ rows[t.user].version = t.version

\* The renewed token carries the same account and version.
renew(r) ==
    \E t \in refresh :
        /\ Renewable(t, view[r])
        /\ refresh' = refresh \cup {[t EXCEPT !.version = view[r][t.user].version]}
        /\ UNCHANGED <<members, drawn, rewritten, overtaken>>

Commit(r) ==
    /\ view[r] # Idle
    /\ \/ create_user(r) \/ update_user(r) \/ regenerate_user_api_token(r) \/ delete_user(r)
       \/ authenticate_user_api_token(r) \/ login(r) \/ renew(r)
    /\ view' = [view EXCEPT ![r] = Idle]
    /\ UNCHANGED asked

Next == \E r \in Requests : Begin(r) \/ End(r) \/ Commit(r)

Spec == Init /\ [][Next]_vars

-----------------------------------------------------------------------------
(* Properties.                                                              *)

\* Rows, counters and tokens are those that were drawn; no two accounts share the
\* hash of an API token (the unique key).
TypeOK ==
    /\ DOMAIN members \subseteq 1..drawn.id /\ drawn.id \in 1..MaxMembers
    /\ \A u \in DOMAIN members :
          /\ members[u].password \in 1..drawn.password
          /\ members[u].cipher \in 0..drawn.api /\ members[u].api \in 1..drawn.api
          /\ members[u].version \in Nat \ {0} /\ members[u].enabled \in BOOLEAN
    /\ \A u, v \in DOMAIN members : members[u].api = members[v].api => u = v
    /\ \A t \in refresh : t.user \in 1..drawn.id
    /\ asked \in 0..MaxAsked

\* A refresh token is renewed only for the password it was issued for: a change of
\* the password ends every login before it, unless overlapping edits have written
\* an old version of the account back.
RenewalKnowsPassword ==
    \A t \in refresh :
        Renewable(t, members) /\ t.user \notin rewritten =>
            t.password = members[t.user].password

\* The API token shown to administrators is the one that is accepted, unless it
\* was replaced while a request with the old one was filling its ciphertext in.
ShownTokenIsAccepted ==
    \A u \in DOMAIN members \ overtaken : members[u].cipher \in {NoCipher, members[u].api}
=============================================================================
