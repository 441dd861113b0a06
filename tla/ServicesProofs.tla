--------------------------- MODULE ServicesProofs ---------------------------
(***************************************************************************)
(* Proofs about the seven components of Services, for every number of      *)
(* requests, callers and rows.  A section of each component states its     *)
(* inductive invariant, proves that it holds at the start and that every   *)
(* step of the component keeps it, and draws the component's properties    *)
(* from it; the last section brings them together for behaviours of the    *)
(* whole.                                                                  *)
(***************************************************************************)
EXTENDS Services, FiniteSetLemmas, Sequences, SequenceTheorems

-----------------------------------------------------------------------------
(* Users of the management pages.  What a snapshot or a refresh token holds *)
(* of an account is older than the account: its version is smaller, or it   *)
(* is the same and so is the password.  An edit that finds the version it   *)
(* loaded counts past every version anybody holds.                          *)

MemberColumns == {"enabled", "password", "api", "cipher", "version"}
IsMember(x) == DOMAIN x = MemberColumns /\ x.version \in Nat
IsRefreshToken(t) == DOMAIN t = {"user", "version", "password"} /\ t.version \in Nat

LoginTables ==
    /\ members = [u \in DOMAIN members |-> members[u]]
    /\ \A u \in DOMAIN members : IsMember(members[u])
    /\ view = [r \in Requests |-> view[r]]
    /\ \A r \in Requests : view[r] = Idle \/ \A u \in DOMAIN view[r] : IsMember(view[r][u])
    /\ \A t \in refresh : IsRefreshToken(t)

\* Accounts have numbers drawn, so those of new accounts are new to everybody.
LoginNumbers ==
    /\ drawn \in [id : Nat, password : Nat, api : Nat]
    /\ DOMAIN members \subseteq 1..drawn.id
    /\ \A r \in Requests : DOMAIN view[r] \subseteq 0..drawn.id
    /\ \A t \in refresh : t.user \in 0..drawn.id

Older(held, now) ==
    /\ held.version <= now.version
    /\ held.version = now.version => held.password = now.password

ViewsOlder ==
    \A r \in Requests : \A u \in (DOMAIN view[r] \cap DOMAIN members) \ rewritten :
        Older(view[r][u], members[u])

TokensOlder ==
    \A t \in refresh : t.user \in DOMAIN members \ rewritten => Older(t, members[t.user])

LoginsInv == LoginTables /\ LoginNumbers /\ ViewsOlder /\ TokensOlder /\ ShownTokenIsAccepted

\* The invariant implies the property about refresh tokens.
LEMMA OlderTokensSuffice == LoginsInv => RenewalKnowsPassword
  BY DEF LoginsInv, TokensOlder, Older, RenewalKnowsPassword, Renewable

\* What loses a snapshot loses no more: the views a commit leaves are views it found, or Idle.
LEMMA ViewsClosed ==
    ASSUME LoginsInv, NEW r \in Requests, view' = [view EXCEPT ![r] = Idle]
    PROVE  /\ view' = [q \in Requests |-> view'[q]]
           /\ \A q \in Requests : view'[q] = Idle \/ view'[q] = view[q]
           /\ DOMAIN Idle = {0}
  BY DEF LoginsInv, LoginTables, Idle

\* What a step that ends a request, draws no account number and issues no refresh token for
\* an unknown account leaves of the numbers.
LEMMA LoginNumbersKept ==
    ASSUME LoginsInv, NEW r \in Requests, view' = [view EXCEPT ![r] = Idle],
           drawn' \in [id : Nat, password : Nat, api : Nat], drawn'.id = drawn.id,
           DOMAIN members' \subseteq DOMAIN members, \A t \in refresh' : t.user \in 0..drawn.id
    PROVE  LoginNumbers'
<1>1. DOMAIN members' \subseteq 1..drawn'.id
  BY DEF LoginsInv, LoginNumbers
<1>2. ASSUME NEW q \in Requests PROVE DOMAIN view'[q] \subseteq 0..drawn'.id
  <2>1. CASE view'[q] = Idle
    <3>1. 0 \in 0..drawn'.id OBVIOUS
    <3> QED BY <2>1, <3>1, ViewsClosed
  <2>2. CASE view'[q] = view[q]
    BY <2>2 DEF LoginsInv, LoginNumbers
  <2> QED BY <2>1, <2>2, ViewsClosed
<1>3. \A t \in refresh' : t.user \in 0..drawn'.id
  OBVIOUS
<1> QED BY <1>1, <1>2, <1>3 DEF LoginNumbers

\* Replacing the row of an account: by one of a higher version, by one that keeps version
\* and password, or any way when the account counts as rewritten.
LEMMA MemberReplaced ==
    ASSUME LoginsInv, NEW r \in Requests, NEW u \in DOMAIN members, NEW row, IsMember(row),
           members' = [members EXCEPT ![u] = row],
           view' = [view EXCEPT ![r] = Idle], refresh' = refresh,
           rewritten \subseteq rewritten', overtaken \subseteq overtaken',
           drawn' \in [id : Nat, password : Nat, api : Nat], drawn'.id = drawn.id,
           \/ u \in rewritten'
           \/ row.version > members[u].version
           \/ row.version = members[u].version /\ row.password = members[u].password,
           u \notin overtaken' => row.cipher \in {NoCipher, row.api}
    PROVE  LoginsInv'
<1>1. /\ DOMAIN members' = DOMAIN members /\ members'[u] = row
      /\ members' = [v \in DOMAIN members' |-> members'[v]]
      /\ \A v \in DOMAIN members \ {u} : members'[v] = members[v]
  BY DEF LoginsInv, LoginTables
<1>2. IsMember(members[u])
  BY DEF LoginsInv, LoginTables
<1>3. LoginTables'
  BY <1>1, ViewsClosed DEF LoginsInv, LoginTables
<1>4. LoginNumbers'
  <2>1. \A t \in refresh' : t.user \in 0..drawn.id
    BY DEF LoginsInv, LoginNumbers
  <2> QED BY <1>1, <2>1, LoginNumbersKept
<1>5. ASSUME NEW held, held.version \in Nat, Older(held, members[u]), u \notin rewritten'
      PROVE  Older(held, row)
  BY <1>2, <1>5 DEF Older, IsMember
<1>6. ViewsOlder'
  <2> SUFFICES ASSUME NEW q \in Requests, NEW v \in (DOMAIN view'[q] \cap DOMAIN members') \ rewritten'
               PROVE  Older(view'[q][v], members'[v])
    BY DEF ViewsOlder
  <2>1. view'[q] = view[q] /\ view[q] # Idle
    <3>1. v # 0
      BY <1>1 DEF LoginsInv, LoginNumbers
    <3> QED BY <3>1, ViewsClosed
  <2>2. v \in (DOMAIN view[q] \cap DOMAIN members) \ rewritten
    BY <1>1, <2>1
  <2>3. Older(view[q][v], members[v]) /\ view[q][v].version \in Nat
    BY <2>1, <2>2 DEF LoginsInv, ViewsOlder, LoginTables, IsMember
  <2>4. CASE v = u BY <1>1, <1>5, <2>1, <2>3, <2>4
  <2>5. CASE v # u BY <1>1, <2>1, <2>2, <2>3, <2>5
  <2> QED BY <2>4, <2>5
<1>7. TokensOlder'
  <2> SUFFICES ASSUME NEW t \in refresh, t.user \in DOMAIN members' \ rewritten'
               PROVE  Older(t, members'[t.user])
    BY DEF TokensOlder
  <2>1. Older(t, members[t.user]) /\ t.version \in Nat
    BY <1>1 DEF LoginsInv, TokensOlder, LoginTables, IsRefreshToken
  <2>2. CASE t.user = u BY <1>1, <1>5, <2>1, <2>2
  <2>3. CASE t.user # u BY <1>1, <2>1, <2>3
  <2> QED BY <2>2, <2>3
<1>8. ShownTokenIsAccepted'
  BY <1>1 DEF LoginsInv, ShownTokenIsAccepted
<1> QED BY <1>3, <1>4, <1>6, <1>7, <1>8 DEF LoginsInv

\* An edit, a new API token and a ciphertext filled in each replace one row.
LEMMA EditMemberKeeps ==
    ASSUME LoginsInv, NEW r \in Requests, update_user(r), view[r] # Idle, view' = [view EXCEPT ![r] = Idle]
    PROVE  LoginsInv'
<1>1. PICK u, enabled, password :
         /\ u \in Known(r) /\ enabled \in BOOLEAN
         /\ drawn' = drawn \/ drawn' = [drawn EXCEPT !.password = @ + 1]
         /\ members' = [members EXCEPT ![u] = Edited(members[u], view[r][u], enabled, password)]
         /\ rewritten' = rewritten \cup Rewritten(r, u)
         /\ refresh' = refresh /\ overtaken' = overtaken
  BY DEF update_user
<1> DEFINE row == Edited(members[u], view[r][u], enabled, password)
<1>2. u \in DOMAIN members /\ IsMember(members[u]) /\ IsMember(view[r][u])
  BY <1>1 DEF Known, LoginsInv, LoginTables
<1>3. /\ IsMember(row) /\ row.version = view[r][u].version + 1
      /\ row.cipher = members[u].cipher /\ row.api = members[u].api
  BY <1>2 DEF Edited, NextVersion, IsMember, MemberColumns
<1>4. u \in rewritten' \/ row.version > members[u].version
  BY <1>1, <1>2, <1>3 DEF Rewritten, IsMember
<1>5. drawn' \in [id : Nat, password : Nat, api : Nat] /\ drawn'.id = drawn.id
  BY <1>1 DEF LoginsInv, LoginNumbers
<1>6. u \notin overtaken' => row.cipher \in {NoCipher, row.api}
  BY <1>1, <1>2, <1>3 DEF LoginsInv, ShownTokenIsAccepted
<1> HIDE DEF row
<1> QED BY <1>1, <1>2, <1>3, <1>4, <1>5, <1>6, MemberReplaced DEF row

\* Issuing a token.
LEMMA ApiTokenKeeps ==
    ASSUME LoginsInv, NEW r \in Requests, regenerate_user_api_token(r), view[r] # Idle,
           view' = [view EXCEPT ![r] = Idle]
    PROVE  LoginsInv'
<1>1. PICK u \in Known(r) :
         /\ drawn' = [drawn EXCEPT !.api = @ + 1]
         /\ members' = [members EXCEPT ![u] =
                [members[u] EXCEPT !.api = drawn.api + 1, !.cipher = CipherOf(u, drawn.api + 1),
                                   !.version = view[r][u].version + 1]]
         /\ rewritten' = rewritten \cup Rewritten(r, u)
         /\ refresh' = refresh /\ overtaken' = overtaken
  BY DEF regenerate_user_api_token
<1> DEFINE row == [members[u] EXCEPT !.api = drawn.api + 1, !.cipher = CipherOf(u, drawn.api + 1),
                                     !.version = view[r][u].version + 1]
<1>2. u \in DOMAIN members /\ IsMember(members[u]) /\ IsMember(view[r][u])
  BY DEF Known, LoginsInv, LoginTables
<1>3. /\ IsMember(row) /\ row.version = view[r][u].version + 1 /\ row.cipher = row.api
  BY <1>2 DEF CipherOf, IsMember, MemberColumns
<1>4. u \in rewritten' \/ row.version > members[u].version
  BY <1>1, <1>2, <1>3 DEF Rewritten, IsMember
<1>5. drawn' \in [id : Nat, password : Nat, api : Nat] /\ drawn'.id = drawn.id
  BY <1>1 DEF LoginsInv, LoginNumbers
<1>6. members' = [members EXCEPT ![u] = row]
  BY <1>1
<1> HIDE DEF row
<1> QED BY <1>1, <1>2, <1>3, <1>4, <1>5, <1>6, MemberReplaced

\* Publishing a key and encrypting a password with it.
LEMMA CiphertextKeeps ==
    ASSUME LoginsInv, NEW r \in Requests, authenticate_user_api_token(r), view[r] # Idle,
           view' = [view EXCEPT ![r] = Idle]
    PROVE  LoginsInv'
<1>1. PICK u \in Known(r) :
         /\ members' = [members EXCEPT ![u].cipher = view[r][u].api]
         /\ overtaken' = overtaken \cup (IF members[u].api # view[r][u].api THEN {u} ELSE {})
         /\ drawn' = drawn /\ refresh' = refresh /\ rewritten' = rewritten
  BY DEF authenticate_user_api_token
<1> DEFINE row == [members[u] EXCEPT !.cipher = view[r][u].api]
<1>2. u \in DOMAIN members /\ IsMember(members[u])
  BY DEF Known, LoginsInv, LoginTables
<1>3. /\ IsMember(row) /\ row.version = members[u].version /\ row.password = members[u].password
      /\ row.cipher = view[r][u].api /\ row.api = members[u].api
  BY <1>2 DEF IsMember, MemberColumns
<1>4. members' = [members EXCEPT ![u] = row]
  BY <1>1
<1>5. u \notin overtaken' => row.cipher = row.api
  BY <1>1, <1>3
<1>6. drawn' \in [id : Nat, password : Nat, api : Nat] /\ drawn'.id = drawn.id
  BY <1>1 DEF LoginsInv, LoginNumbers
<1> HIDE DEF row
<1> QED BY <1>1, <1>2, <1>3, <1>4, <1>5, <1>6, MemberReplaced

\* A new account has a number nobody holds.
LEMMA CreateMemberKeeps ==
    ASSUME LoginsInv, NEW r \in Requests, create_user(r), view' = [view EXCEPT ![r] = Idle]
    PROVE  LoginsInv'
<1>1. PICK enabled \in BOOLEAN :
         /\ drawn' = [id |-> drawn.id + 1, password |-> drawn.password + 1, api |-> drawn.api + 1]
         /\ members' = WithRow(members, drawn.id + 1,
               [enabled |-> enabled, password |-> drawn.password + 1,
                api |-> drawn.api + 1, cipher |-> drawn.api + 1, version |-> 1])
         /\ refresh' = refresh /\ rewritten' = rewritten /\ overtaken' = overtaken
  BY DEF create_user
<1> DEFINE new == drawn.id + 1
           row == [enabled |-> enabled, password |-> drawn.password + 1,
                   api |-> drawn.api + 1, cipher |-> drawn.api + 1, version |-> 1]
<1>2. drawn.id \in Nat /\ drawn.password \in Nat /\ drawn.api \in Nat
  BY DEF LoginsInv, LoginNumbers
<1>3. IsMember(row) /\ row.cipher = row.api
  BY DEF IsMember, MemberColumns
<1> HIDE DEF row
<1>4. members' = WithRow(members, new, row)
  BY <1>1 DEF row
<1>5. /\ members' = [v \in DOMAIN members' |-> members'[v]]
      /\ DOMAIN members' = DOMAIN members \cup {new} /\ members'[new] = row
      /\ \A v \in DOMAIN members : v # new /\ members'[v] = members[v]
  <2>1. new \notin DOMAIN members BY <1>2 DEF LoginsInv, LoginNumbers
  <2> HIDE DEF new
  <2> QED BY <1>4, <2>1 DEF WithRow
<1>6. /\ \A q \in Requests : new \notin DOMAIN view[q]
      /\ \A t \in refresh : t.user # new
  BY <1>2 DEF LoginsInv, LoginNumbers
<1>7. LoginTables'
  BY <1>1, <1>3, <1>5, ViewsClosed DEF LoginsInv, LoginTables
<1>8. drawn' \in [id : Nat, password : Nat, api : Nat] /\ drawn'.id = new
  BY <1>1, <1>2
<1>9. LoginNumbers'
  <2>1. 0..drawn.id \subseteq 0..new /\ 1..drawn.id \subseteq 1..new /\ new \in 1..new /\ 0 \in 0..new
    BY <1>2
  <2>2. /\ DOMAIN members \subseteq 1..drawn.id
        /\ \A q \in Requests : DOMAIN view[q] \subseteq 0..drawn.id
        /\ \A t \in refresh : t.user \in 0..drawn.id
    BY DEF LoginsInv, LoginNumbers
  <2>3. /\ \A q \in Requests : view'[q] = Idle \/ view'[q] = view[q]
        /\ DOMAIN Idle = {0}
    BY <1>1, ViewsClosed
  <2> HIDE DEF new
  <2>4. DOMAIN members' \subseteq 1..new
    BY <1>5, <2>1, <2>2
  <2>5. \A q \in Requests : DOMAIN view'[q] \subseteq 0..new
    BY <2>1, <2>2, <2>3
  <2>6. \A t \in refresh' : t.user \in 0..new
    BY <1>1, <2>1, <2>2
  <2> QED BY <1>8, <2>4, <2>5, <2>6 DEF LoginNumbers
<1> HIDE DEF new
<1>10. ViewsOlder'
  <2> SUFFICES ASSUME NEW q \in Requests, NEW v \in (DOMAIN view'[q] \cap DOMAIN members') \ rewritten'
               PROVE  Older(view'[q][v], members'[v])
    BY DEF ViewsOlder
  <2>1. v # 0
    BY <1>5, <1>2 DEF LoginsInv, LoginNumbers, new
  <2>2. view'[q] = view[q]
    BY <2>1, ViewsClosed
  <2>3. v \in (DOMAIN view[q] \cap DOMAIN members) \ rewritten
    BY <1>1, <1>5, <1>6, <2>2
  <2> QED BY <1>5, <2>2, <2>3 DEF LoginsInv, ViewsOlder
<1>11. TokensOlder'
  BY <1>1, <1>5, <1>6 DEF LoginsInv, TokensOlder
<1>12. ShownTokenIsAccepted'
  BY <1>1, <1>3, <1>5 DEF LoginsInv, ShownTokenIsAccepted
<1> QED BY <1>7, <1>9, <1>10, <1>11, <1>12 DEF LoginsInv

\* Fewer accounts leave less to keep.
LEMMA DeleteMemberKeeps ==
    ASSUME LoginsInv, NEW r \in Requests, delete_user(r), view' = [view EXCEPT ![r] = Idle]
    PROVE  LoginsInv'
<1>1. PICK u : /\ members' = Restrict(members, DOMAIN members \ {u})
               /\ drawn' = drawn /\ refresh' = refresh
               /\ rewritten' = rewritten /\ overtaken' = overtaken
  BY DEF delete_user
<1>2. /\ members' = [v \in DOMAIN members' |-> members'[v]]
      /\ DOMAIN members' \subseteq DOMAIN members
      /\ \A v \in DOMAIN members' : members'[v] = members[v]
  BY <1>1 DEF Restrict
<1>3. LoginTables' /\ LoginNumbers'
  <2>1. LoginTables'
    BY <1>1, <1>2, ViewsClosed DEF LoginsInv, LoginTables
  <2>2. drawn' \in [id : Nat, password : Nat, api : Nat] /\ drawn'.id = drawn.id
    BY <1>1 DEF LoginsInv, LoginNumbers
  <2>3. \A t \in refresh' : t.user \in 0..drawn.id
    BY <1>1 DEF LoginsInv, LoginNumbers
  <2> QED BY <1>2, <2>1, <2>2, <2>3, LoginNumbersKept
<1>4. ViewsOlder'
  <2> SUFFICES ASSUME NEW q \in Requests, NEW v \in (DOMAIN view'[q] \cap DOMAIN members') \ rewritten'
               PROVE  Older(view'[q][v], members'[v])
    BY DEF ViewsOlder
  <2>1. v # 0
    BY <1>2 DEF LoginsInv, LoginNumbers
  <2>2. view'[q] = view[q]
    BY <2>1, ViewsClosed
  <2> QED BY <1>1, <1>2, <2>2 DEF LoginsInv, ViewsOlder
<1>5. TokensOlder' /\ ShownTokenIsAccepted'
  BY <1>1, <1>2 DEF LoginsInv, TokensOlder, ShownTokenIsAccepted
<1> QED BY <1>3, <1>4, <1>5 DEF LoginsInv

\* A login takes its token from a snapshot; a renewed token is the one it renews.
LEMMA LoginKeeps ==
    ASSUME LoginsInv, NEW r \in Requests, login(r) \/ renew(r), view[r] # Idle,
           view' = [view EXCEPT ![r] = Idle]
    PROVE  LoginsInv'
<1>1. PICK t : /\ refresh' = refresh \cup {t}
               /\ IsRefreshToken(t) /\ t.user \in 0..drawn.id
               /\ t.user \in DOMAIN members \ rewritten => Older(t, members[t.user])
               /\ members' = members /\ drawn' = drawn
               /\ rewritten' = rewritten /\ overtaken' = overtaken
  <2>1. CASE login(r)
    <3>1. PICK u \in DOMAIN view[r] : /\ refresh' = refresh \cup {Token(u, view[r][u])}
                                      /\ members' = members /\ drawn' = drawn
                                      /\ rewritten' = rewritten /\ overtaken' = overtaken
      BY <2>1 DEF login
    <3> DEFINE t == Token(u, view[r][u])
    <3>2. t.user = u /\ t.version = view[r][u].version /\ t.password = view[r][u].password
          /\ DOMAIN t = {"user", "version", "password"}
      BY DEF Token
    <3>3. IsMember(view[r][u]) /\ u \in 0..drawn.id
      BY DEF LoginsInv, LoginTables, LoginNumbers
    <3>4. u \in DOMAIN members \ rewritten => Older(view[r][u], members[u])
      BY DEF LoginsInv, ViewsOlder
    <3> HIDE DEF t
    <3>5. IsRefreshToken(t) /\ t.user \in 0..drawn.id
          /\ (t.user \in DOMAIN members \ rewritten => Older(t, members[t.user]))
      BY <3>2, <3>3, <3>4 DEF IsRefreshToken, IsMember, Older
    <3> QED BY <3>1, <3>5 DEF t
  <2>2. CASE renew(r)
    <3>1. PICK old \in refresh :
             /\ Renewable(old, view[r])
             /\ refresh' = refresh \cup {[old EXCEPT !.version = view[r][old.user].version]}
             /\ members' = members /\ drawn' = drawn
             /\ rewritten' = rewritten /\ overtaken' = overtaken
      BY <2>2 DEF renew
    <3> DEFINE t == [old EXCEPT !.version = view[r][old.user].version]
    <3>2. IsRefreshToken(old) /\ view[r][old.user].version = old.version
      BY <3>1 DEF Renewable, LoginsInv, LoginTables
    <3>3. t.user = old.user /\ t.version = old.version /\ t.password = old.password
          /\ DOMAIN t = {"user", "version", "password"}
      BY <3>2 DEF IsRefreshToken
    <3>4. old.user \in 0..drawn.id
          /\ (old.user \in DOMAIN members \ rewritten => Older(old, members[old.user]))
      BY DEF LoginsInv, LoginNumbers, TokensOlder
    <3> HIDE DEF t
    <3>5. IsRefreshToken(t) /\ t.user \in 0..drawn.id
          /\ (t.user \in DOMAIN members \ rewritten => Older(t, members[t.user]))
      BY <3>2, <3>3, <3>4 DEF IsRefreshToken, Older
    <3> QED BY <3>1, <3>5 DEF t
  <2> QED BY <2>1, <2>2
<1>2. LoginTables' /\ LoginNumbers'
  BY <1>1, ViewsClosed DEF LoginsInv, LoginTables, LoginNumbers
<1>3. ViewsOlder'
  <2> SUFFICES ASSUME NEW q \in Requests, NEW v \in (DOMAIN view'[q] \cap DOMAIN members') \ rewritten'
               PROVE  Older(view'[q][v], members'[v])
    BY DEF ViewsOlder
  <2>1. v # 0
    BY <1>1 DEF LoginsInv, LoginNumbers
  <2>2. view'[q] = view[q]
    BY <2>1, ViewsClosed
  <2> QED BY <1>1, <2>2 DEF LoginsInv, ViewsOlder
<1>4. TokensOlder' /\ ShownTokenIsAccepted'
  BY <1>1 DEF LoginsInv, TokensOlder, ShownTokenIsAccepted
<1> QED BY <1>2, <1>3, <1>4 DEF LoginsInv

\* A snapshot is taken of the accounts as they are.
LEMMA BeginLoginKeeps ==
    ASSUME LoginsInv, NEW r \in Requests, Begin(r)
    PROVE  LoginsInv'
<1>1. /\ view' = [view EXCEPT ![r] = members] /\ members' = members /\ drawn' = drawn
      /\ refresh' = refresh /\ rewritten' = rewritten /\ overtaken' = overtaken
  BY DEF Begin
<1>2. view' = [q \in Requests |-> view'[q]]
      /\ \A q \in Requests : view'[q] = members \/ view'[q] = view[q]
  BY <1>1 DEF LoginsInv, LoginTables
<1>3. LoginTables'
  BY <1>1, <1>2 DEF LoginsInv, LoginTables
<1>4. 1..drawn.id \subseteq 0..drawn.id
  OBVIOUS
<1>5. LoginNumbers'
  BY <1>1, <1>2, <1>4 DEF LoginsInv, LoginNumbers
<1>6. \A u \in DOMAIN members : Older(members[u], members[u])
  BY DEF LoginsInv, LoginTables, IsMember, Older
<1>7. ViewsOlder'
  BY <1>1, <1>2, <1>6 DEF LoginsInv, ViewsOlder
<1> QED BY <1>1, <1>3, <1>5, <1>7 DEF LoginsInv, TokensOlder, ShownTokenIsAccepted

\* The end of a request.
LEMMA EndLoginKeeps ==
    ASSUME LoginsInv, NEW r \in Requests, view' = [view EXCEPT ![r] = Idle],
           UNCHANGED <<members, drawn, refresh, rewritten, overtaken>>
    PROVE  LoginsInv'
<1>1. LoginTables' /\ LoginNumbers'
  BY ViewsClosed DEF LoginsInv, LoginTables, LoginNumbers
<1>2. ViewsOlder'
  <2> SUFFICES ASSUME NEW q \in Requests, NEW v \in (DOMAIN view'[q] \cap DOMAIN members') \ rewritten'
               PROVE  Older(view'[q][v], members'[v])
    BY DEF ViewsOlder
  <2>1. v # 0
    BY DEF LoginsInv, LoginNumbers
  <2>2. view'[q] = view[q]
    BY <2>1, ViewsClosed
  <2> QED BY <2>2 DEF LoginsInv, ViewsOlder
<1> QED BY <1>1, <1>2 DEF LoginsInv, TokensOlder, ShownTokenIsAccepted

\* Every step keeps the invariant.
LEMMA LoginsStep == LoginsInv /\ [Next]_vars => LoginsInv'
<1> SUFFICES ASSUME LoginsInv, [Next]_vars PROVE LoginsInv'
  OBVIOUS
<1>1. ASSUME NEW r \in Requests, Commit(r) PROVE LoginsInv'
  BY <1>1, CreateMemberKeeps, EditMemberKeeps, ApiTokenKeeps, DeleteMemberKeeps, CiphertextKeeps, LoginKeeps DEF Commit
<1>2. ASSUME NEW r \in Requests, End(r) PROVE LoginsInv'
  BY <1>2, EndLoginKeeps DEF End
<1>3. CASE UNCHANGED vars
  BY <1>3 DEF vars, LoginsInv, LoginTables, LoginNumbers, ViewsOlder, TokensOlder, ShownTokenIsAccepted
<1> QED BY <1>1, <1>2, <1>3, BeginLoginKeeps DEF Next

\* One account, no snapshot, no token.
LEMMA LoginsInit == Init => LoginsInv
<1> SUFFICES ASSUME Init PROVE LoginsInv
  OBVIOUS
<1>1. PICK cipher \in {NoCipher, 1} :
         members = [u \in {1} |-> [enabled |-> TRUE, password |-> 1, api |-> 1,
                                   cipher |-> cipher, version |-> 1]]
  BY DEF Init
<1>2. IsMember(members[1]) /\ members[1].cipher \in {NoCipher, members[1].api}
  BY <1>1 DEF IsMember, MemberColumns
<1>3. DOMAIN Idle = {0}
  BY DEF Idle
<1> QED BY <1>1, <1>2, <1>3 DEF Init, LoginsInv, LoginTables, LoginNumbers, ViewsOlder, TokensOlder,
                                ShownTokenIsAccepted

\* A refresh token is not renewed after its account's password has changed, unless
\* overlapping edits wrote an old version back (refresh and update_user).
THEOREM RenewalsKnowPassword == Spec => []RenewalKnowsPassword
  BY LoginsInit, LoginsStep, OlderTokensSuffice, PTL DEF Spec

\* The API token administrators see is accepted, unless it was replaced while its
\* ciphertext was being filled in (_issue_api_token and find_user_by_api_token).
THEOREM ShownTokensAccepted == Spec => []ShownTokenIsAccepted
<1>1. LoginsInv => ShownTokenIsAccepted
  BY DEF LoginsInv
<1> QED BY <1>1, LoginsInit, LoginsStep, PTL DEF Spec

\* The columns of an account: passwords and tokens are drawn ones.
Account(x, d) ==
    /\ x.password \in 1..d.password
    /\ x.cipher \in 0..d.api /\ x.api \in 1..d.api
    /\ x.version \in Nat \ {0} /\ x.enabled \in BOOLEAN

LoginsTyped ==
    /\ drawn.id \in 1..MaxMembers /\ asked \in 0..MaxAsked
    /\ \A u \in DOMAIN members : Account(members[u], drawn)
    /\ \A u, v \in DOMAIN members : members[u].api = members[v].api => u = v
    /\ \A r \in Requests : view[r] # Idle =>
          /\ DOMAIN view[r] \subseteq 1..drawn.id
          /\ \A u \in DOMAIN view[r] : Account(view[r][u], drawn)
    /\ \A t \in refresh : t.user \in 1..drawn.id

LEMMA LoginsTypedInit == Init => LoginsTyped
<1> SUFFICES ASSUME Init PROVE LoginsTyped
  OBVIOUS
<1>1. PICK cipher \in {NoCipher, 1} :
         members = [u \in {1} |-> [enabled |-> TRUE, password |-> 1, api |-> 1,
                                   cipher |-> cipher, version |-> 1]]
  BY DEF Init
<1>2. drawn.password = 1 /\ drawn.api = 1 /\ drawn.id = 1
  BY DEF Init
<1>3. DOMAIN members = {1} /\ Account(members[1], drawn)
  <2>1. members[1] = [enabled |-> TRUE, password |-> 1, api |-> 1, cipher |-> cipher, version |-> 1]
        /\ DOMAIN members = {1}
    BY <1>1
  <2>2. cipher \in 0..1
    BY DEF NoCipher
  <2>3. members[1].enabled \in BOOLEAN
    BY <2>1
  <2> QED BY <1>2, <2>1, <2>2, <2>3 DEF Account
<1>4. MaxMembers \in Nat \ {0} /\ MaxAsked \in Nat
  BY ServicesBounds
<1> QED BY <1>2, <1>3, <1>4 DEF Init, LoginsTyped

\* A commit that writes one row, new or in the place of another, and draws no more than it
\* may.
LEMMA AccountWritten ==
    ASSUME LoginsInv, LoginsTyped, NEW r \in Requests, view' = [view EXCEPT ![r] = Idle],
           UNCHANGED asked, NEW u, NEW row,
           drawn' \in [id : Nat, password : Nat, api : Nat],
           drawn.id <= drawn'.id, drawn'.id <= MaxMembers,
           drawn.password <= drawn'.password, drawn.api <= drawn'.api,
           DOMAIN members' \subseteq DOMAIN members \cup {u},
           \A v \in DOMAIN members' : members'[v] = IF v = u THEN row ELSE members[v],
           u \in DOMAIN members' => Account(row, drawn'),
           u \in DOMAIN members' => row.api > drawn.api \/ (u \in DOMAIN members /\ row.api = members[u].api),
           \A t \in refresh' : t \in refresh \/ t.user \in 1..drawn.id
    PROVE  LoginsTyped'
<1>1. drawn \in [id : Nat, password : Nat, api : Nat]
  BY DEF LoginsInv, LoginNumbers
<1>2. ASSUME NEW x, Account(x, drawn)
      PROVE  Account(x, drawn')
  BY <1>1, <1>2 DEF Account
<1>3. \A v \in DOMAIN members' : Account(members'[v], drawn')
  BY <1>2 DEF LoginsTyped
<1>4. \A v \in DOMAIN members : members[v].api \in 1..drawn.api
  BY DEF LoginsTyped, Account
<1>5. ASSUME NEW v \in DOMAIN members', NEW w \in DOMAIN members', members'[v].api = members'[w].api
      PROVE  v = w
  BY <1>1, <1>4, <1>5 DEF LoginsTyped
<1>6. ASSUME NEW q \in Requests, view'[q] # Idle
      PROVE  /\ DOMAIN view'[q] \subseteq 1..drawn'.id
             /\ \A v \in DOMAIN view'[q] : Account(view'[q][v], drawn')
  <2>1. view'[q] = view[q]
    BY <1>6, ViewsClosed
  <2>2. DOMAIN view[q] \subseteq 1..drawn.id /\ \A v \in DOMAIN view[q] : Account(view[q][v], drawn)
    BY <1>6, <2>1 DEF LoginsTyped
  <2> QED BY <1>1, <1>2, <2>1, <2>2
<1>7. drawn'.id \in 1..MaxMembers /\ asked' \in 0..MaxAsked
      /\ \A t \in refresh' : t.user \in 1..drawn'.id
  BY <1>1 DEF LoginsTyped
<1> QED BY <1>3, <1>5, <1>6, <1>7 DEF LoginsTyped

LEMMA LoginsTypedStep == LoginsInv /\ LoginsTyped /\ [Next]_vars => LoginsTyped'
<1> SUFFICES ASSUME LoginsInv, LoginsTyped, [Next]_vars
             PROVE  LoginsTyped'
  OBVIOUS
<1>0. /\ drawn \in [id : Nat, password : Nat, api : Nat] /\ MaxAsked \in Nat /\ MaxMembers \in Nat
      /\ drawn.id \in 1..MaxMembers
      /\ members = [u \in DOMAIN members |-> members[u]]
      /\ \A u \in DOMAIN members : IsMember(members[u]) /\ Account(members[u], drawn)
      /\ view = [r \in Requests |-> view[r]]
  BY ServicesBounds DEF LoginsInv, LoginTables, LoginNumbers, LoginsTyped
<1>1. ASSUME NEW r \in Requests, Begin(r) \/ End(r)
      PROVE  LoginsTyped'
  <2>1. UNCHANGED <<members, drawn, refresh>> /\ asked' \in 0..MaxAsked
    BY <1>0, <1>1 DEF Begin, End, LoginsTyped
  <2>2. \A q \in Requests : view'[q] \in {view[q], members, Idle}
    BY <1>0, <1>1 DEF Begin, End
  <2>3. ASSUME NEW q \in Requests, view'[q] # Idle
        PROVE  /\ DOMAIN view'[q] \subseteq 1..drawn.id
               /\ \A u \in DOMAIN view'[q] : Account(view'[q][u], drawn)
    BY <1>0, <2>2, <2>3 DEF LoginsTyped, LoginsInv, LoginNumbers
  <2> QED BY <2>1, <2>3 DEF LoginsTyped, Account
<1>2. ASSUME NEW r \in Requests, Commit(r)
      PROVE  LoginsTyped'
  <2>1. /\ view' = [view EXCEPT ![r] = Idle] /\ UNCHANGED asked
        /\ DOMAIN view[r] \subseteq 1..drawn.id
        /\ \A u \in DOMAIN view[r] : Account(view[r][u], drawn)
    BY <1>2 DEF Commit, LoginsTyped
  <2>2. CASE create_user(r)
    <3>1. PICK enabled \in BOOLEAN : members' = WithRow(members, drawn.id + 1,
             [enabled |-> enabled, password |-> drawn.password + 1,
              api |-> drawn.api + 1, cipher |-> drawn.api + 1, version |-> 1])
      BY <2>2 DEF create_user
    <3>2. /\ drawn' = [id |-> drawn.id + 1, password |-> drawn.password + 1, api |-> drawn.api + 1]
          /\ drawn.id < MaxMembers /\ UNCHANGED refresh
      BY <2>2 DEF create_user
    <3>3. PICK row : row = [enabled |-> enabled, password |-> drawn.password + 1,
                            api |-> drawn.api + 1, cipher |-> drawn.api + 1, version |-> 1]
      OBVIOUS
    <3>a. PICK u : u = drawn.id + 1
      OBVIOUS
    <3>4. /\ DOMAIN members' \subseteq DOMAIN members \cup {u}
          /\ \A v \in DOMAIN members' : members'[v] = IF v = u THEN row ELSE members[v]
      BY <3>1, <3>3, <3>a DEF WithRow
    <3>5. Account(row, drawn')
      BY <1>0, <3>2, <3>3 DEF Account
    <3>6. /\ drawn' \in [id : Nat, password : Nat, api : Nat] /\ drawn.id <= drawn'.id
          /\ drawn'.id <= MaxMembers /\ drawn.password <= drawn'.password /\ drawn.api <= drawn'.api
      BY <1>0, <3>2, <3>3
    <3>8. row.api > drawn.api
      BY <1>0, <3>3
    <3>7. \A t \in refresh' : t \in refresh
      BY <3>2
    <3>9. /\ u \in DOMAIN members' => Account(row, drawn')
          /\ u \in DOMAIN members' => row.api > drawn.api \/ (u \in DOMAIN members /\ row.api = members[u].api)
      BY <3>5, <3>8
    <3>10. \A t \in refresh' : t \in refresh \/ t.user \in 1..drawn.id
      BY <3>7
    <3>11. view' = [view EXCEPT ![r] = Idle] /\ UNCHANGED asked
      BY <2>1
    <3> QED BY <3>4, <3>6, <3>9, <3>10, <3>11, AccountWritten, Zenon
  <2>3. CASE update_user(r)
    <3>1. PICK u \in Known(r), enabled \in BOOLEAN, newPassword \in BOOLEAN :
             LET password == IF newPassword THEN drawn.password + 1 ELSE members[u].password
             IN  /\ drawn' = IF newPassword THEN [drawn EXCEPT !.password = @ + 1] ELSE drawn
                 /\ members' = [members EXCEPT ![u] = Edited(@, view[r][u], enabled, password)]
      BY <2>3 DEF update_user
    <3> DEFINE password == IF newPassword THEN drawn.password + 1 ELSE members[u].password
    <3>2. u \in DOMAIN members /\ IsMember(members[u]) /\ Account(members[u], drawn)
          /\ Account(view[r][u], drawn) /\ UNCHANGED refresh
      BY <1>0, <2>1, <2>3 DEF Known, update_user
    <3>3. PICK row : row = Edited(members[u], view[r][u], enabled, password)
      OBVIOUS
    <3>4. /\ row.password = password /\ row.version = view[r][u].version + 1
          /\ row.api = members[u].api /\ row.cipher = members[u].cipher
          /\ row.enabled = Stored(members[u].enabled, view[r][u].enabled, enabled)
      BY <3>2, <3>3 DEF Edited, NextVersion, IsMember, MemberColumns
    <3>5. row.enabled \in BOOLEAN
      BY <3>2, <3>4 DEF Stored, Account
    <3>6. /\ drawn' \in [id : Nat, password : Nat, api : Nat] /\ drawn.id <= drawn'.id
          /\ drawn'.id <= MaxMembers /\ drawn.password <= drawn'.password
          /\ drawn.api <= drawn'.api /\ password \in 1..drawn'.password
      BY <1>0, <3>1, <3>2 DEF Account
    <3> HIDE DEF password
    <3>7. Account(row, drawn')
      BY <1>0, <3>2, <3>4, <3>5, <3>6 DEF Account
    <3>8. DOMAIN members' = DOMAIN members
          /\ \A v \in DOMAIN members' : members'[v] = IF v = u THEN row ELSE members[v]
      BY <1>0, <3>1, <3>2, <3>3 DEF password
    <3>9. (\A t \in refresh' : t \in refresh) /\ u \in DOMAIN members /\ row.api = members[u].api
      BY <3>2, <3>4
    <3> QED BY <2>1, <3>6, <3>7, <3>8, <3>9, AccountWritten
  <2>4. CASE regenerate_user_api_token(r)
    <3>1. PICK u \in Known(r) : members' = [members EXCEPT ![u] =
             [members[u] EXCEPT !.api = drawn.api + 1, !.cipher = CipherOf(u, drawn.api + 1),
                                !.version = view[r][u].version + 1]]
      BY <1>0, <2>4 DEF regenerate_user_api_token, Known
    <3>2. u \in DOMAIN members /\ IsMember(members[u]) /\ Account(members[u], drawn)
          /\ Account(view[r][u], drawn) /\ UNCHANGED refresh /\ drawn' = [drawn EXCEPT !.api = @ + 1]
      BY <1>0, <2>1, <2>4 DEF Known, regenerate_user_api_token
    <3>3. PICK row : row = [members[u] EXCEPT !.api = drawn.api + 1,
                              !.cipher = CipherOf(u, drawn.api + 1),
                              !.version = view[r][u].version + 1]
      OBVIOUS
    <3>4. /\ row.api = drawn.api + 1 /\ row.cipher = drawn.api + 1
          /\ row.version = view[r][u].version + 1
          /\ row.password = members[u].password /\ row.enabled = members[u].enabled
      BY <3>2, <3>3 DEF CipherOf, IsMember, MemberColumns
    <3>5. row.enabled \in BOOLEAN
      BY <3>2, <3>4 DEF Account
    <3>6. /\ drawn' \in [id : Nat, password : Nat, api : Nat] /\ drawn.id <= drawn'.id
          /\ drawn'.id <= MaxMembers /\ drawn.password <= drawn'.password
          /\ drawn'.api = drawn.api + 1 /\ drawn.api <= drawn'.api /\ drawn.api \in Nat
          /\ drawn'.password = drawn.password
      BY <1>0, <3>2
    <3>7. Account(row, drawn')
      BY <3>2, <3>4, <3>5, <3>6 DEF Account
    <3>8. DOMAIN members' = DOMAIN members
          /\ \A v \in DOMAIN members' : members'[v] = IF v = u THEN row ELSE members[v]
      BY <1>0, <3>1, <3>2, <3>3
    <3>9. row.api > drawn.api
      BY <3>4, <3>6
    <3> QED BY <2>1, <3>2, <3>6, <3>7, <3>8, <3>9, AccountWritten
  <2>5. CASE delete_user(r)
    <3>1. PICK u : members' = Restrict(members, DOMAIN members \ {u})
      BY <2>5 DEF delete_user
    <3>2. UNCHANGED <<drawn, refresh>>
      BY <2>5 DEF delete_user
    <3>3. u \notin DOMAIN members' /\ DOMAIN members' \subseteq DOMAIN members \cup {u}
          /\ \A v \in DOMAIN members' : members'[v] = IF v = u THEN 0 ELSE members[v]
      BY <3>1 DEF Restrict
    <3>4. /\ drawn' \in [id : Nat, password : Nat, api : Nat] /\ drawn.id <= drawn'.id
          /\ drawn'.id <= MaxMembers /\ drawn.password <= drawn'.password /\ drawn.api <= drawn'.api
      BY <1>0, <3>2
    <3> QED BY <2>1, <3>2, <3>3, <3>4, AccountWritten
  <2>6. CASE authenticate_user_api_token(r)
    <3>1. PICK u \in Known(r) : members' = [members EXCEPT ![u].cipher = view[r][u].api]
      BY <2>6 DEF authenticate_user_api_token
    <3>2. u \in DOMAIN members /\ IsMember(members[u]) /\ Account(members[u], drawn)
          /\ Account(view[r][u], drawn) /\ UNCHANGED <<refresh, drawn>>
      BY <1>0, <2>1, <2>6 DEF Known, authenticate_user_api_token
    <3>3. PICK row : row = [members[u] EXCEPT !.cipher = view[r][u].api]
      OBVIOUS
    <3>4. /\ row.api = members[u].api /\ row.cipher = view[r][u].api
          /\ row.version = members[u].version
          /\ row.password = members[u].password /\ row.enabled = members[u].enabled
      BY <3>2, <3>3 DEF IsMember, MemberColumns
    <3>5. row.enabled \in BOOLEAN
      BY <3>2, <3>4 DEF Account
    <3>6. /\ drawn' \in [id : Nat, password : Nat, api : Nat] /\ drawn.id <= drawn'.id
          /\ drawn'.id <= MaxMembers /\ drawn.password <= drawn'.password /\ drawn.api <= drawn'.api
      BY <1>0, <3>2
    <3>7. Account(row, drawn')
      BY <1>0, <3>2, <3>4, <3>5 DEF Account
    <3>8. DOMAIN members' = DOMAIN members
          /\ \A v \in DOMAIN members' : members'[v] = IF v = u THEN row ELSE members[v]
      BY <1>0, <3>1, <3>2, <3>3
    <3>9. (\A t \in refresh' : t \in refresh) /\ u \in DOMAIN members /\ row.api = members[u].api
      BY <3>2, <3>4
    <3> QED BY <2>1, <3>6, <3>7, <3>8, <3>9, AccountWritten
  <2>7. CASE login(r) \/ renew(r)
    <3>1. UNCHANGED <<members, drawn>>
      BY <2>7 DEF login, renew
    <3>2. \A t \in refresh' : t \in refresh \/ t.user \in 1..drawn.id
      <4>1. CASE login(r)
        BY <2>1, <4>1 DEF login, Token
      <4>2. CASE renew(r)
        <5>1. PICK t \in refresh : refresh' = refresh \cup
                 {[t EXCEPT !.version = view[r][t.user].version]}
          BY <4>2 DEF renew
        <5>2. IsRefreshToken(t) /\ t.user \in 1..drawn.id
          BY DEF LoginsInv, LoginTables, LoginsTyped
        <5>3. [t EXCEPT !.version = view[r][t.user].version].user = t.user
          BY <5>2 DEF IsRefreshToken
        <5> QED BY <5>1, <5>2, <5>3
      <4> QED BY <2>7, <4>1, <4>2
    <3>3. 0 \notin DOMAIN members'
      BY <1>0, <3>1 DEF LoginsInv, LoginNumbers
    <3>4. /\ drawn' \in [id : Nat, password : Nat, api : Nat] /\ drawn.id <= drawn'.id
          /\ drawn'.id <= MaxMembers /\ drawn.password <= drawn'.password /\ drawn.api <= drawn'.api
      BY <1>0, <3>1
    <3>5. DOMAIN members' \subseteq DOMAIN members \cup {0}
          /\ \A v \in DOMAIN members' : members'[v] = IF v = 0 THEN 0 ELSE members[v]
      BY <3>1, <3>3
    <3> QED BY <2>1, <3>2, <3>3, <3>4, <3>5, AccountWritten
  <2> QED BY <1>2, <2>2, <2>3, <2>4, <2>5, <2>6, <2>7 DEF Commit
<1>3. CASE UNCHANGED vars
  BY <1>3 DEF vars, LoginsTyped, Account
<1> QED BY <1>1, <1>2, <1>3 DEF Next

LEMMA LoginsTypeOK == LoginsInv /\ LoginsTyped => TypeOK
  BY DEF LoginsInv, LoginNumbers, LoginsTyped, Account, TypeOK

-----------------------------------------------------------------------------
(* Accounts of the mini-program.                                            *)

\* The tables a request sees or commits: accounts, and identities that belong to them.
Registry(d) ==
    /\ d = [users |-> d.users, identities |-> d.identities, setting |-> d.setting]
    /\ d.users = [u \in DOMAIN d.users |->
                     [version |-> d.users[u].version, enabled |-> d.users[u].enabled]]
    /\ d.identities = [i \in DOMAIN d.identities |->
                          [user |-> d.identities[i].user, openid |-> d.identities[i].openid]]
    /\ \A u \in DOMAIN d.users : d.users[u].version \in Nat \ {0} /\ d.users[u].enabled \in BOOLEAN
    /\ \A i \in DOMAIN d.identities :
          d.identities[i].user \in DOMAIN d.users /\ d.identities[i].openid \in Openids
    /\ DOMAIN d.users \subseteq 1..last.user /\ DOMAIN d.identities \subseteq 1..last.identity
    /\ d.setting \in past

\* While no edit has written a version twice, an account that is as a request saw it has
\* no identity the request did not see.
SeenIdentities(d) ==
    \A u \in DOMAIN d.users \cap DOMAIN accounts.users :
        /\ d.users[u].version <= accounts.users[u].version
        /\ d.users[u].version = accounts.users[u].version =>
              Accounts!IdentitiesOf(accounts, u) \subseteq Accounts!IdentitiesOf(d, u)

AccountsInv ==
    /\ last = [user |-> last.user, identity |-> last.identity]
    /\ last.user \in 0..MaxUsers /\ last.identity \in Nat
    /\ begun \in 0..AccountRequests
    /\ past \subseteq Settings
    /\ Registry(accounts) /\ Accounts!UniqueKeys(accounts)
    /\ snap = [r \in Requests |-> snap[r]]
    /\ \A r \in Requests : snap[r] # Accounts!Idle =>
          Registry(snap[r]) /\ (~repeated => SeenIdentities(snap[r]))

LEMMA AccountsInit == Accounts!Init => AccountsInv
  BY ServicesBounds
  DEF Accounts!Init, AccountsInv, Registry, Accounts!UniqueKeys, Accounts!UniqueAppOfUser

\* The tables only get other settings and higher counters by the side.
LEMMA RegistryStays ==
    ASSUME NEW d, Registry(d), last.user \in Nat, last.identity \in Nat,
           last'.user \in Nat, last'.identity \in Nat,
           last.user <= last'.user, last.identity <= last'.identity, past \subseteq past'
    PROVE  /\ d.setting \in past' /\ DOMAIN d.users \subseteq 1..last'.user
           /\ DOMAIN d.identities \subseteq 1..last'.identity
  BY DEF Registry

\* A transaction commits: each account keeps its version and gets no identity, or it
\* gets a higher version, or it is new.
LEMMA CommitStep ==
    ASSUME AccountsInv, NEW r \in Requests, snap' = [snap EXCEPT ![r] = Accounts!Idle],
           UNCHANGED begun, Accounts!UniqueKeys(accounts'),
           last' = [user |-> last'.user, identity |-> last'.identity],
           last'.user \in 0..MaxUsers, last'.identity \in Nat,
           last.user <= last'.user, last.identity <= last'.identity,
           past \subseteq past', past' \subseteq Settings,
           Registry(accounts)',
           repeated => repeated',
           ~repeated' => \A u \in DOMAIN accounts'.users \cap 1..last.user :
               /\ u \in DOMAIN accounts.users
               /\ \/ accounts.users[u].version < accounts'.users[u].version
                  \/ /\ accounts'.users[u].version = accounts.users[u].version
                     /\ Accounts!IdentitiesOf(accounts', u) \subseteq Accounts!IdentitiesOf(accounts, u)
    PROVE  AccountsInv'
<1>1. \A q \in Requests : snap'[q] # Accounts!Idle => snap'[q] = snap[q] /\ snap[q] # Accounts!Idle
  BY DEF AccountsInv
<1>2. snap' = [q \in Requests |-> snap'[q]]
  BY DEF AccountsInv
<1>3. last.user \in Nat /\ last'.user \in Nat
  BY ServicesBounds DEF AccountsInv
<1>4. ASSUME NEW d, Registry(d)
      PROVE  Registry(d)'
  <2>1. d.setting \in past' /\ DOMAIN d.users \subseteq 1..last'.user
        /\ DOMAIN d.identities \subseteq 1..last'.identity
    BY <1>3, <1>4, RegistryStays DEF AccountsInv
  <2> QED BY <1>4, <2>1 DEF Registry
<1>5. ASSUME NEW d, Registry(d), SeenIdentities(d), ~repeated'
      PROVE  SeenIdentities(d)'
  <2>1. ASSUME NEW u \in DOMAIN d.users \cap DOMAIN accounts'.users
        PROVE  /\ d.users[u].version <= accounts'.users[u].version
               /\ d.users[u].version = accounts'.users[u].version =>
                     Accounts!IdentitiesOf(accounts', u) \subseteq Accounts!IdentitiesOf(d, u)
    <3>1. u \in DOMAIN accounts.users
          /\ \/ accounts.users[u].version < accounts'.users[u].version
             \/ /\ accounts'.users[u].version = accounts.users[u].version
                /\ Accounts!IdentitiesOf(accounts', u) \subseteq Accounts!IdentitiesOf(accounts, u)
      BY <1>5 DEF Registry
    <3>2. d.users[u].version \in Nat /\ accounts.users[u].version \in Nat
          /\ accounts'.users[u].version \in Nat
      BY <1>5, <3>1 DEF Registry, AccountsInv
    <3>3. /\ d.users[u].version <= accounts.users[u].version
          /\ d.users[u].version = accounts.users[u].version =>
                Accounts!IdentitiesOf(accounts, u) \subseteq Accounts!IdentitiesOf(d, u)
      BY <1>5, <3>1 DEF SeenIdentities
    <3>4. CASE accounts.users[u].version < accounts'.users[u].version
      BY <3>2, <3>3, <3>4
    <3>5. CASE /\ accounts'.users[u].version = accounts.users[u].version
               /\ Accounts!IdentitiesOf(accounts', u) \subseteq Accounts!IdentitiesOf(accounts, u)
      BY <3>3, <3>5
    <3> QED BY <3>1, <3>4, <3>5
  <2> QED BY <2>1 DEF SeenIdentities
<1>6. ASSUME NEW q \in Requests, snap'[q] # Accounts!Idle
      PROVE  Registry(snap[q])' /\ (~repeated' => SeenIdentities(snap[q])')
  <2> DEFINE d == snap[q]
  <2>1. Registry(d) /\ (~repeated => SeenIdentities(d)) /\ snap'[q] = d
    BY <1>1, <1>6 DEF AccountsInv
  <2>2. PICK e : e = d
    OBVIOUS
  <2>3. Registry(e) /\ (~repeated => SeenIdentities(e)) /\ snap'[q] = e
    BY <2>1, <2>2
  <2>4. Registry(e)' /\ (~repeated' => SeenIdentities(e)')
    BY <1>4, <1>5, <2>3
  <2> HIDE DEF d
  <2>5. Registry(snap[q])'
    <3>1. (snap[q] = e)'
      BY <2>3
    <3>2. (/\ snap[q] = [users |-> snap[q].users, identities |-> snap[q].identities,
                        setting |-> snap[q].setting]
           /\ snap[q].users = [u \in DOMAIN snap[q].users |->
                 [version |-> snap[q].users[u].version, enabled |-> snap[q].users[u].enabled]]
           /\ snap[q].identities = [i \in DOMAIN snap[q].identities |->
                 [user |-> snap[q].identities[i].user, openid |-> snap[q].identities[i].openid]])'
      BY <3>1, <2>4 DEF Registry
    <3>3. (/\ \A u \in DOMAIN snap[q].users :
                snap[q].users[u].version \in Nat \ {0} /\ snap[q].users[u].enabled \in BOOLEAN
           /\ \A i \in DOMAIN snap[q].identities :
                /\ snap[q].identities[i].user \in DOMAIN snap[q].users
                /\ snap[q].identities[i].openid \in Openids)'
      BY <3>1, <2>4 DEF Registry
    <3>4. (/\ DOMAIN snap[q].users \subseteq 1..last.user
           /\ DOMAIN snap[q].identities \subseteq 1..last.identity /\ snap[q].setting \in past)'
      BY <3>1, <2>4 DEF Registry
    <3> QED BY <3>2, <3>3, <3>4 DEF Registry
  <2>6. ~repeated' => SeenIdentities(snap[q])'
    BY <2>3, <2>4 DEF SeenIdentities
  <2> QED BY <2>5, <2>6
<1>7. Accounts!UniqueKeys(accounts)' /\ begun' \in 0..AccountRequests
  BY DEF AccountsInv, Accounts!UniqueKeys, Accounts!UniqueAppOfUser
<1> QED BY <1>2, <1>6, <1>7 DEF AccountsInv

LEMMA AccountsRestrict == \A f, s : Accounts!Restrict(f, s) = [x \in s |-> f[x]]
  BY DEF Accounts!Restrict

\* A person registers: the account and its identity are new.
LEMMA RegisterKeeps ==
    ASSUME AccountsInv, NEW r \in Requests, snap[r] # Accounts!Idle, Accounts!register_user(r)
    PROVE  /\ last' = [user |-> last.user + 1, identity |-> last.identity + 1]
           /\ last.user + 1 <= MaxUsers /\ UNCHANGED <<past, repeated>>
           /\ Registry(accounts)'
           /\ \A u \in DOMAIN accounts'.users \cap 1..last.user :
                 /\ u \in DOMAIN accounts.users
                 /\ accounts'.users[u].version = accounts.users[u].version
                 /\ Accounts!IdentitiesOf(accounts', u) \subseteq Accounts!IdentitiesOf(accounts, u)
           /\ \A u \in DOMAIN accounts'.users \ DOMAIN accounts.users :
                 accounts'.users[u].enabled = snap[r].setting.approve
           /\ snap[r].setting.open
<1> DEFINE u == last.user + 1
           i == last.identity + 1
           row == [version |-> 1, enabled |-> snap[r].setting.approve]
<1>1. PICK o \in Openids : accounts' = [accounts EXCEPT
         !.users = Accounts!WithRow(@, u, row),
         !.identities = Accounts!WithRow(@, i, [user |-> u, openid |-> o])]
  BY DEF Accounts!register_user, Accounts!Approved
<1>2. last' = [user |-> u, identity |-> i] /\ u <= MaxUsers /\ UNCHANGED <<past, repeated>>
      /\ snap[r].setting.open
  BY DEF Accounts!register_user
<1>3. snap[r].setting.approve \in BOOLEAN
  <2>1. snap[r].setting \in Settings
    BY DEF AccountsInv, Registry
  <2> QED BY <2>1, RegistrationFlags
<1>4. /\ accounts'.users = [x \in DOMAIN accounts.users \cup {u} |->
                              IF x = u THEN row ELSE accounts.users[x]]
      /\ accounts'.identities = [x \in DOMAIN accounts.identities \cup {i} |->
                              IF x = i THEN [user |-> u, openid |-> o] ELSE accounts.identities[x]]
      /\ accounts' = [users |-> accounts'.users, identities |-> accounts'.identities,
                      setting |-> accounts'.setting]
      /\ accounts'.setting = accounts.setting
  BY <1>1 DEF AccountsInv, Registry, Accounts!WithRow
<1>5. last.user \in Nat /\ last.identity \in Nat
      /\ DOMAIN accounts.users \subseteq 1..last.user
      /\ DOMAIN accounts.identities \subseteq 1..last.identity
  BY ServicesBounds DEF AccountsInv, Registry
<1>6. u \notin DOMAIN accounts.users /\ i \notin DOMAIN accounts.identities /\ u \notin 1..last.user
  BY <1>5
<1>7. Registry(accounts)'
  <2>1. DOMAIN accounts'.users \subseteq 1..last'.user
        /\ DOMAIN accounts'.identities \subseteq 1..last'.identity
    BY <1>2, <1>4, <1>5
  <2>2. \A x \in DOMAIN accounts'.users :
           /\ accounts'.users[x].version \in Nat \ {0} /\ accounts'.users[x].enabled \in BOOLEAN
           /\ accounts'.users[x] = [version |-> accounts'.users[x].version,
                                    enabled |-> accounts'.users[x].enabled]
    BY <1>3, <1>4 DEF AccountsInv, Registry
  <2>3. \A x \in DOMAIN accounts'.identities :
           /\ accounts'.identities[x].user \in DOMAIN accounts'.users
           /\ accounts'.identities[x].openid \in Openids
           /\ accounts'.identities[x] = [user |-> accounts'.identities[x].user,
                                         openid |-> accounts'.identities[x].openid]
    BY <1>4 DEF AccountsInv, Registry
  <2>4. /\ accounts'.users = [x \in DOMAIN accounts'.users |->
              [version |-> accounts'.users[x].version, enabled |-> accounts'.users[x].enabled]]
        /\ accounts'.identities = [x \in DOMAIN accounts'.identities |->
              [user |-> accounts'.identities[x].user, openid |-> accounts'.identities[x].openid]]
    BY <1>4, <2>2, <2>3
  <2>5. accounts'.setting \in past'
    BY <1>2, <1>4 DEF AccountsInv, Registry
  <2> HIDE DEF u, i, row
  <2> QED BY <1>4, <2>1, <2>2, <2>3, <2>4, <2>5 DEF Registry
<1>8. ASSUME NEW x \in DOMAIN accounts'.users \cap 1..last.user
      PROVE  /\ x \in DOMAIN accounts.users
             /\ accounts'.users[x].version = accounts.users[x].version
             /\ Accounts!IdentitiesOf(accounts', x) \subseteq Accounts!IdentitiesOf(accounts, x)
  <2>1. x # u /\ x \in DOMAIN accounts.users
    BY <1>4, <1>6, <1>8
  <2> HIDE DEF u, i
  <2> QED BY <1>4, <2>1 DEF Accounts!IdentitiesOf
<1>9. \A x \in DOMAIN accounts'.users \ DOMAIN accounts.users :
         accounts'.users[x].enabled = snap[r].setting.approve
  BY <1>4
<1> QED BY <1>2, <1>7, <1>8, <1>9

\* What the other operations leave: no new accounts or counters, versions that do not
\* fall unless the ghost tells, and no new identities for accounts that keep theirs.
Evolved ==
    /\ UNCHANGED last
    /\ Registry(accounts)'
    /\ DOMAIN accounts'.users \subseteq DOMAIN accounts.users
    /\ repeated => repeated'
    /\ ~repeated' => \A u \in DOMAIN accounts'.users :
          \/ accounts.users[u].version < accounts'.users[u].version
          \/ /\ accounts'.users[u].version = accounts.users[u].version
             /\ Accounts!IdentitiesOf(accounts', u) \subseteq Accounts!IdentitiesOf(accounts, u)

LEMMA UpdateAccountKeeps ==
    ASSUME AccountsInv, NEW r \in Requests, snap[r] # Accounts!Idle, Accounts!update_user(r)
    PROVE  Evolved /\ UNCHANGED past
<1>1. UNCHANGED <<last, past>>
  BY DEF Accounts!update_user
<1>2. PICK u \in DOMAIN snap[r].users \cap DOMAIN accounts.users, enabled \in BOOLEAN :
         /\ accounts' = [accounts EXCEPT !.users[u] =
               [version |-> snap[r].users[u].version + 1,
                enabled |-> IF enabled = snap[r].users[u].enabled THEN @.enabled ELSE enabled]]
         /\ repeated' = (repeated \/ snap[r].users[u].version < accounts.users[u].version)
  BY DEF Accounts!update_user, Accounts!Users
<1> DEFINE row == [version |-> snap[r].users[u].version + 1,
                   enabled |-> IF enabled = snap[r].users[u].enabled
                               THEN accounts.users[u].enabled ELSE enabled]
<1>3. /\ accounts' = [users |-> accounts'.users, identities |-> accounts'.identities,
                      setting |-> accounts'.setting]
      /\ accounts'.users = [accounts.users EXCEPT ![u] = row]
      /\ accounts'.identities = accounts.identities /\ accounts'.setting = accounts.setting
  BY <1>2 DEF AccountsInv, Registry
<1>4. /\ snap[r].users[u].version \in Nat /\ accounts.users[u].version \in Nat
      /\ accounts.users[u].enabled \in BOOLEAN
  <2>1. Registry(snap[r]) /\ Registry(accounts)
    BY DEF AccountsInv
  <2>2. u \in DOMAIN snap[r].users /\ u \in DOMAIN accounts.users
    BY <1>2
  <2> QED BY <2>1, <2>2 DEF Registry
<1>5. row.version \in Nat \ {0} /\ row.enabled \in BOOLEAN
      /\ row = [version |-> row.version, enabled |-> row.enabled]
  <2>1. CASE enabled = snap[r].users[u].enabled
    BY <1>4, <2>1
  <2>2. CASE enabled # snap[r].users[u].enabled
    BY <1>4, <2>2
  <2> QED BY <2>1, <2>2
<1>6. ~repeated' => accounts.users[u].version < row.version
  <2>1. ~repeated' => ~(snap[r].users[u].version < accounts.users[u].version)
    BY <1>2
  <2> QED BY <1>4, <2>1
<1> HIDE DEF row
<1>7. DOMAIN accounts'.users = DOMAIN accounts.users
      /\ \A x \in DOMAIN accounts.users :
            accounts'.users[x] = IF x = u THEN row ELSE accounts.users[x]
  BY <1>2, <1>3 DEF AccountsInv, Registry
<1>8. Registry(accounts)'
  <2>1. \A x \in DOMAIN accounts'.users :
           /\ accounts'.users[x].version \in Nat \ {0} /\ accounts'.users[x].enabled \in BOOLEAN
           /\ accounts'.users[x] = [version |-> accounts'.users[x].version,
                                    enabled |-> accounts'.users[x].enabled]
    BY <1>5, <1>7 DEF AccountsInv, Registry
  <2>2. accounts'.users = [x \in DOMAIN accounts'.users |-> accounts'.users[x]]
    <3>1. accounts.users = [x \in DOMAIN accounts.users |-> accounts.users[x]]
      BY DEF AccountsInv, Registry
    <3> QED BY <1>3, <3>1
  <2>3. accounts'.users = [x \in DOMAIN accounts'.users |->
            [version |-> accounts'.users[x].version, enabled |-> accounts'.users[x].enabled]]
    BY <2>1, <2>2
  <2> QED BY <1>1, <1>3, <1>7, <2>1, <2>3 DEF AccountsInv, Registry
<1>9. \A x : Accounts!IdentitiesOf(accounts', x) = Accounts!IdentitiesOf(accounts, x)
  BY <1>3 DEF Accounts!IdentitiesOf
<1> QED BY <1>1, <1>2, <1>6, <1>7, <1>8, <1>9 DEF Evolved

\* Tables d without the accounts us and the identities ids: the others are as they were.
Remaining(e, d, us, ids) ==
    /\ e = [users |-> e.users, identities |-> e.identities, setting |-> e.setting]
    /\ e.users = [u \in DOMAIN e.users |-> e.users[u]]
    /\ DOMAIN e.users = DOMAIN d.users \ us
    /\ \A u \in DOMAIN e.users : e.users[u] = d.users[u]
    /\ e.identities = [i \in DOMAIN e.identities |-> e.identities[i]]
    /\ \A i : i \in DOMAIN e.identities <=>
          i \in DOMAIN d.identities /\ i \notin ids /\ d.identities[i].user \notin us
    /\ \A i \in DOMAIN e.identities : e.identities[i] = d.identities[i]
    /\ e.setting = d.setting

LEMMA WithoutRows ==
    ASSUME NEW d, NEW us, NEW ids, NEW e, e = Accounts!Without(d, us, ids)
    PROVE  Remaining(e, d, us, ids)
<1> DEFINE gone == ids \cup UNION {Accounts!IdentitiesOf(d, u) : u \in us}
<1>1. DOMAIN d.identities \ gone
      = {j \in DOMAIN d.identities : j \notin ids /\ d.identities[j].user \notin us}
  BY DEF Accounts!IdentitiesOf
<1>2. e = [users |-> Accounts!Restrict(d.users, DOMAIN d.users \ us),
           identities |-> Accounts!Restrict(d.identities, DOMAIN d.identities \ gone),
           setting |-> d.setting]
  BY DEF Accounts!Without
<1> HIDE DEF gone
<1> QED BY <1>1, <1>2, AccountsRestrict DEF Remaining

LEMMA RegistryWithout ==
    ASSUME NEW d, Registry(d), NEW us, NEW ids, NEW e, e = Accounts!Without(d, us, ids)
    PROVE  Registry(e)
<1>1. Remaining(e, d, us, ids)
  BY WithoutRows
<1>2. \A u \in DOMAIN e.users : e.users[u] = d.users[u] /\ u \in DOMAIN d.users
      /\ e.users[u] = [version |-> e.users[u].version, enabled |-> e.users[u].enabled]
  BY <1>1 DEF Registry, Remaining
<1>3. \A i \in DOMAIN e.identities :
         /\ e.identities[i] = d.identities[i] /\ i \in DOMAIN d.identities
         /\ e.identities[i].user \in DOMAIN e.users
         /\ e.identities[i] = [user |-> e.identities[i].user, openid |-> e.identities[i].openid]
  BY <1>1 DEF Registry, Remaining
<1>4. e.users = [u \in DOMAIN e.users |-> e.users[u]]
      /\ e.identities = [i \in DOMAIN e.identities |-> e.identities[i]]
  BY <1>1 DEF Remaining
<1>5. e.users = [u \in DOMAIN e.users |->
            [version |-> e.users[u].version, enabled |-> e.users[u].enabled]]
  BY <1>2, <1>4
<1>6. e.identities = [i \in DOMAIN e.identities |->
            [user |-> e.identities[i].user, openid |-> e.identities[i].openid]]
  BY <1>3, <1>4
<1>7. /\ e = [users |-> e.users, identities |-> e.identities, setting |-> e.setting]
      /\ e.setting \in past
      /\ DOMAIN e.users \subseteq 1..last.user /\ DOMAIN e.identities \subseteq 1..last.identity
  BY <1>1, <1>2, <1>3 DEF Registry, Remaining
<1> QED BY <1>2, <1>3, <1>5, <1>6, <1>7 DEF Registry

LEMMA DeleteAccountKeeps ==
    ASSUME AccountsInv, NEW r \in Requests, snap[r] # Accounts!Idle, Accounts!delete_user(r)
    PROVE  Evolved /\ UNCHANGED past
<1>1. PICK us, ids : accounts' = Accounts!Without(accounts, us, ids)
  BY DEF Accounts!delete_user
<1>2. UNCHANGED <<last, past, repeated>>
  BY DEF Accounts!delete_user
<1>3. Registry(accounts') /\ Registry(accounts)
  BY <1>1, RegistryWithout DEF AccountsInv
<1>4. /\ DOMAIN accounts'.users = DOMAIN accounts.users \ us
      /\ \A u \in DOMAIN accounts'.users : accounts'.users[u] = accounts.users[u]
      /\ \A i \in DOMAIN accounts'.identities :
            i \in DOMAIN accounts.identities /\ accounts'.identities[i] = accounts.identities[i]
  <2>1. Remaining(accounts', accounts, us, ids)
    BY <1>1, WithoutRows
  <2> QED BY <2>1 DEF Remaining
<1>5. \A x : Accounts!IdentitiesOf(accounts', x) \subseteq Accounts!IdentitiesOf(accounts, x)
  BY <1>4 DEF Accounts!IdentitiesOf
<1>6. Registry(accounts)'
  BY <1>2, <1>3 DEF Registry
<1> QED BY <1>2, <1>4, <1>5, <1>6 DEF Evolved

\* What a merge writes, as long as both accounts are as the request saw them.
LEMMA MergeKeeps ==
    ASSUME AccountsInv, NEW r \in Requests, snap[r] # Accounts!Idle, Accounts!merge_users(r)
    PROVE  /\ Evolved /\ UNCHANGED past
           /\ ~repeated => Accounts!OpenidsOf(accounts') = Accounts!OpenidsOf(accounts)
<1>1. UNCHANGED <<last, past, repeated>>
  BY DEF Accounts!merge_users
<1>2. PICK target, source \in DOMAIN snap[r].users :
         LET moved == Accounts!IdentitiesOf(snap[r], source)
             joined == [i \in DOMAIN accounts.identities |->
                          [user |-> IF i \in moved THEN target ELSE accounts.identities[i].user,
                           openid |-> accounts.identities[i].openid]]
         IN  /\ target # source
             /\ Accounts!LockedAsSeen(r, {target, source})
             /\ moved \subseteq DOMAIN accounts.identities
             /\ accounts' = Accounts!Without([accounts EXCEPT !.identities = joined,
                                                !.users[target].version = @ + 1], {source}, {})
  BY DEF Accounts!merge_users, Accounts!Users
<1> DEFINE moved == Accounts!IdentitiesOf(snap[r], source)
           joined == [i \in DOMAIN accounts.identities |->
                        [user |-> IF i \in moved THEN target ELSE accounts.identities[i].user,
                         openid |-> accounts.identities[i].openid]]
<1>0. PICK d : d = [accounts EXCEPT !.identities = joined, !.users[target].version = @ + 1]
  OBVIOUS
<1>3. /\ target # source /\ {target, source} \subseteq DOMAIN accounts.users
      /\ accounts.users[source].version = snap[r].users[source].version
      /\ accounts' = Accounts!Without(d, {source}, {})
  BY <1>2, <1>0 DEF Accounts!LockedAsSeen, Accounts!Users
<1>4. /\ DOMAIN joined = DOMAIN accounts.identities
      /\ \A i \in DOMAIN accounts.identities :
            /\ joined[i].user = IF i \in moved THEN target ELSE accounts.identities[i].user
            /\ joined[i].openid = accounts.identities[i].openid
            /\ joined[i] = [user |-> joined[i].user, openid |-> joined[i].openid]
      /\ joined = [i \in DOMAIN joined |-> joined[i]]
  OBVIOUS
<1> HIDE DEF joined, moved
<1>5. /\ d = [users |-> d.users, identities |-> d.identities, setting |-> d.setting]
      /\ d.users = [accounts.users EXCEPT ![target].version = @ + 1]
      /\ d.identities = joined /\ d.setting = accounts.setting
  <2>1. accounts = [users |-> accounts.users, identities |-> accounts.identities,
                    setting |-> accounts.setting]
    BY DEF AccountsInv, Registry
  <2> QED BY <1>0, <2>1
<1>6. /\ DOMAIN d.users = DOMAIN accounts.users
      /\ \A u \in DOMAIN accounts.users :
            /\ d.users[u].version = IF u = target THEN accounts.users[u].version + 1
                                    ELSE accounts.users[u].version
            /\ d.users[u].enabled = accounts.users[u].enabled
            /\ d.users[u] = [version |-> d.users[u].version, enabled |-> d.users[u].enabled]
      /\ d.users = [u \in DOMAIN d.users |-> d.users[u]]
  <2>1. accounts.users[target]
        = [version |-> accounts.users[target].version, enabled |-> accounts.users[target].enabled]
    BY <1>3 DEF AccountsInv, Registry
  <2>2. \A u \in DOMAIN accounts.users :
           accounts.users[u]
           = [version |-> accounts.users[u].version, enabled |-> accounts.users[u].enabled]
    BY DEF AccountsInv, Registry
  <2> QED BY <1>3, <1>5, <2>1, <2>2
<1>7. Registry(d)
  <2>1. \A u \in DOMAIN d.users :
           d.users[u] = [version |-> d.users[u].version, enabled |-> d.users[u].enabled]
    BY <1>6
  <2>5. d.users = [u \in DOMAIN d.users |->
                     [version |-> d.users[u].version, enabled |-> d.users[u].enabled]]
    BY <1>6, <2>1
  <2>6. d.identities = [i \in DOMAIN d.identities |->
                     [user |-> d.identities[i].user, openid |-> d.identities[i].openid]]
    <3>1. \A i \in DOMAIN joined : joined[i] = [user |-> joined[i].user, openid |-> joined[i].openid]
      BY <1>4
    <3>2. joined = [i \in DOMAIN joined |-> joined[i]]
      BY <1>4
    <3> QED BY <1>5, <3>1, <3>2
  <2>2. \A u \in DOMAIN d.users :
           d.users[u].version \in Nat \ {0} /\ d.users[u].enabled \in BOOLEAN
    <3>1. \A u \in DOMAIN accounts.users :
             accounts.users[u].version \in Nat \ {0} /\ accounts.users[u].enabled \in BOOLEAN
      BY DEF AccountsInv, Registry
    <3>2. \A u \in DOMAIN accounts.users : d.users[u].enabled \in BOOLEAN
      <4>1. \A u \in DOMAIN accounts.users : d.users[u].enabled = accounts.users[u].enabled
        BY <1>6
      <4> QED BY <3>1, <4>1
    <3>3. \A u \in DOMAIN accounts.users : d.users[u].version \in Nat \ {0}
      <4>1. \A u \in DOMAIN accounts.users :
               d.users[u].version = IF u = target THEN accounts.users[u].version + 1
                                    ELSE accounts.users[u].version
        BY <1>6
      <4>2. \A u \in DOMAIN accounts.users : accounts.users[u].version \in Nat \ {0}
        BY <3>1
      <4> QED BY <4>1, <4>2
    <3> QED BY <1>6, <3>2, <3>3
  <2>3. \A i \in DOMAIN d.identities :
           d.identities[i].user \in DOMAIN d.users /\ d.identities[i].openid \in Openids
    <3>1. \A i \in DOMAIN accounts.identities :
             /\ accounts.identities[i].user \in DOMAIN accounts.users
             /\ accounts.identities[i].openid \in Openids
      BY DEF AccountsInv, Registry
    <3>2. target \in DOMAIN accounts.users
      BY <1>3
    <3> QED BY <1>4, <1>5, <1>6, <3>1, <3>2
  <2>4. DOMAIN d.users \subseteq 1..last.user /\ DOMAIN d.identities \subseteq 1..last.identity
        /\ d.setting \in past
    BY <1>4, <1>5, <1>6 DEF AccountsInv, Registry
  <2> QED BY <1>5, <2>5, <2>6, <2>2, <2>3, <2>4 DEF Registry
<1>8. Registry(accounts') /\ Registry(accounts)'
  <2>1. Registry(accounts')
    BY <1>3, <1>7, RegistryWithout
  <2> QED BY <1>1, <2>1 DEF Registry
<1>9. /\ DOMAIN accounts'.users = DOMAIN d.users \ {source}
      /\ \A u \in DOMAIN accounts'.users : accounts'.users[u] = d.users[u]
      /\ \A i : i \in DOMAIN accounts'.identities <=>
            i \in DOMAIN d.identities /\ d.identities[i].user # source
      /\ \A i \in DOMAIN accounts'.identities : accounts'.identities[i] = d.identities[i]
  <2>1. Remaining(accounts', d, {source}, {})
    BY <1>3, WithoutRows
  <2> QED BY <2>1 DEF Remaining
<1>10. \A u \in DOMAIN accounts'.users :
          /\ u \in DOMAIN accounts.users /\ accounts.users[u].version \in Nat
          /\ IF u = target THEN accounts'.users[u].version = accounts.users[u].version + 1
             ELSE /\ accounts'.users[u].version = accounts.users[u].version
                  /\ Accounts!IdentitiesOf(accounts', u) \subseteq Accounts!IdentitiesOf(accounts, u)
  <2>1. \A u \in DOMAIN accounts'.users :
          /\ u \in DOMAIN accounts.users /\ accounts.users[u].version \in Nat
          /\ accounts'.users[u].version = IF u = target THEN accounts.users[u].version + 1
                                          ELSE accounts.users[u].version
    <3>1. \A u \in DOMAIN accounts.users : accounts.users[u].version \in Nat
      BY DEF AccountsInv, Registry
    <3>2. \A u \in DOMAIN accounts'.users :
             u \in DOMAIN d.users /\ accounts'.users[u] = d.users[u]
      BY <1>9
    <3> QED BY <1>6, <3>1, <3>2
  <2>2. \A i \in DOMAIN accounts'.identities :
           /\ i \in DOMAIN accounts.identities
           /\ accounts'.identities[i].user # target =>
                 accounts'.identities[i].user = accounts.identities[i].user
    <3>1. \A i \in DOMAIN accounts'.identities :
             i \in DOMAIN joined /\ accounts'.identities[i] = joined[i]
      BY <1>5, <1>9
    <3> QED BY <1>4, <3>1
  <2>3. \A u : u # target =>
           Accounts!IdentitiesOf(accounts', u) \subseteq Accounts!IdentitiesOf(accounts, u)
    BY <2>2 DEF Accounts!IdentitiesOf
  <2> QED BY <2>1, <2>3
<1>11. Evolved
  BY <1>1, <1>8, <1>10 DEF Evolved
<1>12. ASSUME ~repeated
       PROVE  Accounts!OpenidsOf(accounts') = Accounts!OpenidsOf(accounts)
  <2>1. Accounts!IdentitiesOf(accounts, source) \subseteq moved
    BY <1>3, <1>12 DEF AccountsInv, SeenIdentities, moved
  <2>2. Accounts!IdentitiesOf(d, source) = {}
    <3>1. ASSUME NEW i \in DOMAIN d.identities, d.identities[i].user = source
          PROVE  FALSE
      <4>1. i \in DOMAIN accounts.identities /\ i \notin moved
            /\ accounts.identities[i].user = source
        BY <1>3, <1>4, <1>5, <3>1
      <4> QED BY <2>1, <4>1 DEF Accounts!IdentitiesOf
    <3> QED BY <3>1 DEF Accounts!IdentitiesOf
  <2>3. /\ DOMAIN accounts'.identities = DOMAIN accounts.identities
        /\ \A i \in DOMAIN accounts.identities :
              accounts'.identities[i].openid = accounts.identities[i].openid
    <3>1. \A i \in DOMAIN d.identities : d.identities[i].user # source
      BY <2>2 DEF Accounts!IdentitiesOf
    <3>2. DOMAIN accounts'.identities = DOMAIN d.identities
      BY <1>9, <3>1
    <3> QED BY <1>4, <1>5, <1>9, <3>2
  <2> QED BY <2>3 DEF Accounts!OpenidsOf
<1> QED BY <1>1, <1>11, <1>12

LEMMA RegistrationSettingKeeps ==
    ASSUME AccountsInv, NEW r \in Requests, snap[r] # Accounts!Idle, Accounts!update_setting(r)
    PROVE  Evolved /\ past \subseteq past' /\ past' \subseteq Settings
<1>1. PICK s \in Settings : accounts' = [accounts EXCEPT !.setting = s] /\ past' = past \cup {s}
  BY DEF Accounts!update_setting
<1>2. UNCHANGED <<last, repeated>>
  BY DEF Accounts!update_setting
<1>3. /\ accounts' = [users |-> accounts'.users, identities |-> accounts'.identities,
                      setting |-> accounts'.setting]
      /\ accounts'.users = accounts.users /\ accounts'.identities = accounts.identities
      /\ accounts'.setting = s
  BY <1>1 DEF AccountsInv, Registry
<1>4. Registry(accounts)'
  BY <1>1, <1>2, <1>3 DEF AccountsInv, Registry
<1>5. \A x : Accounts!IdentitiesOf(accounts', x) = Accounts!IdentitiesOf(accounts, x)
  BY <1>3 DEF Accounts!IdentitiesOf
<1> QED BY <1>1, <1>2, <1>3, <1>4, <1>5 DEF AccountsInv, Evolved

LEMMA AccountsStep == AccountsInv /\ [Accounts!Next]_(Accounts!vars) => AccountsInv'
<1> SUFFICES ASSUME AccountsInv, [Accounts!Next]_(Accounts!vars)
             PROVE  AccountsInv'
  OBVIOUS
<1>1. ASSUME NEW r \in Requests, Accounts!Begin(r) \/ Accounts!End(r)
      PROVE  AccountsInv'
  <2>1. UNCHANGED <<accounts, last, past, repeated>> /\ begun' \in 0..AccountRequests
    BY <1>1, ServicesBounds DEF Accounts!Begin, Accounts!End, AccountsInv
  <2>2. /\ snap' = [q \in Requests |-> snap'[q]]
        /\ \A q \in Requests : snap'[q] \in {snap[q], accounts, Accounts!Idle}
    BY <1>1 DEF Accounts!Begin, Accounts!End, AccountsInv
  <2>3. Registry(accounts) /\ SeenIdentities(accounts)
    BY DEF AccountsInv, Registry, SeenIdentities
  <2>4. ASSUME NEW q \in Requests, snap'[q] # Accounts!Idle
        PROVE  Registry(snap[q])' /\ (~repeated' => SeenIdentities(snap[q])')
    <3>1. PICK d : d = snap'[q]
      OBVIOUS
    <3>2. Registry(d) /\ (~repeated => SeenIdentities(d))
      BY <2>2, <2>3, <2>4, <3>1 DEF AccountsInv
    <3> QED BY <2>1, <3>1, <3>2 DEF Registry, SeenIdentities
  <2>5. Registry(accounts)' /\ Accounts!UniqueKeys(accounts)'
    BY <2>1, <2>3 DEF AccountsInv, Registry, Accounts!UniqueKeys, Accounts!UniqueAppOfUser
  <2> QED BY <2>1, <2>2, <2>4, <2>5 DEF AccountsInv
<1>2. ASSUME NEW r \in Requests, Accounts!Commit(r)
      PROVE  AccountsInv'
  <2>1. /\ snap[r] # Accounts!Idle /\ Accounts!UniqueKeys(accounts')
        /\ snap' = [snap EXCEPT ![r] = Accounts!Idle] /\ UNCHANGED begun
    BY <1>2 DEF Accounts!Commit
  <2>2. /\ last = [user |-> last.user, identity |-> last.identity]
        /\ last.user \in 0..MaxUsers /\ last.identity \in Nat /\ past \subseteq Settings
        /\ MaxUsers \in Nat
    BY ServicesBounds DEF AccountsInv
  <2>3. CASE Accounts!register_user(r)
    <3>1. /\ last' = [user |-> last.user + 1, identity |-> last.identity + 1]
          /\ last.user + 1 <= MaxUsers /\ UNCHANGED <<past, repeated>>
          /\ Registry(accounts)'
          /\ \A u \in DOMAIN accounts'.users \cap 1..last.user :
                /\ u \in DOMAIN accounts.users
                /\ accounts'.users[u].version = accounts.users[u].version
                /\ Accounts!IdentitiesOf(accounts', u) \subseteq Accounts!IdentitiesOf(accounts, u)
      BY <2>1, <2>3, RegisterKeeps
    <3>2. /\ last'.user \in 0..MaxUsers /\ last'.identity \in Nat
          /\ last.user <= last'.user /\ last.identity <= last'.identity
          /\ last' = [user |-> last'.user, identity |-> last'.identity]
      BY <2>2, <3>1
    <3> QED BY <2>1, <2>2, <3>1, <3>2, CommitStep
  <2>4. CASE \/ Accounts!update_user(r) \/ Accounts!delete_user(r) \/ Accounts!merge_users(r)
             \/ Accounts!update_setting(r)
    <3>1. Evolved /\ past \subseteq past' /\ past' \subseteq Settings
      BY <2>1, <2>2, <2>4, UpdateAccountKeeps, DeleteAccountKeeps, MergeKeeps,
         RegistrationSettingKeeps
    <3>2. last.user <= last.user /\ last.identity <= last.identity
      BY <2>2
    <3> QED BY <2>1, <2>2, <3>1, <3>2, CommitStep DEF Evolved
  <2> QED BY <1>2, <2>3, <2>4 DEF Accounts!Commit
<1>3. CASE UNCHANGED Accounts!vars
  <2> USE <1>3 DEF Accounts!vars
  <2>1. Registry(accounts)' /\ Accounts!UniqueKeys(accounts)'
    BY DEF AccountsInv, Registry, Accounts!UniqueKeys, Accounts!UniqueAppOfUser
  <2>2. ASSUME NEW q \in Requests, snap'[q] # Accounts!Idle
        PROVE  Registry(snap[q])' /\ (~repeated' => SeenIdentities(snap[q])')
    <3>1. Registry(snap[q]) /\ (~repeated => SeenIdentities(snap[q]))
      BY <2>2 DEF AccountsInv
    <3> QED BY <3>1 DEF Registry, SeenIdentities
  <2>3. snap' = [r \in Requests |-> snap'[r]]
    BY DEF AccountsInv
  <2> QED BY <2>1, <2>2, <2>3 DEF AccountsInv
<1> QED BY <1>1, <1>2, <1>3 DEF Accounts!Next

LEMMA AccountsAlways == Accounts!Spec => []AccountsInv
  BY AccountsInit, AccountsStep, PTL DEF Accounts!Spec

\* A new account starts as one settings that were in force have it: registration was open in
\* them, and they decide whether the account is enabled.
THEOREM NewAccountsFollowSettings == Accounts!Spec => NewAccountFollowsSetting
<1>1. ASSUME AccountsInv, [Accounts!Next]_(Accounts!vars)
      PROVE  [\A u \in Accounts!Users(accounts') \ Accounts!Users(accounts) :
                 \E s \in past : s.open /\ accounts'.users[u].enabled = s.approve]_(Accounts!vars)
  <2> SUFFICES ASSUME ~ UNCHANGED Accounts!vars,
                      NEW u \in DOMAIN accounts'.users \ DOMAIN accounts.users
               PROVE  \E s \in past : s.open /\ accounts'.users[u].enabled = s.approve
    BY DEF Accounts!Users
  <2>1. PICK r \in Requests : Accounts!Commit(r)
    BY <1>1 DEF Accounts!Next, Accounts!Begin, Accounts!End
  <2>2. snap[r] # Accounts!Idle
    BY <2>1 DEF Accounts!Commit
  <2>3. CASE Accounts!register_user(r)
    <3>1. accounts'.users[u].enabled = snap[r].setting.approve /\ snap[r].setting.open
      BY <1>1, <2>2, <2>3, RegisterKeeps
    <3>2. snap[r].setting \in past
      BY <1>1, <2>2 DEF AccountsInv, Registry
    <3> QED BY <3>1, <3>2
  <2>4. CASE \/ Accounts!update_user(r) \/ Accounts!delete_user(r) \/ Accounts!merge_users(r)
             \/ Accounts!update_setting(r)
    <3>1. Evolved
      BY <1>1, <2>2, <2>4, UpdateAccountKeeps, DeleteAccountKeeps, MergeKeeps,
         RegistrationSettingKeeps
    <3> QED BY <3>1 DEF Evolved
  <2> QED BY <2>1, <2>3, <2>4 DEF Accounts!Commit
<1> QED BY <1>1, AccountsAlways, PTL
        DEF Accounts!Spec, NewAccountFollowsSetting, Accounts!NewAccountFollowsSetting

\* A merge loses no identity, whatever overlaps with it, until an edit writes a version twice.
THEOREM MergesKeepIdentities == Accounts!Spec => MergeKeepsIdentities
<1>1. AccountsInv => ((\E r \in Requests : Accounts!Merge(r)) /\ ~repeated =>
                         Accounts!OpenidsOf(accounts') = Accounts!OpenidsOf(accounts))
  BY MergeKeeps DEF Accounts!Merge
<1> QED BY <1>1, AccountsAlways, PTL
        DEF MergeKeepsIdentities, Accounts!MergeKeepsIdentities

LEMMA AccountsTypeOK == AccountsInv => Accounts!TypeOK
  BY DEF AccountsInv, Registry, Accounts!TypeOK, Accounts!Users, Accounts!UniqueKeys,
         Accounts!UniqueAppOfUser

-----------------------------------------------------------------------------
(* AI search.                                                               *)

\* Settings as a request may have read them: of a version that was committed with them.
Seen(x) ==
    /\ x = [version |-> x.version, config |-> x.config, row |-> x.row]
    /\ x.version \in Nat /\ x.config \in Configs \cup {Off}
    /\ <<x.version, x.config>> \in saved

\* What a search remembers; it asks only an AI service that is configured.
SearchRequest(x) ==
    \/ x = [pc |-> "idle"]
    \/ x = [pc |-> "begun", terms |-> x.terms, seen |-> x.seen] /\ Seen(x.seen)
    \/ /\ x = [pc |-> "asking", terms |-> x.terms, seen |-> x.seen, at |-> x.at]
       /\ Seen(x.seen) /\ x.seen.config # Off /\ x.at \in 0..searchClock

\* What a form remembers.
Form(x) ==
    \/ x = [pc |-> "idle"]
    \/ x = [pc |-> "begun", seen |-> x.seen] /\ Seen(x.seen)
    \/ /\ x = [pc |-> "written", new |-> x.new]
       /\ x.new = [version |-> x.new.version, config |-> x.new.config, row |-> TRUE]
       /\ x.new.version \in Nat /\ x.new.config \in Configs \cup {Off}

\* An expansion in the cache was made under settings of the version in its key.
Entry(e) ==
    /\ e.at \in 0..searchClock /\ e.config \in Configs
    /\ <<e.key[1], e.config>> \in saved

SearchInv ==
    /\ Seen(setting)
    /\ search = [s \in Searches |-> search[s]] /\ \A s \in Searches : SearchRequest(search[s])
    /\ admin = [a \in Admins |-> admin[a]] /\ \A a \in Admins : Form(admin[a])
    /\ saves \in 0..MaxSaves /\ searchClock \in Nat
    /\ cache \in Seq(Range(cache)) /\ Len(cache) <= MaxCached
    /\ \A i \in 1..Len(cache) : Entry(cache[i])
    /\ \A i, j \in 1..Len(cache) : cache[i].key = cache[j].key => i = j

LEMMA SearchInit == Search!Init => SearchInv
<1> SUFFICES ASSUME Search!Init PROVE SearchInv
  OBVIOUS
<1>1. cache = << >> /\ saves = 0 /\ searchClock = 0 /\ MaxSaves \in Nat /\ MaxCached \in Nat
  BY ServicesBounds DEF Search!Init
<1>2. Seen(setting)
  BY DEF Search!Init, Seen
<1>3. /\ search = [s \in Searches |-> search[s]] /\ \A s \in Searches : search[s] = [pc |-> "idle"]
      /\ admin = [a \in Admins |-> admin[a]] /\ \A a \in Admins : admin[a] = [pc |-> "idle"]
  BY DEF Search!Init
<1>4. (\A s \in Searches : SearchRequest(search[s])) /\ (\A a \in Admins : Form(admin[a]))
  BY <1>3 DEF SearchRequest, Form
<1>5. cache \in Seq(Range(cache)) /\ Len(cache) = 0 /\ 1..Len(cache) = {}
  BY <1>1
<1>6. 0 \in 0..MaxSaves /\ 0 \in Nat /\ 0 <= MaxCached
  BY <1>1
<1> QED BY <1>1, <1>2, <1>3, <1>4, <1>5, <1>6 DEF SearchInv

\* Settings that were read stay ones that were committed.
LEMMA SeenStays ==
    ASSUME NEW x, Seen(x), saved \subseteq saved'
    PROVE  Seen(x)'
  BY DEF Seen

\* The cache keeps what it holds, or takes one entry in, or is emptied.
LEMMA InsertedEntry ==
    ASSUME SearchInv, NEW e, Entry(e)
    PROVE  LET c == Search!Inserted(e)
           IN  /\ c \in Seq(Range(c)) /\ Len(c) <= MaxCached
               /\ \A i \in 1..Len(c) : Entry(c[i])
               /\ \A i, j \in 1..Len(c) : c[i].key = c[j].key => i = j
<1>1. PICK c : c = Search!Inserted(e)
  OBVIOUS
<1>2. Len(cache) \in Nat /\ DOMAIN cache = 1..Len(cache) /\ cache \in Seq(Range(cache))
  BY DEF SearchInv
<1>3. CASE Search!Entries(e.key) # {}
  <2>1. c = [i \in DOMAIN cache |-> IF i \in Search!Entries(e.key) THEN e ELSE cache[i]]
    BY <1>1, <1>3 DEF Search!Inserted
  <2>2. DOMAIN c = 1..Len(cache) /\ c \in Seq(Range(c)) /\ Len(c) = Len(cache)
    BY <1>2, <2>1 DEF Range
  <2>3. \A i \in 1..Len(cache) : (c[i] = e /\ cache[i].key = e.key) \/ c[i] = cache[i]
    BY <1>2, <2>1 DEF Search!Entries
  <2> QED BY <1>1, <1>2, <2>2, <2>3 DEF SearchInv
<1>4. CASE Search!Entries(e.key) = {}
  <2>1. MaxCached \in Nat \ {0}
    BY ServicesBounds
  <2>2. PICK b : b = IF Len(cache) >= MaxCached THEN Tail(cache) ELSE cache
    OBVIOUS
  <2>3. c = Append(b, e)
    BY <1>1, <1>4, <2>2 DEF Search!Inserted
  <2>4. \A i \in 1..Len(cache) : cache[i].key # e.key
    BY <1>2, <1>4 DEF Search!Entries
  <2>5. Len(cache) <= MaxCached
    BY DEF SearchInv
  <2>6. PICK k \in {0, 1} :
           /\ b \in Seq(Range(cache)) /\ Len(b) = Len(cache) - k /\ Len(b) < MaxCached
           /\ k <= Len(cache)
           /\ \A i \in 1..Len(b) : b[i] = cache[i + k]
    <3>1. CASE Len(cache) >= MaxCached
      <4>1. b = Tail(cache) /\ Len(cache) \in Nat \ {0} /\ cache # <<>>
        BY <1>2, <2>1, <2>2, <3>1
      <4>2. b \in Seq(Range(cache)) /\ Len(b) = Len(cache) - 1
            /\ \A i \in 1..Len(b) : b[i] = cache[i + 1]
        BY <1>2, <4>1
      <4>3. Len(b) < MaxCached /\ 1 <= Len(cache)
        BY <1>2, <2>1, <2>5, <4>1, <4>2
      <4> QED BY <4>2, <4>3
    <3>2. CASE ~(Len(cache) >= MaxCached)
      <4>1. b = cache /\ Len(b) = Len(cache) - 0 /\ Len(b) < MaxCached /\ 0 <= Len(cache)
        BY <1>2, <2>1, <2>2, <3>2
      <4>2. \A i \in 1..Len(b) : b[i] = cache[i + 0]
        BY <1>2, <4>1
      <4> QED BY <1>2, <4>1, <4>2
    <3> QED BY <3>1, <3>2
  <2>7. /\ Len(c) = Len(b) + 1 /\ c[Len(c)] = e
        /\ \A i \in 1..Len(b) : c[i] = b[i]
    BY <2>3, <2>6
  <2>8. \A i \in 1..Len(c) : \/ i = Len(c) /\ c[i] = e
                             \/ i + k \in 1..Len(cache) /\ c[i] = cache[i + k]
    BY <1>2, <2>6, <2>7
  <2>9. c \in Seq(Range(c))
    <3>1. c \in Seq(Range(cache) \cup {e})
      BY <2>3, <2>6
    <3>2. c = [i \in 1..Len(c) |-> c[i]] /\ Len(c) \in Nat
      BY <3>1
    <3> QED BY <3>2 DEF Range
  <2>10. Len(c) <= MaxCached
    BY <1>2, <2>1, <2>6, <2>7
  <2>11. \A i \in 1..Len(c) : Entry(c[i])
    BY <2>8 DEF SearchInv
  <2>12. ASSUME NEW i \in 1..Len(c), NEW j \in 1..Len(c), c[i].key = c[j].key
         PROVE  i = j
    BY <1>2, <2>4, <2>8, <2>12 DEF SearchInv
  <2> QED BY <1>1, <2>9, <2>10, <2>11, <2>12
<1> QED BY <1>3, <1>4

\* A search goes on.
LEMMA SearchStep ==
    ASSUME SearchInv, NEW s \in Searches, NEW x, search' = [search EXCEPT ![s] = x],
           SearchRequest(x), UNCHANGED <<setting, admin, saves, searchClock, saved>>,
           cache' \in Seq(Range(cache')), Len(cache') <= MaxCached,
           \A i \in 1..Len(cache') : Entry(cache'[i]),
           \A i, j \in 1..Len(cache') : cache'[i].key = cache'[j].key => i = j
    PROVE  SearchInv'
<1>1. (\A q \in Searches : SearchRequest(search[q]))'
  BY DEF SearchInv, SearchRequest, Seen
<1>2. (\A i \in 1..Len(cache) : Entry(cache[i]))'
  BY DEF Entry
<1>3. Seen(setting)' /\ (\A a \in Admins : Form(admin[a]))'
  BY DEF SearchInv, Form, Seen
<1>4. search' = [q \in Searches |-> search'[q]]
  BY DEF SearchInv
<1> QED BY <1>1, <1>2, <1>3, <1>4 DEF SearchInv

\* A form goes on; settings may be committed and the cache emptied.
LEMMA FormStep ==
    ASSUME SearchInv, NEW a \in Admins, NEW x, admin' = [admin EXCEPT ![a] = x],
           Form(x)', Seen(setting)', saves' \in 0..MaxSaves, saved \subseteq saved',
           UNCHANGED <<search, searchClock>>, UNCHANGED cache \/ cache' = <<>>
    PROVE  SearchInv'
<1>1. (\A b \in Admins : Form(admin[b]))'
  <2>1. \A y : Form(y) => Form(y)'
    BY SeenStays DEF Form
  <2> QED BY <2>1 DEF SearchInv, Form
<1>2. (\A s \in Searches : SearchRequest(search[s]))'
  BY SeenStays DEF SearchInv, SearchRequest
<1>3. /\ cache' \in Seq(Range(cache')) /\ Len(cache') <= MaxCached
      /\ \A i, j \in 1..Len(cache') : cache'[i].key = cache'[j].key => i = j
      /\ (\A i \in 1..Len(cache) : Entry(cache[i]))'
  <2>1. CASE UNCHANGED cache
    BY <2>1 DEF SearchInv, Entry
  <2>2. CASE cache' = <<>>
    BY <2>2, ServicesBounds
  <2> QED BY <2>1, <2>2
<1>4. admin' = [b \in Admins |-> admin'[b]]
  BY DEF SearchInv
<1> QED BY <1>1, <1>2, <1>3, <1>4 DEF SearchInv

LEMMA SearchesStep == SearchInv /\ [Search!Next]_(Search!vars) => SearchInv'
<1> SUFFICES ASSUME SearchInv, [Search!Next]_(Search!vars)
             PROVE  SearchInv'
  OBVIOUS
<1>0. /\ cache \in Seq(Range(cache)) /\ Len(cache) <= MaxCached
      /\ \A i \in 1..Len(cache) : Entry(cache[i])
      /\ \A i, j \in 1..Len(cache) : cache[i].key = cache[j].key => i = j
  BY DEF SearchInv
<1>1. ASSUME NEW s \in Searches, Search!Begin(s) \/ Search!Unavailable(s) \/ Search!FromCache(s)
                                 \/ Search!Ask(s) \/ Search!AskFails(s)
      PROVE  SearchInv'
  <2>1. UNCHANGED <<setting, cache, admin, saves, searchClock, saved>>
    BY <1>1 DEF Search!Begin, Search!Unavailable, Search!FromCache, Search!Ask, Search!AskFails
  <2>2. PICK x : search' = [search EXCEPT ![s] = x] /\ SearchRequest(x)
    <3>1. CASE Search!Begin(s)
      <4>1. PICK t \in Terms :
               search' = [search EXCEPT ![s] = [pc |-> "begun", terms |-> t, seen |-> setting]]
        BY <3>1 DEF Search!Begin
      <4>2. SearchRequest([pc |-> "begun", terms |-> t, seen |-> setting])
        BY DEF SearchRequest, SearchInv
      <4> QED BY <4>1, <4>2
    <3>2. CASE Search!Unavailable(s) \/ Search!FromCache(s) \/ Search!AskFails(s)
      <4>1. search' = [search EXCEPT ![s] = [pc |-> "idle"]]
        BY <3>2 DEF Search!Unavailable, Search!FromCache, Search!AskFails, Search!Answered
      <4>2. SearchRequest([pc |-> "idle"])
        BY DEF SearchRequest
      <4> QED BY <4>1, <4>2
    <3>3. CASE Search!Ask(s)
      <4> DEFINE x == [pc |-> "asking", terms |-> search[s].terms, seen |-> search[s].seen,
                       at |-> searchClock]
      <4>1. search' = [search EXCEPT ![s] = x]
        BY <3>3 DEF Search!Ask, SearchInv
      <4>2. SearchRequest(x)
        BY <3>3 DEF Search!Ask, SearchInv, SearchRequest
      <4> QED BY <4>1, <4>2
    <3> QED BY <1>1, <3>1, <3>2, <3>3
  <2> QED BY <1>0, <2>1, <2>2, SearchStep DEF Entry
<1>2. ASSUME NEW s \in Searches, Search!request_expansions(s)
      PROVE  SearchInv'
  <2> DEFINE e == [key |-> Search!CacheKey(search[s].seen.version, search[s].terms),
                   at |-> search[s].at, config |-> search[s].seen.config]
  <2>1. /\ cache' = Search!Inserted(e) /\ search' = [search EXCEPT ![s] = [pc |-> "idle"]]
        /\ UNCHANGED <<setting, admin, saves, searchClock, saved>> /\ search[s].pc = "asking"
    BY <1>2 DEF Search!request_expansions, Search!Answered
  <2>2. Entry(e)
    <3>1. /\ Seen(search[s].seen) /\ search[s].seen.config # Off
          /\ search[s].at \in 0..searchClock
      BY <2>1 DEF SearchInv, SearchRequest
    <3> QED BY <3>1 DEF Seen, Entry, Search!CacheKey
  <2>3. SearchRequest([pc |-> "idle"])
    BY DEF SearchRequest
  <2> HIDE DEF e
  <2>4. /\ cache' \in Seq(Range(cache')) /\ Len(cache') <= MaxCached
        /\ \A i \in 1..Len(cache') : Entry(cache'[i])
        /\ \A i, j \in 1..Len(cache') : cache'[i].key = cache'[j].key => i = j
    BY <2>1, <2>2, InsertedEntry
  <2> QED BY <2>1, <2>3, <2>4, SearchStep
<1>3. ASSUME NEW a \in Admins, Search!BeginSave(a) \/ Search!update_setting(a)
                               \/ Search!CommitSave(a) \/ Search!SaveFails(a)
      PROVE  SearchInv'
  <2>1. /\ saves' \in 0..MaxSaves /\ saved \subseteq saved' /\ UNCHANGED <<search, searchClock>>
        /\ UNCHANGED cache \/ cache' = <<>>
    <3>1. saves \in 0..MaxSaves /\ MaxSaves \in Nat
      BY ServicesBounds DEF SearchInv
    <3>2. CASE Search!BeginSave(a)
      BY <3>1, <3>2 DEF Search!BeginSave
    <3>3. CASE Search!update_setting(a) \/ Search!CommitSave(a) \/ Search!SaveFails(a)
      BY <3>1, <3>3 DEF Search!update_setting, Search!CommitSave, Search!SaveFails
    <3> QED BY <1>3, <3>2, <3>3
  <2>2. Seen(setting)'
    <3>1. CASE Search!CommitSave(a)
      <4>1. /\ setting' = admin[a].new
            /\ saved' = saved \cup {<<admin[a].new.version, admin[a].new.config>>}
            /\ admin[a].pc = "written" /\ Form(admin[a])
        BY <3>1 DEF Search!CommitSave, SearchInv
      <4> QED BY <4>1 DEF Form, Seen
    <3>2. CASE Search!BeginSave(a) \/ Search!update_setting(a) \/ Search!SaveFails(a)
      BY <3>2 DEF Search!BeginSave, Search!update_setting, Search!SaveFails, SearchInv, Seen
    <3> QED BY <1>3, <3>1, <3>2
  <2>3. PICK x : admin' = [admin EXCEPT ![a] = x] /\ Form(x)'
    <3>1. CASE Search!BeginSave(a)
      <4>1. admin' = [admin EXCEPT ![a] = [pc |-> "begun", seen |-> setting]]
            /\ UNCHANGED <<saved, setting>>
        BY <3>1 DEF Search!BeginSave
      <4>2. PICK x : x = [pc |-> "begun", seen |-> setting]
        OBVIOUS
      <4>3. Form(x)'
        BY <4>1, <4>2 DEF Form, SearchInv, Seen
      <4> QED BY <4>1, <4>2, <4>3
    <3>2. CASE Search!update_setting(a)
      <4>1. PICK c \in Search!Forms : admin' = [admin EXCEPT ![a] =
               [pc |-> "written",
                new |-> [version |-> admin[a].seen.version + 1, config |-> c, row |-> TRUE]]]
        BY <3>2 DEF Search!update_setting, SearchInv
      <4>2. admin[a].seen.version \in Nat /\ c \in Configs \cup {Off}
        <5>1. admin[a].pc = "begun" /\ Form(admin[a])
          BY <3>2 DEF Search!update_setting, SearchInv
        <5> QED BY <4>1, <5>1 DEF Form, Seen, Search!Forms
      <4>5. PICK v \in Nat : v = admin[a].seen.version + 1
        BY <4>2
      <4>3. PICK x : x = [pc |-> "written", new |-> [version |-> v, config |-> c, row |-> TRUE]]
        OBVIOUS
      <4>4. Form(x)'
        <5>1. x.pc = "written" /\ x.new = [version |-> x.new.version, config |-> c, row |-> TRUE]
              /\ x = [pc |-> "written", new |-> x.new] /\ x.new.version \in Nat
          BY <4>2, <4>3
        <5>2. x.new.config = c
          BY <5>1
        <5> QED BY <4>2, <5>1, <5>2 DEF Form
      <4> QED BY <4>1, <4>5, <4>3, <4>4
    <3>3. CASE Search!CommitSave(a) \/ Search!SaveFails(a)
      <4>1. admin' = [admin EXCEPT ![a] = [pc |-> "idle"]]
        BY <3>3 DEF Search!CommitSave, Search!SaveFails
      <4>2. Form([pc |-> "idle"])'
        BY DEF Form
      <4> QED BY <4>1, <4>2
    <3> QED BY <1>3, <3>1, <3>2, <3>3
  <2> QED BY <2>1, <2>2, <2>3, FormStep
<1>4. CASE Search!Tick
  <2>1. searchClock \in Nat /\ searchClock' = searchClock + 1
        /\ UNCHANGED <<setting, cache, search, admin, saves, saved>>
    BY <1>4 DEF Search!Tick, SearchInv
  <2>2. (\A s \in Searches : SearchRequest(search[s]))'
    BY <2>1 DEF SearchInv, SearchRequest, Seen
  <2>3. (\A i \in 1..Len(cache) : Entry(cache[i]))'
    BY <2>1 DEF SearchInv, Entry
  <2>4. (\A a \in Admins : Form(admin[a]))' /\ Seen(setting)'
    BY <2>1 DEF SearchInv, Form, Seen
  <2> QED BY <2>1, <2>2, <2>3, <2>4 DEF SearchInv
<1>5. CASE UNCHANGED Search!vars
  BY <1>5 DEF Search!vars, SearchInv, SearchRequest, Form, Seen, Entry, Range
<1> QED BY <1>1, <1>2, <1>3, <1>4, <1>5 DEF Search!Next

LEMMA SearchAlways == Search!Spec => []SearchInv
  BY SearchInit, SearchesStep, PTL DEF Search!Spec

\* A search is answered from the cache only with expansions of an AI service that was
\* configured under the version of the settings it reads.
THEOREM ServedAnswersFit == Search!Spec => ServedAnswerFits
<1>1. ASSUME SearchInv, NEW s \in Searches, Search!FromCache(s), NEW i \in Search!Fresh(s)
      PROVE  <<search[s].seen.version, cache[i].config>> \in saved
  <2>1. i \in 1..Len(cache) /\ cache[i].key = <<search[s].seen.version, search[s].terms>>
    BY <1>1 DEF SearchInv, Search!Fresh, Search!Entries, Search!CacheKey
  <2> QED BY <1>1, <2>1 DEF SearchInv, Entry
<1>2. SearchInv => \A s \in Searches : Search!FromCache(s) =>
                      \A i \in Search!Fresh(s) : <<search[s].seen.version, cache[i].config>> \in saved
  BY <1>1
<1> QED BY <1>2, SearchAlways, PTL DEF ServedAnswerFits, Search!ServedAnswerFits

LEMMA SearchTypeOK == SearchInv => Search!TypeOK
<1> SUFFICES ASSUME SearchInv
             PROVE  Search!TypeOK
  OBVIOUS
<1>1. DOMAIN cache = 1..Len(cache) /\ Len(cache) <= MaxCached
  BY DEF SearchInv
<1>2. \A i \in DOMAIN cache : cache[i].at \in 0..searchClock /\ cache[i].config \in Configs
  BY <1>1 DEF SearchInv, Entry
<1>3. \A i, j \in DOMAIN cache : cache[i].key = cache[j].key => i = j
  BY <1>1 DEF SearchInv
<1> QED BY <1>1, <1>2, <1>3 DEF SearchInv, Seen, Search!TypeOK

-----------------------------------------------------------------------------
(* Mini-program codes.                                                      *)

\* A caller within the lock has waited for WeChat for a tick at most.
CodeCall(x) ==
    \/ x = Coding!Idle
    \/ x \in [pc : {"wait"}, code : Codes]
    \/ x \in [pc : {"fetch", "post"}, code : Codes, sent : Nat]
       /\ x.sent <= codeClock /\ codeClock <= x.sent + 1

Within(x) == x.pc \in {"fetch", "post"}

\* One caller is within the lock, and the server drops a token before WeChat does.
CodesInv ==
    /\ codes \subseteq Codes /\ calls \in 0..MaxCalls /\ codeClock \in Nat
    /\ token.until \in Int /\ token.dies \in Int /\ token.until <= token.dies
    /\ call = [c \in Callers |-> call[c]]
    /\ \A c \in Callers : CodeCall(call[c])
    /\ \A c, d \in Callers : Within(call[c]) /\ Within(call[d]) => c = d
    /\ TokenAliveWhenSent

LEMMA CodesInit == Coding!Init => CodesInv
  BY ServicesBounds
  DEF Coding!Init, CodesInv, CodeCall, Within, Coding!Idle, TokenAliveWhenSent,
      Coding!TokenAliveWhenSent

\* A caller that goes on, to a call that is alone within the lock.
LEMMA CallerStep ==
    ASSUME CodesInv, NEW c \in Callers, NEW x, Coding!To(c, x), CodeCall(x),
           UNCHANGED codeClock, codes' \subseteq Codes, calls' \in 0..MaxCalls,
           token'.until \in Int, token'.dies \in Int, token'.until <= token'.dies,
           UNCHANGED token \/ Within(call[c]),
           Within(x) => Within(call[c]) \/ Coding!LockFree,
           x.pc = "post" => x.sent < token'.dies
    PROVE  CodesInv'
<1>1. call'[c] = x /\ (\A d \in Callers \ {c} : call'[d] = call[d])
      /\ call' = [d \in Callers |-> call'[d]]
  BY DEF Coding!To, CodesInv
<1>2. \A d \in Callers \ {c} : Within(x) => ~Within(call[d])
  BY DEF CodesInv, Coding!LockFree, Within
<1>3. (\A d \in Callers : CodeCall(call[d]))'
  BY <1>1 DEF CodesInv, CodeCall
<1>4. (\A d, e \in Callers : Within(call[d]) /\ Within(call[e]) => d = e)'
  BY <1>1, <1>2 DEF CodesInv, Within
<1>5. TokenAliveWhenSent'
  <2>1. \A d \in Callers \ {c} : call[d].pc = "post" => UNCHANGED token
    BY DEF CodesInv, Within
  <2> QED BY <1>1, <2>1 DEF CodesInv, TokenAliveWhenSent, Coding!TokenAliveWhenSent
<1>6. codeClock' \in Nat
  BY DEF CodesInv
<1> QED BY <1>1, <1>3, <1>4, <1>5, <1>6 DEF CodesInv

LEMMA CodesStep == CodesInv /\ [Coding!Next]_(Coding!vars) => CodesInv'
<1> SUFFICES ASSUME CodesInv, [Coding!Next]_(Coding!vars)
             PROVE  CodesInv'
  OBVIOUS
<1> USE DEF Coding!Idle
<1>1. ASSUME NEW c \in Callers, Coding!Call(c)
      PROVE  CodesInv'
  <2>1. PICK k \in Codes :
           Coding!To(c, IF k \in codes THEN Coding!Idle ELSE [pc |-> "wait", code |-> k])
    BY <1>1 DEF Coding!Call
  <2> DEFINE x == IF k \in codes THEN Coding!Idle ELSE [pc |-> "wait", code |-> k]
  <2>2. CodeCall(x) /\ ~Within(x) /\ x.pc # "post"
    BY DEF CodeCall, Within
  <2>3. UNCHANGED <<codes, token, codeClock>> /\ calls' \in 0..MaxCalls
    BY <1>1, ServicesBounds DEF Coding!Call, CodesInv
  <2>4. Coding!To(c, x)
    BY <2>1
  <2> HIDE DEF x
  <2> QED BY <2>2, <2>3, <2>4, CallerStep DEF CodesInv
<1>2. ASSUME NEW c \in Callers, Coding!generate(c)
      PROVE  CodesInv'
  <2>1. /\ call[c].pc = "wait" /\ call[c].code \in Codes
        /\ UNCHANGED <<codes, token, calls, codeClock>> /\ Coding!LockFree
    BY <1>2 DEF Coding!generate, CodesInv, CodeCall
  <2>2. CASE Coding!To(c, Coding!Idle)
    <3>1. CodeCall(Coding!Idle) /\ ~Within(Coding!Idle) /\ Coding!Idle.pc # "post"
      BY DEF CodeCall, Within
    <3> QED BY <2>1, <2>2, <3>1, CallerStep DEF CodesInv
  <2>3. CASE Coding!To(c, [pc |-> IF Coding!TokenGood THEN "post" ELSE "fetch",
                           code |-> call[c].code, sent |-> codeClock])
    <3> DEFINE x == [pc |-> IF Coding!TokenGood THEN "post" ELSE "fetch",
                     code |-> call[c].code, sent |-> codeClock]
    <3>1. CodeCall(x) /\ (x.pc = "post" => x.sent < token.dies)
      BY <2>1 DEF CodeCall, CodesInv, Coding!TokenGood
    <3>2. Coding!To(c, x)
      BY <2>3
    <3> HIDE DEF x
    <3> QED BY <2>1, <3>1, <3>2, CallerStep DEF CodesInv
  <2> QED BY <1>2, <2>2, <2>3 DEF Coding!generate
<1>3. ASSUME NEW c \in Callers, Coding!get_wechat_access_token(c)
      PROVE  CodesInv'
  <2>1. /\ call[c].pc = "fetch" /\ call[c].code \in Codes /\ call[c].sent \in Nat
        /\ call[c].sent <= codeClock /\ codeClock <= call[c].sent + 1
        /\ UNCHANGED <<codes, calls, codeClock>> /\ codeClock \in Nat
    BY <1>3 DEF Coding!get_wechat_access_token, CodesInv, CodeCall
  <2>2. PICK l \in Lifetimes, granted \in call[c].sent..codeClock :
           token' = [dies |-> granted + l, until |-> codeClock + Coding!Kept(l)]
    BY <1>3 DEF Coding!get_wechat_access_token
  <2>3. l \in Nat /\ l > Least /\ Least \in Nat \ {0} /\ Margin \in Nat \ {0} /\ granted \in Nat
    BY <2>1, TokenLifetimes
  <2>4. Coding!Kept(l) \in Nat /\ Coding!Kept(l) + 1 <= l
    BY <2>3 DEF Coding!Kept
  <2>5. token'.until \in Int /\ token'.dies \in Int /\ token'.until <= token'.dies
        /\ codeClock < token'.dies
    BY <2>1, <2>2, <2>3, <2>4
  <2> DEFINE x == [pc |-> "post", code |-> call[c].code, sent |-> codeClock]
  <2>6. CodeCall(x) /\ x.sent = codeClock
    BY <2>1 DEF CodeCall
  <2>7. Coding!To(c, x)
    BY <1>3 DEF Coding!get_wechat_access_token
  <2>8. Within(call[c])
    BY <2>1 DEF Within
  <2> HIDE DEF x
  <2> QED BY <2>1, <2>5, <2>6, <2>7, <2>8, CallerStep DEF CodesInv
<1>4. ASSUME NEW c \in Callers, Coding!Answer(c) \/ Coding!CallFails(c)
      PROVE  CodesInv'
  <2>1. Coding!To(c, Coding!Idle) /\ UNCHANGED <<token, calls, codeClock>> /\ codes' \subseteq Codes
    BY <1>4 DEF Coding!Answer, Coding!CallFails, CodesInv, CodeCall
  <2>2. CodeCall(Coding!Idle) /\ ~Within(Coding!Idle) /\ Coding!Idle.pc # "post"
    BY DEF CodeCall, Within
  <2> QED BY <2>1, <2>2, CallerStep DEF CodesInv
<1>5. CASE Coding!Restart
  BY <1>5 DEF Coding!Restart, CodesInv, CodeCall, Within, TokenAliveWhenSent,
              Coding!TokenAliveWhenSent
<1>6. CASE Coding!Tick
  <2>1. UNCHANGED <<codes, token, call, calls>> /\ codeClock' \in Nat
    BY <1>6 DEF Coding!Tick, CodesInv
  <2>2. (\A c \in Callers : CodeCall(call[c]))'
    BY <1>6, <2>1 DEF Coding!Tick, CodesInv, CodeCall
  <2> QED BY <2>1, <2>2 DEF CodesInv, Within, TokenAliveWhenSent, Coding!TokenAliveWhenSent
<1>7. CASE UNCHANGED Coding!vars
  BY <1>7 DEF Coding!vars, CodesInv, CodeCall, Within, TokenAliveWhenSent,
              Coding!TokenAliveWhenSent
<1> QED BY <1>1, <1>2, <1>3, <1>4, <1>5, <1>6, <1>7 DEF Coding!Next

\* A code is asked for with a token WeChat still takes.
THEOREM CodesAskedInTime == Coding!Spec => []TokenAliveWhenSent
<1>1. CodesInv => TokenAliveWhenSent
  BY DEF CodesInv
<1> QED BY <1>1, CodesInit, CodesStep, PTL DEF Coding!Spec

LEMMA CodingCardinality == \A s : Coding!Cardinality(s) = Cardinality(s)
  BY DEF Coding!Cardinality, Cardinality

LEMMA CodingTypeOK == CodesInv => Coding!TypeOK
<1> SUFFICES ASSUME CodesInv
             PROVE  Coding!TypeOK
  OBVIOUS
<1> DEFINE s == {c \in Callers : call[c].pc \in {"fetch", "post"}}
<1>1. \A c, d \in s : c = d
  BY DEF CodesInv, Within
<1> HIDE DEF s
<1>2. Coding!Cardinality(s) <= 1
  <2>1. CASE s = {}
    BY <2>1, FS_EmptySet, CodingCardinality
  <2>2. CASE s # {}
    <3>1. PICK c : s = {c}
      BY <1>1, <2>2
    <3>2. Cardinality({c}) = 1
      BY FS_Singleton
    <3> QED BY <3>1, <3>2, CodingCardinality
  <2> QED BY <2>1, <2>2
<1> QED BY <1>2 DEF CodesInv, Coding!TypeOK, s

-----------------------------------------------------------------------------
(* Image files.                                                             *)

\* Ids are drawn without gaps; rows and files have ids; ages and references are those of
\* rows and files that exist.
ImagesTyped ==
    /\ content = [f \in DOMAIN content |-> content[f]]
    /\ \E n \in 0..MaxFiles : DOMAIN content = 1..n
    /\ \A f \in DOMAIN content : content[f] \in Contents
    /\ records \subseteq DOMAIN content /\ disk \subseteq DOMAIN content
    /\ refs = [k \in Images!Kinds |-> refs[k]]
    /\ \A k \in Images!Kinds : refs[k] \subseteq records
    /\ oldRows \subseteq records /\ oldFiles \subseteq disk /\ damaged \subseteq disk
    /\ sent \in 0..ImageRequests
    /\ req = [r \in Requests |-> req[r]]

\* What a request remembers.
ImageRequest(x) ==
    \/ x = Images!Idle
    \/ x \in [pc : {"upload"}, content : Contents, rows : SUBSET DOMAIN content]
    \/ x \in [pc : {"writing", "written"}, content : Contents, file : DOMAIN content, new : BOOLEAN]
    \/ x \in [pc : {"delete"}, file : DOMAIN content, used : BOOLEAN]
    \/ x \in [pc : {"cleanup"}, rows : SUBSET DOMAIN content, unused : SUBSET DOMAIN content]
    \/ x \in [pc : {"report"}, unused : SUBSET DOMAIN content, untracked : SUBSET DOMAIN content]
    \/ x \in [pc : {"unlink"}, file : DOMAIN content]
    \/ x \in [pc : {"sweep"}, todo : SUBSET DOMAIN content]
    \/ x \in [pc : {"found"}, todo : (SUBSET DOMAIN content) \ {{}}]

\* The file of an upload whose row is still to come.
NewFile(f, x) == x.pc \in {"writing", "written"} /\ x.new /\ x.file = f

\* The files a request may remove without their rows: those it found without one.
Rowless(x) ==
    CASE x.pc = "cleanup" -> oldFiles \ x.rows
      [] x.pc = "report"  -> x.untracked
      [] x.pc = "unlink"  -> {x.file}
      [] x.pc \in {"sweep", "found"} -> x.todo
      [] OTHER            -> {}

\* All files it may remove.
Doomed(x) ==
    CASE x.pc = "delete" -> {x.file}
      [] x.pc \in {"cleanup", "report"} -> x.unused \cup Rowless(x)
      [] x.pc = "unlink" -> {x.file}
      [] x.pc \in {"sweep", "found"} -> x.todo
      [] OTHER -> {}

\* A file being written: a new one is on disk, has no row and is not old; the row of
\* one that is repaired had lost it.  Once it is written nothing damages it.
Upload(x) ==
    x.pc \in {"writing", "written"} =>
        /\ content[x.file] = x.content
        /\ x.pc = "written" => x.file \notin damaged
        /\ IF x.new THEN x.file \in disk \ (records \cup oldFiles)
           ELSE x.file \in records => x.file \in lost

\* Uploads of one content exclude each other.
UploadsApart ==
    \A r, q \in Requests :
        r # q /\ req[r].pc \in {"writing", "written"} /\ req[q].pc \in {"writing", "written"} =>
            req[r].content # req[q].content

\* Nobody removes the file of an upload, or one that has a row.
NewSpared == \A r, q \in Requests : \A f \in Doomed(req[q]) : ~NewFile(f, req[r])
RowsSpared == \A q \in Requests : Rowless(req[q]) \cap records = {}

ImagesInv ==
    /\ ImagesTyped
    /\ \A r \in Requests : ImageRequest(req[r])
    /\ \A r \in Requests : Upload(req[r])
    /\ UploadsApart /\ NewSpared /\ RowsSpared
    /\ RecordedImageReadable

\* The ids are numbers, and what a request may remove are ids.
LEMMA ImageIds ==
    ASSUME ImagesInv
    PROVE  /\ DOMAIN content \subseteq Nat
           /\ \A r \in Requests : Doomed(req[r]) \subseteq DOMAIN content
                                  /\ Rowless(req[r]) \subseteq Doomed(req[r])
<1>1. DOMAIN content \subseteq Nat
  BY DEF ImagesInv, ImagesTyped
<1>2. ASSUME NEW r \in Requests
      PROVE  Doomed(req[r]) \subseteq DOMAIN content /\ Rowless(req[r]) \subseteq Doomed(req[r])
  <2>1. ImageRequest(req[r]) /\ oldFiles \subseteq DOMAIN content
    BY DEF ImagesInv, ImagesTyped
  <2> QED BY <2>1 DEF ImageRequest, Doomed, Rowless, Images!Idle
<1> QED BY <1>1, <1>2

\* The tables are empty at the start.
LEMMA ImagesInit == Images!Init => ImagesInv
<1> SUFFICES ASSUME Images!Init PROVE ImagesInv
  OBVIOUS
<1>1. /\ content = << >> /\ records = {} /\ disk = {} /\ damaged = {} /\ oldRows = {} /\ oldFiles = {}
      /\ refs = [k \in Images!Kinds |-> {}] /\ req = [r \in Requests |-> Images!Idle] /\ sent = 0
  BY DEF Images!Init
<1>2. DOMAIN content = {} /\ content = [f \in DOMAIN content |-> content[f]]
  BY <1>1
<1>3. 0 \in 0..MaxFiles /\ 1..0 = {} /\ 0 \in 0..ImageRequests
  BY ServicesBounds
<1>4. \A r \in Requests : req[r] = Images!Idle
  BY <1>1
<1>5. Images!Idle.pc = "idle"
  BY DEF Images!Idle
<1>6. ImagesTyped
  BY <1>1, <1>2, <1>3 DEF ImagesTyped
<1>7. \A r \in Requests : ImageRequest(req[r]) /\ Upload(req[r])
  BY <1>4, <1>5 DEF ImageRequest, Upload
<1>8. \A r \in Requests : Doomed(req[r]) = {} /\ Rowless(req[r]) = {}
  BY <1>4, <1>5 DEF Doomed, Rowless
<1>9. UploadsApart /\ NewSpared /\ RowsSpared
  BY <1>4, <1>5, <1>8 DEF UploadsApart, NewSpared, RowsSpared
<1>10. RecordedImageReadable
  BY <1>1 DEF RecordedImageReadable, Images!RecordedImageReadable
<1> QED BY <1>6, <1>7, <1>9, <1>10 DEF ImagesInv

\* A request goes on without touching tables or disk: to a state that is no upload
\* being written and may remove nothing that others need.
LEMMA QuietStep ==
    ASSUME ImagesInv, NEW r \in Requests, NEW x,
           Images!To(r, x),
           UNCHANGED <<content, records, disk, damaged, refs, oldRows, oldFiles, lost>>,
           sent' \in 0..ImageRequests,
           ImageRequest(x), x.pc \notin {"writing", "written"},
           \A q \in Requests : \A f \in Doomed(x) : ~NewFile(f, req[q]),
           Rowless(x) \cap records = {}
    PROVE  ImagesInv'
<1>1. req'[r] = x /\ (\A q \in Requests \ {r} : req'[q] = req[q]) /\ req' = [q \in Requests |-> req'[q]]
  BY DEF Images!To, ImagesInv, ImagesTyped
<1>2. ImagesTyped'
  BY <1>1 DEF ImagesInv, ImagesTyped
<1>3. \A q \in Requests : req'[q] = x \/ req'[q] = req[q]
  BY <1>1
<1>4. (\A q \in Requests : ImageRequest(req[q]))'
  BY <1>3 DEF ImagesInv, ImageRequest
<1>5. (\A q \in Requests : Upload(req[q]))'
  BY <1>3 DEF ImagesInv, Upload
<1>6. UploadsApart'
  BY <1>1 DEF ImagesInv, UploadsApart
<1>7. NewSpared'
  BY <1>1 DEF ImagesInv, NewSpared, NewFile, Doomed, Rowless
<1>8. RowsSpared'
  BY <1>1 DEF ImagesInv, RowsSpared, Rowless
<1>9. RecordedImageReadable'
  BY DEF ImagesInv, RecordedImageReadable, Images!RecordedImageReadable
<1> QED BY <1>2, <1>4, <1>5, <1>6, <1>7, <1>8, <1>9 DEF ImagesInv

\* Requests that begin, look around or end change neither tables nor disk.
LEMMA BeginImageRequest ==
    ASSUME ImagesInv, NEW r \in Requests,
           Images!upload(r) \/ Images!remove(r) \/ Images!remove_orphans(r)
    PROVE  ImagesInv'
<1>1. /\ UNCHANGED <<content, records, disk, damaged, refs, oldRows, oldFiles, lost>>
      /\ sent' \in 0..ImageRequests
  <2>1. \E x : Images!Begin(r, x)
    BY DEF Images!upload, Images!remove, Images!remove_orphans
  <2>2. ImageRequests \in Nat /\ sent \in 0..ImageRequests
    BY ServicesBounds DEF ImagesInv, ImagesTyped
  <2> QED BY <2>1, <2>2 DEF Images!Begin
<1>2. \A q \in Requests : \A f : NewFile(f, req[q]) => f \notin records \cup oldFiles
  BY DEF ImagesInv, Upload, NewFile
<1>3. CASE Images!upload(r)
  <2>1. PICK c \in Contents : Images!To(r, [pc |-> "upload", content |-> c, rows |-> records])
    BY <1>3 DEF Images!upload, Images!Begin
  <2> DEFINE x == [pc |-> "upload", content |-> c, rows |-> records]
  <2>2. ImageRequest(x) /\ x.pc \notin {"writing", "written"} /\ Doomed(x) = {} /\ Rowless(x) = {}
    BY DEF ImageRequest, Doomed, Rowless, ImagesInv, ImagesTyped
  <2> HIDE DEF x
  <2> QED BY <1>1, <2>1, <2>2, QuietStep DEF x
<1>4. CASE Images!remove(r)
  <2>1. PICK f \in records, used \in BOOLEAN :
           Images!To(r, [pc |-> "delete", file |-> f, used |-> used])
    BY <1>4 DEF Images!remove, Images!Begin
  <2> DEFINE x == [pc |-> "delete", file |-> f, used |-> used]
  <2>2. ImageRequest(x) /\ x.pc \notin {"writing", "written"} /\ Doomed(x) = {f} /\ Rowless(x) = {}
    BY DEF ImageRequest, Doomed, Rowless, ImagesInv, ImagesTyped
  <2> HIDE DEF x
  <2>3. \A q \in Requests : \A g \in Doomed(x) : ~NewFile(g, req[q])
    BY <1>2, <2>2
  <2> QED BY <1>1, <2>1, <2>2, <2>3, QuietStep DEF x
<1>5. CASE Images!remove_orphans(r)
  <2>1. PICK fs \in SUBSET oldRows :
           Images!To(r, [pc |-> "cleanup", rows |-> records, unused |-> fs])
    BY <1>5 DEF Images!remove_orphans, Images!Begin
  <2> DEFINE x == [pc |-> "cleanup", rows |-> records, unused |-> fs]
  <2>2. ImageRequest(x) /\ x.pc \notin {"writing", "written"} /\ Doomed(x) = fs \cup (oldFiles \ records)
        /\ Rowless(x) = oldFiles \ records
    BY DEF ImageRequest, Doomed, Rowless, ImagesInv, ImagesTyped
  <2> HIDE DEF x
  <2>3. \A q \in Requests : \A g \in Doomed(x) : ~NewFile(g, req[q])
    BY <1>2, <2>2 DEF ImagesInv, ImagesTyped
  <2>4. Rowless(x) \cap records = {}
    BY <2>2
  <2> QED BY <1>1, <2>1, <2>2, <2>3, <2>4, QuietStep DEF x
<1> QED BY <1>3, <1>4, <1>5

LEMMA InspectOrRefuse ==
    ASSUME ImagesInv, NEW r \in Requests, Images!inspect_orphans(r) \/ Images!Refuse(r)
    PROVE  ImagesInv'
<1>1. /\ UNCHANGED <<content, records, disk, damaged, refs, oldRows, oldFiles, lost>>
      /\ sent' \in 0..ImageRequests
  BY DEF Images!inspect_orphans, Images!Refuse, ImagesInv, ImagesTyped
<1>2. CASE Images!inspect_orphans(r)
  <2> DEFINE x == [pc |-> "report", unused |-> req[r].unused, untracked |-> oldFiles \ req[r].rows]
  <2>1. Images!To(r, x) /\ req[r].pc = "cleanup"
    <3>1. Images!Untracked(r) = oldFiles \ req[r].rows
      BY DEF Images!Untracked
    <3> QED BY <1>2, <3>1 DEF Images!inspect_orphans
  <2>2. ImageRequest(x) /\ Doomed(x) = Doomed(req[r]) /\ Rowless(x) = Rowless(req[r])
    BY <2>1 DEF ImageRequest, Doomed, Rowless, ImagesInv, ImagesTyped, Images!Idle
  <2>3. x.pc \notin {"writing", "written"}
    OBVIOUS
  <2> HIDE DEF x
  <2> QED BY <1>1, <2>1, <2>2, <2>3, QuietStep DEF ImagesInv, NewSpared, RowsSpared
<1>3. CASE Images!Refuse(r)
  <2>1. Images!To(r, Images!Idle)
    BY <1>3 DEF Images!Refuse
  <2>2. ImageRequest(Images!Idle) /\ Images!Idle.pc \notin {"writing", "written"}
        /\ Doomed(Images!Idle) = {} /\ Rowless(Images!Idle) = {}
    BY DEF ImageRequest, Doomed, Rowless, Images!Idle
  <2> QED BY <1>1, <2>1, <2>2, QuietStep
<1> QED BY <1>2, <1>3

\* A step of request r leaves the others as they were.
LEMMA OthersWait ==
    ASSUME ImagesInv, NEW r \in Requests, NEW x, Images!To(r, x)
    PROVE  /\ req'[r] = x /\ \A q \in Requests \ {r} : req'[q] = req[q]
           /\ req' = [q \in Requests |-> req'[q]]
  BY DEF Images!To, ImagesInv, ImagesTyped

\* An upload that decides has its content to itself.
LEMMA DecideAlone ==
    ASSUME ImagesInv, NEW r \in Requests, req[r].pc = "upload", Images!DigestFree(req[r].content)
    PROVE  /\ \A q \in Requests : req[q].pc \in {"writing", "written"} => req[q].content # req[r].content
           /\ \A f \in Images!Same(r) : f \in DOMAIN content /\ content[f] = req[r].content
           /\ req[r].content \in Contents
  BY DEF Images!DigestFree, Images!Same, ImagesInv, ImageRequest, Images!Idle

\* The instance's own names for the smallest member and the size of a set.
LEMMA ImagesMin == \A s : Images!Min(s) = Min(s)
  BY DEF Images!Min, Min

LEMMA ImagesCardinality == \A s : Images!Cardinality(s) = Cardinality(s)
  BY DEF Images!Cardinality, Cardinality

LEMMA ReuseKeeps ==
    ASSUME ImagesInv, NEW r \in Requests, Images!DecideUpload(r), Images!ReuseImage(r)
    PROVE  ImagesInv'
<1>1. /\ req[r].pc = "upload" /\ Images!DigestFree(req[r].content)
      /\ UNCHANGED <<content, records, disk, damaged, refs, oldRows, oldFiles, sent>>
  BY DEF Images!DecideUpload, Images!ReuseImage
<1>2. PICK g \in Images!Present(r) : lost' = lost \ {g}
  <2>1. Images!Present(r) # {} /\ Images!Present(r) \subseteq Nat
    BY ImageIds, DecideAlone, <1>1 DEF Images!ReuseImage, Images!Present
  <2>2. Min(Images!Present(r)) \in Images!Present(r)
    BY <2>1, MinIsSmallest
  <2> QED BY <2>2, ImagesMin DEF Images!ReuseImage
<1>3. Images!To(r, Images!Idle)
  BY DEF Images!ReuseImage
<1>4. g \in disk /\ g \notin damaged /\ \A q \in Requests : req[q].pc \in {"writing", "written"} => req[q].file # g
  <2>1. g \in disk /\ g \notin damaged /\ content[g] = req[r].content
    BY <1>1, <1>2, DecideAlone DEF Images!Present
  <2> QED BY <1>1, <2>1, DecideAlone DEF ImagesInv, Upload
<1>5. req'[r] = Images!Idle /\ (\A q \in Requests : req'[q] = Images!Idle \/ req'[q] = req[q])
      /\ req' = [q \in Requests |-> req'[q]] /\ \A q \in Requests \ {r} : req'[q] = req[q]
  BY <1>3, OthersWait
<1>6. ImagesTyped'
  BY <1>1, <1>5 DEF ImagesInv, ImagesTyped
<1>7. (\A q \in Requests : ImageRequest(req[q]))'
  BY <1>1, <1>5 DEF ImagesInv, ImageRequest
<1>8. (\A q \in Requests : Upload(req[q]))'
  BY <1>1, <1>2, <1>4, <1>5 DEF ImagesInv, Upload, Images!Idle
<1>9. UploadsApart'
  BY <1>5 DEF ImagesInv, UploadsApart, Images!Idle
<1>10. NewSpared' /\ RowsSpared'
  BY <1>1, <1>5 DEF ImagesInv, NewSpared, RowsSpared, NewFile, Doomed, Rowless, Images!Idle
<1>11. RecordedImageReadable'
  BY <1>1, <1>2, <1>4 DEF ImagesInv, RecordedImageReadable, Images!RecordedImageReadable
<1> QED BY <1>6, <1>7, <1>8, <1>9, <1>10, <1>11 DEF ImagesInv

LEMMA RepairKeeps ==
    ASSUME ImagesInv, NEW r \in Requests, Images!DecideUpload(r), Images!RepairImage(r)
    PROVE  ImagesInv'
<1>1. /\ req[r].pc = "upload" /\ Images!DigestFree(req[r].content)
      /\ UNCHANGED <<content, records, lost, refs, oldRows, sent>>
  BY DEF Images!DecideUpload, Images!RepairImage, Images!Open
<1> DEFINE g == Min(Images!Missing(r))
           x == [pc |-> "writing", content |-> req[r].content, file |-> g, new |-> FALSE]
<1>2. g \in Images!Same(r) /\ g \notin disk
  <2>1. Images!Missing(r) # {} /\ Images!Missing(r) \subseteq Nat
    BY ImageIds, DecideAlone, <1>1 DEF Images!RepairImage, Images!Missing
  <2>2. Min(Images!Missing(r)) \in Images!Missing(r)
    BY <2>1, MinIsSmallest
  <2> QED BY <2>2 DEF Images!Missing
<1>3. /\ disk' = disk \cup {g} /\ damaged' = damaged \cup {g} /\ oldFiles' = oldFiles \ {g}
      /\ Images!To(r, x) /\ g \notin disk
  BY <1>2, ImagesMin DEF Images!RepairImage, Images!Open
<1> HIDE DEF g
<1>4. g \in DOMAIN content /\ content[g] = req[r].content /\ req[r].content \in Contents
      /\ \A q \in Requests : req[q].pc \in {"writing", "written"} => req[q].content # req[r].content
  BY <1>1, <1>2, DecideAlone
<1>5. g \in records => g \in lost
  BY <1>3 DEF ImagesInv, RecordedImageReadable, Images!RecordedImageReadable
<1>6. ImageRequest(x) /\ x.pc = "writing" /\ ~x.new /\ x.file = g /\ x.content = req[r].content
      /\ Doomed(x) = {} /\ Rowless(x) = {}
  BY <1>4 DEF ImageRequest, Doomed, Rowless
<1>7. req'[r] = x /\ (\A q \in Requests \ {r} : req'[q] = req[q]) /\ req' = [q \in Requests |-> req'[q]]
  BY <1>3, OthersWait
<1> HIDE DEF x
<1>8. ImagesTyped'
  BY <1>1, <1>3, <1>4, <1>7 DEF ImagesInv, ImagesTyped
<1>9. (\A q \in Requests : ImageRequest(req[q]))'
  BY <1>1, <1>6, <1>7 DEF ImagesInv, ImageRequest
<1>10. (\A q \in Requests : Upload(req[q]))'
  <2>1. Upload(req[r])'
    BY <1>1, <1>4, <1>5, <1>6, <1>7 DEF Upload
  <2>2. ASSUME NEW q \in Requests \ {r} PROVE Upload(req[q])'
    BY <1>1, <1>3, <1>4, <1>7 DEF ImagesInv, Upload
  <2> QED BY <2>1, <2>2
<1>11. UploadsApart'
  BY <1>4, <1>6, <1>7 DEF ImagesInv, UploadsApart
<1>12. NewSpared' /\ RowsSpared'
  <2>1. \A q \in Requests : Doomed(req[q])' \subseteq Doomed(req[q]) \/ q = r
    BY <1>1, <1>3, <1>7 DEF Doomed, Rowless
  <2>2. \A q \in Requests : Rowless(req[q])' \subseteq Rowless(req[q]) \/ q = r
    BY <1>1, <1>3, <1>7 DEF Rowless
  <2>3. Doomed(req[r])' = {} /\ Rowless(req[r])' = {}
    BY <1>6, <1>7 DEF Doomed, Rowless
  <2>4. \A q \in Requests : \A f : NewFile(f, req[q])' => NewFile(f, req[q])
    BY <1>6, <1>7 DEF NewFile
  <2> QED BY <1>1, <2>1, <2>2, <2>3, <2>4 DEF ImagesInv, NewSpared, RowsSpared
<1>13. RecordedImageReadable'
  BY <1>1, <1>3 DEF ImagesInv, RecordedImageReadable, Images!RecordedImageReadable
<1> QED BY <1>8, <1>9, <1>10, <1>11, <1>12, <1>13 DEF ImagesInv

\* A new image takes an id nobody has.
LEMMA NewImageKeeps ==
    ASSUME ImagesInv, NEW r \in Requests, Images!DecideUpload(r), Images!NewImage(r)
    PROVE  ImagesInv'
<1>1. /\ req[r].pc = "upload" /\ Images!DigestFree(req[r].content)
      /\ UNCHANGED <<records, refs, oldRows, sent, lost>>
  BY DEF Images!DecideUpload, Images!NewImage, Images!Open
<1>2. PICK n \in 0..MaxFiles : DOMAIN content = 1..n
  BY DEF ImagesInv, ImagesTyped
<1> DEFINE f == n + 1
           x == [pc |-> "writing", content |-> req[r].content, file |-> f, new |-> TRUE]
<1>3. Images!Cardinality(Images!Ids) + 1 = f
  <2>1. Cardinality(1..n) = n
    <3>1. n \in Int /\ 1 \in Int /\ n >= 0
      BY ServicesBounds
    <3> QED BY <3>1, FS_Interval
  <2>2. Images!Cardinality(Images!Ids) = Cardinality(1..n)
    BY <1>2, ImagesCardinality DEF Images!Ids
  <2> QED BY <2>1, <2>2
<1>4. /\ f <= MaxFiles /\ Images!To(r, x) /\ disk' = disk \cup {f}
      /\ damaged' = damaged \cup {f} /\ oldFiles' = oldFiles \ {f}
      /\ content' = [g \in DOMAIN content \cup {f} |->
                        IF g = f THEN req[r].content ELSE content[g]]
  BY <1>3 DEF Images!NewImage, Images!Ids, Images!Open
<1>5. f \notin DOMAIN content /\ f \in 0..MaxFiles /\ DOMAIN content \cup {f} = 1..f
  <2>1. MaxFiles \in Nat
    BY ServicesBounds
  <2> QED BY <1>2, <1>4, <2>1
<1> HIDE DEF f
<1>6. /\ DOMAIN content' = DOMAIN content \cup {f} /\ content'[f] = req[r].content
      /\ \A g \in DOMAIN content : content'[g] = content[g]
      /\ content' = [g \in DOMAIN content' |-> content'[g]]
  BY <1>4, <1>5
<1>7. req[r].content \in Contents
      /\ \A q \in Requests : req[q].pc \in {"writing", "written"} => req[q].content # req[r].content
  BY <1>1, DecideAlone
<1>8. req'[r] = x /\ (\A q \in Requests \ {r} : req'[q] = req[q]) /\ req' = [q \in Requests |-> req'[q]]
  BY <1>4, OthersWait
<1>9. req'[r].pc = "writing" /\ req'[r].new /\ req'[r].file = f /\ req'[r].content = req[r].content
      /\ req'[r] \in [pc : {"writing", "written"}, content : Contents, file : DOMAIN content', new : BOOLEAN]
  BY <1>6, <1>7, <1>8
<1> HIDE DEF x
<1>10. f \notin records /\ f \notin oldFiles /\ f \notin disk
  BY <1>5 DEF ImagesInv, ImagesTyped
<1>11. ImagesTyped'
  BY <1>1, <1>4, <1>5, <1>6, <1>7, <1>8 DEF ImagesInv, ImagesTyped
<1>12. (\A q \in Requests : ImageRequest(req[q]))'
  BY <1>6, <1>8, <1>9 DEF ImagesInv, ImageRequest
<1>13. (\A q \in Requests : Upload(req[q]))'
  <2>1. Upload(req[r])'
    BY <1>1, <1>4, <1>6, <1>9, <1>10 DEF Upload
  <2>2. ASSUME NEW q \in Requests \ {r} PROVE Upload(req[q])'
    <3>1. CASE req[q].pc \in {"writing", "written"}
      <4>1. req[q].file \in DOMAIN content
        BY <3>1 DEF ImagesInv, ImageRequest, Images!Idle
      <4> QED BY <1>1, <1>4, <1>5, <1>6, <1>8, <4>1 DEF ImagesInv, Upload
    <3>2. CASE req[q].pc \notin {"writing", "written"}
      BY <1>8, <3>2 DEF Upload
    <3> QED BY <3>1, <3>2
  <2> QED BY <2>1, <2>2
<1>14. UploadsApart'
  BY <1>7, <1>8, <1>9 DEF ImagesInv, UploadsApart
<1>15. NewSpared' /\ RowsSpared'
  <2>1. \A q \in Requests \ {r} : Doomed(req[q])' = Doomed(req[q]) /\ Rowless(req[q])' = Rowless(req[q])
    BY <1>1, <1>4, <1>8, <1>10 DEF Doomed, Rowless
  <2>2. Doomed(req[r])' = {} /\ Rowless(req[r])' = {}
    BY <1>9 DEF Doomed, Rowless
  <2>3. \A q \in Requests \ {r} : \A g : NewFile(g, req[q])' => NewFile(g, req[q])
    BY <1>8 DEF NewFile
  <2>4. \A g : NewFile(g, req[r])' => g = f
    BY <1>9 DEF NewFile
  <2> QED BY <1>1, <1>5, <2>1, <2>2, <2>3, <2>4, ImageIds DEF ImagesInv, NewSpared, RowsSpared
<1>16. RecordedImageReadable'
  BY <1>1, <1>4, <1>10 DEF ImagesInv, RecordedImageReadable, Images!RecordedImageReadable
<1> QED BY <1>11, <1>12, <1>13, <1>14, <1>15, <1>16 DEF ImagesInv

\* A commit gives a new file its row; a rollback takes the file away, new or repaired.
LEMMA UploadEnds ==
    ASSUME ImagesInv, NEW r \in Requests, Images!CommitUpload(r) \/ Images!RollBackUpload(r)
    PROVE  ImagesInv'
<1>1. /\ req[r].pc = "written" /\ Images!To(r, Images!Idle)
      /\ UNCHANGED <<content, refs, oldRows, sent>>
  BY DEF Images!CommitUpload, Images!RollBackUpload
<1> DEFINE f == req[r].file
<1>2. /\ f \in DOMAIN content /\ content[f] = req[r].content
      /\ req[r].new => f \in disk /\ f \notin records /\ f \notin oldFiles
      /\ ~req[r].new => (f \in records => f \in lost)
      /\ f \notin damaged
      /\ req[r].new \in BOOLEAN
  BY <1>1 DEF ImagesInv, ImageRequest, Upload, Images!Idle
<1>3. \A q \in Requests \ {r} : req[q].pc \in {"writing", "written"} => req[q].file # f
  BY <1>1, <1>2 DEF ImagesInv, UploadsApart, Upload
<1>4. req'[r] = Images!Idle /\ (\A q \in Requests \ {r} : req'[q] = req[q])
      /\ req' = [q \in Requests |-> req'[q]] /\ \A q \in Requests : req'[q] = Images!Idle \/ req'[q] = req[q]
  BY <1>1, OthersWait
<1>5. \/ /\ Images!CommitUpload(r) /\ UNCHANGED <<disk, damaged, oldFiles>>
         /\ records' = IF req[r].new THEN records \cup {f} ELSE records
         /\ lost' = lost \ ({f} \cap disk)
      \/ /\ Images!RollBackUpload(r) /\ UNCHANGED <<records, lost>>
         /\ disk' = disk \ {f} /\ damaged' = damaged \ {f} /\ oldFiles' = oldFiles \ {f}
  BY DEF Images!CommitUpload, Images!RollBackUpload, Images!Remove, Images!Written
<1>6. \A q \in Requests : f \notin Rowless(req[q]) \/ ~req[r].new
  BY <1>1, ImageIds DEF ImagesInv, NewSpared, NewFile
<1> HIDE DEF f
<1>7. ImagesTyped'
  BY <1>1, <1>2, <1>4, <1>5 DEF ImagesInv, ImagesTyped
<1>8. (\A q \in Requests : ImageRequest(req[q]))'
  BY <1>1, <1>4 DEF ImagesInv, ImageRequest
<1>9. (\A q \in Requests : Upload(req[q]))'
  <2>1. Upload(req[r])'
    BY <1>4 DEF Upload, Images!Idle
  <2>2. ASSUME NEW q \in Requests \ {r} PROVE Upload(req[q])'
    BY <1>1, <1>3, <1>4, <1>5 DEF ImagesInv, Upload
  <2> QED BY <2>1, <2>2
<1>10. UploadsApart'
  BY <1>4 DEF ImagesInv, UploadsApart, Images!Idle
<1>11. \A q \in Requests : Doomed(req[q])' \subseteq Doomed(req[q])
                           /\ Rowless(req[q])' \subseteq Rowless(req[q])
  BY <1>4, <1>5 DEF Doomed, Rowless, Images!Idle
<1>12. NewSpared'
  <2>1. \A q \in Requests : \A g : NewFile(g, req[q])' => NewFile(g, req[q])
    BY <1>4 DEF NewFile, Images!Idle
  <2> QED BY <1>11, <2>1 DEF ImagesInv, NewSpared
<1>13. RowsSpared'
  BY <1>5, <1>6, <1>11 DEF ImagesInv, RowsSpared
<1>14. RecordedImageReadable'
  BY <1>2, <1>5 DEF ImagesInv, RecordedImageReadable, Images!RecordedImageReadable
<1> QED BY <1>7, <1>8, <1>9, <1>10, <1>12, <1>13, <1>14 DEF ImagesInv

\* Rows leave, their files are to follow: nobody shows the images, and none is being
\* written as new.
LEMMA RowsLeave ==
    ASSUME ImagesInv, NEW r \in Requests,
           Images!delete_image(r) \/ Images!cleanup_orphans(r)
    PROVE  ImagesInv'
<1>1. UNCHANGED <<content, disk, damaged, refs, oldFiles, sent, lost>>
  BY DEF Images!delete_image, Images!cleanup_orphans
<1>2. PICK gone, x :
         /\ gone \in SUBSET DOMAIN content
         /\ records' = records \ gone /\ oldRows' = oldRows \ gone
         /\ gone \cap Images!Referenced = {}
         /\ Images!To(r, x) /\ ImageRequest(x) /\ x.pc \notin {"writing", "written"}
         /\ Doomed(x) = Doomed(req[r]) /\ Rowless(x) = Doomed(x)
         /\ Doomed(req[r]) \ gone \subseteq Rowless(req[r])
  <2>1. CASE Images!delete_image(r)
    <3> DEFINE y == [pc |-> "unlink", file |-> req[r].file]
    <3>1. Doomed(req[r]) = {req[r].file} /\ req[r].file \in DOMAIN content
      BY <2>1 DEF Images!delete_image, Doomed, ImagesInv, ImageRequest, Images!Idle
    <3>2. /\ ImageRequest(y) /\ y.pc \notin {"writing", "written"}
          /\ Doomed(y) = {req[r].file} /\ Rowless(y) = {req[r].file}
      BY <3>1 DEF ImageRequest, Doomed, Rowless
    <3>3. /\ records' = records \ {req[r].file} /\ oldRows' = oldRows \ {req[r].file}
          /\ {req[r].file} \cap Images!Referenced = {} /\ Images!To(r, y)
      BY <2>1 DEF Images!delete_image, Images!Held
    <3>4. {req[r].file} \in SUBSET DOMAIN content
      BY <3>1
    <3> HIDE DEF y
    <3> QED BY <3>1, <3>2, <3>3, <3>4
  <2>2. CASE Images!cleanup_orphans(r)
    <3> DEFINE gone == req[r].unused
               doomed == req[r].unused \cup req[r].untracked
               y == [pc |-> "sweep", todo |-> doomed]
    <3>1. Doomed(req[r]) = doomed /\ Rowless(req[r]) = req[r].untracked
      BY <2>2 DEF Images!cleanup_orphans, Doomed, Rowless
    <3>2. doomed \subseteq DOMAIN content /\ gone \in SUBSET DOMAIN content
      BY <3>1, ImageIds
    <3>3. /\ records' = records \ gone /\ oldRows' = oldRows \ gone
          /\ gone \cap Images!Referenced = {} /\ Images!To(r, y)
      BY <2>2 DEF Images!cleanup_orphans, Images!Sweeping, Images!Held
    <3>4. doomed \ gone \subseteq Rowless(req[r])
      BY <3>1
    <3> HIDE DEF gone, doomed
    <3>5. /\ ImageRequest(y) /\ y.pc \notin {"writing", "written"}
          /\ Doomed(y) = doomed /\ Rowless(y) = doomed
      BY <3>2 DEF ImageRequest, Doomed, Rowless
    <3> HIDE DEF y
    <3> QED BY <3>1, <3>2, <3>3, <3>4, <3>5
  <2> QED BY <2>1, <2>2
<1>3. req'[r] = x /\ (\A q \in Requests \ {r} : req'[q] = req[q])
      /\ req' = [q \in Requests |-> req'[q]] /\ \A q \in Requests : req'[q] = x \/ req'[q] = req[q]
  BY <1>2, OthersWait
<1>4. /\ ImageRequest(x) /\ x.pc \notin {"writing", "written"} /\ Doomed(x) = Doomed(req[r])
      /\ Rowless(x) = Doomed(req[r])
  BY <1>2
<1>5. ImagesTyped'
  <2>1. \A k \in Images!Kinds : refs[k] \subseteq Images!Referenced
    BY DEF Images!Referenced
  <2> QED BY <1>1, <1>2, <1>3, <2>1 DEF ImagesInv, ImagesTyped
<1>6. (\A q \in Requests : ImageRequest(req[q]))'
  BY <1>1, <1>3, <1>4 DEF ImagesInv, ImageRequest
<1>7. (\A q \in Requests : Upload(req[q]))'
  BY <1>1, <1>2, <1>3, <1>4 DEF ImagesInv, Upload
<1>8. UploadsApart'
  BY <1>3, <1>4 DEF ImagesInv, UploadsApart
<1>9. NewSpared'
  <2>1. \A q \in Requests : Doomed(req[q])' = Doomed(req[q])
    BY <1>1, <1>3, <1>4 DEF Doomed, Rowless
  <2>2. \A q \in Requests : \A g : NewFile(g, req[q])' => NewFile(g, req[q])
    BY <1>3, <1>4 DEF NewFile
  <2> QED BY <2>1, <2>2 DEF ImagesInv, NewSpared
<1>10. RowsSpared'
  <2>1. \A q \in Requests \ {r} : Rowless(req[q])' = Rowless(req[q])
    BY <1>1, <1>3 DEF Rowless
  <2>2. Rowless(req[r])' = Doomed(req[r])
    BY <1>1, <1>3, <1>4 DEF Rowless
  <2>3. Doomed(req[r]) \cap records' = {}
    BY <1>2 DEF ImagesInv, RowsSpared
  <2> QED BY <1>2, <2>1, <2>2, <2>3 DEF ImagesInv, RowsSpared
<1>11. RecordedImageReadable'
  BY <1>1, <1>2 DEF ImagesInv, RecordedImageReadable, Images!RecordedImageReadable
<1> QED BY <1>5, <1>6, <1>7, <1>8, <1>9, <1>10, <1>11 DEF ImagesInv

\* A request that ends early leaves tables and disk alone, and what it had in hand to nobody.
LEMMA EndEarlyKeeps ==
    ASSUME ImagesInv, NEW r \in Requests,
           Images!FailWrite(r) \/ Images!OrphanGone(r) \/ Images!FailUnlink(r)
    PROVE  ImagesInv'
<1>1. /\ Images!To(r, Images!Idle)
      /\ UNCHANGED <<content, records, disk, damaged, refs, oldRows, oldFiles, lost>>
      /\ sent' \in 0..ImageRequests
  BY DEF Images!FailWrite, Images!OrphanGone, Images!FailUnlink, Images!Abandon,
         ImagesInv, ImagesTyped
<1>2. ImageRequest(Images!Idle) /\ Images!Idle.pc \notin {"writing", "written"}
      /\ Doomed(Images!Idle) = {} /\ Rowless(Images!Idle) = {}
  BY DEF ImageRequest, Doomed, Rowless, Images!Idle
<1> QED BY <1>1, <1>2, QuietStep

\* The cleanup looks for its next file.
LEMMA CheckKeeps ==
    ASSUME ImagesInv, NEW r \in Requests, Images!CheckOrphan(r)
    PROVE  ImagesInv'
<1>1. /\ UNCHANGED <<content, records, disk, damaged, refs, oldRows, oldFiles, lost>>
      /\ sent' \in 0..ImageRequests /\ req[r].pc = "sweep"
  BY DEF Images!CheckOrphan, ImagesInv, ImagesTyped
<1>2. /\ req[r] \in [pc : {"sweep"}, todo : SUBSET DOMAIN content]
      /\ Doomed(req[r]) = req[r].todo /\ Rowless(req[r]) = req[r].todo
  BY <1>1 DEF ImagesInv, ImageRequest, Images!Idle, Doomed, Rowless
<1>3. PICK x : /\ Images!To(r, x) /\ ImageRequest(x) /\ x.pc \notin {"writing", "written"}
               /\ Doomed(x) \subseteq req[r].todo /\ Rowless(x) \subseteq req[r].todo
  <2>1. CASE req[r].todo = {}
    <3>1. ImageRequest(Images!Idle) /\ Images!Idle.pc \notin {"writing", "written"}
          /\ Doomed(Images!Idle) = {} /\ Rowless(Images!Idle) = {}
      BY DEF ImageRequest, Doomed, Rowless, Images!Idle
    <3>2. Images!To(r, Images!Idle)
      BY <2>1 DEF Images!CheckOrphan
    <3> QED BY <3>1, <3>2
  <2>2. CASE req[r].todo # {} /\ Images!Min(req[r].todo) \in disk
    <3> DEFINE y == [req[r] EXCEPT !.pc = "found"]
    <3>1. y \in [pc : {"found"}, todo : (SUBSET DOMAIN content) \ {{}}] /\ y.todo = req[r].todo
      BY <1>2, <2>2
    <3>2. Images!To(r, y)
      BY <2>2 DEF Images!CheckOrphan
    <3> HIDE DEF y
    <3>3. ImageRequest(y) /\ y.pc \notin {"writing", "written"} /\ Doomed(y) = y.todo
          /\ Rowless(y) = y.todo
      BY <3>1 DEF ImageRequest, Doomed, Rowless
    <3> QED BY <3>1, <3>2, <3>3
  <2>3. CASE req[r].todo # {} /\ Images!Min(req[r].todo) \notin disk
    <3> DEFINE y == [pc |-> "sweep", todo |-> req[r].todo \ {Images!Min(req[r].todo)}]
    <3>1. y \in [pc : {"sweep"}, todo : SUBSET DOMAIN content] /\ y.todo \subseteq req[r].todo
      BY <1>2
    <3>2. Images!To(r, y)
      BY <2>3 DEF Images!CheckOrphan, Images!Sweeping
    <3> HIDE DEF y
    <3>3. ImageRequest(y) /\ y.pc \notin {"writing", "written"} /\ Doomed(y) = y.todo
          /\ Rowless(y) = y.todo
      BY <3>1 DEF ImageRequest, Doomed, Rowless
    <3> QED BY <3>1, <3>2, <3>3
  <2> QED BY <2>1, <2>2, <2>3
<1>4. \A q \in Requests : \A f \in Doomed(x) : ~NewFile(f, req[q])
  BY <1>2, <1>3 DEF ImagesInv, NewSpared
<1>5. Rowless(x) \cap records = {}
  BY <1>2, <1>3 DEF ImagesInv, RowsSpared
<1> QED BY <1>1, <1>3, <1>4, <1>5, QuietStep

\* The last byte of a file is written: it is whole.
LEMMA FinishKeeps ==
    ASSUME ImagesInv, NEW r \in Requests, Images!FinishWrite(r)
    PROVE  ImagesInv'
<1> DEFINE f == req[r].file
           x == [req[r] EXCEPT !.pc = "written"]
<1>1. /\ UNCHANGED <<content, records, disk, refs, oldRows, oldFiles, sent, lost>>
      /\ req[r].pc = "writing" /\ damaged' = damaged \ {f} /\ Images!To(r, x)
  BY DEF Images!FinishWrite
<1>2. req[r] \in [pc : {"writing", "written"}, content : Contents, file : DOMAIN content,
                  new : BOOLEAN]
  BY <1>1 DEF ImagesInv, ImageRequest, Images!Idle
<1>3. /\ x \in [pc : {"writing", "written"}, content : Contents, file : DOMAIN content,
                new : BOOLEAN]
      /\ x.pc = "written" /\ x.content = req[r].content /\ x.file = f /\ x.new = req[r].new
  BY <1>2
<1> HIDE DEF x, f
<1>4. Doomed(x) = {} /\ Rowless(x) = {} /\ \A g : NewFile(g, x) <=> NewFile(g, req[r])
  BY <1>1, <1>3 DEF Doomed, Rowless, NewFile, f
<1>5. req'[r] = x /\ (\A q \in Requests \ {r} : req'[q] = req[q]) /\ req' = [q \in Requests |-> req'[q]]
  BY <1>1, OthersWait
<1>6. ImagesTyped'
  BY <1>1, <1>5 DEF ImagesInv, ImagesTyped
<1>7. (\A q \in Requests : ImageRequest(req[q]))'
  BY <1>1, <1>3, <1>5 DEF ImagesInv, ImageRequest
<1>8. (\A q \in Requests : Upload(req[q]))'
  <2>1. Upload(req[r])'
    BY <1>1, <1>3, <1>5 DEF ImagesInv, Upload, f
  <2>2. ASSUME NEW q \in Requests \ {r} PROVE Upload(req[q])'
    BY <1>1, <1>5 DEF ImagesInv, Upload
  <2> QED BY <2>1, <2>2
<1>9. UploadsApart'
  BY <1>1, <1>3, <1>5 DEF ImagesInv, UploadsApart
<1>10. NewSpared' /\ RowsSpared'
  <2>1. \A q \in Requests : Doomed(req[q])' \subseteq Doomed(req[q])
                            /\ Rowless(req[q])' \subseteq Rowless(req[q])
    BY <1>1, <1>4, <1>5 DEF Doomed, Rowless
  <2>2. \A q \in Requests : \A g : NewFile(g, req[q])' => NewFile(g, req[q])
    BY <1>4, <1>5 DEF NewFile
  <2> QED BY <1>1, <2>1, <2>2 DEF ImagesInv, NewSpared, RowsSpared
<1>11. RecordedImageReadable'
  BY <1>1 DEF ImagesInv, RecordedImageReadable, Images!RecordedImageReadable
<1> QED BY <1>6, <1>7, <1>8, <1>9, <1>10, <1>11 DEF ImagesInv

\* A file that is unlinked has no row and is not being written as new.
LEMMA UnlinkKeeps ==
    ASSUME ImagesInv, NEW r \in Requests, Images!UnlinkFile(r) \/ Images!UnlinkOrphan(r)
    PROVE  ImagesInv'
<1>1. UNCHANGED <<content, records, refs, oldRows, sent, lost>>
  BY DEF Images!UnlinkFile, Images!UnlinkOrphan
<1>2. PICK fs, x :
         /\ fs \in SUBSET Doomed(req[r])
         /\ Images!To(r, x)
         /\ disk' = disk \ fs /\ damaged' = damaged \ fs /\ oldFiles' = oldFiles \ fs
         /\ ImageRequest(x) /\ x.pc \in {"idle", "sweep"}
         /\ Doomed(x) \subseteq Doomed(req[r]) /\ Rowless(x) \subseteq Doomed(req[r])
         /\ Rowless(req[r]) = Doomed(req[r])
  <2>1. CASE Images!UnlinkFile(r)
    <3>1. /\ Images!To(r, Images!Idle) /\ disk' = disk \ {req[r].file}
          /\ damaged' = damaged \ {req[r].file} /\ oldFiles' = oldFiles \ {req[r].file}
          /\ Doomed(req[r]) = {req[r].file} /\ Rowless(req[r]) = {req[r].file}
      BY <2>1 DEF Images!UnlinkFile, Images!Remove, Doomed, Rowless
    <3>2. ImageRequest(Images!Idle) /\ Images!Idle.pc = "idle"
          /\ Doomed(Images!Idle) = {} /\ Rowless(Images!Idle) = {}
      BY DEF ImageRequest, Doomed, Rowless, Images!Idle
    <3>3. {req[r].file} \in SUBSET Doomed(req[r])
      BY <3>1
    <3> QED BY <3>1, <3>2, <3>3
  <2>2. CASE Images!UnlinkOrphan(r)
    <3> DEFINE f == Images!Min(req[r].todo)
               y == [pc |-> "sweep", todo |-> req[r].todo \ {f}]
    <3>1. /\ Images!To(r, y) /\ disk' = disk \ {f} /\ damaged' = damaged \ {f}
          /\ oldFiles' = oldFiles \ {f} /\ req[r].pc = "found"
      BY <2>2 DEF Images!UnlinkOrphan, Images!Remove, Images!Sweeping
    <3>2. /\ Doomed(req[r]) = req[r].todo /\ Rowless(req[r]) = req[r].todo
          /\ req[r].todo \in (SUBSET DOMAIN content) \ {{}}
      BY <3>1 DEF ImagesInv, ImageRequest, Images!Idle, Doomed, Rowless
    <3>3. f \in req[r].todo
      BY <3>2, ImageIds, ImagesMin, MinIsSmallest
    <3>4. ImageRequest(y) /\ y.pc = "sweep" /\ Doomed(y) = y.todo /\ Rowless(y) = y.todo
      BY <3>2 DEF ImageRequest, Doomed, Rowless
    <3>5. {f} \in SUBSET Doomed(req[r]) /\ y.todo \subseteq Doomed(req[r])
      BY <3>2, <3>3
    <3> HIDE DEF f, y
    <3> QED BY <3>1, <3>2, <3>4, <3>5
  <2> QED BY <2>1, <2>2
<1>3. req'[r] = x /\ (\A q \in Requests \ {r} : req'[q] = req[q])
      /\ req' = [q \in Requests |-> req'[q]] /\ \A q \in Requests : req'[q] = x \/ req'[q] = req[q]
  BY <1>2, OthersWait
<1>4. fs \cap records = {} /\ \A f \in Doomed(req[r]), q \in Requests : ~NewFile(f, req[q])
  BY <1>2 DEF ImagesInv, NewSpared, RowsSpared
<1>5. ImagesTyped'
  BY <1>1, <1>2, <1>3 DEF ImagesInv, ImagesTyped
<1>6. (\A q \in Requests : ImageRequest(req[q]))'
  BY <1>1, <1>2, <1>3 DEF ImagesInv, ImageRequest
<1>7. (\A q \in Requests : Upload(req[q]))'
  BY <1>1, <1>2, <1>3, <1>4 DEF ImagesInv, Upload, NewFile
<1>8. UploadsApart'
  BY <1>2, <1>3 DEF ImagesInv, UploadsApart
<1>9. NewSpared' /\ RowsSpared'
  <2>1. \A q \in Requests \ {r} : Doomed(req[q])' \subseteq Doomed(req[q])
                                  /\ Rowless(req[q])' \subseteq Rowless(req[q])
    BY <1>1, <1>2, <1>3 DEF Doomed, Rowless
  <2>2. Doomed(req[r])' \subseteq Doomed(req[r]) /\ Rowless(req[r])' \subseteq Doomed(req[r])
    BY <1>2, <1>3 DEF Doomed, Rowless
  <2>3. Doomed(req[r]) \cap records = {}
    BY <1>2 DEF ImagesInv, RowsSpared
  <2>4. \A q \in Requests : \A g : NewFile(g, req[q])' => NewFile(g, req[q])
    BY <1>2, <1>3 DEF NewFile
  <2> QED BY <1>1, <1>4, <2>1, <2>2, <2>3, <2>4 DEF ImagesInv, NewSpared, RowsSpared
<1>10. RecordedImageReadable'
  BY <1>1, <1>2, <1>4 DEF ImagesInv, RecordedImageReadable, Images!RecordedImageReadable
<1> QED BY <1>5, <1>6, <1>7, <1>8, <1>9, <1>10 DEF ImagesInv

\* Owners that show other images of the table.
LEMMA ShowKeeps ==
    ASSUME ImagesInv, NEW shown, shown = [k \in Images!Kinds |-> shown[k]], Images!Show(shown)
    PROVE  ImagesInv'
<1>1. /\ UNCHANGED <<content, records, disk, damaged, oldRows, oldFiles, req, sent, lost, stray>>
      /\ refs' = shown /\ \A k \in Images!Kinds : shown[k] \subseteq records
  BY DEF Images!Show
<1>2. ImagesTyped'
  BY <1>1 DEF ImagesInv, ImagesTyped
<1>3. /\ (\A q \in Requests : ImageRequest(req[q]))' /\ (\A q \in Requests : Upload(req[q]))'
      /\ UploadsApart'
  BY <1>1 DEF ImagesInv, ImageRequest, Upload, UploadsApart
<1>4. NewSpared' /\ RowsSpared' /\ RecordedImageReadable'
  BY <1>1 DEF ImagesInv, NewSpared, RowsSpared, NewFile, Doomed, Rowless,
              RecordedImageReadable, Images!RecordedImageReadable
<1> QED BY <1>2, <1>3, <1>4 DEF ImagesInv

LEMMA OwnersKeep ==
    ASSUME ImagesInv, Images!Owners
    PROVE  ImagesInv'
<1>1. PICK shown : Images!Show(shown) /\ shown = [k \in Images!Kinds |-> shown[k]]
  <2> refs = [k \in Images!Kinds |-> refs[k]]
    BY DEF ImagesInv, ImagesTyped
  <2>1. CASE Images!update_purchase_material
    BY <2>1 DEF Images!update_purchase_material
  <2>2. CASE Images!delete_purchase_material
    BY <2>2 DEF Images!delete_purchase_material
  <2>3. CASE Images!create_template
    BY <2>3 DEF Images!create_template
  <2>4. CASE Images!update_template
    BY <2>4 DEF Images!update_template
  <2>5. CASE Images!delete_template
    BY <2>5 DEF Images!delete_template
  <2>6. CASE Images!generate_purchase_plan
    BY <2>6 DEF Images!generate_purchase_plan
  <2>7. CASE Images!move_plans_to_record
    BY <2>7 DEF Images!move_plans_to_record
  <2>8. CASE Images!restore_purchase_record_to_plan
    BY <2>8 DEF Images!restore_purchase_record_to_plan
  <2> QED BY <2>1, <2>2, <2>3, <2>4, <2>5, <2>6, <2>7, <2>8 DEF Images!Owners
<1> QED BY <1>1, ShowKeeps

\* Time passes and the server crashes only between requests that are then gone.
LEMMA ImagesAtRest ==
    ASSUME ImagesInv, Images!ProtectionPasses \/ Images!Crash
    PROVE  ImagesInv'
<1>1. /\ \A q \in Requests : req'[q] = Images!Idle
      /\ req' = [q \in Requests |-> req'[q]]
      /\ UNCHANGED <<content, records, disk, damaged, refs, sent, lost>>
      /\ oldRows' \subseteq records /\ oldFiles' \subseteq disk
  BY DEF ImagesInv, ImagesTyped, Images!ProtectionPasses, Images!Crash
<1>2. ImagesTyped'
  BY <1>1 DEF ImagesInv, ImagesTyped
<1>3. /\ (\A q \in Requests : ImageRequest(req[q]))' /\ (\A q \in Requests : Upload(req[q]))'
      /\ UploadsApart' /\ NewSpared' /\ RowsSpared'
  BY <1>1 DEF ImagesInv, ImageRequest, Upload, UploadsApart, NewSpared, RowsSpared,
              NewFile, Doomed, Rowless, Images!Idle
<1>4. RecordedImageReadable'
  BY <1>1 DEF ImagesInv, RecordedImageReadable, Images!RecordedImageReadable
<1> QED BY <1>2, <1>3, <1>4 DEF ImagesInv

\* A file of a row is lost: whoever removes files without rows does not meet it.
LEMMA LoseFileKeeps ==
    ASSUME ImagesInv, Images!LoseFile
    PROVE  ImagesInv'
<1>1. /\ UNCHANGED <<content, records, refs, oldRows, req, sent, stray>>
      /\ oldFiles' \subseteq oldFiles
  BY DEF Images!LoseFile, Images!Remove
<1>2. PICK f \in disk \cap records :
         /\ disk' = disk \ {f} /\ damaged' = damaged \ {f} /\ oldFiles' = oldFiles \ {f}
         /\ lost' = lost \cup {f}
  BY DEF Images!LoseFile, Images!Remove
<1>3. ImagesTyped'
  BY <1>1, <1>2 DEF ImagesInv, ImagesTyped
<1>4. /\ (\A q \in Requests : ImageRequest(req[q]))' /\ UploadsApart'
  BY <1>1 DEF ImagesInv, ImageRequest, UploadsApart
<1>5. (\A q \in Requests : Upload(req[q]))'
  BY <1>1, <1>2 DEF ImagesInv, Upload
<1>6. \A q \in Requests : Doomed(req[q])' \subseteq Doomed(req[q])
                          /\ Rowless(req[q])' \subseteq Rowless(req[q])
  BY <1>1 DEF Doomed, Rowless
<1>7. NewSpared' /\ RowsSpared'
  BY <1>1, <1>6 DEF ImagesInv, NewSpared, RowsSpared, NewFile
<1>8. RecordedImageReadable'
  BY <1>1, <1>2 DEF ImagesInv, RecordedImageReadable, Images!RecordedImageReadable
<1> QED BY <1>3, <1>4, <1>5, <1>7, <1>8 DEF ImagesInv

LEMMA ImagesStep == ImagesInv /\ [Images!Next]_(Images!vars) => ImagesInv'
<1> SUFFICES ASSUME ImagesInv, [Images!Next]_(Images!vars)
             PROVE  ImagesInv'
  OBVIOUS
<1>1. CASE Images!Owners
  BY <1>1, OwnersKeep
<1>2. CASE Images!ProtectionPasses \/ Images!Crash
  BY <1>2, ImagesAtRest
<1>3. CASE Images!LoseFile
  BY <1>3, LoseFileKeeps
<1>4. ASSUME NEW r \in Requests, Images!Request(r)
      PROVE  ImagesInv'
  <2>1. CASE Images!upload(r) \/ Images!remove(r) \/ Images!remove_orphans(r)
    BY <2>1, BeginImageRequest
  <2>2. CASE Images!DecideUpload(r)
    BY <2>2, ReuseKeeps, RepairKeeps, NewImageKeeps DEF Images!DecideUpload
  <2>3. CASE Images!CommitUpload(r) \/ Images!RollBackUpload(r)
    BY <2>3, UploadEnds
  <2>4. CASE Images!inspect_orphans(r) \/ Images!Refuse(r)
    BY <2>4, InspectOrRefuse
  <2>5. CASE Images!delete_image(r) \/ Images!cleanup_orphans(r)
    BY <2>5, RowsLeave
  <2>6. CASE Images!UnlinkFile(r) \/ Images!UnlinkOrphan(r)
    BY <2>6, UnlinkKeeps
  <2>7. CASE Images!FailWrite(r) \/ Images!OrphanGone(r) \/ Images!FailUnlink(r)
    BY <2>7, EndEarlyKeeps
  <2>8. CASE Images!CheckOrphan(r)
    BY <2>8, CheckKeeps
  <2>9. CASE Images!FinishWrite(r)
    BY <2>9, FinishKeeps
  <2> QED BY <1>4, <2>1, <2>2, <2>3, <2>4, <2>5, <2>6, <2>7, <2>8, <2>9 DEF Images!Request
<1>5. CASE UNCHANGED Images!vars
  <2> USE <1>5 DEF Images!vars
  <2>1. ImagesTyped' /\ RecordedImageReadable'
    BY DEF ImagesInv, ImagesTyped, RecordedImageReadable, Images!RecordedImageReadable
  <2>2. (\A q \in Requests : ImageRequest(req[q]))' /\ (\A q \in Requests : Upload(req[q]))'
    BY DEF ImagesInv, ImageRequest, Upload
  <2>3. UploadsApart' /\ NewSpared' /\ RowsSpared'
    BY DEF ImagesInv, UploadsApart, NewSpared, RowsSpared, NewFile, Doomed, Rowless
  <2> QED BY <2>1, <2>2, <2>3 DEF ImagesInv
<1> QED BY <1>1, <1>2, <1>3, <1>4, <1>5 DEF Images!Next

-----------------------------------------------------------------------------
(* Files without rows.                                                      *)

\* A request has a file in its hands: it writes it, or is about to remove it.
InHandOf(f, x) ==
    \/ x.pc \in {"writing", "written", "unlink"} /\ x.file = f
    \/ x.pc \in {"sweep", "found"} /\ f \in x.todo

Kept == \A f \in disk \ records : f \in stray \/ \E q \in Requests : InHandOf(f, req[q])

LEMMA KeptIsNoStray == NoStrayFiles <=> Kept
  BY DEF NoStrayFiles, Images!NoStrayFiles, Images!InHand, Images!Filed, Kept, InHandOf

\* A request may let go of a file it leaves with its row, removed, or recorded as stray.
LEMMA HandsStep ==
    ASSUME ImagesInv, Kept, NEW r \in Requests, NEW x, Images!To(r, x),
           stray \subseteq stray',
           \A f \in disk' \ records' :
               \/ f \in stray' \/ InHandOf(f, x)
               \/ f \in disk \ records /\ ~InHandOf(f, req[r])
    PROVE  Kept'
<1>1. req'[r] = x /\ \A q \in Requests \ {r} : req'[q] = req[q]
  BY OthersWait
<1>2. ASSUME NEW f \in disk' \ records'
      PROVE  f \in stray' \/ \E q \in Requests : InHandOf(f, req'[q])
  <2>1. CASE f \in stray' \/ InHandOf(f, x)
    BY <1>1, <2>1
  <2>2. CASE f \in disk \ records /\ ~InHandOf(f, req[r])
    <3>1. f \in stray \/ \E q \in Requests \ {r} : InHandOf(f, req[q])
      BY <2>2 DEF Kept
    <3> QED BY <1>1, <3>1
  <2> QED BY <1>2, <2>1, <2>2
<1> QED BY <1>2 DEF Kept, InHandOf

LEMMA KeptStep == ImagesInv /\ Kept /\ [Images!Next]_(Images!vars) => Kept'
<1> SUFFICES ASSUME ImagesInv, Kept, [Images!Next]_(Images!vars)
             PROVE  Kept'
  OBVIOUS
<1>1. CASE Images!Owners \/ Images!ProtectionPasses \/ UNCHANGED Images!vars
  <2>1. UNCHANGED <<disk, records, stray>> /\ (UNCHANGED req \/ Images!ProtectionPasses)
    BY <1>1 DEF Images!vars, Images!ProtectionPasses, Images!Owners, Images!Show,
                Images!update_purchase_material, Images!delete_purchase_material,
                Images!create_template, Images!update_template, Images!delete_template,
                Images!generate_purchase_plan, Images!move_plans_to_record,
                Images!restore_purchase_record_to_plan
  <2> QED BY <2>1 DEF Kept, InHandOf, Images!ProtectionPasses
<1>2. CASE Images!Crash
  BY <1>2 DEF Images!Crash, Images!Left, Kept
<1>3. CASE Images!LoseFile
  BY <1>3 DEF Images!LoseFile, Images!Remove, Kept, InHandOf
<1>4. ASSUME NEW r \in Requests, Images!Request(r)
      PROVE  Kept'
  <2>1. CASE Images!upload(r) \/ Images!remove(r) \/ Images!remove_orphans(r)
    <3>1. PICK x : Images!Begin(r, x)
      BY <2>1 DEF Images!upload, Images!remove, Images!remove_orphans
    <3>2. \A f : ~InHandOf(f, req[r])
      BY <3>1 DEF Images!Begin, InHandOf, Images!Idle
    <3> QED BY <3>1, <3>2, HandsStep DEF Images!Begin
  <2>2. CASE Images!inspect_orphans(r) \/ Images!Refuse(r)
    <3>1. PICK x : Images!To(r, x)
      BY <2>2 DEF Images!inspect_orphans, Images!Refuse
    <3>2. UNCHANGED <<disk, records, stray>> /\ \A f : ~InHandOf(f, req[r])
      BY <2>2 DEF Images!inspect_orphans, Images!Refuse, InHandOf
    <3> QED BY <3>1, <3>2, HandsStep
  <2>3. CASE Images!DecideUpload(r)
    <3>1. UNCHANGED <<records, stray>> /\ \A f : ~InHandOf(f, req[r])
      BY <2>3 DEF Images!DecideUpload, InHandOf
    <3>2. CASE Images!ReuseImage(r)
      BY <3>1, <3>2, HandsStep DEF Images!ReuseImage
    <3>3. CASE Images!RepairImage(r)
      <4> DEFINE m == Images!Min(Images!Missing(r))
                 x == [pc |-> "writing", content |-> req[r].content, file |-> m, new |-> FALSE]
      <4>1. Images!To(r, x) /\ disk' = disk \cup {m}
        BY <3>3 DEF Images!RepairImage, Images!Open
      <4>2. InHandOf(m, x)
        BY DEF InHandOf
      <4> HIDE DEF x, m
      <4> QED BY <3>1, <4>1, <4>2, HandsStep
    <3>4. CASE Images!NewImage(r)
      <4> DEFINE m == Images!Cardinality(Images!Ids) + 1
                 x == [pc |-> "writing", content |-> req[r].content, file |-> m, new |-> TRUE]
      <4>1. Images!To(r, x) /\ disk' = disk \cup {m}
        BY <3>4 DEF Images!NewImage, Images!Open
      <4>2. InHandOf(m, x)
        BY DEF InHandOf
      <4> HIDE DEF x, m
      <4> QED BY <3>1, <4>1, <4>2, HandsStep
    <3> QED BY <2>3, <3>2, <3>3, <3>4 DEF Images!DecideUpload
  <2>4. CASE Images!CommitUpload(r)
    <3>1. /\ Images!To(r, Images!Idle) /\ stray \subseteq stray' /\ UNCHANGED disk
          /\ req[r].pc = "written" /\ records \subseteq records'
          /\ req[r].file \in disk => req[r].file \in records' \cup stray'
      BY <2>4 DEF Images!CommitUpload, Images!Left
    <3>2. \A f : InHandOf(f, req[r]) => f = req[r].file
      BY <3>1 DEF InHandOf
    <3> QED BY <3>1, <3>2, HandsStep
  <2>5. CASE Images!RollBackUpload(r)
    <3>1. Images!To(r, Images!Idle) /\ UNCHANGED <<stray, records>> /\ disk' = disk \ {req[r].file}
          /\ req[r].pc = "written"
      BY <2>5 DEF Images!RollBackUpload, Images!Remove, Images!Written
    <3>2. \A f : InHandOf(f, req[r]) => f = req[r].file
      BY <3>1 DEF InHandOf
    <3> QED BY <3>1, <3>2, HandsStep
  <2>6. CASE Images!delete_image(r)
    <3> DEFINE x == [pc |-> "unlink", file |-> req[r].file]
    <3>1. Images!To(r, x) /\ UNCHANGED <<stray, disk>> /\ records' = records \ {req[r].file}
          /\ req[r].pc = "delete"
      BY <2>6 DEF Images!delete_image
    <3>2. InHandOf(req[r].file, x) /\ \A f : ~InHandOf(f, req[r])
      BY <3>1 DEF InHandOf
    <3> HIDE DEF x
    <3> QED BY <3>1, <3>2, HandsStep
  <2>7. CASE Images!cleanup_orphans(r)
    <3> DEFINE x == [pc |-> "sweep", todo |-> req[r].unused \cup req[r].untracked]
    <3>1. Images!To(r, x) /\ UNCHANGED <<stray, disk>> /\ records' = records \ req[r].unused
          /\ req[r].pc = "report"
      BY <2>7 DEF Images!cleanup_orphans, Images!Sweeping
    <3>2. (\A f \in req[r].unused : InHandOf(f, x)) /\ \A f : ~InHandOf(f, req[r])
      BY <3>1 DEF InHandOf
    <3> HIDE DEF x
    <3> QED BY <3>1, <3>2, HandsStep
  <2>8. CASE Images!UnlinkFile(r)
    <3>1. req[r].pc = "unlink" /\ UNCHANGED <<stray, records>>
          /\ Images!To(r, Images!Idle) /\ disk' = disk \ {req[r].file}
      BY <2>8 DEF Images!UnlinkFile, Images!Remove
    <3>2. \A f : InHandOf(f, req[r]) => f = req[r].file
      BY <3>1 DEF InHandOf
    <3> QED BY <3>1, <3>2, HandsStep
  <2>9. CASE Images!UnlinkOrphan(r)
    <3> DEFINE m == Images!Min(req[r].todo)
               x == [pc |-> "sweep", todo |-> req[r].todo \ {m}]
    <3>1. Images!To(r, x) /\ disk' = disk \ {m} /\ UNCHANGED <<stray, records>>
          /\ req[r].pc = "found"
      BY <2>9 DEF Images!UnlinkOrphan, Images!Remove, Images!Sweeping
    <3>2. \A f : InHandOf(f, req[r]) => f = m \/ InHandOf(f, x)
      BY <3>1 DEF InHandOf
    <3> HIDE DEF x, m
    <3> QED BY <3>1, <3>2, HandsStep
  <2>10. CASE Images!CheckOrphan(r)
    <3>1. UNCHANGED <<disk, records, stray>> /\ req[r].pc = "sweep"
      BY <2>10 DEF Images!CheckOrphan
    <3>2. PICK x : Images!To(r, x) /\ \A f \in disk : InHandOf(f, req[r]) => InHandOf(f, x)
      <4>1. CASE req[r].todo = {}
        <5>1. Images!To(r, Images!Idle) /\ \A f : ~InHandOf(f, req[r])
          BY <2>10, <3>1, <4>1 DEF Images!CheckOrphan, InHandOf
        <5> QED BY <5>1
      <4>2. CASE req[r].todo # {} /\ Images!Min(req[r].todo) \in disk
        <5> DEFINE y == [req[r] EXCEPT !.pc = "found"]
        <5>1. Images!To(r, y)
          BY <2>10, <4>2 DEF Images!CheckOrphan
        <5>2. req[r] \in [pc : {"sweep"}, todo : SUBSET DOMAIN content]
          BY <3>1 DEF ImagesInv, ImageRequest, Images!Idle
        <5>3. y.pc = "found" /\ y.todo = req[r].todo
          BY <5>2
        <5> HIDE DEF y
        <5>4. \A f : InHandOf(f, req[r]) => InHandOf(f, y)
          BY <3>1, <5>3 DEF InHandOf
        <5> QED BY <5>1, <5>4
      <4>3. CASE req[r].todo # {} /\ Images!Min(req[r].todo) \notin disk
        <5> DEFINE m == Images!Min(req[r].todo)
                   y == [pc |-> "sweep", todo |-> req[r].todo \ {m}]
        <5>1. Images!To(r, y) /\ m \notin disk
          BY <2>10, <4>3 DEF Images!CheckOrphan, Images!Sweeping
        <5>2. \A f : InHandOf(f, req[r]) => f = m \/ InHandOf(f, y)
          BY <3>1 DEF InHandOf
        <5> HIDE DEF y, m
        <5> QED BY <5>1, <5>2
      <4> QED BY <4>1, <4>2, <4>3
    <3> QED BY <3>1, <3>2, HandsStep
  <2>11. CASE Images!FinishWrite(r)
    <3> DEFINE x == [req[r] EXCEPT !.pc = "written"]
    <3>1. UNCHANGED <<disk, records, stray>> /\ Images!To(r, x) /\ req[r].pc = "writing"
      BY <2>11 DEF Images!FinishWrite
    <3>2. req[r] \in [pc : {"writing", "written"}, content : Contents, file : DOMAIN content,
                      new : BOOLEAN]
      BY <3>1 DEF ImagesInv, ImageRequest, Images!Idle
    <3>3. x.pc = "written" /\ x.file = req[r].file
      BY <3>2
    <3> HIDE DEF x
    <3>4. \A f : InHandOf(f, req[r]) => InHandOf(f, x)
      BY <3>1, <3>3 DEF InHandOf
    <3> QED BY <3>1, <3>4, HandsStep
  <2>12. CASE Images!FailWrite(r) \/ Images!OrphanGone(r) \/ Images!FailUnlink(r)
    <3>1. PICK fs : /\ stray' = stray \cup Images!Left(fs)
                    /\ \A f : InHandOf(f, req[r]) => f \in fs
      <4>1. CASE Images!FailWrite(r)
        BY <4>1 DEF Images!FailWrite, InHandOf
      <4>2. CASE Images!OrphanGone(r)
        BY <4>2 DEF Images!OrphanGone, Images!Abandon, InHandOf
      <4>3. CASE Images!FailUnlink(r)
        BY <4>3 DEF Images!FailUnlink, Images!Abandon, InHandOf
      <4> QED BY <2>12, <4>1, <4>2, <4>3
    <3>2. UNCHANGED <<disk, records>> /\ Images!To(r, Images!Idle)
      BY <2>12 DEF Images!FailWrite, Images!OrphanGone, Images!FailUnlink, Images!Abandon
    <3> QED BY <3>1, <3>2, HandsStep DEF Images!Left
  <2> QED BY <1>4, <2>1, <2>2, <2>3, <2>4, <2>5, <2>6, <2>7, <2>8, <2>9, <2>10, <2>11, <2>12
          DEF Images!Request
<1> QED BY <1>1, <1>2, <1>3, <1>4 DEF Images!Next

\* An image with a row can be shown, whole, unless its file was lost outside the program.
THEOREM ImagesReadable == Images!Spec => []RecordedImageReadable
<1>1. ImagesInv => RecordedImageReadable
  BY DEF ImagesInv
<1> QED BY <1>1, ImagesInit, ImagesStep, PTL DEF Images!Spec

\* A file without a row is in the hands of a request, or was left by a crash, by the repair
\* of a deleted row, by a write that failed, or by a removal that failed or came second.
THEOREM FilesAccountedFor == Images!Spec => []NoStrayFiles
<1>1. Images!Init => Kept
  BY DEF Images!Init, Kept
<1> QED BY <1>1, ImagesInit, ImagesStep, KeptStep, KeptIsNoStray, PTL DEF Images!Spec

\* The types of the tables follow.
LEMMA ImagesTypeOK == ImagesInv => Images!TypeOK
<1> SUFFICES ASSUME ImagesInv
             PROVE  Images!TypeOK
  OBVIOUS
<1>1. PICK n \in 0..MaxFiles : DOMAIN content = 1..n
  BY DEF ImagesInv, ImagesTyped
<1>2. MaxFiles \in Nat
  BY ServicesBounds
<1>3. DOMAIN content \subseteq 1..MaxFiles
  BY <1>1, <1>2
<1>4. Images!Referenced \subseteq records
  BY DEF ImagesInv, ImagesTyped, Images!Referenced
<1> QED BY <1>3, <1>4 DEF ImagesInv, ImagesTyped, Images!TypeOK, Images!Ids

-----------------------------------------------------------------------------
(* Imported tables.                                                         *)

\* The operators of the libraries are those of the instance.
LEMMA ReadingMinMax == \A S : Reading!Min(S) = Min(S) /\ Reading!Max(S) = Max(S)
  BY DEF Reading!Min, Min, Reading!Max, Max
LEMMA ReadingRange == \A f : Reading!Range(f) = {f[x] : x \in DOMAIN f}
  BY DEF Reading!Range
LEMMA ReadingCardinality == \A S : Reading!Cardinality(S) = Cardinality(S)
  BY DEF Reading!Cardinality, Cardinality

\* Members of S up to i.
UpTo(S, i) == {j \in S : j <= i}

\* How many members of a set of numbers come before one grows with it.
LEMMA CountGrows ==
    ASSUME NEW S, IsFiniteSet(S), S \subseteq Nat, NEW i \in S, NEW k \in S, i < k
    PROVE  Cardinality(UpTo(S, i)) < Cardinality(UpTo(S, k))
<1>1. UpTo(S, i) \in SUBSET UpTo(S, k) /\ k \in UpTo(S, k) /\ k \notin UpTo(S, i)
  <2>1. i \in Nat /\ k \in Nat /\ \A j \in S : j \in Nat
    OBVIOUS
  <2>2. ASSUME NEW j \in S, j <= i PROVE j <= k
    <3>1. j \in Nat
      BY <2>1
    <3> QED BY <2>1, <2>2, <3>1
  <2>3. k <= k /\ ~(k <= i)
    BY <2>1
  <2> QED BY <2>2, <2>3 DEF UpTo
<1>2. UpTo(S, k) \in SUBSET S
  BY DEF UpTo
<1>3. IsFiniteSet(UpTo(S, k))
  BY <1>2, FS_Subset
<1>4. /\ IsFiniteSet(UpTo(S, i)) /\ Cardinality(UpTo(S, i)) <= Cardinality(UpTo(S, k))
      /\ Cardinality(UpTo(S, k)) # Cardinality(UpTo(S, i))
  BY <1>1, <1>3, FS_Subset
<1> QED BY <1>3, <1>4, FS_CardinalityType

\* Every number up to the size of a set is the count of one of its members.
LEMMA CountReached ==
    ASSUME NEW S, IsFiniteSet(S), S \subseteq Nat, NEW n \in 1..Cardinality(S)
    PROVE  \E i \in S : Cardinality(UpTo(S, i)) = n
<1>1. Cardinality(S) \in Nat /\ S # {}
  BY FS_CardinalityType, FS_EmptySet
<1>2. \A i \in S : UpTo(S, i) \in SUBSET S
  BY DEF UpTo
<1>3. \A i \in S : IsFiniteSet(UpTo(S, i)) /\ Cardinality(UpTo(S, i)) \in Nat
  BY <1>2, FS_Subset, FS_CardinalityType
<1> DEFINE T == {i \in S : Cardinality(UpTo(S, i)) >= n}
<1>4. Max(S) \in T
  <2>1. Max(S) \in S /\ \A y \in S : Max(S) >= y
    <3>1. S \subseteq Int
      OBVIOUS
    <3> QED BY <1>1, <3>1, MaxIsLargest
  <2>2. UpTo(S, Max(S)) = S
    BY <2>1 DEF UpTo
  <2> QED BY <1>1, <2>1, <2>2
<1>5. PICK i \in T : \A y \in T : i <= y
  BY <1>4, MinIsSmallest
<1> DEFINE Before == UpTo(S, i) \ {i}
<1>6. i \in UpTo(S, i)
  BY DEF UpTo
<1>7. IsFiniteSet(Before) /\ Cardinality(Before) = Cardinality(UpTo(S, i)) - 1
  BY <1>3, <1>6, FS_RemoveElement
<1>8. Cardinality(Before) < n
  <2> SUFFICES ASSUME Cardinality(Before) >= n PROVE FALSE
    BY <1>3, <1>7
  <2>1. Before \subseteq Int /\ Before # {}
    <3>1. Cardinality(Before) # 0
      BY <1>7
    <3>2. \A j \in S : j \in Int
      OBVIOUS
    <3> QED BY <3>1, <3>2, FS_EmptySet DEF UpTo
  <2>2. PICK k \in Before : \A y \in Before : k >= y
    BY <1>7, <2>1, MaxIsLargest
  <2>3. k \in S /\ k < i
    BY <2>2 DEF UpTo
  <2>4. UpTo(S, k) = Before
    <3>1. \A j \in S : j \in Nat /\ i \in Nat /\ k \in Nat
      BY <2>3
    <3>2. \A j \in S : j <= k => j <= i /\ j # i
      BY <2>3, <3>1
    <3>3. \A j \in S : j <= i /\ j # i => j <= k
      BY <2>2 DEF UpTo
    <3> QED BY <3>2, <3>3 DEF UpTo
  <2>5. k \in T
    BY <2>3, <2>4
  <2> QED BY <1>5, <2>3, <2>5
<1> QED BY <1>3, <1>7, <1>8

\* The members of a set of numbers in their order.
InOrder(S) == [n \in 1..Cardinality(S) |-> CHOOSE i \in S : Cardinality(UpTo(S, i)) = n]

LEMMA InOrderLists ==
    ASSUME NEW S, IsFiniteSet(S), S \subseteq Nat
    PROVE  /\ Cardinality(S) \in Nat
           /\ InOrder(S) \in [1..Cardinality(S) -> S]
           /\ \A m, n \in 1..Cardinality(S) : m < n => InOrder(S)[m] < InOrder(S)[n]
           /\ \A i \in S : \E n \in 1..Cardinality(S) : InOrder(S)[n] = i
<1>1. Cardinality(S) \in Nat
  BY FS_CardinalityType
<1>2. \A i \in S : Cardinality(UpTo(S, i)) \in 1..Cardinality(S)
  <2> TAKE i \in S
  <2>1. UpTo(S, i) \in SUBSET S /\ UpTo(S, i) # {}
    BY DEF UpTo
  <2> QED BY <1>1, <2>1, FS_Subset, FS_CardinalityType, FS_EmptySet
<1>3. \A n \in 1..Cardinality(S) :
         InOrder(S)[n] \in S /\ Cardinality(UpTo(S, InOrder(S)[n])) = n
  BY CountReached DEF InOrder
<1>4. \A m, n \in 1..Cardinality(S) : m < n => InOrder(S)[m] < InOrder(S)[n]
  <2> SUFFICES ASSUME NEW m \in 1..Cardinality(S), NEW n \in 1..Cardinality(S), m < n,
                      ~(InOrder(S)[m] < InOrder(S)[n])
               PROVE  FALSE
    OBVIOUS
  <2>1. PICK i \in S, k \in S : i = InOrder(S)[m] /\ k = InOrder(S)[n]
    BY <1>3
  <2>2. Cardinality(UpTo(S, i)) = m /\ Cardinality(UpTo(S, k)) = n
    BY <1>3, <2>1
  <2>3. k = i \/ k < i
    BY <2>1
  <2>4. CASE k < i
    <3>1. Cardinality(UpTo(S, k)) < Cardinality(UpTo(S, i))
      BY <2>4, CountGrows
    <3> QED BY <2>2, <3>1
  <2> QED BY <1>1, <2>2, <2>3, <2>4
<1>5. ASSUME NEW i \in S
      PROVE  InOrder(S)[Cardinality(UpTo(S, i))] = i
  <2>1. PICK k \in S : k = InOrder(S)[Cardinality(UpTo(S, i))]
    BY <1>2, <1>3
  <2>2. Cardinality(UpTo(S, k)) = Cardinality(UpTo(S, i))
    BY <1>2, <1>3, <2>1
  <2>3. k < i => Cardinality(UpTo(S, k)) < Cardinality(UpTo(S, i))
    BY CountGrows
  <2>4. i < k => Cardinality(UpTo(S, i)) < Cardinality(UpTo(S, k))
    BY CountGrows
  <2>5. i \in Nat /\ k \in Nat /\ Cardinality(UpTo(S, i)) \in Nat
    BY <1>1, <1>2
  <2> QED BY <2>1, <2>2, <2>3, <2>4, <2>5
<1> QED BY <1>1, <1>2, <1>3, <1>4, <1>5 DEF InOrder

\* What a cell can hold as the parsers read it, and what the table can hold; and the rows.
RawCells == {Reading!Blank} \cup UNION {{row[c] : c \in DOMAIN row} : row \in Rows}
ReadValues ==
    {Reading!Text(c) : c \in RawCells} \cup {Reading!Date(c) : c \in RawCells}
    \cup {Reading!Quantity(c) : c \in RawCells}
Values ==
    ReadValues \cup {Reading!Blank, [text |-> "old"]}
    \cup {[number |-> Reading!Rounded(v.number)] : v \in ReadValues}
ReadRow(kind) == [Reading!Headers(kind) -> ReadValues]
TableRow(kind) == [Reading!Headers(kind) -> Values]

\* The lines of a sheet that carry data, and those of them above line k.
DataOf(kind, s) ==
    {i \in 1..Len(s) :
        i > Reading!HeaderRow(kind, s) /\ ~Reading!Empty(Reading!Cells(kind, s, i))}
Above(kind, s, k) == {i \in DataOf(kind, s) : i < k}

Increasing(f, n) == \A i, j \in 1..n : i < j => f[i] < f[j]

\* The rows of p are the lines D of the sheet s, in their order; lines are their numbers.
Lists(kind, s, p, lines, D) ==
    /\ lines \in [1..Len(p) -> D] /\ Increasing(lines, Len(p))
    /\ \A i \in D : \E n \in 1..Len(p) : lines[n] = i
    /\ \A n \in 1..Len(p) : p[n] = Reading!Fields(kind, s, lines[n])

\* No row of p was refused.
Accepted(kind, p) ==
    /\ \A n \in 1..Len(p) : ~Reading!Unusable(p[n])
    /\ kind = "codes" => \A m, n \in 1..Len(p) : p[m].key = p[n].key => m = n

\* The rows of p are the distinct data rows of the sheet s, each at its first line.
ListsDistinct(kind, s, p, lines) ==
    /\ lines \in [1..Len(p) -> DataOf(kind, s)] /\ Increasing(lines, Len(p))
    /\ \A n \in 1..Len(p) :
          /\ p[n] = Reading!Fields(kind, s, lines[n])
          /\ \A i \in DataOf(kind, s) : Reading!Fields(kind, s, i) = p[n] => lines[n] <= i
    /\ \A i \in DataOf(kind, s) : \E n \in 1..Len(p) : p[n] = Reading!Fields(kind, s, i)

HeaderFound(kind, s) == Reading!HeaderRow(kind, s) \in 1..Len(s)

\* What the import has read so far.
RowsRead(j, s) ==
    /\ j = [pc |-> "rows", kind |-> j.kind, next |-> j.next, parsed |-> j.parsed]
    /\ HeaderFound(j.kind, s) /\ j.next \in Reading!HeaderRow(j.kind, s) + 1 .. Len(s) + 1
    /\ j.parsed \in Seq(ReadRow(j.kind)) /\ Accepted(j.kind, j.parsed)
    /\ Len(j.parsed) = Cardinality(Above(j.kind, s, j.next))
    /\ \E lines : Lists(j.kind, s, j.parsed, lines, Above(j.kind, s, j.next))

\* The rows t are the first n of rows, as the database stores them.
StoredUpTo(t, n, rows) == Len(t) = n /\ \A i \in 1..n : t[i] = Reading!Stored(rows[i])

\* What the import has inserted so far.
RowsInserted(j, s, inserted) ==
    /\ j = [pc |-> "insert", kind |-> j.kind, offset |-> j.offset, parsed |-> j.parsed,
            rows |-> j.rows]
    /\ HeaderFound(j.kind, s) /\ j.offset \in Nat /\ j.parsed = Cardinality(DataOf(j.kind, s))
    /\ j.rows \in Seq(ReadRow(j.kind)) /\ Accepted(j.kind, j.rows)
    /\ \E lines : ListsDistinct(j.kind, s, j.rows, lines)
    /\ StoredUpTo(inserted, Min({j.offset, Len(j.rows)}), j.rows)

ReadingInv ==
    /\ job.pc \in {"uploaded", "read", "rows", "insert", "done", "refused"}
    /\ job.kind \in Reading!Kinds /\ sheet \in Seq(Rows)
    /\ table \in Seq(TableRow(job.kind)) /\ fresh \in Seq(TableRow(job.kind))
    /\ job.pc = "uploaded" => job = [pc |-> "uploaded", kind |-> job.kind]
    /\ job.pc = "read" => job = [pc |-> "read", kind |-> job.kind]
    /\ job.pc = "rows" => RowsRead(job, sheet)
    /\ job.pc = "insert" => RowsInserted(job, sheet, fresh)

LEMMA MinOfTwo ==
    ASSUME NEW m \in Nat, NEW n \in Nat
    PROVE  Min({m, n}) = IF m <= n THEN m ELSE n
  BY MinIsSmallest

\* Every kind has the two columns of texts, and storing a row changes neither.
LEMMA TextColumns ==
    ASSUME NEW kind \in Reading!Kinds
    PROVE  /\ {"key", "rest"} \subseteq Reading!Headers(kind)
           /\ \A row \in ReadRow(kind) :
                 Reading!Stored(row) \in TableRow(kind) /\ Reading!Stored(row).key = row.key
<1>1. {"key", "rest"} \subseteq Reading!Headers(kind)
  BY DEF Reading!Kinds, Reading!Headers
<1>2. ASSUME NEW row \in ReadRow(kind)
      PROVE  Reading!Stored(row) \in TableRow(kind) /\ Reading!Stored(row).key = row.key
  <2>1. /\ row \in [Reading!Headers(kind) -> ReadValues] /\ DOMAIN row = Reading!Headers(kind)
        /\ row \in TableRow(kind)
    BY DEF ReadRow, TableRow, Values
  <2>2. CASE Reading!Stored(row) = row
    BY <2>1, <2>2
  <2>3. CASE /\ "quantity" \in DOMAIN row
             /\ Reading!Stored(row) =
                   [row EXCEPT !.quantity = [number |-> Reading!Rounded(row.quantity.number)]]
    <3>1. row.quantity \in ReadValues
      BY <2>1, <2>3
    <3>2. PICK v \in Values : v = [number |-> Reading!Rounded(row.quantity.number)]
      BY <3>1 DEF Values
    <3>3. Reading!Stored(row) = [row EXCEPT !.quantity = v]
      BY <2>3, <3>2
    <3>4. [row EXCEPT !.quantity = v].key = row.key
      BY <1>1, <2>1
    <3>5. [row EXCEPT !.quantity = v] \in TableRow(kind)
      BY <2>1 DEF TableRow
    <3> QED BY <3>3, <3>4, <3>5
  <2> QED BY <2>2, <2>3 DEF Reading!Stored
<1> QED BY <1>1, <1>2

LEMMA FieldsType ==
    ASSUME NEW kind \in Reading!Kinds, NEW s \in Seq(Rows), NEW i \in 1..Len(s)
    PROVE  Reading!Fields(kind, s, i) \in ReadRow(kind)
<1>1. s[i] \in Rows
  OBVIOUS
<1>2. \A c \in DOMAIN s[i] : s[i][c] \in RawCells
  BY <1>1 DEF RawCells
<1>3. PICK cells : cells = Reading!Cells(kind, s, i)
  OBVIOUS
<1>4. DOMAIN cells = Reading!Headers(kind) /\ \A h \in Reading!Headers(kind) : cells[h] \in RawCells
  BY <1>2, <1>3 DEF Reading!Cells, RawCells
<1>5. Reading!Parsed(cells) \in ReadRow(kind)
  <2> DEFINE v(h) == CASE h = "date" -> Reading!Date(cells[h])
                       [] h = "quantity" -> Reading!Quantity(cells[h])
                       [] OTHER -> Reading!Text(cells[h])
  <2>1. ASSUME NEW h \in Reading!Headers(kind) PROVE v(h) \in ReadValues
    <3>1. cells[h] \in RawCells
      BY <1>4
    <3> QED BY <3>1 DEF ReadValues
  <2>2. Reading!Parsed(cells) = [h \in Reading!Headers(kind) |-> v(h)]
    BY <1>4 DEF Reading!Parsed
  <2> HIDE DEF v
  <2> QED BY <2>1, <2>2 DEF ReadRow
<1> QED BY <1>3, <1>5 DEF Reading!Fields

LEMMA HeaderIsRow ==
    ASSUME NEW kind, NEW s \in Seq(Rows), Reading!HeaderRow(kind, s) # 0
    PROVE  Reading!HeaderRow(kind, s) \in 1..Len(s)
<1> DEFINE found == {i \in 1..Reading!Min({HeaderSearch, Len(s)}) :
                        \A h \in Reading!Headers(kind) : Reading!Has(s[i], h)}
<1>1. Len(s) \in Nat /\ HeaderSearch \in Nat
  BY ServicesBounds
<1>2. Reading!Min({HeaderSearch, Len(s)}) \in Nat /\ Reading!Min({HeaderSearch, Len(s)}) <= Len(s)
  BY <1>1, ReadingMinMax, MinOfTwo
<1>3. found \subseteq 1..Len(s)
  BY <1>1, <1>2
<1>4. found # {} /\ Reading!HeaderRow(kind, s) = Min(found)
  BY ReadingMinMax DEF Reading!HeaderRow
<1> HIDE DEF found
<1>5. found \subseteq Nat
  BY <1>1, <1>3
<1>6. Min(found) \in found
  BY <1>4, <1>5, MinIsSmallest
<1> QED BY <1>3, <1>4, <1>6

LEMMA ReadingInit == Reading!Init => ReadingInv
<1> SUFFICES ASSUME Reading!Init PROVE ReadingInv
  OBVIOUS
<1>1. /\ job \in [pc : {"uploaded"}, kind : Reading!Kinds] /\ sheet = <<>> /\ fresh = <<>>
      /\ table = <<[h \in Reading!Headers(job.kind) |->
                       IF h = "key" THEN [text |-> "old"] ELSE Reading!Blank]>>
  BY DEF Reading!Init
<1>2. [h \in Reading!Headers(job.kind) |-> IF h = "key" THEN [text |-> "old"] ELSE Reading!Blank]
         \in TableRow(job.kind)
  BY DEF TableRow, Values
<1>3. job.pc = "uploaded" /\ job.kind \in Reading!Kinds /\ job = [pc |-> "uploaded", kind |-> job.kind]
  BY <1>1
<1> QED BY <1>1, <1>2, <1>3 DEF ReadingInv

\* The data rows are lines of the sheet.
LEMMA DataRowsFinite ==
    ASSUME NEW kind, NEW s \in Seq(Rows)
    PROVE  DataOf(kind, s) \subseteq 1..Len(s) /\ DataOf(kind, s) \subseteq Nat /\ IsFiniteSet(DataOf(kind, s))
<1>1. DataOf(kind, s) \in SUBSET (1..Len(s))
  BY DEF DataOf
<1>2. Len(s) \in Nat
  OBVIOUS
<1>3. IsFiniteSet(1..Len(s))
  BY <1>2, FS_Interval
<1>4. IsFiniteSet(DataOf(kind, s))
  BY <1>1, <1>3, FS_Subset
<1> QED BY <1>1, <1>2, <1>4

\* A row that carries data comes after the ones above it.
LEMMA AboveNext ==
    ASSUME NEW kind, NEW s \in Seq(Rows), HeaderFound(kind, s),
           NEW k \in Reading!HeaderRow(kind, s) + 1 .. Len(s)
    PROVE  /\ Reading!Empty(Reading!Cells(kind, s, k)) => Above(kind, s, k + 1) = Above(kind, s, k)
           /\ ~Reading!Empty(Reading!Cells(kind, s, k)) =>
                 /\ Above(kind, s, k + 1) = Above(kind, s, k) \cup {k}
                 /\ Cardinality(Above(kind, s, k + 1)) = Cardinality(Above(kind, s, k)) + 1
           /\ Above(kind, s, k) \subseteq 1..(k - 1)
<1>1. Len(s) \in Nat /\ Reading!HeaderRow(kind, s) \in Nat
  BY DEF HeaderFound
<1>2. k \in DataOf(kind, s) <=> ~Reading!Empty(Reading!Cells(kind, s, k))
  BY <1>1 DEF DataOf
<1>3. \A i \in DataOf(kind, s) : i \in Nat /\ i > 0 /\ (i < k + 1 <=> i < k \/ i = k)
  BY <1>1, DataRowsFinite
<1>4. Above(kind, s, k) \in SUBSET DataOf(kind, s) /\ k \notin Above(kind, s, k)
  BY <1>1 DEF Above
<1>5. IsFiniteSet(Above(kind, s, k))
  BY <1>4, DataRowsFinite, FS_Subset
<1>6. Above(kind, s, k + 1) = IF k \in DataOf(kind, s) THEN Above(kind, s, k) \cup {k} ELSE Above(kind, s, k)
  BY <1>3 DEF Above
<1>7. Cardinality(Above(kind, s, k) \cup {k}) = Cardinality(Above(kind, s, k)) + 1
  BY <1>4, <1>5, FS_AddElement
<1>8. Above(kind, s, k) \subseteq 1..(k - 1)
  BY <1>1, <1>3 DEF Above
<1> QED BY <1>2, <1>6, <1>7, <1>8

\* The header is found, and no row read yet.
LEMMA LocateKeeps == ReadingInv /\ Reading!locate => ReadingInv'
<1> SUFFICES ASSUME ReadingInv, Reading!locate PROVE ReadingInv'
  OBVIOUS
<1>1. UNCHANGED <<sheet, table, fresh>>
  BY DEF Reading!locate
<1>2. CASE Reading!HeaderRow(job.kind, sheet) = 0
  BY <1>1, <1>2 DEF Reading!locate, Reading!Refused, ReadingInv
<1>3. CASE Reading!HeaderRow(job.kind, sheet) # 0
  <2> DEFINE k == Reading!HeaderRow(job.kind, sheet) + 1
  <2>1. job' = [pc |-> "rows", kind |-> job.kind, next |-> k, parsed |-> <<>>]
        /\ job.pc = "read"
    BY <1>3 DEF Reading!locate
  <2>2. HeaderFound(job.kind, sheet) /\ Len(sheet) \in Nat /\ sheet \in Seq(Rows)
    BY <1>3, HeaderIsRow DEF ReadingInv, HeaderFound
  <2>3. k \in Reading!HeaderRow(job.kind, sheet) + 1 .. Len(sheet) + 1
    BY <2>2 DEF HeaderFound
  <2>4. Above(job.kind, sheet, k) = {}
    <3>1. \A i \in DataOf(job.kind, sheet) : i > Reading!HeaderRow(job.kind, sheet) /\ i \in Nat
      BY <2>2, DataRowsFinite DEF DataOf
    <3> QED BY <2>2, <3>1 DEF Above, HeaderFound
  <2>5. Cardinality(Above(job.kind, sheet, k)) = 0
    BY <2>4, FS_EmptySet
  <2>6. Lists(job.kind, sheet, <<>>, <<>>, Above(job.kind, sheet, k))
    BY <2>4 DEF Lists, Increasing
  <2>7. Accepted(job.kind, <<>>) /\ <<>> \in Seq(ReadRow(job.kind))
    BY DEF Accepted
  <2> HIDE DEF k
  <2>8. RowsRead(job', sheet)
    BY <2>1, <2>2, <2>3, <2>5, <2>6, <2>7 DEF RowsRead
  <2>9. job'.kind = job.kind /\ job'.pc = "rows"
    BY <2>1
  <2> QED BY <1>1, <2>8, <2>9 DEF ReadingInv
<1> QED BY <1>2, <1>3

\* One row more is listed after the ones above it.
LEMMA ListsMore ==
    ASSUME NEW kind, NEW s, NEW k \in Nat, NEW D, D \subseteq 1..(k - 1),
           NEW p \in Seq(ReadRow(kind)), NEW lines,
           Lists(kind, s, p, lines, D), NEW row \in ReadRow(kind), row = Reading!Fields(kind, s, k)
    PROVE  \E more : Lists(kind, s, Append(p, row), more, D \cup {k})
<1> DEFINE n == Len(p)
           more == [i \in 1..(n + 1) |-> IF i = n + 1 THEN k ELSE lines[i]]
           q == Append(p, row)
<1>1. /\ n \in Nat /\ Len(q) = n + 1 /\ q[n + 1] = row /\ \A i \in 1..n : q[i] = p[i]
      /\ 1..(n + 1) = 1..n \cup {n + 1}
  BY AppendProperties
<1>2. /\ lines \in [1..n -> D] /\ Increasing(lines, n)
      /\ \A i \in D : \E m \in 1..n : lines[m] = i
      /\ \A m \in 1..n : p[m] = Reading!Fields(kind, s, lines[m])
  BY DEF Lists
<1>3. more \in [1..(n + 1) -> D \cup {k}]
  BY <1>1, <1>2
<1>4. Increasing(more, n + 1)
  <2> SUFFICES ASSUME NEW i \in 1..(n + 1), NEW j \in 1..(n + 1), i < j
               PROVE  more[i] < more[j]
    BY DEF Increasing
  <2>1. i \in 1..n /\ i # n + 1
    BY <1>1
  <2>4. more[i] = lines[i] /\ lines[i] \in 1..(k - 1)
    BY <1>2, <2>1
  <2>2. CASE j = n + 1
    BY <2>2, <2>4
  <2>3. CASE j \in 1..n
    <3>1. more[j] = lines[j]
      BY <1>1, <2>3
    <3> QED BY <1>2, <2>1, <2>3, <2>4, <3>1 DEF Increasing
  <2> QED BY <1>1, <2>2, <2>3
<1>5. \A i \in D \cup {k} : \E m \in 1..(n + 1) : more[m] = i
  <2> SUFFICES ASSUME NEW i \in D \cup {k} PROVE \E m \in 1..(n + 1) : more[m] = i
    OBVIOUS
  <2>1. CASE i = k
    <3>1. n + 1 \in 1..(n + 1) /\ more[n + 1] = k
      BY <1>1
    <3> QED BY <2>1, <3>1
  <2>2. CASE i \in D
    <3>1. PICK m \in 1..n : lines[m] = i
      BY <1>2, <2>2
    <3>2. m \in 1..(n + 1) /\ more[m] = i
      BY <1>1, <3>1
    <3> QED BY <3>2
  <2> QED BY <2>1, <2>2
<1>6. \A m \in 1..(n + 1) : q[m] = Reading!Fields(kind, s, more[m])
  BY <1>1, <1>2
<1> HIDE DEF more, q
<1> QED BY <1>1, <1>3, <1>4, <1>5, <1>6 DEF Lists

\* A row is read, passed over or refused.
LEMMA ParseKeeps == ReadingInv /\ Reading!parse_row => ReadingInv'
<1> SUFFICES ASSUME ReadingInv, Reading!parse_row PROVE ReadingInv'
  OBVIOUS
<1> DEFINE fields == Reading!Fields(job.kind, sheet, job.next)
           empty == Reading!Empty(Reading!Cells(job.kind, sheet, job.next))
<1>1. /\ UNCHANGED <<sheet, table, fresh>> /\ job.pc = "rows" /\ job.next <= Len(sheet)
      /\ job' = IF ~empty /\ Reading!Refuses(fields, job.parsed)
                THEN [pc |-> "refused", kind |-> job.kind]
                ELSE [job EXCEPT !.next = @ + 1,
                                 !.parsed = @ \o (IF empty THEN <<>> ELSE <<fields>>)]
  BY DEF Reading!parse_row, Reading!Refused
<1>2. RowsRead(job, sheet) /\ job.kind \in Reading!Kinds /\ sheet \in Seq(Rows)
  BY <1>1 DEF ReadingInv
<1>3. /\ job = [pc |-> "rows", kind |-> job.kind, next |-> job.next, parsed |-> job.parsed]
      /\ HeaderFound(job.kind, sheet) /\ job.next \in Reading!HeaderRow(job.kind, sheet) + 1 .. Len(sheet)
      /\ Reading!HeaderRow(job.kind, sheet) \in Nat /\ job.next \in 1..Len(sheet) /\ Len(sheet) \in Nat
      /\ job.parsed \in Seq(ReadRow(job.kind)) /\ Len(job.parsed) \in Nat
  BY <1>1, <1>2 DEF RowsRead, HeaderFound
<1>4. fields \in ReadRow(job.kind)
  BY <1>2, <1>3, FieldsType
<1>5. CASE job' = [pc |-> "refused", kind |-> job.kind]
  <2>1. job'.pc = "refused" /\ job'.kind = job.kind
    BY <1>5
  <2>2. UNCHANGED <<sheet, table, fresh>>
    BY <1>1
  <2> QED BY <2>1, <2>2 DEF ReadingInv
<1>6. CASE empty
  <2>1. job.parsed \o <<>> = job.parsed
    BY <1>3
  <2>2. job' = [pc |-> "rows", kind |-> job.kind, next |-> job.next + 1, parsed |-> job.parsed]
    BY <1>1, <1>3, <1>6, <2>1
  <2>3. Above(job.kind, sheet, job.next + 1) = Above(job.kind, sheet, job.next)
    BY <1>2, <1>3, <1>6, AboveNext
  <2>4. RowsRead(job', sheet)
    BY <1>2, <1>3, <2>2, <2>3 DEF RowsRead
  <2> QED BY <1>1, <1>2, <2>2, <2>4 DEF ReadingInv
<1>7. CASE ~empty /\ ~Reading!Refuses(fields, job.parsed)
  <2> DEFINE p == Append(job.parsed, fields)
  <2> HIDE DEF fields, empty
  <2>1. p = job.parsed \o <<fields>>
    BY <1>3, <1>4, AppendIsConcat
  <2>2. job' = [pc |-> "rows", kind |-> job.kind, next |-> job.next + 1, parsed |-> p]
    BY <1>1, <1>3, <1>7, <2>1
  <2>3. /\ Above(job.kind, sheet, job.next + 1) = Above(job.kind, sheet, job.next) \cup {job.next}
        /\ Cardinality(Above(job.kind, sheet, job.next + 1)) = Cardinality(Above(job.kind, sheet, job.next)) + 1
        /\ Above(job.kind, sheet, job.next) \subseteq 1..(job.next - 1)
    BY <1>2, <1>3, <1>7, AboveNext DEF fields, empty
  <2>4. p \in Seq(ReadRow(job.kind)) /\ Len(p) = Len(job.parsed) + 1
        /\ p[Len(job.parsed) + 1] = fields /\ \A i \in 1..Len(job.parsed) : p[i] = job.parsed[i]
    BY <1>3, <1>4, AppendProperties
  <2>5. \E lines : Lists(job.kind, sheet, p, lines, Above(job.kind, sheet, job.next + 1))
    <3>1. PICK lines : Lists(job.kind, sheet, job.parsed, lines, Above(job.kind, sheet, job.next))
      BY <1>2 DEF RowsRead
    <3>2. PICK k \in Nat : k = job.next
      BY <1>3
    <3>3. PICK D : D = Above(job.kind, sheet, k) /\ D \subseteq 1..(k - 1)
      BY <2>3, <3>2
    <3>4. Lists(job.kind, sheet, job.parsed, lines, D) /\ fields = Reading!Fields(job.kind, sheet, k)
      BY <3>1, <3>2, <3>3 DEF fields
    <3>5. \E more : Lists(job.kind, sheet, p, more, D \cup {k})
      BY <1>3, <1>4, <3>3, <3>4, ListsMore
    <3> QED BY <2>3, <3>2, <3>3, <3>5
  <2>6. Accepted(job.kind, p)
    <3>1. Accepted(job.kind, job.parsed)
      BY <1>2 DEF RowsRead
    <3>2. job.kind = "codes" => \A i \in 1..Len(job.parsed) : job.parsed[i].key # fields.key
      <4>1. job.kind = "codes" => ~(\E r \in Reading!Range(job.parsed) : r.key = fields.key)
        BY <1>7 DEF Reading!Refuses, Reading!CodesRefuse
      <4> QED BY <1>3, <4>1, ReadingRange
    <3>3. ~Reading!Unusable(fields)
      BY <1>2, <1>7 DEF Reading!Refuses, Reading!CodesRefuse, Reading!HuaxingRefuses,
                        Reading!LiteRefuses, Reading!Kinds
    <3>5. 1..Len(p) = 1..Len(job.parsed) \cup {Len(job.parsed) + 1}
      BY <1>3, <2>4
    <3> HIDE DEF p
    <3> QED BY <1>3, <2>4, <3>1, <3>2, <3>3, <3>5 DEF Accepted
  <2> HIDE DEF p
  <2>7. RowsRead(job', sheet)
    <3>1. job.next + 1 \in Reading!HeaderRow(job.kind, sheet) + 1 .. Len(sheet) + 1
      BY <1>3
    <3>2. Len(job.parsed) = Cardinality(Above(job.kind, sheet, job.next))
      BY <1>2 DEF RowsRead
    <3> QED BY <1>3, <2>2, <2>3, <2>4, <2>5, <2>6, <3>1, <3>2 DEF RowsRead
  <2> QED BY <1>1, <1>2, <2>2, <2>7 DEF ReadingInv
<1> QED BY <1>1, <1>5, <1>6, <1>7

\* The distinct rows of p are taken where they stand first.
LEMMA DeduplicatedLists ==
    ASSUME NEW s \in Seq(Rows), NEW kind \in Reading!Kinds, NEW p \in Seq(ReadRow(kind)),
           NEW lines, Lists(kind, s, p, lines, DataOf(kind, s)), Accepted(kind, p)
    PROVE  LET rows == Reading!Deduplicated(kind, p)
           IN  /\ rows \in Seq(ReadRow(kind)) /\ Accepted(kind, rows)
               /\ \E firsts : ListsDistinct(kind, s, rows, firsts)
<1>1. /\ lines \in [1..Len(p) -> DataOf(kind, s)] /\ Increasing(lines, Len(p))
      /\ \A i \in DataOf(kind, s) : \E m \in 1..Len(p) : lines[m] = i
      /\ \A m \in 1..Len(p) : p[m] = Reading!Fields(kind, s, lines[m])
      /\ Len(p) \in Nat /\ DataOf(kind, s) \subseteq Nat /\ DOMAIN p = 1..Len(p)
  BY DataRowsFinite DEF Lists
<1>2. \A m, n \in 1..Len(p) : m <= n => lines[m] <= lines[n]
  <2> SUFFICES ASSUME NEW m \in 1..Len(p), NEW n \in 1..Len(p), m <= n
               PROVE  lines[m] <= lines[n]
    OBVIOUS
  <2>1. lines[m] \in Nat /\ lines[n] \in Nat /\ (m = n \/ m < n)
    BY <1>1
  <2>2. m < n => lines[m] < lines[n]
    BY <1>1 DEF Increasing
  <2> QED BY <2>1, <2>2
<1>3. CASE kind = "codes"
  <2>1. Reading!Deduplicated(kind, p) = p
    BY <1>3 DEF Reading!Deduplicated
  <2>2. ASSUME NEW n \in 1..Len(p), NEW i \in DataOf(kind, s), Reading!Fields(kind, s, i) = p[n]
        PROVE  lines[n] <= i
    <3>1. PICK m \in 1..Len(p) : lines[m] = i
      BY <1>1
    <3>2. p[m].key = p[n].key
      BY <1>1, <2>2, <3>1
    <3>3. m = n
      BY <1>3, <3>2 DEF Accepted
    <3> QED BY <1>1, <3>1, <3>3
  <2>3. \A i \in DataOf(kind, s) : \E n \in 1..Len(p) : p[n] = Reading!Fields(kind, s, i)
    BY <1>1
  <2>4. ListsDistinct(kind, s, p, lines)
    BY <1>1, <2>2, <2>3 DEF ListsDistinct
  <2> QED BY <2>1, <2>4
<1>4. CASE kind # "codes"
  <2> DEFINE firsts == {i \in DOMAIN p : \A j \in 1..(i - 1) : p[j] # p[i]}
             order == InOrder(firsts)
             size == Cardinality(firsts)
             rows == Reading!Deduplicated(kind, p)
             places == [n \in 1..size |-> lines[order[n]]]
  <2>1. firsts \in SUBSET (1..Len(p)) /\ firsts \subseteq Nat
    BY <1>1
  <2>2. IsFiniteSet(firsts)
    <3>1. IsFiniteSet(1..Len(p))
      BY <1>1, FS_Interval
    <3> HIDE DEF firsts
    <3> QED BY <2>1, <3>1, FS_Subset
  <2>3. rows = [n \in 1..size |-> p[order[n]]]
    <3>1. Reading!Deduplicated(kind, p) =
             [n \in 1..Cardinality(firsts) |->
                 p[CHOOSE i \in firsts : Cardinality({j \in firsts : j <= i}) = n]]
      <4>1. Reading!Deduplicated(kind, p) =
               IF kind = "codes" THEN p
               ELSE [n \in 1..Cardinality(firsts) |->
                        p[CHOOSE i \in firsts : Cardinality({j \in firsts : j <= i}) = n]]
        BY Zenon DEF Reading!Deduplicated, Reading!DedupeKey, Reading!Cardinality, Cardinality
      <4> QED BY <1>4, <4>1
    <3> QED BY <3>1 DEF InOrder, UpTo
  <2>4. \A i \in firsts : i \in 1..Len(p) /\ \A j \in 1..Len(p) : j < i => p[j] # p[i]
    BY <1>1, <2>1
  <2>5. \A m \in 1..Len(p) : \E i \in firsts : i <= m /\ p[i] = p[m]
    <3> TAKE m \in 1..Len(p)
    <3> DEFINE equal == {j \in 1..Len(p) : p[j] = p[m]}
    <3>1. equal \subseteq Nat /\ m \in equal
      BY <1>1
    <3>2. Min(equal) \in equal /\ \A y \in equal : Min(equal) <= y
      BY <3>1, MinIsSmallest
    <3>3. PICK i \in equal : \A y \in equal : i <= y
      BY <3>2
    <3>4. ASSUME NEW j \in 1..(i - 1) PROVE p[j] # p[i]
      <4>1. i \in 1..Len(p) /\ j \in 1..Len(p) /\ j < i
        BY <1>1, <3>3
      <4> QED BY <3>3, <4>1
    <3>5. i \in firsts
      BY <1>1, <3>3, <3>4
    <3> QED BY <3>1, <3>3, <3>5
  <2> HIDE DEF firsts
  <2>6. /\ size \in Nat /\ order \in [1..size -> firsts]
        /\ \A m, n \in 1..size : m < n => order[m] < order[n]
        /\ \A i \in firsts : \E n \in 1..size : order[n] = i
    BY <2>1, <2>2, InOrderLists
  <2> HIDE DEF order, size
  <2>7. \A n \in 1..size : order[n] \in 1..Len(p) /\ order[n] \in firsts
    BY <2>1, <2>6
  <2>8. rows \in Seq(ReadRow(kind)) /\ Len(rows) = size /\ \A n \in 1..size : rows[n] = p[order[n]]
    BY <2>3, <2>6, <2>7
  <2> HIDE DEF rows
  <2>9. Accepted(kind, rows)
    BY <1>4, <2>7, <2>8 DEF Accepted
  <2>10. places \in [1..size -> DataOf(kind, s)] /\ \A n \in 1..size : places[n] = lines[order[n]]
    BY <1>1, <2>7
  <2> HIDE DEF places
  <2>11. Increasing(places, size)
    BY <1>1, <2>6, <2>7, <2>10 DEF Increasing
  <2>12. ASSUME NEW n \in 1..size, NEW i \in DataOf(kind, s), Reading!Fields(kind, s, i) = p[order[n]]
         PROVE  places[n] <= i
    <3>1. PICK m \in 1..Len(p) : lines[m] = i
      BY <1>1
    <3>2. p[m] = p[order[n]]
      BY <1>1, <2>12, <3>1
    <3>3. ~(m < order[n])
      BY <2>4, <2>7, <3>2
    <3>4. order[n] <= m
      BY <1>1, <2>7, <3>3
    <3> QED BY <1>2, <2>7, <2>10, <3>1, <3>4
  <2>13. ASSUME NEW i \in DataOf(kind, s)
         PROVE  \E n \in 1..size : rows[n] = Reading!Fields(kind, s, i)
    <3>1. PICK m \in 1..Len(p) : p[m] = Reading!Fields(kind, s, i)
      BY <1>1
    <3>2. PICK k \in firsts : p[k] = p[m]
      BY <2>5
    <3>3. PICK n \in 1..size : order[n] = k
      BY <2>6
    <3> QED BY <2>8, <3>1, <3>2, <3>3
  <2>14. ListsDistinct(kind, s, rows, places)
    <3>1. places \in [1..Len(rows) -> DataOf(kind, s)] /\ Increasing(places, Len(rows))
      BY <2>8, <2>10, <2>11
    <3>2. ASSUME NEW n \in 1..Len(rows)
          PROVE  /\ rows[n] = Reading!Fields(kind, s, places[n])
                 /\ \A i \in DataOf(kind, s) : Reading!Fields(kind, s, i) = rows[n] => places[n] <= i
      <4>1. rows[n] = p[order[n]] /\ places[n] = lines[order[n]] /\ order[n] \in 1..Len(p)
        BY <2>7, <2>8, <2>10
      <4>2. p[order[n]] = Reading!Fields(kind, s, lines[order[n]])
        BY <1>1, <4>1
      <4> QED BY <2>8, <2>12, <4>1, <4>2
    <3>3. \A i \in DataOf(kind, s) : \E n \in 1..Len(rows) : rows[n] = Reading!Fields(kind, s, i)
      BY <2>8, <2>13
    <3> QED BY <3>1, <3>2, <3>3 DEF ListsDistinct
  <2> QED BY <2>8, <2>9, <2>14 DEF rows
<1> QED BY <1>3, <1>4

\* The table is emptied once every row was read.
LEMMA DeleteRowsKeeps == ReadingInv /\ Reading!delete_rows => ReadingInv'
<1> SUFFICES ASSUME ReadingInv, Reading!delete_rows PROVE ReadingInv'
  OBVIOUS
<1>1. /\ UNCHANGED <<sheet, table>> /\ fresh' = <<>> /\ job.pc = "rows" /\ job.next > Len(sheet)
      /\ sheet \in Seq(Rows) /\ table \in Seq(TableRow(job.kind)) /\ job.kind \in Reading!Kinds
      /\ RowsRead(job, sheet)
  BY DEF Reading!delete_rows, ReadingInv
<1>2. CASE job' = Reading!Refused
  <2>1. job'.pc = "refused" /\ job'.kind = job.kind /\ fresh' \in Seq(TableRow(job.kind))
    BY <1>1, <1>2 DEF Reading!Refused
  <2> QED BY <1>1, <2>1 DEF ReadingInv
<1>3. CASE job' = [pc |-> "insert", kind |-> job.kind, offset |-> 0, parsed |-> Len(job.parsed),
                   rows |-> Reading!Deduplicated(job.kind, job.parsed)]
  <2>1. /\ HeaderFound(job.kind, sheet) /\ job.next = Len(sheet) + 1 /\ Len(sheet) \in Nat
        /\ job.parsed \in Seq(ReadRow(job.kind)) /\ Accepted(job.kind, job.parsed)
        /\ Len(job.parsed) = Cardinality(Above(job.kind, sheet, job.next))
    BY <1>1 DEF RowsRead, HeaderFound
  <2>2. Above(job.kind, sheet, job.next) = DataOf(job.kind, sheet)
    <3>1. \A i \in DataOf(job.kind, sheet) : i < Len(sheet) + 1
      BY <1>1, <2>1, DataRowsFinite
    <3> QED BY <2>1, <3>1 DEF Above
  <2>3. PICK lines : Lists(job.kind, sheet, job.parsed, lines, DataOf(job.kind, sheet))
    BY <1>1, <2>2 DEF RowsRead
  <2>4. PICK rows : rows = Reading!Deduplicated(job.kind, job.parsed)
    OBVIOUS
  <2>5. /\ rows \in Seq(ReadRow(job.kind)) /\ Accepted(job.kind, rows)
        /\ \E firsts : ListsDistinct(job.kind, sheet, rows, firsts)
    BY <1>1, <2>1, <2>3, <2>4, DeduplicatedLists
  <2>6. Min({0, Len(rows)}) = 0
    BY <2>5, MinOfTwo
  <2>7. StoredUpTo(<<>>, 0, rows)
    BY DEF StoredUpTo
  <2>8. job' = [pc |-> "insert", kind |-> job.kind, offset |-> 0, parsed |-> Len(job.parsed),
                rows |-> rows]
    BY <1>3, <2>4
  <2>9. RowsInserted(job', sheet, fresh')
    BY <1>1, <2>1, <2>2, <2>5, <2>6, <2>7, <2>8 DEF RowsInserted
  <2>10. job'.pc = "insert" /\ job'.kind = job.kind /\ fresh' \in Seq(TableRow(job.kind))
    BY <1>1, <2>8
  <2> QED BY <1>1, <2>9, <2>10 DEF ReadingInv
<1> QED BY <1>2, <1>3 DEF Reading!delete_rows

\* The first rows as stored, and the batch after them.
LEMMA BatchFollows ==
    ASSUME NEW kind \in Reading!Kinds, NEW rows \in Seq(ReadRow(kind)),
           NEW t \in Seq(TableRow(kind)), NEW o \in 0..Len(rows), NEW e \in o..Len(rows),
           StoredUpTo(t, o, rows), NEW batch, batch = SubSeq(rows, o + 1, e)
    PROVE  LET more == t \o [n \in DOMAIN batch |-> Reading!Stored(batch[n])]
           IN  more \in Seq(TableRow(kind)) /\ StoredUpTo(more, e, rows)
<1> DEFINE stored == [n \in DOMAIN batch |-> Reading!Stored(batch[n])]
           more == t \o stored
<1>1. /\ Len(rows) \in Nat /\ o \in Nat /\ e \in Nat /\ o <= e /\ e <= Len(rows)
      /\ \A i \in 1..Len(rows) : rows[i] \in ReadRow(kind)
      /\ Len(t) = o /\ \A i \in 1..o : t[i] = Reading!Stored(rows[i])
  BY DEF StoredUpTo
<1>2. batch \in Seq(ReadRow(kind)) /\ Len(batch) = e - o /\ \A n \in 1..(e - o) : batch[n] = rows[o + n]
  <2>1. \A i \in o + 1 .. e : rows[i] \in ReadRow(kind)
    BY <1>1
  <2>2. o + 1 \in Int /\ Len(batch) = IF o + 1 <= e THEN e - (o + 1) + 1 ELSE 0
    BY <1>1, <2>1, SubSeqProperties
  <2>3. batch \in Seq(ReadRow(kind)) /\ \A n \in 1..(e - (o + 1) + 1) : batch[n] = rows[o + 1 + n - 1]
    BY <1>1, <2>1, SubSeqProperties
  <2>4. e - (o + 1) + 1 = e - o /\ \A n \in 1..(e - o) : o + 1 + n - 1 = o + n
    BY <1>1
  <2>5. Len(batch) = e - o
    BY <1>1, <2>2
  <2> QED BY <2>3, <2>4, <2>5
<1>3. DOMAIN batch = 1..(e - o)
  BY <1>2
<1>4. \A n \in 1..(e - o) : Reading!Stored(batch[n]) \in TableRow(kind)
  BY <1>2, TextColumns
<1>5. /\ stored \in Seq(TableRow(kind)) /\ Len(stored) = e - o
      /\ \A n \in 1..(e - o) : stored[n] = Reading!Stored(rows[o + n])
  <2>1. stored = [n \in 1..(e - o) |-> Reading!Stored(batch[n])]
    BY <1>3
  <2>2. PICK size \in Nat : size = e - o
    BY <1>1
  <2>3. stored \in [1..size -> TableRow(kind)]
    BY <1>4, <2>1, <2>2
  <2>4. \A n \in 1..(e - o) : stored[n] = Reading!Stored(rows[o + n])
    BY <1>2, <2>1
  <2> HIDE DEF stored
  <2>5. stored \in Seq(TableRow(kind)) /\ Len(stored) = size
    BY <2>3
  <2> QED BY <2>2, <2>4, <2>5
<1> HIDE DEF stored
<1>6. /\ more \in Seq(TableRow(kind)) /\ Len(more) = e
      /\ \A i \in 1..e : more[i] = IF i <= o THEN t[i] ELSE stored[i - o]
  <2>1. Len(t) = o /\ Len(stored) = e - o /\ o + (e - o) = e
    BY <1>1, <1>5
  <2>2. /\ more \in Seq(TableRow(kind)) /\ Len(more) = Len(t) + Len(stored)
        /\ \A i \in 1..Len(t) + Len(stored) :
              more[i] = IF i <= Len(t) THEN t[i] ELSE stored[i - Len(t)]
    BY <1>5, ConcatProperties
  <2> HIDE DEF more
  <2> QED BY <2>1, <2>2
<1> HIDE DEF more
<1>7. ASSUME NEW i \in 1..e PROVE more[i] = Reading!Stored(rows[i])
  <2>1. CASE i <= o
    BY <1>1, <1>6, <2>1
  <2>2. CASE ~(i <= o)
    <3>1. PICK n \in 1..(e - o) : n = i - o /\ o + n = i
      BY <1>1, <2>2
    <3>2. stored[n] = Reading!Stored(rows[o + n])
      BY <1>5
    <3> QED BY <1>6, <2>2, <3>1, <3>2
  <2> QED BY <2>1, <2>2
<1>8. StoredUpTo(more, e, rows)
  BY <1>1, <1>6, <1>7 DEF StoredUpTo
<1> QED BY <1>6, <1>8 DEF more, stored

\* A batch begins where the last one ended.
LEMMA InsertBatchKeeps == ReadingInv /\ Reading!insert_batch => ReadingInv'
<1> SUFFICES ASSUME ReadingInv, Reading!insert_batch PROVE ReadingInv'
  OBVIOUS
<1>1. /\ UNCHANGED <<sheet, table>> /\ job.pc = "insert" /\ job.offset < Len(job.rows)
      /\ fresh' = fresh \o [n \in DOMAIN Reading!Batch |-> Reading!Stored(Reading!Batch[n])]
      /\ job' = [job EXCEPT !.offset = @ + BatchSize]
      /\ sheet \in Seq(Rows) /\ table \in Seq(TableRow(job.kind)) /\ job.kind \in Reading!Kinds
      /\ fresh \in Seq(TableRow(job.kind)) /\ RowsInserted(job, sheet, fresh)
  BY DEF Reading!insert_batch, ReadingInv
<1>2. /\ job = [pc |-> "insert", kind |-> job.kind, offset |-> job.offset, parsed |-> job.parsed,
                rows |-> job.rows]
      /\ job.rows \in Seq(ReadRow(job.kind)) /\ Len(job.rows) \in Nat /\ job.offset \in Nat
      /\ BatchSize \in Nat \ {0}
      /\ StoredUpTo(fresh, Min({job.offset, Len(job.rows)}), job.rows)
  BY <1>1, ServicesBounds DEF RowsInserted
<1>3. PICK offset \in Nat : offset = job.offset + BatchSize
  BY <1>2
<1>4. PICK end : end = Min({offset, Len(job.rows)})
  OBVIOUS
<1>5. end \in job.offset .. Len(job.rows) /\ Min({job.offset, Len(job.rows)}) = job.offset
  <2>1. Min({job.offset, Len(job.rows)}) = IF job.offset <= Len(job.rows) THEN job.offset ELSE Len(job.rows)
    BY <1>2, MinOfTwo
  <2>2. end = IF offset <= Len(job.rows) THEN offset ELSE Len(job.rows)
    BY <1>2, <1>4, MinOfTwo
  <2>3. job.offset < Len(job.rows) /\ job.offset <= offset
    BY <1>1, <1>2, <1>3
  <2> QED BY <1>2, <2>1, <2>2, <2>3
<1>6. Reading!Batch = SubSeq(job.rows, job.offset + 1, end)
  BY <1>3, <1>4, ReadingMinMax DEF Reading!Batch
<1>7. /\ StoredUpTo(fresh, job.offset, job.rows) /\ job.offset \in 0..Len(job.rows)
  BY <1>1, <1>2, <1>5
<1>8. fresh' \in Seq(TableRow(job.kind)) /\ StoredUpTo(fresh', end, job.rows)
  <2>1. PICK batch : batch = Reading!Batch
    OBVIOUS
  <2>2. batch = SubSeq(job.rows, job.offset + 1, end)
    BY <1>6, <2>1
  <2>3. fresh' = fresh \o [n \in DOMAIN batch |-> Reading!Stored(batch[n])]
    BY <1>1, <2>1
  <2> QED BY <1>1, <1>2, <1>5, <1>7, <2>2, <2>3, BatchFollows
<1>9. job' = [pc |-> "insert", kind |-> job.kind, offset |-> offset, parsed |-> job.parsed,
              rows |-> job.rows]
  BY <1>1, <1>2, <1>3
<1>10. RowsInserted(job', sheet, fresh')
  BY <1>1, <1>3, <1>4, <1>8, <1>9 DEF RowsInserted
<1>11. job'.pc = "insert" /\ job'.kind = job.kind
  BY <1>9
<1> QED BY <1>1, <1>8, <1>10, <1>11 DEF ReadingInv

\* What is committed are the rows, all of them.
LEMMA CommitTakesAll ==
    ASSUME ReadingInv, Reading!commit
    PROVE  /\ StoredUpTo(table', Len(job.rows), job.rows) /\ table' \in Seq(TableRow(job.kind))
           /\ RowsInserted(job, sheet, fresh) /\ sheet \in Seq(Rows) /\ job.kind \in Reading!Kinds
<1>1. /\ RowsInserted(job, sheet, fresh) /\ job.offset >= Len(job.rows) /\ table' = fresh
      /\ sheet \in Seq(Rows) /\ job.kind \in Reading!Kinds /\ fresh \in Seq(TableRow(job.kind))
  BY DEF Reading!commit, ReadingInv
<1>2. /\ job.rows \in Seq(ReadRow(job.kind)) /\ Len(job.rows) \in Nat /\ job.offset \in Nat
      /\ StoredUpTo(fresh, Min({job.offset, Len(job.rows)}), job.rows)
  BY <1>1 DEF RowsInserted
<1>3. Min({job.offset, Len(job.rows)}) = Len(job.rows)
  <2>1. Min({job.offset, Len(job.rows)}) = IF job.offset <= Len(job.rows) THEN job.offset ELSE Len(job.rows)
    BY <1>2, MinOfTwo
  <2> QED BY <1>1, <1>2, <2>1
<1> QED BY <1>1, <1>2, <1>3

LEMMA CommitKeeps == ReadingInv /\ Reading!commit => ReadingInv'
<1> SUFFICES ASSUME ReadingInv, Reading!commit PROVE ReadingInv'
  OBVIOUS
<1>1. UNCHANGED <<sheet, fresh>> /\ job'.pc = "done" /\ job'.kind = job.kind /\ table' = fresh
  BY DEF Reading!commit
<1> QED BY <1>1 DEF ReadingInv

LEMMA RollBackKeeps == ReadingInv /\ Reading!roll_back => ReadingInv'
<1> SUFFICES ASSUME ReadingInv, Reading!roll_back PROVE ReadingInv'
  OBVIOUS
<1>1. UNCHANGED <<sheet, table>> /\ job'.pc = "refused" /\ job'.kind = job.kind /\ fresh' = <<>>
  BY DEF Reading!roll_back, Reading!Refused
<1> QED BY <1>1 DEF ReadingInv

LEMMA ReadKeeps == ReadingInv /\ Reading!read_tabular_rows => ReadingInv'
<1> SUFFICES ASSUME ReadingInv, Reading!read_tabular_rows PROVE ReadingInv'
  OBVIOUS
<1>1. /\ UNCHANGED <<table, fresh>> /\ job.pc = "uploaded" /\ sheet' \in Sheets
      /\ job' = [job EXCEPT !.pc = "read"]
  BY DEF Reading!read_tabular_rows
<1>2. job = [pc |-> "uploaded", kind |-> job.kind]
  BY <1>1 DEF ReadingInv
<1>3. job' = [pc |-> "read", kind |-> job.kind]
  BY <1>1, <1>2
<1>4. job'.pc = "read" /\ job'.kind = job.kind /\ job' = [pc |-> "read", kind |-> job'.kind]
  BY <1>3
<1> QED BY <1>1, <1>4, SheetsOfRows DEF ReadingInv

LEMMA ReadingStep == ReadingInv /\ [Reading!Next]_(Reading!vars) => ReadingInv'
<1> SUFFICES ASSUME ReadingInv, [Reading!Next]_(Reading!vars) PROVE ReadingInv'
  OBVIOUS
<1>1. CASE UNCHANGED Reading!vars
  BY <1>1 DEF Reading!vars, ReadingInv
<1>2. CASE Reading!Next
  BY <1>2, ReadKeeps, LocateKeeps, ParseKeeps, DeleteRowsKeeps, InsertBatchKeeps, CommitKeeps,
     RollBackKeeps DEF Reading!Next
<1> QED BY <1>1, <1>2

\* The property the type invariant of ImportTables states.
LEMMA ReadingTypeOK == ReadingInv => Reading!TypeOK
<1> SUFFICES ASSUME ReadingInv PROVE Reading!TypeOK
  OBVIOUS
<1>1. ASSUME NEW rows \in Seq(TableRow(job.kind)), NEW row \in Reading!Range(rows)
      PROVE  DOMAIN row = Reading!Headers(job.kind)
  BY <1>1, ReadingRange DEF TableRow
<1>2. ASSUME job.pc = "insert"
      PROVE  Len(fresh) = Reading!Min({job.offset, Len(job.rows)})
  <2>1. RowsInserted(job, sheet, fresh)
    BY <1>2 DEF ReadingInv
  <2> QED BY <2>1, ReadingMinMax DEF RowsInserted, StoredUpTo
<1> QED BY <1>1, <1>2 DEF ReadingInv, Reading!TypeOK

\* The rows of the table are the first lines of the sheet, none of which was refused.
LEMMA RowsAreTheFirstLines ==
    ASSUME sheet \in Seq(Rows), NEW rows \in Seq(ReadRow(job.kind)), NEW lines,
           ListsDistinct(job.kind, sheet, rows, lines), Accepted(job.kind, rows),
           NEW t \in Seq(TableRow(job.kind)), StoredUpTo(t, Len(rows), rows)
    PROVE  /\ Reading!AreTheFirstLines(t)
           /\ \A i \in Reading!DataRows : ~Reading!Unusable(Reading!Line(i))
<1> DEFINE D == DataOf(job.kind, sheet)
           line(i) == Reading!Fields(job.kind, sheet, i)
<1>1. /\ Reading!DataRows = D /\ \A i : Reading!Line(i) = line(i)
      /\ Len(t) = Len(rows) /\ DOMAIN t = 1..Len(rows) /\ Len(rows) \in Nat
      /\ \A n \in 1..Len(rows) : t[n] = Reading!Stored(rows[n])
  BY DEF DataOf, Reading!DataRows, Reading!Line, StoredUpTo
<1>2. D \subseteq Nat
  BY DataRowsFinite
<1>3. /\ lines \in [1..Len(rows) -> D] /\ Increasing(lines, Len(rows))
      /\ \A n \in 1..Len(rows) : rows[n] = line(lines[n]) /\ \A i \in D : line(i) = rows[n] => lines[n] <= i
      /\ \A i \in D : \E n \in 1..Len(rows) : rows[n] = line(i)
  BY DEF ListsDistinct
<1> HIDE DEF D, line
<1>4. Reading!FirstLines = {i \in D : \A k \in D : k < i => line(k) # line(i)}
  BY <1>1 DEF Reading!FirstLines
<1>5. ASSUME NEW n \in 1..Len(rows) PROVE lines[n] \in Reading!FirstLines
  <2>1. lines[n] \in D
    BY <1>3
  <2>2. ASSUME NEW k \in D, k < lines[n] PROVE line(k) # line(lines[n])
    <3>1. PICK i \in D : i = lines[n]
      BY <2>1
    <3>2. k \in Nat /\ i \in Nat
      BY <1>2
    <3>3. ~(i <= k)
      BY <2>2, <3>1, <3>2
    <3> QED BY <1>3, <3>1, <3>3
  <2> QED BY <1>4, <2>1, <2>2
<1>6. ASSUME NEW i \in Reading!FirstLines PROVE \E n \in 1..Len(rows) : lines[n] = i
  <2>1. i \in D /\ \A k \in D : k < i => line(k) # line(i)
    BY <1>4
  <2>2. PICK n \in 1..Len(rows) : rows[n] = line(i)
    BY <1>3, <2>1
  <2>3. lines[n] \in D /\ rows[n] = line(lines[n]) /\ lines[n] <= i
    BY <1>3, <2>1, <2>2
  <2>4. ~(lines[n] < i)
    BY <2>1, <2>2, <2>3
  <2>5. lines[n] \in Nat /\ i \in Nat
    BY <1>2, <2>1, <2>3
  <2> QED BY <2>3, <2>4, <2>5
<1>7. Reading!AreTheFirstLines(t)
  <2>1. lines \in [DOMAIN t -> Reading!FirstLines]
    BY <1>1, <1>3, <1>5
  <2>2. \A i \in Reading!FirstLines : \E n \in DOMAIN t : lines[n] = i
    BY <1>1, <1>6
  <2>3. \A m, n \in DOMAIN t : m < n => lines[m] < lines[n]
    BY <1>1, <1>3 DEF Increasing
  <2>4. \A n \in DOMAIN t : t[n] = Reading!Stored(Reading!Line(lines[n]))
    BY <1>1, <1>3
  <2> QED BY <2>1, <2>2, <2>3, <2>4 DEF Reading!AreTheFirstLines
<1>8. \A i \in D : ~Reading!Unusable(line(i))
  BY <1>3 DEF Accepted
<1> QED BY <1>1, <1>7, <1>8

\* Whatever replaces the table is the sheet that was uploaded, as read and stored.
LEMMA ReadingReplaces ==
    ASSUME ReadingInv, [Reading!Next]_(Reading!vars), table' # table
    PROVE  /\ Reading!HeaderRow(job.kind, sheet) # 0
           /\ Reading!AreTheFirstLines(table')
           /\ \A i \in Reading!DataRows : ~Reading!Unusable(Reading!Line(i))
           /\ job.kind = "codes" =>
                 \A m, n \in DOMAIN table' : table'[m].key = table'[n].key => m = n
           /\ job'.imported = Len(table')
           /\ job'.imported + job'.deduplicated = Reading!Cardinality(Reading!DataRows)
<1>1. Reading!commit
  BY DEF Reading!Next, Reading!vars, Reading!read_tabular_rows, Reading!locate, Reading!parse_row,
         Reading!delete_rows, Reading!insert_batch, Reading!roll_back
<1>2. /\ StoredUpTo(table', Len(job.rows), job.rows) /\ table' \in Seq(TableRow(job.kind))
      /\ RowsInserted(job, sheet, fresh) /\ sheet \in Seq(Rows) /\ job.kind \in Reading!Kinds
  BY <1>1, CommitTakesAll
<1>3. PICK rows, t : rows = job.rows /\ t = table'
  OBVIOUS
<1>4. /\ rows \in Seq(ReadRow(job.kind)) /\ Accepted(job.kind, rows)
      /\ HeaderFound(job.kind, sheet) /\ job.parsed = Cardinality(DataOf(job.kind, sheet))
      /\ Len(rows) \in Nat
  BY <1>2, <1>3 DEF RowsInserted
<1>5. PICK lines : ListsDistinct(job.kind, sheet, rows, lines)
  BY <1>2, <1>3 DEF RowsInserted
<1>6. t \in Seq(TableRow(job.kind)) /\ StoredUpTo(t, Len(rows), rows)
  BY <1>2, <1>3
<1>7. /\ Reading!AreTheFirstLines(t)
      /\ \A i \in Reading!DataRows : ~Reading!Unusable(Reading!Line(i))
  BY <1>2, <1>4, <1>5, <1>6, RowsAreTheFirstLines
<1>8. job' = [pc |-> "done", kind |-> job.kind, imported |-> Len(rows),
              deduplicated |-> job.parsed - Len(rows)]
  BY <1>1, <1>3 DEF Reading!commit
<1>9. job'.imported = Len(rows) /\ job'.deduplicated = job.parsed - Len(rows)
  BY <1>8
<1>10. Reading!Cardinality(Reading!DataRows) = job.parsed /\ job.parsed \in Nat
  <2>1. Reading!DataRows = DataOf(job.kind, sheet)
    BY DEF DataOf, Reading!DataRows
  <2> QED BY <1>2, <1>4, <2>1, ReadingCardinality, DataRowsFinite, FS_CardinalityType
<1>11. Len(t) = Len(rows) /\ DOMAIN t = 1..Len(rows)
  BY <1>6 DEF StoredUpTo
<1>12. ASSUME job.kind = "codes", NEW m \in DOMAIN t, NEW n \in DOMAIN t, t[m].key = t[n].key
       PROVE  m = n
  <2>1. m \in 1..Len(rows) /\ n \in 1..Len(rows)
    BY <1>11
  <2>2. \A i \in 1..Len(rows) : t[i].key = rows[i].key
    BY <1>2, <1>4, <1>6, TextColumns DEF StoredUpTo
  <2>3. rows[m].key = rows[n].key
    BY <1>12, <2>1, <2>2
  <2> QED BY <1>4, <1>12, <2>1, <2>3 DEF Accepted
<1>13. Reading!HeaderRow(job.kind, sheet) # 0
  BY <1>4 DEF HeaderFound
<1> QED BY <1>3, <1>4, <1>7, <1>9, <1>10, <1>11, <1>12, <1>13

\* What an import leaves in the table are the lines of the sheet as the parsers read them
\* and the columns store them: one row for lines that are read alike, at the first of
\* them, no other line lost, added or moved; or what was there before.  Its counts add up
\* to the lines with data (the parsers and _replace_rows of the three kinds).
THEOREM ImportsAreTheSheet == Reading!Spec => ImportIsTheSheet
<1> DEFINE Replaced ==
       table' # table =>
          /\ Reading!HeaderRow(job.kind, sheet) # 0
          /\ Reading!AreTheFirstLines(table')
          /\ \A i \in Reading!DataRows : ~Reading!Unusable(Reading!Line(i))
          /\ job.kind = "codes" =>
                \A m, n \in DOMAIN table' : table'[m].key = table'[n].key => m = n
          /\ job'.imported = Len(table')
          /\ job'.imported + job'.deduplicated = Reading!Cardinality(Reading!DataRows)
<1>1. ReadingInv /\ [Reading!Next]_(Reading!vars) => [Replaced]_(Reading!vars)
  BY ReadingReplaces
<1> QED BY <1>1, ReadingInit, ReadingStep, PTL
        DEF Reading!Spec, ImportIsTheSheet, Reading!ImportIsTheSheet

-----------------------------------------------------------------------------
(* Stock materials.                                                         *)

MaterialColumns == {"name", "unit", "hash", "version", "quantity", "policy", "booked", "templated"}
IsMaterial(x) == DOMAIN x = MaterialColumns

MaterialTable ==
    /\ materials = [m \in DOMAIN materials |-> materials[m]]
    /\ \A m \in DOMAIN materials : IsMaterial(materials[m])
    /\ created \in Nat /\ DOMAIN materials \subseteq 1..created

HashesUnique == \A m \in DOMAIN materials : Stock!HashFree(m, materials[m].hash)

HashOfColumns ==
    \A m \in DOMAIN materials \ mixed :
        materials[m].hash = Stock!IdentityOf(materials[m].name, materials[m].unit)

StockInv == MaterialTable /\ HashesUnique /\ HashOfColumns

\* The invariant implies the property: equal columns have equal hashes.
LEMMA IdentityFromHashes == StockInv => OneMaterialPerIdentity
  BY DEF StockInv, HashesUnique, Stock!HashFree, HashOfColumns, OneMaterialPerIdentity,
      Stock!OneMaterialPerIdentity

\* A table whose rows keep their name, unit and hash keeps the invariant.
LEMMA SameIdentities ==
    ASSUME StockInv,
           materials' = [m \in DOMAIN materials' |-> materials'[m]],
           DOMAIN materials' \subseteq DOMAIN materials,
           \A m \in DOMAIN materials' :
               IsMaterial(materials'[m]) /\ Stock!Identity(materials'[m]) = Stock!Identity(materials[m]),
           created' = created, mixed' = mixed
    PROVE  StockInv'
<1>1. MaterialTable'
  BY DEF StockInv, MaterialTable
<1>2. \A m \in DOMAIN materials' :
        /\ materials'[m].name = materials[m].name
        /\ materials'[m].unit = materials[m].unit
        /\ materials'[m].hash = materials[m].hash
  BY DEF Stock!Identity
<1>3. HashesUnique' /\ HashOfColumns'
  BY <1>2 DEF StockInv, HashesUnique, Stock!HashFree, HashOfColumns
<1> QED BY <1>1, <1>3 DEF StockInv

\* A new row takes a number above all others and a hash no other row has.
LEMMA CreateMaterialKeeps ==
    ASSUME StockInv, NEW r \in Requests, Stock!create_stock_material(r)
    PROVE  StockInv'
<1>1. PICK name \in Names, unit \in Units :
         /\ Stock!HashFree(created + 1, Stock!IdentityOf(name, unit))
         /\ created' = created + 1
         /\ materials' = Stock!WithRow(materials, created + 1,
              [name |-> name, unit |-> unit, hash |-> Stock!IdentityOf(name, unit), version |-> 1,
               quantity |-> 0, policy |-> Stock!NoPolicy, booked |-> FALSE, templated |-> FALSE])
         /\ mixed' = mixed
  BY DEF Stock!create_stock_material
<1> DEFINE new == created + 1
           row == [name |-> name, unit |-> unit, hash |-> Stock!IdentityOf(name, unit), version |-> 1,
                   quantity |-> 0, policy |-> Stock!NoPolicy, booked |-> FALSE, templated |-> FALSE]
<1>2. created \in Nat /\ new \notin DOMAIN materials
  BY DEF StockInv, MaterialTable
<1>3. IsMaterial(row) /\ row.hash = Stock!IdentityOf(row.name, row.unit) /\ Stock!HashFree(new, row.hash)
  BY <1>1 DEF IsMaterial, MaterialColumns
<1> HIDE DEF row
<1>4. materials' = Stock!WithRow(materials, new, row)
  BY <1>1 DEF row
<1> HIDE DEF new
<1>5. materials' = [m \in DOMAIN materials \cup {new} |-> IF m = new THEN row ELSE materials[m]]
  BY <1>4 DEF Stock!WithRow
<1>6. DOMAIN materials' = DOMAIN materials \cup {new} /\ materials'[new] = row
      /\ \A m \in DOMAIN materials : materials'[m] = materials[m]
  BY <1>2, <1>5
<1>7. MaterialTable'
  <2>1. created' \in Nat /\ DOMAIN materials' \subseteq 1..created'
    BY <1>1, <1>2, <1>6 DEF StockInv, MaterialTable, new
  <2>2. materials' = [m \in DOMAIN materials' |-> materials'[m]]
    BY <1>5
  <2>3. \A m \in DOMAIN materials' : IsMaterial(materials'[m])
    BY <1>3, <1>6 DEF StockInv, MaterialTable
  <2> QED BY <2>1, <2>2, <2>3 DEF MaterialTable
<1>8. HashesUnique'
  BY <1>3, <1>6 DEF StockInv, HashesUnique, Stock!HashFree
<1>9. HashOfColumns'
  BY <1>1, <1>3, <1>6 DEF StockInv, HashOfColumns
<1> QED BY <1>7, <1>8, <1>9 DEF StockInv

\* What an edit stores: a row again, and, over the row it loaded, the hash of the
\* name and unit given.
LEMMA EditedMaterial ==
    ASSUME NEW now, NEW loaded, NEW name, NEW unit, IsMaterial(now)
    PROVE  LET row == Stock!Edited(now, loaded, name, unit)
           IN  /\ IsMaterial(row)
               /\ Stock!Identity(now) = Stock!Identity(loaded) => row.hash = Stock!IdentityOf(row.name, row.unit)
<1> DEFINE row == Stock!Edited(now, loaded, name, unit)
<1>1. IsMaterial(row)
  BY DEF Stock!Edited, IsMaterial
<1>2. /\ row.name = Stock!Stored(now.name, loaded.name, name)
      /\ row.unit = Stock!Stored(now.unit, loaded.unit, unit)
      /\ row.hash = Stock!Stored(now.hash, loaded.hash, Stock!EditedIdentity(loaded, name, unit))
  BY DEF Stock!Edited, IsMaterial, MaterialColumns
<1>3. ASSUME Stock!Identity(now) = Stock!Identity(loaded) PROVE row.hash = Stock!IdentityOf(row.name, row.unit)
  <2>1. now.name = loaded.name /\ now.unit = loaded.unit /\ now.hash = loaded.hash
    BY <1>3 DEF Stock!Identity
  <2>2. row.name = name /\ row.unit = unit /\ row.hash = Stock!IdentityOf(name, unit)
    BY <1>2, <2>1 DEF Stock!Stored, Stock!EditedIdentity
  <2> QED BY <2>2
<1> QED BY <1>1, <1>3

\* An edit that overlaps no other keeps the hashes of the columns, and the unique key
\* keeps them apart.
LEMMA EditMaterialKeeps ==
    ASSUME StockInv, NEW r \in Requests, Stock!update_stock_material(r)
    PROVE  StockInv'
<1>1. PICK m \in Stock!Known(r), name \in Names, unit \in Units :
         /\ Stock!HashFree(m, Stock!Edited(materials[m], seen[r][m], name, unit).hash)
         /\ materials' = [materials EXCEPT ![m] = Stock!Edited(materials[m], seen[r][m], name, unit)]
         /\ mixed' = mixed \cup (IF Stock!Overlapped(materials[m], seen[r][m]) THEN {m} ELSE {})
         /\ created' = created
  BY DEF Stock!update_stock_material
<1> DEFINE row == Stock!Edited(materials[m], seen[r][m], name, unit)
<1>2. m \in DOMAIN materials /\ IsMaterial(materials[m])
  BY DEF Stock!Known, StockInv, MaterialTable
<1>3. IsMaterial(row) /\ Stock!HashFree(m, row.hash)
      /\ (m \notin mixed' => row.hash = Stock!IdentityOf(row.name, row.unit))
  BY <1>1, <1>2, EditedMaterial DEF Stock!Overlapped
<1> HIDE DEF row
<1>4. DOMAIN materials' = DOMAIN materials /\ materials'[m] = row
      /\ materials' = [n \in DOMAIN materials' |-> materials'[n]]
      /\ \A n \in DOMAIN materials \ {m} : materials'[n] = materials[n]
  BY <1>1, <1>2 DEF row
<1>5. mixed \subseteq mixed' /\ created' = created
  BY <1>1
<1>6. MaterialTable'
  BY <1>3, <1>4, <1>5 DEF StockInv, MaterialTable
<1>7. HashesUnique'
  BY <1>2, <1>3, <1>4 DEF StockInv, HashesUnique, Stock!HashFree
<1>8. HashOfColumns'
  BY <1>2, <1>3, <1>4, <1>5 DEF StockInv, HashOfColumns
<1> QED BY <1>6, <1>7, <1>8 DEF StockInv

\* Deleting a material, setting its policy and drafting a plan for it leave the name,
\* unit and hash of every row that stays.
LEMMA OtherMaterialsKeep ==
    ASSUME StockInv, NEW r \in Requests,
           Stock!delete_stock_material(r) \/ Stock!set_policy(r) \/ Stock!create_replenishment_draft(r)
    PROVE  StockInv'
<1>1. CASE Stock!delete_stock_material(r)
  <2>1. PICK m : materials' = Stock!Restrict(materials, DOMAIN materials \ {m})
                 /\ created' = created /\ mixed' = mixed
    BY <1>1 DEF Stock!delete_stock_material
  <2>2. \A n \in DOMAIN materials' : n \in DOMAIN materials /\ materials'[n] = materials[n]
    BY <2>1 DEF Stock!Restrict
  <2>3. materials' = [n \in DOMAIN materials' |-> materials'[n]]
    BY <2>1 DEF Stock!Restrict
  <2>4. \A n \in DOMAIN materials' :
            IsMaterial(materials'[n]) /\ Stock!Identity(materials'[n]) = Stock!Identity(materials[n])
    BY <2>2 DEF StockInv, MaterialTable
  <2> QED BY <2>1, <2>2, <2>3, <2>4, SameIdentities
<1>2. CASE Stock!set_policy(r)
  <2>1. PICK m, p : m \in DOMAIN materials /\ materials' = [materials EXCEPT ![m].policy = p]
                    /\ created' = created /\ mixed' = mixed
    BY <1>2 DEF Stock!set_policy, Stock!Known
  <2>2. IsMaterial(materials'[m]) /\ Stock!Identity(materials'[m]) = Stock!Identity(materials[m])
    BY <2>1 DEF StockInv, MaterialTable, IsMaterial, MaterialColumns, Stock!Identity
  <2>3. materials' = [n \in DOMAIN materials' |-> materials'[n]] /\ DOMAIN materials' = DOMAIN materials
        /\ \A n \in DOMAIN materials \ {m} : materials'[n] = materials[n]
    BY <2>1
  <2>4. \A n \in DOMAIN materials' :
            IsMaterial(materials'[n]) /\ Stock!Identity(materials'[n]) = Stock!Identity(materials[n])
    BY <2>2, <2>3 DEF StockInv, MaterialTable
  <2> QED BY <2>1, <2>3, <2>4, SameIdentities
<1>3. CASE Stock!create_replenishment_draft(r)
  BY <1>3 DEF Stock!create_replenishment_draft, StockInv, MaterialTable, HashesUnique, Stock!HashFree, HashOfColumns
<1> QED BY <1>1, <1>2, <1>3

\* A booking and a template mark a row and leave its name, unit and hash.
LEMMA MarksKeep ==
    ASSUME StockInv, Stock!Book \/ Stock!Template
    PROVE  StockInv'
<1>1. PICK m, row :
         /\ m \in DOMAIN materials /\ materials' = [materials EXCEPT ![m] = row]
         /\ IsMaterial(row) /\ Stock!Identity(row) = Stock!Identity(materials[m])
         /\ created' = created /\ mixed' = mixed
  <2>1. \A m \in DOMAIN materials : IsMaterial(materials[m])
    BY DEF StockInv, MaterialTable
  <2>2. CASE Stock!Book
    <3>1. PICK m \in DOMAIN materials, quantity \in Quantities :
             materials' = [materials EXCEPT ![m].quantity = quantity, ![m].booked = TRUE]
      BY <2>2 DEF Stock!Book
    <3> DEFINE row == [materials[m] EXCEPT !.quantity = quantity, !.booked = TRUE]
    <3>2. IsMaterial(row) /\ Stock!Identity(row) = Stock!Identity(materials[m])
      BY <2>1 DEF IsMaterial, MaterialColumns, Stock!Identity
    <3>3. materials' = [materials EXCEPT ![m] = row]
      BY <3>1
    <3> QED BY <2>2, <3>2, <3>3 DEF Stock!Book
  <2>3. CASE Stock!Template
    <3>1. PICK m \in DOMAIN materials : materials' = [materials EXCEPT ![m].templated = TRUE]
      BY <2>3 DEF Stock!Template
    <3> DEFINE row == [materials[m] EXCEPT !.templated = TRUE]
    <3>2. IsMaterial(row) /\ Stock!Identity(row) = Stock!Identity(materials[m])
      BY <2>1 DEF IsMaterial, MaterialColumns, Stock!Identity
    <3>3. materials' = [materials EXCEPT ![m] = row]
      BY <3>1
    <3> QED BY <2>3, <3>2, <3>3 DEF Stock!Template
  <2> QED BY <2>2, <2>3
<1>2. materials' = [n \in DOMAIN materials' |-> materials'[n]] /\ DOMAIN materials' = DOMAIN materials
      /\ materials'[m] = row /\ \A n \in DOMAIN materials \ {m} : materials'[n] = materials[n]
  BY <1>1
<1>3. \A n \in DOMAIN materials' :
          IsMaterial(materials'[n]) /\ Stock!Identity(materials'[n]) = Stock!Identity(materials[n])
  BY <1>1, <1>2 DEF StockInv, MaterialTable
<1> QED BY <1>1, <1>2, <1>3, SameIdentities

\* Every step keeps the invariant.
LEMMA MaterialsStep == StockInv /\ [Stock!Next]_(Stock!vars) => StockInv'
<1> SUFFICES ASSUME StockInv, [Stock!Next]_(Stock!vars) PROVE StockInv'
  OBVIOUS
<1>1. ASSUME NEW r \in Requests, Stock!Commit(r) PROVE StockInv'
  BY <1>1, CreateMaterialKeeps, EditMaterialKeeps, OtherMaterialsKeep DEF Stock!Commit
<1>2. ASSUME NEW r \in Requests, Stock!Begin(r) \/ Stock!End(r) PROVE StockInv'
  BY <1>2 DEF Stock!Begin, Stock!End, StockInv, MaterialTable, HashesUnique, Stock!HashFree, HashOfColumns
<1>3. CASE UNCHANGED Stock!vars
  BY <1>3 DEF Stock!vars, StockInv, MaterialTable, HashesUnique, Stock!HashFree, HashOfColumns
<1> QED BY <1>1, <1>2, <1>3, MarksKeep DEF Stock!Next

\* The table starts empty.
LEMMA MaterialsInit == Stock!Init => StockInv
  BY DEF Stock!Init, StockInv, MaterialTable, HashesUnique, Stock!HashFree, HashOfColumns

\* No two materials have one name and unit unless edits of one of them overlapped
\* (identity_hash of create_stock_material and update_stock_material).
THEOREM MaterialsToldApart == Stock!Spec => []OneMaterialPerIdentity
  BY MaterialsInit, MaterialsStep, IdentityFromHashes, PTL DEF Stock!Spec

\* The columns of a row; versions count the requests sent, and those of a snapshot the
\* requests sent before it ends.
MaterialRow(x) ==
    /\ x.name \in Names /\ x.unit \in Units
    /\ x.version \in 1..(sentOff + 1)
    /\ x.policy = Stock!NoPolicy \/ x.policy.minimum \in Quantities

StockTyped ==
    /\ created \in 0..MaxMaterials /\ sentOff \in 0..StockRequests
    /\ \A m \in DOMAIN materials : MaterialRow(materials[m])
    /\ seen = [r \in Requests |-> seen[r]]
    /\ \A r \in Requests : seen[r] # Stock!Idle =>
          \A m \in DOMAIN seen[r] : seen[r][m].version \in 1..sentOff
    /\ \A p \in DOMAIN drafts : drafts[p] \in DOMAIN materials \cup {Stock!NoMaterial}

LEMMA StockTypedInit == Stock!Init => StockTyped
  BY ServicesBounds DEF Stock!Init, StockTyped

\* A request ends, or goes on; the rows stay rows.
LEMMA StockTypedStep == StockInv /\ StockTyped /\ [Stock!Next]_(Stock!vars) => StockTyped'
<1> SUFFICES ASSUME StockInv, StockTyped, [Stock!Next]_(Stock!vars)
             PROVE  StockTyped'
  OBVIOUS
<1>0. StockRequests \in Nat /\ MaxMaterials \in Nat /\ sentOff \in Nat /\ created \in Nat
      /\ materials = [m \in DOMAIN materials |-> materials[m]]
      /\ \A m \in DOMAIN materials : IsMaterial(materials[m])
  BY ServicesBounds DEF StockTyped, StockInv, MaterialTable
<1>1. ASSUME NEW r \in Requests, Stock!Begin(r)
      PROVE  StockTyped'
  <2>1. /\ sentOff' = sentOff + 1 /\ sentOff' \in 0..StockRequests
        /\ UNCHANGED <<materials, drafts, created>> /\ seen' = [seen EXCEPT ![r] = materials]
    BY <1>0, <1>1 DEF Stock!Begin, StockTyped
  <2>2. (\A m \in DOMAIN materials : MaterialRow(materials[m]))'
    BY <1>0, <2>1 DEF StockTyped, MaterialRow
  <2>3. ASSUME NEW q \in Requests, seen'[q] # Stock!Idle, NEW m \in DOMAIN seen'[q]
        PROVE  seen'[q][m].version \in 1..sentOff'
    <3>1. CASE q = r
      BY <1>0, <2>1, <2>3, <3>1 DEF StockTyped, MaterialRow
    <3>2. CASE q # r
      <4>1. seen'[q] = seen[q]
        BY <2>1, <3>2 DEF StockTyped
      <4>2. seen[q][m].version \in 1..sentOff
        BY <2>3, <4>1 DEF StockTyped
      <4> QED BY <1>0, <2>1, <4>1, <4>2
    <3> QED BY <3>1, <3>2
  <2>4. seen' = [q \in Requests |-> seen'[q]]
    BY <2>1 DEF StockTyped
  <2> QED BY <2>1, <2>2, <2>3, <2>4 DEF StockTyped
<1>2. ASSUME NEW r \in Requests, Stock!End(r)
      PROVE  StockTyped'
  BY <1>2 DEF Stock!End, StockTyped, MaterialRow
<1>3. ASSUME NEW r \in Requests, Stock!Commit(r)
      PROVE  StockTyped'
  <2>1. /\ UNCHANGED sentOff /\ seen' = [seen EXCEPT ![r] = Stock!Idle] /\ seen[r] # Stock!Idle
        /\ seen' = [q \in Requests |-> seen'[q]]
        /\ \A q \in Requests : seen'[q] # Stock!Idle => seen'[q] = seen[q]
    BY <1>3 DEF Stock!Commit, StockTyped
  <2> SUFFICES /\ created' \in 0..MaxMaterials
               /\ \A m \in DOMAIN materials' : MaterialRow(materials'[m])
               /\ \A p \in DOMAIN drafts' : drafts'[p] \in DOMAIN materials' \cup {Stock!NoMaterial}
    BY <2>1 DEF StockTyped, MaterialRow
  <2>2. CASE Stock!create_stock_material(r)
    <3>1. PICK name \in Names, unit \in Units :
             materials' = Stock!WithRow(materials, created + 1,
               [name |-> name, unit |-> unit, hash |-> Stock!IdentityOf(name, unit), version |-> 1,
                quantity |-> 0, policy |-> Stock!NoPolicy, booked |-> FALSE, templated |-> FALSE])
      BY <2>2 DEF Stock!create_stock_material
    <3> DEFINE row == [name |-> name, unit |-> unit, hash |-> Stock!IdentityOf(name, unit),
                       version |-> 1, quantity |-> 0, policy |-> Stock!NoPolicy,
                       booked |-> FALSE, templated |-> FALSE]
    <3>2. MaterialRow(row)
      BY <1>0 DEF MaterialRow
    <3>3. materials' = Stock!WithRow(materials, created + 1, row)
      BY <3>1
    <3> HIDE DEF row
    <3>4. /\ DOMAIN materials' = DOMAIN materials \cup {created + 1}
          /\ \A m \in DOMAIN materials' :
                materials'[m] = IF m = created + 1 THEN row ELSE materials[m]
      BY <3>3 DEF Stock!WithRow
    <3>5. created' \in 0..MaxMaterials /\ UNCHANGED drafts
      BY <1>0, <2>2 DEF Stock!create_stock_material, StockTyped
    <3>6. \A m \in DOMAIN materials' : MaterialRow(materials'[m])
      BY <3>2, <3>4 DEF StockTyped
    <3>7. \A p \in DOMAIN drafts' : drafts'[p] \in DOMAIN materials' \cup {Stock!NoMaterial}
      BY <3>4, <3>5 DEF StockTyped
    <3> QED BY <3>5, <3>6, <3>7
  <2>3. CASE Stock!update_stock_material(r)
    <3>1. PICK m \in Stock!Known(r), name \in Names, unit \in Units :
             materials' = [materials EXCEPT ![m] = Stock!Edited(@, seen[r][m], name, unit)]
      BY <2>3 DEF Stock!update_stock_material
    <3> DEFINE row == Stock!Edited(materials[m], seen[r][m], name, unit)
    <3>2. m \in DOMAIN materials /\ IsMaterial(materials[m]) /\ MaterialRow(materials[m])
          /\ seen[r][m].version \in 1..sentOff
      BY <1>0, <2>1 DEF Stock!Known, StockTyped
    <3>3. /\ row.name \in {materials[m].name, name} /\ row.unit \in {materials[m].unit, unit}
          /\ row.version = seen[r][m].version + 1 /\ row.policy = materials[m].policy
      BY <3>2 DEF Stock!Edited, Stock!Stored, IsMaterial, MaterialColumns
    <3>4. MaterialRow(row)
      BY <1>0, <3>2, <3>3 DEF MaterialRow
    <3>5. materials' = [materials EXCEPT ![m] = row]
      BY <3>1
    <3>6. UNCHANGED <<drafts, created>>
      BY <2>3 DEF Stock!update_stock_material
    <3> HIDE DEF row
    <3> QED BY <3>2, <3>4, <3>5, <3>6 DEF StockTyped
  <2>4. CASE Stock!delete_stock_material(r)
    <3>1. PICK m : /\ materials' = Stock!Restrict(materials, DOMAIN materials \ {m})
                   /\ drafts' = [p \in DOMAIN drafts |->
                                   IF drafts[p] = m THEN Stock!NoMaterial ELSE drafts[p]]
                   /\ UNCHANGED created
      BY <2>4 DEF Stock!delete_stock_material
    <3>2. DOMAIN materials' = DOMAIN materials \ {m}
          /\ \A n \in DOMAIN materials' : materials'[n] = materials[n]
      BY <3>1 DEF Stock!Restrict
    <3> QED BY <3>1, <3>2 DEF StockTyped
  <2>5. CASE Stock!set_policy(r)
    <3>1. PICK m \in Stock!Known(r), minimum \in Quantities, enabled \in BOOLEAN :
             materials' = [materials EXCEPT ![m].policy =
                IF materials[m].policy = Stock!NoPolicy
                THEN [minimum |-> minimum, enabled |-> enabled, version |-> 1]
                ELSE [minimum |-> Stock!Stored(materials[m].policy.minimum,
                                               seen[r][m].policy.minimum, minimum),
                      enabled |-> Stock!Stored(materials[m].policy.enabled,
                                               seen[r][m].policy.enabled, enabled),
                      version |-> seen[r][m].policy.version + 1]]
      BY <2>5 DEF Stock!set_policy
    <3> DEFINE p == IF materials[m].policy = Stock!NoPolicy
                    THEN [minimum |-> minimum, enabled |-> enabled, version |-> 1]
                    ELSE [minimum |-> Stock!Stored(materials[m].policy.minimum,
                                                   seen[r][m].policy.minimum, minimum),
                          enabled |-> Stock!Stored(materials[m].policy.enabled,
                                                   seen[r][m].policy.enabled, enabled),
                          version |-> seen[r][m].policy.version + 1]
    <3>2. m \in DOMAIN materials /\ IsMaterial(materials[m]) /\ MaterialRow(materials[m])
      BY <1>0 DEF Stock!Known, StockTyped
    <3>3. p.minimum \in Quantities
      BY <3>2 DEF Stock!Stored, MaterialRow
    <3>4. materials' = [materials EXCEPT ![m].policy = p]
      BY <3>1
    <3> HIDE DEF p
    <3>5. /\ DOMAIN materials' = DOMAIN materials
          /\ \A n \in DOMAIN materials \ {m} : materials'[n] = materials[n]
          /\ materials'[m].policy = p /\ materials'[m].name = materials[m].name
          /\ materials'[m].unit = materials[m].unit
          /\ materials'[m].version = materials[m].version
      BY <1>0, <3>2, <3>4 DEF IsMaterial, MaterialColumns
    <3>6. MaterialRow(materials'[m])
      BY <3>2, <3>3, <3>5 DEF MaterialRow
    <3>7. UNCHANGED <<drafts, created>>
      BY <2>5 DEF Stock!set_policy
    <3> QED BY <3>5, <3>6, <3>7 DEF StockTyped
  <2>6. CASE Stock!create_replenishment_draft(r)
    <3>3. PICK m \in DOMAIN materials : \E k : drafts' = Stock!WithRow(drafts, k, m)
      BY <2>6 DEF Stock!create_replenishment_draft, Stock!Known
    <3>1. PICK k : drafts' = Stock!WithRow(drafts, k, m)
      BY <3>3
    <3>2. UNCHANGED <<materials, created>>
      BY <2>6 DEF Stock!create_replenishment_draft
    <3> QED BY <3>1, <3>2 DEF Stock!WithRow, StockTyped
  <2> QED BY <1>3, <2>2, <2>3, <2>4, <2>5, <2>6 DEF Stock!Commit
<1>4. CASE Stock!Book \/ Stock!Template
  <2>1. UNCHANGED <<drafts, created, seen, sentOff>>
    BY <1>4 DEF Stock!Book, Stock!Template
  <2>2. /\ DOMAIN materials' = DOMAIN materials
        /\ \A m \in DOMAIN materials :
              /\ materials'[m].name = materials[m].name /\ materials'[m].unit = materials[m].unit
              /\ materials'[m].version = materials[m].version
              /\ materials'[m].policy = materials[m].policy
    <3>1. CASE Stock!Book
      <4>1. PICK m \in DOMAIN materials, quantity \in Quantities :
               materials' = [materials EXCEPT ![m].quantity = quantity, ![m].booked = TRUE]
        BY <3>1 DEF Stock!Book
      <4>2. IsMaterial(materials[m])
        BY <1>0
      <4> QED BY <1>0, <4>1, <4>2 DEF IsMaterial, MaterialColumns
    <3>2. CASE Stock!Template
      <4>1. PICK m \in DOMAIN materials : materials' = [materials EXCEPT ![m].templated = TRUE]
        BY <3>2 DEF Stock!Template
      <4>2. IsMaterial(materials[m])
        BY <1>0
      <4> QED BY <1>0, <4>1, <4>2 DEF IsMaterial, MaterialColumns
    <3> QED BY <1>4, <3>1, <3>2
  <2>3. \A m \in DOMAIN materials : MaterialRow(materials'[m])
    BY <2>2 DEF StockTyped, MaterialRow
  <2> QED BY <2>1, <2>2, <2>3 DEF StockTyped, MaterialRow
<1>5. CASE UNCHANGED Stock!vars
  BY <1>5 DEF Stock!vars, StockTyped, MaterialRow
<1> QED BY <1>1, <1>2, <1>3, <1>4, <1>5 DEF Stock!Next

LEMMA StockTypeOK == StockInv /\ StockTyped => Stock!TypeOK
<1> SUFFICES ASSUME StockInv, StockTyped
             PROVE  Stock!TypeOK
  OBVIOUS
<1>1. \A m \in DOMAIN materials : materials[m].version \in 1..(StockRequests + 1)
  BY ServicesBounds DEF StockTyped, MaterialRow
<1>2. Stock!Range(drafts) \subseteq DOMAIN materials \cup {Stock!NoMaterial}
  BY DEF StockTyped, Stock!Range
<1> QED BY <1>1, <1>2 DEF StockInv, MaterialTable, HashesUnique, StockTyped, MaterialRow, Stock!TypeOK

-----------------------------------------------------------------------------
(* The whole.                                                               *)

\* A behaviour of the whole is one of each component: the others leave its state alone.
THEOREM EachComponent ==
    AllSpec => /\ Accounts!Spec /\ Search!Spec /\ Coding!Spec /\ Images!Spec
               /\ Spec /\ Reading!Spec /\ Stock!Spec
<1> USE DEF AllNext, AccountsNext, SearchNext, CodingNext, ImagesNext, LoginsNext, TablesNext,
            StockNext, allVars, users, searching, coding, storing, logging, reading, stocking
<1>1. AllInit => /\ Accounts!Init /\ Search!Init /\ Coding!Init /\ Images!Init
                 /\ Init /\ Reading!Init /\ Stock!Init
  BY DEF AllInit
<1>2. [AllNext]_allVars => [Accounts!Next]_(Accounts!vars)
  BY DEF Accounts!vars
<1>3. [AllNext]_allVars => [Search!Next]_(Search!vars)
  BY DEF Search!vars
<1>4. [AllNext]_allVars => [Coding!Next]_(Coding!vars)
  BY DEF Coding!vars
<1>5. [AllNext]_allVars => [Images!Next]_(Images!vars)
  BY DEF Images!vars
<1>6. [AllNext]_allVars => [Next]_(vars)
  BY DEF vars
<1>7. [AllNext]_allVars => [Reading!Next]_(Reading!vars)
  BY DEF Reading!vars
<1>8. [AllNext]_allVars => [Stock!Next]_(Stock!vars)
  BY DEF Stock!vars
<1> QED
  BY <1>1, <1>2, <1>3, <1>4, <1>5, <1>6, <1>7, <1>8, PTL
  DEF AllSpec, Accounts!Spec, Search!Spec, Coding!Spec, Images!Spec, Spec, Reading!Spec, Stock!Spec

\* The types of all components: the unique keys of accounts and materials, the bounded
\* cache, one holder of the code lock, the foreign keys of images, and batches of an import
\* that follow each other.
THEOREM TypesCorrect == AllSpec => []TypesOK
<1>1. Spec => [](LoginsInv /\ LoginsTyped)
  BY LoginsInit, LoginsStep, LoginsTypedInit, LoginsTypedStep, PTL DEF Spec
<1>2. Coding!Spec => []CodesInv
  BY CodesInit, CodesStep, PTL DEF Coding!Spec
<1>3. Images!Spec => []ImagesInv
  BY ImagesInit, ImagesStep, PTL DEF Images!Spec
<1>4. Reading!Spec => []ReadingInv
  BY ReadingInit, ReadingStep, PTL DEF Reading!Spec
<1>5. Stock!Spec => [](StockInv /\ StockTyped)
  BY MaterialsInit, MaterialsStep, StockTypedInit, StockTypedStep, PTL DEF Stock!Spec
<1>6. /\ AccountsInv /\ SearchInv /\ CodesInv /\ ImagesInv /\ LoginsInv /\ LoginsTyped
      /\ ReadingInv /\ StockInv /\ StockTyped
      => TypesOK
  BY AccountsTypeOK, SearchTypeOK, CodingTypeOK, ImagesTypeOK, LoginsTypeOK, ReadingTypeOK,
     StockTypeOK DEF TypesOK
<1> QED BY EachComponent, AccountsAlways, SearchAlways, <1>1, <1>2, <1>3, <1>4, <1>5, <1>6, PTL

\* What every component promises holds of the whole.
THEOREM AllPromisesKept ==
    AllSpec => /\ []RenewalKnowsPassword /\ []ShownTokenIsAccepted
               /\ NewAccountFollowsSetting /\ MergeKeepsIdentities
               /\ ServedAnswerFits
               /\ []TokenAliveWhenSent
               /\ []RecordedImageReadable /\ []NoStrayFiles
               /\ ImportIsTheSheet
               /\ []OneMaterialPerIdentity
  BY EachComponent, RenewalsKnowPassword, ShownTokensAccepted, NewAccountsFollowSettings,
     MergesKeepIdentities, ServedAnswersFit, CodesAskedInTime, ImagesReadable, FilesAccountedFor,
     ImportsAreTheSheet, MaterialsToldApart, PTL
=============================================================================
