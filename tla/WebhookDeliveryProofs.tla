----------------------- MODULE WebhookDeliveryProofs -----------------------
(***************************************************************************)
(* Proofs about WebhookDelivery, for every finite set of channels, every   *)
(* set of workers and events, and every bound on attempts and lost         *)
(* connections.  They are about Prompt workers, which hear from the        *)
(* receiver before their lease runs out: without it a row may be claimed   *)
(* a second time while its first holder still sends, and WebhookDelivery   *)
(* shows what that does.                                                   *)
(*                                                                         *)
(* The properties hold because a row and the worker that claimed it agree  *)
(* on which attempt is being made, although they do so in two transactions *)
(* with the call between them.  WInv says it from both sides: the row a    *)
(* worker holds is SENDING, leased, and at the attempt the worker counts;  *)
(* and the receiver has got a row of which the database was told           *)
(* everything only when the row SUCCEEDED or a worker carries the news.    *)
(***************************************************************************)
EXTENDS WebhookDelivery, FiniteSetTheorems, SequenceTheorems, TLAPS

Statuses == {"PENDING", "SENDING"} \cup Final
AnsweredOk(w) == worker[w].pc = "answered" /\ worker[w].answer = "ok"

DeliveryOK(d) ==
    /\ d.status \in Statuses /\ d.attempts \in Nat /\ d.age \in Nat
    /\ d = [channel |-> d.channel, status |-> d.status, attempts |-> d.attempts,
            wait |-> d.wait, age |-> d.age]

\* The tables as far as the argument needs them.
TypeInv ==
    /\ \E n \in Nat :
         /\ DOMAIN delivery = 1..n /\ receipts \in [1..n -> Nat]
         /\ delivery = [id \in 1..n |-> delivery[id]]
    /\ \A id \in Ids : DeliveryOK(delivery[id])
    /\ worker = [w \in Workers |-> worker[w]]
    /\ \A w \in Workers : worker[w].pc \in {"idle", "claimed", "answered"}
    /\ faults \in Nat

\* A worker holds the lease of the row it claimed, and the row knows its attempt.
HandOK(w) ==
    worker[w].pc # "idle" =>
        LET id == worker[w].id
        IN  /\ id \in Ids
            /\ delivery[id].status = "SENDING" /\ delivery[id].age < Lease
            /\ worker[w].attempts = delivery[id].attempts
            /\ delivery[id].attempts <= MaxAttempts + faults
            /\ worker[w].pc = "claimed" => receipts[id] < delivery[id].attempts
            /\ worker[w].pc = "answered" => worker[w].answer \in {"ok", "error"}

\* A worker carries the news that id was delivered.
NewsOf(id) == \E w \in Workers : Holds(w, id) /\ AnsweredOk(w)

\* What a row says of its attempts; a row the database was told everything of has a
\* receipt only when it succeeded or the news is on its way.
RowOK(id) ==
    LET d == delivery[id]
    IN  /\ d.status = "PENDING" => d.attempts < MaxAttempts
        /\ d.status = "SENDING" /\ (\A w \in Workers : ~Holds(w, id))
             => d.attempts < MaxAttempts + faults
        /\ d.status = "FAILED" => d.attempts >= MaxAttempts
        /\ d.status \in Final => d.attempts <= MaxAttempts + faults /\ d.wait = 0
        /\ receipts[id] <= d.attempts
        /\ id \notin hidden =>
             /\ receipts[id] <= 1
             /\ d.status # "SUCCEEDED" /\ ~NewsOf(id) => receipts[id] = 0

WInv ==
    /\ TypeInv /\ OneHolder
    /\ \A w \in Workers : HandOK(w)
    /\ \A id \in Ids : RowOK(id)

FinalKept == \A id \in Ids : delivery[id].status \in Final => delivery'[id] = delivery[id]

\* Requests that touch neither deliveries nor workers.
LEMMA UntouchedKeepsWInv ==
    ASSUME WInv, UNCHANGED <<delivery, worker, receipts, hidden>>,
           faults' = faults \/ faults' = faults + 1
    PROVE  WInv' /\ FinalKept
<1>1. TypeInv' /\ OneHolder'
  BY DEF WInv, TypeInv, OneHolder, Ids, Holds, Final, Statuses, DeliveryOK
<1>2. ASSUME NEW w \in Workers PROVE HandOK(w)'
  <2>1. HandOK(w) /\ \A id \in Ids : delivery[id].attempts \in Nat
    BY DEF WInv, TypeInv, DeliveryOK
  <2> QED BY <2>1, AttemptsAssumption DEF WInv, TypeInv, HandOK, Ids
<1>3. ASSUME NEW id \in Ids' PROVE RowOK(id)'
  <2>1. id \in Ids /\ RowOK(id) /\ delivery[id].attempts \in Nat /\ faults \in Nat
    BY DEF WInv, TypeInv, Ids, DeliveryOK
  <2>2. NewsOf(id)' = NewsOf(id) /\ \A w \in Workers : Holds(w, id)' = Holds(w, id)
    BY DEF NewsOf, Holds, AnsweredOk
  <2> QED BY <2>1, <2>2, AttemptsAssumption DEF RowOK, Final
<1>4. FinalKept
  BY DEF FinalKept
<1> QED BY <1>1, <1>2, <1>3, <1>4 DEF WInv

\* Two functions on 1..n and 1..k joined.
LEMMA Joined ==
    ASSUME NEW n \in Nat, NEW k \in Nat, NEW s, NEW t,
           DOMAIN s = 1..n, s = [i \in 1..n |-> s[i]],
           DOMAIN t = 1..k, t = [i \in 1..k |-> t[i]]
    PROVE  /\ DOMAIN (s \o t) = 1..(n + k)
           /\ s \o t = [i \in 1..(n + k) |-> (s \o t)[i]]
           /\ \A i \in 1..(n + k) : (s \o t)[i] = IF i <= n THEN s[i] ELSE t[i - n]
<1> DEFINE S == {s[i] : i \in 1..n} \cup {t[i] : i \in 1..k}
<1>1. s \in [1..n -> S] /\ t \in [1..k -> S]
  OBVIOUS
<1> HIDE DEF S
<1>2. s \in Seq(S) /\ t \in Seq(S) /\ Len(s) = n /\ Len(t) = k
  BY <1>1, IsASeq, LenProperties
<1>3. /\ s \o t \in Seq(S) /\ Len(s \o t) = n + k
      /\ \A i \in 1..(n + k) : (s \o t)[i] = IF i <= n THEN s[i] ELSE t[i - n]
  BY <1>2, ConcatProperties
<1>4. s \o t \in [1..(n + k) -> S]
  BY <1>3, LenProperties
<1> QED BY <1>3, <1>4

\* A new row is pending, unposted and in nobody's hands.
LEMMA EnqueueKeepsWInv ==
    ASSUME WInv, NEW e \in Events, enqueue_event(e)
    PROVE  WInv' /\ FinalKept
<1> DEFINE targets == {c \in Channels : channel[c].enabled /\ e \in channel[c].events}
           k == Cardinality(targets)
<1>1. PICK order \in SetToSeqs(targets) :
        delivery' = delivery \o [i \in DOMAIN order |-> NewDelivery(order[i])]
  BY DEF enqueue_event
<1>2. receipts' = receipts \o [i \in 1..k |-> 0] /\ UNCHANGED <<worker, hidden, faults>>
  BY DEF enqueue_event
<1>3. PICK n \in Nat : /\ DOMAIN delivery = 1..n /\ receipts \in [1..n -> Nat]
                       /\ delivery = [id \in 1..n |-> delivery[id]]
  BY DEF WInv, TypeInv
<1>4. k \in Nat
  <2>1. IsFiniteSet(targets)
    BY ChannelsAssumption, FS_Subset
  <2> QED BY <2>1, FS_CardinalityType
<1>5. DOMAIN order = 1..k
  BY DEF SetToSeqs
<1> HIDE DEF k
<1> DEFINE more == [i \in 1..k |-> NewDelivery(order[i])]
           zeros == [i \in 1..k |-> 0]
<1>6. delivery' = delivery \o more /\ receipts' = receipts \o zeros
  BY <1>1, <1>2, <1>5
<1>7. /\ DOMAIN more = 1..k /\ more = [i \in 1..k |-> more[i]]
      /\ DOMAIN zeros = 1..k /\ zeros = [i \in 1..k |-> zeros[i]]
      /\ \A i \in 1..k : zeros[i] = 0 /\ \E c : more[i] = NewDelivery(c)
  OBVIOUS
<1> HIDE DEF more, zeros
<1>8. /\ DOMAIN delivery' = 1..(n + k) /\ delivery' = [i \in 1..(n + k) |-> delivery'[i]]
      /\ \A i \in 1..(n + k) : delivery'[i] = IF i <= n THEN delivery[i] ELSE more[i - n]
  BY <1>3, <1>4, <1>6, <1>7, Joined
<1>9. /\ DOMAIN receipts' = 1..(n + k) /\ receipts' = [i \in 1..(n + k) |-> receipts'[i]]
      /\ \A i \in 1..(n + k) : receipts'[i] = IF i <= n THEN receipts[i] ELSE zeros[i - n]
  BY <1>3, <1>4, <1>6, <1>7, Joined
<1>10. /\ n + k \in Nat /\ Ids = 1..n /\ Ids' = 1..(n + k) /\ Ids \subseteq Ids'
       /\ \A id \in Ids : delivery'[id] = delivery[id] /\ receipts'[id] = receipts[id]
  BY <1>3, <1>4, <1>8, <1>9 DEF Ids
<1>11. ASSUME NEW id \in Ids', id \notin Ids
       PROVE  receipts'[id] = 0 /\ \E c : delivery'[id] = NewDelivery(c)
  <2>1. id \in 1..(n + k) /\ ~(id <= n) /\ id - n \in 1..k
    BY <1>4, <1>10, <1>11
  <2> QED BY <1>7, <1>8, <1>9, <2>1
<1>12. receipts' \in [1..(n + k) -> Nat]
  BY <1>3, <1>9, <1>10, <1>11
<1>13. TypeInv'
  <2>1. ASSUME NEW id \in Ids'
        PROVE  DeliveryOK(delivery'[id])
    <3>1. CASE id \in Ids
      BY <1>10, <3>1 DEF WInv, TypeInv
    <3>2. CASE id \notin Ids
      <4>1. \A c : DeliveryOK(NewDelivery(c))
        BY DEF DeliveryOK, NewDelivery, Statuses
      <4> QED BY <1>11, <3>2, <4>1
    <3> QED BY <3>1, <3>2
  <2> QED BY <1>2, <1>8, <1>10, <1>12, <2>1 DEF WInv, TypeInv, Statuses, Final, DeliveryOK
<1>14. \A w \in Workers : worker[w].pc # "idle" => worker[w].id \in Ids
  BY DEF WInv, HandOK
<1>15. OneHolder'
  BY <1>2, <1>14 DEF WInv, OneHolder, Holds
<1>16. ASSUME NEW w \in Workers PROVE HandOK(w)'
  BY <1>2, <1>10, <1>14 DEF WInv, HandOK
<1>17. ASSUME NEW id \in Ids' PROVE RowOK(id)'
  <2>1. NewsOf(id)' = NewsOf(id) /\ \A w \in Workers : Holds(w, id)' = Holds(w, id)
    BY <1>2 DEF NewsOf, Holds, AnsweredOk
  <2>2. CASE id \in Ids
    BY <1>2, <1>10, <2>1, <2>2 DEF WInv, RowOK
  <2>3. CASE id \notin Ids
    <3>1. /\ delivery'[id].status = "PENDING" /\ delivery'[id].attempts = 0
          /\ receipts'[id] = 0
      <4>1. PICK c : delivery'[id] = NewDelivery(c)
        BY <1>11, <2>3
      <4> QED BY <1>11, <2>3, <4>1 DEF NewDelivery
    <3> QED BY <3>1, AttemptsAssumption DEF RowOK, Final
  <2> QED BY <2>2, <2>3
<1>18. FinalKept
  BY <1>10 DEF FinalKept
<1> QED BY <1>13, <1>15, <1>16, <1>17, <1>18 DEF WInv

\* What a claim writes into a row.
LEMMA ClaimedRow ==
    ASSUME NEW d, DeliveryOK(d), NEW r,
           r = [d EXCEPT !.status = "SENDING", !.attempts = @ + 1, !.wait = 0, !.age = 0]
    PROVE  r = [channel |-> d.channel, status |-> "SENDING", attempts |-> d.attempts + 1,
                wait |-> 0, age |-> 0]
BY DEF DeliveryOK

\* What an answer writes.
LEMMA FinishedRow ==
    ASSUME NEW d, DeliveryOK(d), NEW status, NEW wait, NEW r,
           r = [d EXCEPT !.status = status, !.age = 0, !.wait = wait]
    PROVE  r = [channel |-> d.channel, status |-> status, attempts |-> d.attempts,
                wait |-> wait, age |-> 0]
BY DEF DeliveryOK

\* What a minute changes.
LEMMA LaterRow ==
    ASSUME NEW d, DeliveryOK(d)
    PROVE  Later(d) = [channel |-> d.channel, status |-> d.status, attempts |-> d.attempts,
                       wait |-> IF d.wait > 0 THEN d.wait - 1 ELSE 0,
                       age |-> IF d.status = "SENDING" /\ d.age < Lease THEN d.age + 1 ELSE d.age]
<1> DEFINE wait == IF d.wait > 0 THEN d.wait - 1 ELSE 0
           age == IF d.status = "SENDING" /\ d.age < Lease THEN d.age + 1 ELSE d.age
<1>1. Later(d) = [d EXCEPT !.wait = wait, !.age = age]
  BY DEF Later
<1>2. d = [channel |-> d.channel, status |-> d.status, attempts |-> d.attempts,
           wait |-> d.wait, age |-> d.age]
  BY DEF DeliveryOK
<1> DEFINE r == Later(d)
<1> HIDE DEF wait, age, r
<1>3. r = [d EXCEPT !.wait = wait, !.age = age]
  BY <1>1 DEF r
<1>4. r = [channel |-> d.channel, status |-> d.status, attempts |-> d.attempts,
           wait |-> wait, age |-> age]
  BY <1>2, <1>3
<1> QED BY <1>4 DEF r, wait, age

\* A claim takes a row that nobody holds and that has an attempt left.
LEMMA ClaimKeepsWInv ==
    ASSUME WInv, NEW w \in Workers, claim_delivery(w) \/ claim_past_locked(w)
    PROVE  WInv' /\ FinalKept
<1>0. PICK id \in Ids : Claim(w, id)
  BY DEF claim_delivery, claim_past_locked
<1>1. /\ Due(id)
      /\ delivery' = [delivery EXCEPT ![id].status = "SENDING", ![id].attempts = @ + 1,
                                      ![id].wait = 0, ![id].age = 0]
      /\ worker' = [worker EXCEPT ![w] =
           [pc |-> "claimed", id |-> id, attempts |-> delivery[id].attempts + 1,
            url |-> channel[delivery[id].channel].url]]
  BY <1>0 DEF Claim
<1>2. worker[w] = Idle /\ UNCHANGED <<receipts, hidden, faults>>
  BY <1>0 DEF Claim
<1> DEFINE d == delivery[id]
           row == [channel |-> d.channel, status |-> "SENDING", attempts |-> d.attempts + 1,
                   wait |-> 0, age |-> 0]
<1>3. /\ DOMAIN delivery' = DOMAIN delivery /\ delivery'[id] = row
      /\ \A i \in Ids : i # id => delivery'[i] = delivery[i]
      /\ delivery' = [i \in Ids |-> delivery'[i]]
  <2>1. delivery' = [delivery EXCEPT ![id] = [d EXCEPT !.status = "SENDING", !.attempts = @ + 1,
                                                       !.wait = 0, !.age = 0]]
    BY <1>1
  <2>2. DeliveryOK(d) /\ delivery = [i \in Ids |-> delivery[i]]
    BY DEF WInv, TypeInv, Ids
  <2> DEFINE r == [d EXCEPT !.status = "SENDING", !.attempts = @ + 1, !.wait = 0, !.age = 0]
  <2>3. r = row
    <3>1. r = [d EXCEPT !.status = "SENDING", !.attempts = @ + 1, !.wait = 0, !.age = 0]
      OBVIOUS
    <3> HIDE DEF r, d
    <3> QED BY <2>2, <3>1, ClaimedRow
  <2> HIDE DEF row, d
  <2> QED BY <2>1, <2>2, <2>3 DEF Ids
<1>4. /\ worker' = [v \in Workers |-> worker'[v]]
      /\ worker'[w].pc = "claimed" /\ worker'[w].id = id
      /\ worker'[w].attempts = d.attempts + 1
      /\ \A v \in Workers : v # w => worker'[v] = worker[v]
  BY <1>1 DEF WInv, TypeInv
<1>5. \A v \in Workers : ~Holds(v, id)
  <2> SUFFICES ASSUME NEW v \in Workers, Holds(v, id) PROVE FALSE
    OBVIOUS
  <2>1. delivery[id].status = "SENDING" /\ delivery[id].age < Lease
    BY DEF WInv, HandOK, Holds
  <2>2. delivery[id].age \in Nat
    BY DEF WInv, TypeInv, DeliveryOK
  <2> QED BY <1>1, <2>1, <2>2, AttemptsAssumption DEF Due
<1>6. /\ \A i \in Ids, v \in Workers : i # id => (Holds(v, i)' <=> Holds(v, i))
      /\ \A v \in Workers : Holds(v, id)' <=> v = w
  BY <1>2, <1>4, <1>5 DEF Holds, Idle
<1>7. d.attempts \in Nat /\ d.attempts < MaxAttempts + faults /\ d.status \notin Final
      /\ d.age \in Nat /\ RowOK(id) /\ faults \in Nat /\ receipts[id] <= d.attempts
  <2>1. d.attempts \in Nat /\ d.age \in Nat /\ RowOK(id) /\ faults \in Nat
    BY DEF WInv, TypeInv, DeliveryOK
  <2>2. d.status = "PENDING" \/ d.status = "SENDING"
    BY <1>1 DEF Due
  <2>3. /\ d.status = "PENDING" => d.attempts < MaxAttempts
        /\ d.status = "SENDING" => d.attempts < MaxAttempts + faults
        /\ receipts[id] <= d.attempts
    BY <1>5, <2>1 DEF RowOK
  <2> HIDE DEF d
  <2> QED BY <2>1, <2>2, <2>3, AttemptsAssumption DEF Final
<1>8. OneHolder'
  BY <1>3, <1>6 DEF WInv, OneHolder, Ids
<1>9. TypeInv'
  <2>1. PICK n \in Nat : DOMAIN delivery = 1..n /\ receipts \in [1..n -> Nat]
    BY DEF WInv, TypeInv
  <2>2. DOMAIN delivery' = 1..n /\ delivery' = [i \in 1..n |-> delivery'[i]]
        /\ receipts' \in [1..n -> Nat]
    BY <1>2, <1>3, <2>1 DEF Ids
  <2>3. \A i \in Ids' : DeliveryOK(delivery'[i])
    <3>1. DeliveryOK(row)
      BY <1>7 DEF DeliveryOK, Statuses
    <3> HIDE DEF row
    <3> QED BY <1>3, <3>1 DEF WInv, TypeInv, Ids
  <2>4. \A v \in Workers : worker'[v].pc \in {"idle", "claimed", "answered"}
    BY <1>4 DEF WInv, TypeInv
  <2> QED BY <1>2, <1>4, <2>2, <2>3, <2>4 DEF WInv, TypeInv, Statuses, Final, DeliveryOK
<1>10. ASSUME NEW v \in Workers PROVE HandOK(v)'
  <2>1. CASE v = w
    <3>1. /\ delivery'[id].status = "SENDING" /\ delivery'[id].age = 0
          /\ delivery'[id].attempts = d.attempts + 1 /\ id \in Ids'
      BY <1>3 DEF Ids
    <3>2. 0 < Lease /\ d.attempts + 1 <= MaxAttempts + faults /\ receipts[id] < d.attempts + 1
      <4>1. receipts[id] \in Nat
        BY DEF WInv, TypeInv, Ids
      <4> HIDE DEF d
      <4> QED BY <1>7, <4>1, AttemptsAssumption
    <3> HIDE DEF d
    <3> QED BY <1>2, <1>4, <2>1, <3>1, <3>2 DEF HandOK
  <2>2. CASE v # w
    <3>1. worker'[v] = worker[v] /\ (worker[v].pc # "idle" => worker[v].id # id)
      BY <1>4, <1>5, <2>2 DEF Holds
    <3> QED BY <1>2, <1>3, <3>1 DEF WInv, HandOK, Ids
  <2> QED BY <2>1, <2>2
<1>11. ASSUME NEW i \in Ids' PROVE RowOK(i)'
  <2>1. i \in Ids
    BY <1>3 DEF Ids
  <2>2. CASE i = id
    <3>1. ~NewsOf(id)
      BY <1>5 DEF NewsOf
    <3>2. Holds(w, id)'
      BY <1>6
    <3>3. id \notin hidden => receipts[id] = 0
      BY <1>7, <3>1 DEF RowOK, Final
    <3>4. /\ delivery'[id].status = "SENDING" /\ delivery'[id].attempts = d.attempts + 1
      BY <1>3
    <3>5. receipts[id] \in Nat
      BY DEF WInv, TypeInv, Ids
    <3>6. receipts[id] <= d.attempts + 1
      BY <1>7, <3>5
    <3> HIDE DEF d
    <3> QED BY <1>2, <2>2, <3>2, <3>3, <3>4, <3>6 DEF RowOK, Final
  <2>3. CASE i # id
    <3>1. NewsOf(i)' <=> NewsOf(i)
      BY <1>2, <1>4, <1>6, <2>1, <2>3 DEF NewsOf, AnsweredOk, Holds, Idle
    <3> QED BY <1>2, <1>3, <1>6, <2>1, <2>3, <3>1 DEF WInv, RowOK
  <2> QED BY <2>2, <2>3
<1>12. FinalKept
  BY <1>3, <1>7 DEF FinalKept
<1> QED BY <1>8, <1>9, <1>10, <1>11, <1>12 DEF WInv

\* The platform got the message; the answer is on its way, or nobody will ever know.
LEMMA AcceptedKeepsWInv ==
    ASSUME WInv, NEW w \in Workers, SendAccepted(w)
    PROVE  WInv' /\ FinalKept
<1>a. PICK id \in Ids : id = worker[w].id
  BY DEF WInv, HandOK, SendAccepted
<1>1. /\ worker[w].pc = "claimed" /\ UNCHANGED <<delivery, faults>>
      /\ receipts' = [receipts EXCEPT ![id] = @ + 1]
      /\ \/ Answered(w, "ok") /\ hidden' = hidden
         \/ Answered(w, "error") /\ hidden' = hidden \cup {id}
  BY <1>a DEF SendAccepted
<1>2. PICK answer \in {"ok", "error"} :
        /\ Answered(w, answer)
        /\ hidden' = IF answer = "ok" THEN hidden ELSE hidden \cup {id}
  BY <1>1
<1>3. /\ worker' = [v \in Workers |-> worker'[v]]
      /\ worker'[w].pc = "answered" /\ worker'[w].id = id /\ worker'[w].answer = answer
      /\ worker'[w].attempts = worker[w].attempts
      /\ \A v \in Workers : v # w => worker'[v] = worker[v]
  BY <1>2, <1>a DEF Answered, WInv, TypeInv
<1>4. \A i, v : v \in Workers => (Holds(v, i)' <=> Holds(v, i))
  BY <1>1, <1>3, <1>a DEF Holds
<1>5. id \in Ids /\ HandOK(w) /\ Holds(w, id) /\ \A v \in Workers : Holds(v, id) => v = w
  BY <1>1, <1>a DEF WInv, HandOK, Holds, OneHolder
<1>6. /\ \A i \in Ids : i # id => receipts'[i] = receipts[i]
      /\ receipts'[id] = receipts[id] + 1 /\ receipts[id] \in Nat
      /\ delivery[id].attempts \in Nat /\ receipts[id] < delivery[id].attempts
      /\ delivery[id].status = "SENDING"
  BY <1>1, <1>5, <1>a DEF WInv, TypeInv, HandOK, Ids, DeliveryOK
<1>7. OneHolder'
  BY <1>1, <1>4 DEF WInv, OneHolder, Ids
<1>8. TypeInv'
  <2>1. PICK n \in Nat : DOMAIN delivery = 1..n /\ receipts \in [1..n -> Nat]
                         /\ delivery = [i \in 1..n |-> delivery[i]]
    BY DEF WInv, TypeInv
  <2>2. receipts' \in [1..n -> Nat]
    BY <1>1, <1>5, <1>6, <2>1 DEF Ids
  <2>3. \A v \in Workers : worker'[v].pc \in {"idle", "claimed", "answered"}
    BY <1>3 DEF WInv, TypeInv
  <2> QED BY <1>1, <1>3, <2>1, <2>2, <2>3 DEF WInv, TypeInv, Ids, DeliveryOK, Statuses, Final
<1>9. ASSUME NEW v \in Workers PROVE HandOK(v)'
  <2>1. CASE v = w
    BY <1>1, <1>3, <1>5, <1>a, <2>1 DEF HandOK, Ids
  <2>2. CASE v # w
    <3>1. worker'[v] = worker[v] /\ (worker[v].pc # "idle" => worker[v].id # id)
      BY <1>3, <1>5, <2>2 DEF Holds
    <3> QED BY <1>1, <1>6, <3>1 DEF WInv, HandOK, Ids
  <2> QED BY <2>1, <2>2
<1>10. ASSUME NEW i \in Ids' PROVE RowOK(i)'
  <2>1. i \in Ids
    BY <1>1 DEF Ids
  <2>2. CASE i = id
    <3>1. ~NewsOf(id)
      BY <1>1, <1>5, <1>a DEF NewsOf, AnsweredOk
    <3>2. id \notin hidden => receipts[id] = 0
      BY <1>5, <1>6, <3>1 DEF WInv, RowOK
    <3>3. Holds(w, id)' /\ (answer = "ok" => NewsOf(id)')
      BY <1>3, <1>4, <1>5 DEF NewsOf, AnsweredOk
    <3>4. id \notin hidden' => receipts'[id] = 1 /\ NewsOf(id)'
      BY <1>2, <1>6, <3>2, <3>3
    <3>5. receipts'[id] <= delivery[id].attempts
      BY <1>6
    <3> QED BY <1>1, <1>6, <2>2, <3>3, <3>4, <3>5 DEF RowOK, Final
  <2>3. CASE i # id
    <3>1. NewsOf(i)' <=> NewsOf(i)
      BY <1>3, <1>4, <1>5, <2>3 DEF NewsOf, AnsweredOk, Holds
    <3>2. i \in hidden' <=> i \in hidden
      BY <1>2, <2>3
    <3> QED BY <1>1, <1>4, <1>6, <2>1, <2>3, <3>1, <3>2 DEF WInv, RowOK
  <2> QED BY <2>1, <2>2, <2>3
<1>11. FinalKept
  BY <1>1 DEF FinalKept
<1> QED BY <1>7, <1>8, <1>9, <1>10, <1>11 DEF WInv

\* The platform refused the message or never saw it.
LEMMA RefusedKeepsWInv ==
    ASSUME WInv, NEW w \in Workers, SendRefused(w)
    PROVE  WInv' /\ FinalKept
<1>1. worker[w].pc = "claimed" /\ UNCHANGED <<delivery, receipts, hidden, faults>>
      /\ Answered(w, "error")
  BY DEF SendRefused
<1>2. /\ worker' = [v \in Workers |-> worker'[v]]
      /\ worker'[w].pc = "answered" /\ worker'[w].id = worker[w].id
      /\ worker'[w].answer = "error" /\ worker'[w].attempts = worker[w].attempts
      /\ \A v \in Workers : v # w => worker'[v] = worker[v]
  BY <1>1 DEF Answered, WInv, TypeInv
<1>3. \A i, v : v \in Workers => (Holds(v, i)' <=> Holds(v, i))
  BY <1>1, <1>2 DEF Holds
<1>4. OneHolder'
  BY <1>1, <1>3 DEF WInv, OneHolder, Ids
<1>5. TypeInv'
  <2>1. \A v \in Workers : worker'[v].pc \in {"idle", "claimed", "answered"}
    BY <1>2 DEF WInv, TypeInv
  <2> QED BY <1>1, <1>2, <2>1 DEF WInv, TypeInv, Ids, DeliveryOK, Statuses, Final
<1>6. ASSUME NEW v \in Workers PROVE HandOK(v)'
  BY <1>1, <1>2 DEF WInv, HandOK, Ids
<1>7. ASSUME NEW i \in Ids' PROVE RowOK(i)'
  <2>1. i \in Ids /\ RowOK(i)
    BY <1>1 DEF Ids, WInv
  <2>2. NewsOf(i)' <=> NewsOf(i)
    BY <1>1, <1>2, <1>3 DEF NewsOf, AnsweredOk
  <2> QED BY <1>1, <1>3, <2>1, <2>2 DEF RowOK
<1>8. FinalKept
  BY <1>1 DEF FinalKept
<1> QED BY <1>4, <1>5, <1>6, <1>7, <1>8 DEF WInv

\* The worker that writes the result is the one that made the attempt the row counts.
LEMMA FinishKeepsWInv ==
    ASSUME WInv, NEW w \in Workers, finish_delivery(w)
    PROVE  WInv' /\ FinalKept
<1>a. PICK id \in Ids : id = worker[w].id
  BY DEF WInv, HandOK, finish_delivery
<1> DEFINE c == worker[w]
           d == delivery[id]
           status == Verdict(c)
           wait == IF status = "PENDING" THEN RetryMinutes[c.attempts] ELSE 0
           row == [channel |-> d.channel, status |-> status, attempts |-> d.attempts,
                   wait |-> wait, age |-> 0]
<1>1. /\ c.pc = "answered" /\ UNCHANGED <<receipts, hidden, faults>>
      /\ delivery' = [delivery EXCEPT ![id].status = status, ![id].age = 0, ![id].wait = wait]
      /\ worker' = [worker EXCEPT ![w] = Idle]
  BY <1>a DEF finish_delivery
<1>2. /\ id \in Ids /\ HandOK(w) /\ RowOK(id) /\ DeliveryOK(d) /\ Holds(w, id)
      /\ \A v \in Workers : Holds(v, id) => v = w
  BY <1>1, <1>a DEF WInv, TypeInv, HandOK, Holds, OneHolder
<1>3. /\ c.answer \in {"ok", "error"} /\ c.attempts = d.attempts
      /\ d.status = "SENDING" /\ d.attempts \in Nat /\ d.attempts <= MaxAttempts + faults
      /\ receipts[id] <= d.attempts /\ receipts[id] \in Nat /\ faults \in Nat
  BY <1>1, <1>2, <1>a DEF HandOK, RowOK, DeliveryOK, WInv, TypeInv, Ids
<1>4. /\ status \in {"SUCCEEDED", "FAILED", "PENDING"}
      /\ status = "SUCCEEDED" <=> c.answer = "ok"
      /\ status = "FAILED" => d.attempts >= MaxAttempts
      /\ status = "PENDING" => d.attempts < MaxAttempts
      /\ status # "PENDING" => wait = 0
  <2> HIDE DEF c, d
  <2> QED BY <1>3, AttemptsAssumption DEF Verdict
<1>5. /\ DOMAIN delivery' = DOMAIN delivery /\ delivery'[id] = row
      /\ \A i \in Ids : i # id => delivery'[i] = delivery[i]
      /\ delivery' = [i \in Ids |-> delivery'[i]]
  <2> DEFINE r == [d EXCEPT !.status = status, !.age = 0, !.wait = wait]
  <2>1. delivery' = [delivery EXCEPT ![id] = r]
    BY <1>1
  <2>2. delivery = [i \in Ids |-> delivery[i]]
    BY DEF WInv, TypeInv, Ids
  <2>3. r = row
    <3>1. r = [d EXCEPT !.status = status, !.age = 0, !.wait = wait]
      OBVIOUS
    <3> HIDE DEF r, d, status, wait
    <3> QED BY <1>2, <3>1, FinishedRow
  <2> HIDE DEF r, row, d
  <2> QED BY <1>2, <2>1, <2>2, <2>3 DEF Ids
<1>6. /\ worker' = [v \in Workers |-> worker'[v]] /\ worker'[w].pc = "idle"
      /\ \A v \in Workers : v # w => worker'[v] = worker[v]
  BY <1>1 DEF WInv, TypeInv, Idle
<1>7. /\ \A i \in Ids, v \in Workers : i # id => (Holds(v, i)' <=> Holds(v, i))
      /\ \A v \in Workers : ~Holds(v, id)'
  BY <1>2, <1>6 DEF Holds
<1>8. OneHolder'
  BY <1>5, <1>7 DEF WInv, OneHolder, Ids
<1>9. /\ delivery'[id].status = status /\ delivery'[id].attempts = d.attempts
      /\ delivery'[id].wait = wait /\ delivery'[id].age = 0
  BY <1>5
<1> HIDE DEF status, wait
<1>10. TypeInv'
  <2>1. PICK n \in Nat : DOMAIN delivery = 1..n /\ receipts \in [1..n -> Nat]
    BY DEF WInv, TypeInv
  <2>2. DOMAIN delivery' = 1..n /\ delivery' = [i \in 1..n |-> delivery'[i]]
        /\ receipts' \in [1..n -> Nat]
    BY <1>1, <1>5, <2>1 DEF Ids
  <2>3. \A i \in Ids' : DeliveryOK(delivery'[i])
    <3>1. DeliveryOK(row)
      BY <1>3, <1>4 DEF DeliveryOK, Statuses, Final
    <3> HIDE DEF row
    <3> QED BY <1>5, <3>1 DEF WInv, TypeInv, Ids
  <2>4. \A v \in Workers : worker'[v].pc \in {"idle", "claimed", "answered"}
    BY <1>6 DEF WInv, TypeInv
  <2> QED BY <1>1, <1>6, <2>2, <2>3, <2>4 DEF WInv, TypeInv, Statuses, Final, DeliveryOK
<1>11. ASSUME NEW v \in Workers PROVE HandOK(v)'
  <2>1. CASE v = w
    BY <1>6, <2>1 DEF HandOK
  <2>2. CASE v # w
    <3>1. worker'[v] = worker[v] /\ (worker[v].pc # "idle" => worker[v].id # id)
      BY <1>2, <1>6, <2>2 DEF Holds
    <3> QED BY <1>1, <1>5, <3>1 DEF WInv, HandOK, Ids
  <2> QED BY <2>1, <2>2
<1>12. ASSUME NEW i \in Ids' PROVE RowOK(i)'
  <2>1. i \in Ids
    BY <1>5 DEF Ids
  <2>2. CASE i = id
    <3>1. c.answer # "ok" => ~NewsOf(id)
      BY <1>2, <1>a DEF NewsOf, AnsweredOk
    <3>2. id \notin hidden => receipts[id] <= 1 /\ (status # "SUCCEEDED" => receipts[id] = 0)
      BY <1>2, <1>3, <1>4, <3>1 DEF RowOK
    <3> HIDE DEF d, c
    <3> QED BY <1>1, <1>3, <1>4, <1>9, <2>2, <3>2 DEF RowOK, Final
  <2>3. CASE i # id
    <3>1. NewsOf(i)' <=> NewsOf(i)
      BY <1>2, <1>6, <1>7, <2>1, <2>3 DEF NewsOf, AnsweredOk, Holds
    <3> QED BY <1>1, <1>5, <1>7, <2>1, <2>3, <3>1 DEF WInv, RowOK
  <2> QED BY <2>1, <2>2, <2>3
<1>13. FinalKept
  BY <1>3, <1>5 DEF FinalKept, Final
<1> QED BY <1>8, <1>10, <1>11, <1>12, <1>13 DEF WInv

\* A worker that dies leaves its row to whoever finds the lease run out.
LEMMA LoseKeepsWInv ==
    ASSUME WInv, NEW w \in Workers, LoseWorker(w)
    PROVE  WInv' /\ FinalKept
<1>1. /\ worker' = [worker EXCEPT ![w] = Idle] /\ UNCHANGED <<delivery, receipts>>
      /\ hidden' = hidden \cup Untold(w) /\ faults' = faults + 1 /\ faults \in Nat
  BY DEF LoseWorker, WInv, TypeInv
<1>2. /\ worker' = [v \in Workers |-> worker'[v]] /\ worker'[w].pc = "idle"
      /\ \A v \in Workers : v # w => worker'[v] = worker[v]
  BY <1>1 DEF WInv, TypeInv, Idle
<1>3. \A i, v : v \in Workers => (Holds(v, i)' <=> Holds(v, i) /\ v # w)
  BY <1>2 DEF Holds
<1>4. OneHolder'
  BY <1>1, <1>3 DEF WInv, OneHolder, Ids
<1>5. TypeInv'
  <2>1. \A v \in Workers : worker'[v].pc \in {"idle", "claimed", "answered"}
    BY <1>2 DEF WInv, TypeInv
  <2> QED BY <1>1, <1>2, <2>1 DEF WInv, TypeInv, Ids, DeliveryOK, Statuses, Final
<1>6. ASSUME NEW v \in Workers PROVE HandOK(v)'
  <2>1. HandOK(v) /\ \A i \in Ids : delivery[i].attempts \in Nat
    BY DEF WInv, TypeInv, DeliveryOK
  <2> QED BY <1>1, <1>2, <2>1, AttemptsAssumption DEF HandOK, Ids
<1>7. ASSUME NEW i \in Ids' PROVE RowOK(i)'
  <2>1. i \in Ids /\ RowOK(i) /\ delivery[i].attempts \in Nat
    BY <1>1 DEF Ids, WInv, TypeInv, DeliveryOK
  <2>2. delivery[i].status = "SENDING" => delivery[i].attempts < MaxAttempts + faults'
    <3>1. CASE \E v \in Workers : Holds(v, i)
      <4>1. delivery[i].attempts <= MaxAttempts + faults
        BY <3>1 DEF WInv, HandOK, Holds
      <4> QED BY <1>1, <2>1, <4>1, AttemptsAssumption
    <3>2. CASE \A v \in Workers : ~Holds(v, i)
      BY <1>1, <2>1, <3>2, AttemptsAssumption DEF RowOK
    <3> QED BY <3>1, <3>2
  <2>3. i \notin hidden' => i \notin hidden /\ (NewsOf(i) => NewsOf(i)')
    <3> SUFFICES ASSUME i \notin hidden', NEW v \in Workers, Holds(v, i), AnsweredOk(v)
                 PROVE  NewsOf(i)'
      BY <1>1 DEF NewsOf
    <3>1. v # w
      BY <1>1 DEF Untold, AnsweredOk, Holds
    <3> QED BY <1>2, <1>3, <3>1 DEF NewsOf, AnsweredOk
  <2>4. delivery[i].status \in Final => delivery[i].attempts <= MaxAttempts + faults'
    BY <1>1, <2>1, AttemptsAssumption DEF RowOK
  <2> QED BY <1>1, <2>1, <2>2, <2>3, <2>4 DEF RowOK
<1>8. FinalKept
  BY <1>1 DEF FinalKept
<1> QED BY <1>4, <1>5, <1>6, <1>7, <1>8 DEF WInv

\* Time runs out no lease that somebody holds, as long as the workers are prompt.
LEMMA TickKeepsWInv ==
    ASSUME WInv, Prompt, Tick
    PROVE  WInv' /\ FinalKept
<1>1. /\ \A w \in Workers, id \in Ids : Holds(w, id) => delivery[id].age + 1 < Lease
      /\ delivery' = [id \in Ids |-> Later(delivery[id])]
      /\ UNCHANGED <<worker, receipts, hidden, faults>>
  BY DEF Tick
<1>2. Ids' = Ids /\ \A id \in Ids : delivery'[id] = Later(delivery[id]) /\ DeliveryOK(delivery[id])
  BY <1>1 DEF Ids, WInv, TypeInv
<1>3. ASSUME NEW id \in Ids
      PROVE  /\ DeliveryOK(delivery'[id])
             /\ delivery'[id].status = delivery[id].status
             /\ delivery'[id].attempts = delivery[id].attempts
             /\ delivery'[id].age <= delivery[id].age + 1
             /\ delivery[id].wait = 0 => delivery'[id].wait = 0
             /\ delivery[id].wait = 0 /\ delivery[id].status # "SENDING"
                  => delivery'[id] = delivery[id]
  <2> DEFINE d == delivery[id]
             age == IF d.status = "SENDING" /\ d.age < Lease THEN d.age + 1 ELSE d.age
             wait == IF d.wait > 0 THEN d.wait - 1 ELSE 0
  <2>1. delivery'[id] = [channel |-> d.channel, status |-> d.status, attempts |-> d.attempts,
                         wait |-> wait, age |-> age]
    BY <1>2, LaterRow
  <2>2. DeliveryOK(d) /\ age \in Nat /\ age <= d.age + 1 /\ (d.wait = 0 => wait = 0)
        /\ (d.status # "SENDING" => age = d.age)
    <3>1. DeliveryOK(d)
      BY <1>2
    <3> HIDE DEF d
    <3> QED BY <3>1, AttemptsAssumption DEF DeliveryOK
  <2> HIDE DEF d, age, wait
  <2>3. DeliveryOK(delivery'[id])
    BY <2>1, <2>2 DEF DeliveryOK
  <2>4. d.wait = 0 /\ d.status # "SENDING" => delivery'[id] = d
    BY <2>1, <2>2 DEF DeliveryOK
  <2> QED BY <2>1, <2>2, <2>3, <2>4 DEF d
<1>4. OneHolder'
  BY <1>1, <1>2 DEF WInv, OneHolder, Holds
<1>5. TypeInv'
  <2>1. PICK n \in Nat : DOMAIN delivery = 1..n /\ receipts \in [1..n -> Nat]
    BY DEF WInv, TypeInv
  <2>2. DOMAIN delivery' = 1..n /\ delivery' = [i \in 1..n |-> delivery'[i]]
    BY <1>1, <2>1 DEF Ids
  <2> QED BY <1>1, <1>2, <1>3, <2>1, <2>2 DEF WInv, TypeInv, DeliveryOK, Statuses, Final
<1>6. ASSUME NEW w \in Workers PROVE HandOK(w)'
  <2> SUFFICES ASSUME worker[w].pc # "idle" PROVE HandOK(w)'
    BY <1>1 DEF HandOK
  <2>1. HandOK(w) /\ Holds(w, worker[w].id) /\ worker[w].id \in Ids
    BY DEF WInv, HandOK, Holds
  <2>2. delivery'[worker[w].id].age < Lease
    <3>1. delivery[worker[w].id].age + 1 < Lease
      BY <1>1, <2>1
    <3>2. delivery[worker[w].id].age \in Nat /\ delivery'[worker[w].id].age \in Nat
      BY <1>2, <1>3, <2>1 DEF DeliveryOK
    <3> QED BY <1>3, <2>1, <3>1, <3>2, AttemptsAssumption
  <2> QED BY <1>1, <1>2, <1>3, <2>1, <2>2 DEF HandOK
<1>7. ASSUME NEW i \in Ids' PROVE RowOK(i)'
  <2>1. i \in Ids /\ RowOK(i)
    BY <1>2 DEF WInv
  <2>2. (NewsOf(i)' <=> NewsOf(i)) /\ \A w \in Workers : Holds(w, i)' <=> Holds(w, i)
    BY <1>1 DEF NewsOf, AnsweredOk, Holds
  <2> QED BY <1>1, <1>3, <2>1, <2>2 DEF RowOK
<1>8. FinalKept
  BY <1>3 DEF FinalKept, WInv, RowOK, Final
<1> QED BY <1>4, <1>5, <1>6, <1>7, <1>8 DEF WInv

-----------------------------------------------------------------------------
\* Every step keeps WInv and the rows that are done.
LEMMA NextKeepsWInv == Prompt /\ WInv /\ [Next]_vars => WInv' /\ [FinalKept]_vars
<1> SUFFICES ASSUME Prompt, WInv, [Next]_vars PROVE WInv' /\ FinalKept
  OBVIOUS
<1>1. CASE UNCHANGED vars
  BY <1>1, UntouchedKeepsWInv DEF vars
<1>2. ASSUME NEW a \in Admins, Load(a) \/ \E c \in Channels : Save(a, c) PROVE WInv' /\ FinalKept
  BY <1>2, UntouchedKeepsWInv DEF Load, Save
<1>3. ASSUME NEW e \in Events, enqueue_event(e) PROVE WInv' /\ FinalKept
  BY <1>3, EnqueueKeepsWInv
<1>4. ASSUME NEW w \in Workers, WorkerStep(w) \/ claim_past_locked(w)
      PROVE  WInv' /\ FinalKept
  BY <1>4, ClaimKeepsWInv, AcceptedKeepsWInv, RefusedKeepsWInv, FinishKeepsWInv DEF WorkerStep
<1>5. ASSUME NEW w \in Workers, LoseWorker(w) PROVE WInv' /\ FinalKept
  BY <1>5, LoseKeepsWInv
<1>6. CASE Tick
  BY <1>6, TickKeepsWInv
<1>7. CASE ChangeKey
  BY <1>7, UntouchedKeepsWInv DEF ChangeKey
<1> QED BY <1>1, <1>2, <1>3, <1>4, <1>5, <1>6, <1>7 DEF Next

\* WInv holds of the empty outbox.
LEMMA InitWInv == Init => WInv
<1> SUFFICES ASSUME Init PROVE WInv
  OBVIOUS
<1>1. DOMAIN delivery = {} /\ 1..0 = {} /\ delivery = [i \in {} |-> delivery[i]]
      /\ receipts \in [{} -> Nat] /\ worker = [w \in Workers |-> Idle] /\ faults = 0
  BY DEF Init
<1>2. TypeInv
  <2>1. 0 \in Nat
    OBVIOUS
  <2> QED BY <1>1, <2>1 DEF TypeInv, Ids, Idle
<1> QED BY <1>1, <1>2 DEF WInv, OneHolder, HandOK, Holds, Ids, Idle

\* With workers that are done within the lease, claim_delivery's row lock and its look at
\* updated_at keep two workers from ever holding, and so from posting, one delivery.
THEOREM OneHolderAtATime == Prompt => (Spec => []OneHolder)
<1> SUFFICES ASSUME Prompt PROVE Spec => []OneHolder
  OBVIOUS
<1>1. WInv /\ [Next]_vars => WInv'
  BY NextKeepsWInv
<1>2. WInv => OneHolder
  BY DEF WInv
<1> QED BY <1>1, <1>2, InitWInv, PTL DEF Spec

\* A platform receives a message twice only when the database was never told of the first
\* time: the answer was lost, the worker died or finish_delivery failed.
THEOREM DuplicatesExplained == Prompt => (Spec => []DuplicateOnlyAfterFailure)
<1> SUFFICES ASSUME Prompt PROVE Spec => []DuplicateOnlyAfterFailure
  OBVIOUS
<1>1. WInv /\ [Next]_vars => WInv'
  BY NextKeepsWInv
<1>2. WInv => DuplicateOnlyAfterFailure
  BY DEF WInv, RowOK, DuplicateOnlyAfterFailure, TypeInv, Ids
<1> QED BY <1>1, <1>2, InitWInv, PTL DEF Spec

\* finish_delivery gives a delivery up after MaxAttempts attempts and no sooner, however
\* many workers crash over it; every attempt beyond them is one whose worker was lost.
THEOREM AttemptsCounted == Prompt => (Spec => []AttemptsBounded)
<1> SUFFICES ASSUME Prompt PROVE Spec => []AttemptsBounded
  OBVIOUS
<1>1. WInv /\ [Next]_vars => WInv'
  BY NextKeepsWInv
<1>2. WInv => AttemptsBounded
  <2> SUFFICES ASSUME WInv, NEW id \in Ids
               PROVE  /\ delivery[id].attempts <= MaxAttempts + faults
                      /\ receipts[id] <= delivery[id].attempts
                      /\ delivery[id].status = "FAILED" => delivery[id].attempts >= MaxAttempts
    BY DEF AttemptsBounded
  <2>1. RowOK(id) /\ DeliveryOK(delivery[id]) /\ faults \in Nat
    BY DEF WInv, TypeInv
  <2>2. delivery[id].attempts <= MaxAttempts + faults
    <3>1. CASE \E w \in Workers : Holds(w, id)
      BY <3>1 DEF WInv, HandOK, Holds
    <3>2. CASE \A w \in Workers : ~Holds(w, id)
      BY <2>1, <3>2, AttemptsAssumption DEF RowOK, DeliveryOK, Statuses
    <3> QED BY <3>1, <3>2
  <2> QED BY <2>1, <2>2 DEF RowOK
<1> QED BY <1>1, <1>2, InitWInv, PTL DEF Spec

\* No worker, however late or unlucky, takes up or rewrites a delivery that succeeded or
\* was given up.
THEOREM FinalRowsStay == Prompt => (Spec => FinalStays)
<1> SUFFICES ASSUME Prompt PROVE Spec => FinalStays
  OBVIOUS
<1>1. WInv /\ [Next]_vars => WInv' /\ [FinalKept]_vars
  BY NextKeepsWInv
<1>2. FinalKept <=> \A id \in Ids : delivery[id].status \in Final => delivery'[id] = delivery[id]
  BY DEF FinalKept
<1> QED BY <1>1, <1>2, InitWInv, PTL DEF Spec, FinalStays
=============================================================================
