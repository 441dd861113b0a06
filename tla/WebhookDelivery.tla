--------------------------- MODULE WebhookDelivery ---------------------------
(***************************************************************************)
(* webhook_service: the transaction of a business event also inserts one   *)
(* delivery per subscribed channel, and a worker later claims the due      *)
(* deliveries one by one, posts each to its platform and records the       *)
(* answer.  A claim is a lease: a delivery whose worker died is claimed    *)
(* again when the lease has run out.  The channels and their encrypted     *)
(* credentials are edited on the settings page.                            *)
(*                                                                         *)
(* Time passes in Tick, in minutes; wait and age are what is left to       *)
(* next_retry_at and what has passed since updated_at.                     *)
(***************************************************************************)
EXTENDS Naturals, Sequences, FiniteSets, SequencesExt

CONSTANTS
    Channels, Events, Admins,
    Workers,       \* one per server process
    MaxAttempts, RetryMinutes, Lease,
    Prompt,        \* whether every worker is done with a delivery within its lease
    KeyChanges,    \* whether a restart may bring another encryption key
    MaxDeliveries, MaxFaults, MaxSaves   \* bounds

ASSUME ChannelsAssumption == IsFiniteSet(Channels)
ASSUME AttemptsAssumption ==
    /\ MaxAttempts \in Nat \ {0} /\ Lease \in Nat \ {0}
    /\ RetryMinutes \in Seq(Nat) /\ Len(RetryMinutes) >= MaxAttempts - 1
ASSUME ChoicesAssumption == Prompt \in BOOLEAN /\ KeyChanges \in BOOLEAN
ASSUME BoundsAssumption ==
    MaxDeliveries \in Nat /\ MaxFaults \in Nat /\ MaxSaves \in Nat

VARIABLES
    channel,    \* webhook_channel; version 0 stands for no row
    delivery,   \* webhook_delivery in the order of id
    worker,     \* what each delivery worker holds
    form,       \* settings page of each admin: the versions it shows
    receipts,   \* deliveries the platforms received: id -> how often
    hidden,     \* ids with a receipt the database was never told of
    faults, saves

vars == <<channel, delivery, worker, form, receipts, hidden, faults, saves>>

Idle == [pc |-> "idle"]
Blank == [c \in Channels |-> 0]
Ids == DOMAIN delivery
Final == {"SUCCEEDED", "FAILED"}
Holds(w, id) == worker[w].pc # "idle" /\ worker[w].id = id

Init ==
    /\ channel = [c \in Channels |->
                    [version |-> 0, enabled |-> FALSE, events |-> {}, url |-> FALSE, readable |-> TRUE]]
    /\ delivery = << >> /\ receipts = << >> /\ hidden = {}
    /\ worker = [w \in Workers |-> Idle]
    /\ form = [a \in Admins |-> Blank]
    /\ faults = 0 /\ saves = 0

-----------------------------------------------------------------------------
(* The settings page *)

\* list_channels decrypts every channel: one it cannot read fails the whole request.
list_channels == [c \in Channels |-> channel[c].version]
CanList == \A c \in Channels : channel[c].readable

\* The page is opened, or opened anew after a save; its forms start blank.
Load(a) ==
    /\ form' = [form EXCEPT ![a] = IF CanList THEN list_channels ELSE Blank]
    /\ UNCHANGED <<channel, delivery, worker, receipts, hidden, faults, saves>>

Complete(enabled, url, events) == enabled => url /\ events # {}

\* update_channel; a stale version or an incomplete form is refused.  What a disabled
\* channel subscribes to is not kept: nothing reads it before the next save, which sends
\* every field.  MaxSaves never keeps an unreadable channel from being saved.
Save(a, c) ==
    /\ saves < MaxSaves \/ ~channel[c].readable
    /\ form[a][c] = channel[c].version
    /\ \E enabled, url \in BOOLEAN, events \in SUBSET Events :
         /\ Complete(enabled, url, events)
         /\ channel' = [channel EXCEPT ![c] =
              [version |-> @.version + 1, enabled |-> enabled,
               events |-> IF enabled THEN events ELSE {},
               url |-> url, readable |-> TRUE]]
    /\ form' = [form EXCEPT ![a][c] = @ + 1]
    /\ saves' = IF saves < MaxSaves THEN saves + 1 ELSE saves
    /\ UNCHANGED <<delivery, worker, receipts, hidden, faults>>

-----------------------------------------------------------------------------
(* The outbox *)

NewDelivery(c) == [channel |-> c, status |-> "PENDING", attempts |-> 0, wait |-> 0, age |-> 0]

\* The transaction of a business event commits.
enqueue_event(e) ==
    LET targets == {c \in Channels : channel[c].enabled /\ e \in channel[c].events}
    IN  /\ targets # {}
        /\ Len(delivery) + Cardinality(targets) <= MaxDeliveries
        /\ \E order \in SetToSeqs(targets) :
             delivery' = delivery \o [n \in DOMAIN order |-> NewDelivery(order[n])]
        /\ receipts' = receipts \o [n \in 1..Cardinality(targets) |-> 0]
        /\ UNCHANGED <<channel, worker, form, hidden, faults, saves>>

\* Faulty variants: leases are not looked at; the status is not looked at; only pending
\* deliveries are looked for.
DueUnleased(id) ==
    \/ delivery[id].status = "PENDING" /\ delivery[id].wait = 0
    \/ delivery[id].status = "SENDING"
DueWhateverStatus(id) ==
    \/ delivery[id].status # "SENDING" /\ delivery[id].wait = 0
    \/ delivery[id].status = "SENDING" /\ delivery[id].age >= Lease
DuePending(id) == delivery[id].status = "PENDING" /\ delivery[id].wait = 0

Due(id) ==
    \/ delivery[id].status = "PENDING" /\ delivery[id].wait = 0
    \/ delivery[id].status = "SENDING" /\ delivery[id].age >= Lease

Readable(id) == channel[delivery[id].channel].readable

\* Worker w takes a delivery whose credentials can be decrypted.
Claim(w, id) ==
    /\ worker[w] = Idle /\ Due(id) /\ Readable(id)
    /\ delivery' = [delivery EXCEPT ![id].status = "SENDING", ![id].attempts = @ + 1,
                                    ![id].wait = 0, ![id].age = 0]
    /\ worker' = [worker EXCEPT ![w] =
         [pc |-> "claimed", id |-> id, attempts |-> delivery[id].attempts + 1,
          url |-> channel[delivery[id].channel].url]]
    /\ UNCHANGED <<channel, form, receipts, hidden, faults, saves>>

DueBefore(id) == {i \in Ids : Due(i) /\ i < id}

\* The due delivery with the lowest id.  If its credentials cannot be decrypted the
\* transaction is rolled back, and the next iteration comes to the same delivery.
claim_delivery(w) == \E id \in Ids : DueBefore(id) = {} /\ Claim(w, id)

\* SKIP LOCKED passes over deliveries that others have locked: each of them at this moment
\* in a claim of its own, of credentials it cannot decrypt, that will be rolled back.
claim_past_locked(w) ==
    \E id \in Ids :
        /\ DueBefore(id) # {} /\ \A i \in DueBefore(id) : ~Readable(i)
        /\ Cardinality(DueBefore(id)) <= Cardinality({v \in Workers \ {w} : worker[v] = Idle})
        /\ Claim(w, id)

Answered(w, answer) ==
    worker' = [worker EXCEPT ![w] =
        [pc |-> "answered", id |-> @.id, attempts |-> @.attempts, answer |-> answer]]

\* _send: the platform accepts the message; it accepts it and the answer is lost or
\* unreadable; or it never gets or refuses it.
SendAccepted(w) ==
    /\ worker[w].pc = "claimed" /\ worker[w].url
    /\ receipts' = [receipts EXCEPT ![worker[w].id] = @ + 1]
    /\ \/ Answered(w, "ok") /\ UNCHANGED hidden
       \/ Answered(w, "error") /\ hidden' = hidden \cup {worker[w].id}
    /\ UNCHANGED <<channel, delivery, form, faults, saves>>

SendRefused(w) ==
    /\ worker[w].pc = "claimed"
    /\ Answered(w, "error")
    /\ UNCHANGED <<channel, delivery, form, receipts, hidden, faults, saves>>

\* Faulty variants: a success is not recorded; one attempt too many.
VerdictForgotten(c) ==
    CASE c.answer = "ok" -> "SENDING"
      [] c.answer = "error" /\ c.attempts >= MaxAttempts -> "FAILED"
      [] OTHER -> "PENDING"
VerdictLate(c) ==
    CASE c.answer = "ok" -> "SUCCEEDED"
      [] c.answer = "error" /\ c.attempts > MaxAttempts -> "FAILED"
      [] OTHER -> "PENDING"

Verdict(c) ==
    CASE c.answer = "ok" -> "SUCCEEDED"
      [] c.answer = "error" /\ c.attempts >= MaxAttempts -> "FAILED"
      [] OTHER -> "PENDING"

\* The row is written whatever has happened to it since the claim.
finish_delivery(w) ==
    /\ worker[w].pc = "answered"
    /\ LET c == worker[w]
       IN  delivery' = [delivery EXCEPT ![c.id].status = Verdict(c), ![c.id].age = 0,
              ![c.id].wait = IF Verdict(c) = "PENDING" THEN RetryMinutes[c.attempts] ELSE 0]
    /\ worker' = [worker EXCEPT ![w] = Idle]
    /\ UNCHANGED <<channel, form, receipts, hidden, faults, saves>>

-----------------------------------------------------------------------------
(* Failures and time *)

Untold(w) == IF worker[w].pc = "answered" /\ worker[w].answer = "ok" THEN {worker[w].id} ELSE {}

\* The process is killed and restarted, or the transaction of finish_delivery fails and
\* the worker goes on with its next iteration.  The row keeps its lease.
LoseWorker(w) ==
    /\ worker[w] # Idle /\ faults < MaxFaults
    /\ worker' = [worker EXCEPT ![w] = Idle]
    /\ hidden' = hidden \cup Untold(w)
    /\ faults' = faults + 1
    /\ UNCHANGED <<channel, delivery, form, receipts, saves>>

\* Every process is restarted with another APP_FERNET_KEY.
ChangeKey ==
    /\ KeyChanges /\ faults < MaxFaults
    /\ \A w \in Workers : worker[w] = Idle
    /\ channel' = [c \in Channels |-> [channel[c] EXCEPT !.readable = ~channel[c].url]]
    /\ faults' = faults + 1
    /\ UNCHANGED <<delivery, worker, form, receipts, hidden, saves>>

Later(d) ==
    [d EXCEPT !.wait = IF @ > 0 THEN @ - 1 ELSE 0,
              !.age = IF d.status = "SENDING" /\ @ < Lease THEN @ + 1 ELSE @]

Tick ==
    /\ Prompt => \A w \in Workers, id \in Ids : Holds(w, id) => delivery[id].age + 1 < Lease
    /\ delivery' = [id \in Ids |-> Later(delivery[id])]
    /\ delivery' # delivery
    /\ UNCHANGED <<channel, worker, form, receipts, hidden, faults, saves>>

WorkerStep(w) ==
    claim_delivery(w) \/ SendAccepted(w) \/ SendRefused(w) \/ finish_delivery(w)

Next ==
    \/ \E a \in Admins : Load(a) \/ \E c \in Channels : Save(a, c)
    \/ \E e \in Events : enqueue_event(e)
    \/ \E w \in Workers : WorkerStep(w) \/ claim_past_locked(w) \/ LoseWorker(w)
    \/ Tick \/ ChangeKey

Spec == Init /\ [][Next]_vars

\* Workers poll and time passes.  Nobody has to open or save the settings page, and that
\* another worker holds the lock of a delivery at the right moment is chance.
FairSpec ==
    /\ Spec
    /\ \A w \in Workers : WF_vars(WorkerStep(w))
    /\ WF_vars(Tick)

-----------------------------------------------------------------------------
(* Properties *)

\* A delivery is in the hands of at most one worker: claims skip what others have claimed
\* for as long as the lease runs, so no message is posted by two workers at a time.
OneHolder ==
    \A v, w \in Workers : v # w => \A id \in Ids : ~(Holds(v, id) /\ Holds(w, id))

\* A message is posted again only after a failure that hid the first receipt from the
\* database: a lost answer, a crash or a failed write.
DuplicateOnlyAfterFailure == \A id \in Ids : receipts[id] > 1 => id \in hidden

\* A delivery that succeeded or was given up is never taken up again.
FinalStays ==
    [][\A id \in Ids : delivery[id].status \in Final => delivery'[id] = delivery[id]]_vars

\* A delivery is given up after MaxAttempts failed attempts and no earlier; only attempts
\* whose result was never written come on top of them.
AttemptsBounded ==
    \A id \in Ids :
        /\ delivery[id].attempts <= MaxAttempts + faults
        /\ receipts[id] <= delivery[id].attempts
        /\ delivery[id].status = "FAILED" => delivery[id].attempts >= MaxAttempts

\* A delivery ends when it is made or given up.  It waits for its own channel and for
\* every delivery with a lower id whose credentials cannot be decrypted: the claim of that
\* one is rolled back each time, and holds up the other channels too.
Ended(id) == delivery[id].status \in Final
HeldUp(id) == \E i \in Ids : i <= id /\ delivery[i].status \notin Final /\ ~Readable(i)

\* Through crashes in every step and changes of the key, when events have stopped, every
\* delivery comes to its end for good, unless it is held up from some moment on
\* (deliver_pending_once, _claim_delivery).
EveryDeliveryEnds == <>[](\A id \in Ids : Ended(id) \/ HeldUp(id))
=============================================================================
