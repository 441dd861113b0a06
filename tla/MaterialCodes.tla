--------------------------- MODULE MaterialCodes ---------------------------
(***************************************************************************)
(* Mini-program codes of materials: the server asks WeChat for an image,   *)
(* with an access token it also asks WeChat for, and keeps both in caches  *)
(* of its process.  One lock covers the generation of codes and one, taken *)
(* within it, the fetch of a token.                                        *)
(***************************************************************************)
EXTENDS Integers, FiniteSets

CONSTANTS
    Callers,     \* requests in progress at the same time
    Codes,       \* materials, environment and app of a code
    Lifetimes,   \* lifetimes WeChat gives its tokens (7200 seconds), all above Least
    Margin,      \* taken off a lifetime (300 seconds)
    Least,       \* the least time a token is kept (60 seconds)
    MaxCalls,    \* bound: requests sent
    MaxTime      \* bound: the clock; a request to WeChat takes at most one tick

VARIABLES
    codes,    \* the codes cached
    token,    \* the token cached: when WeChat drops it, and when the server does
    call,     \* requests in progress
    calls,    \* how many were sent
    time

vars == <<codes, token, call, calls, time>>

Init ==
    /\ codes = {}
    /\ token = [dies |-> 0, until |-> 0]
    /\ call = [c \in Callers |-> [pc |-> "idle"]]
    /\ calls = 0 /\ time = 0

To(c, state) == call' = [call EXCEPT ![c] = state]
Idle == [pc |-> "idle"]

\* A code in the cache is the answer at once; else the request waits for the lock.
Call(c) ==
    /\ call[c].pc = "idle"
    /\ calls < MaxCalls
    /\ calls' = calls + 1
    /\ \E k \in Codes : To(c, IF k \in codes THEN Idle ELSE [pc |-> "wait", code |-> k])
    /\ UNCHANGED <<codes, token, time>>

\* Nobody is within the lock.
LockFree == \A c \in Callers : call[c].pc \in {"idle", "wait"}

\* Another caller has generated the code while this one waited.
GeneratedMeanwhile(c) == call[c].code \in codes

TokenGood == time < token.until

\* With the lock: the second look at the cache, then at the token.
generate(c) ==
    /\ call[c].pc = "wait"
    /\ LockFree
    /\ \/ GeneratedMeanwhile(c) /\ To(c, Idle)
       \/ /\ ~GeneratedMeanwhile(c)
          /\ To(c, [pc |-> IF TokenGood THEN "post" ELSE "fetch", code |-> call[c].code,
                    sent |-> time])
    /\ UNCHANGED <<codes, token, calls, time>>

\* A faulty expiry that trusts the lifetime.
WholeLifetime(lifetime) == lifetime

\* How long the server keeps a token, counted from the answer.
Kept(lifetime) == IF lifetime - Margin > Least THEN lifetime - Margin ELSE Least

\* WeChat counts the lifetime from some moment of the request.
get_wechat_access_token(c) ==
    /\ call[c].pc = "fetch"
    /\ \E l \in Lifetimes, granted \in call[c].sent..time :
          token' = [dies |-> granted + l, until |-> time + Kept(l)]
    /\ To(c, [pc |-> "post", code |-> call[c].code, sent |-> time])
    /\ UNCHANGED <<codes, calls, time>>

Answer(c) ==
    /\ call[c].pc = "post"
    /\ codes' = codes \cup {call[c].code}
    /\ To(c, Idle)
    /\ UNCHANGED <<token, calls, time>>

\* WeChat refuses, or does not answer in time.
CallFails(c) ==
    /\ call[c].pc \in {"fetch", "post"}
    /\ To(c, Idle)
    /\ UNCHANGED <<codes, token, calls, time>>

\* The server restarts: its caches are empty.
Restart ==
    /\ codes' = {} /\ token' = [dies |-> 0, until |-> 0]
    /\ call' = [c \in Callers |-> Idle]
    /\ UNCHANGED <<calls, time>>

\* The clock moves on while no request has waited a whole tick for WeChat.
Tick ==
    /\ time < MaxTime
    /\ \A c \in Callers : call[c].pc \in {"fetch", "post"} => call[c].sent = time
    /\ time' = time + 1
    /\ UNCHANGED <<codes, token, call, calls>>

Next ==
    \/ Tick \/ Restart
    \/ \E c \in Callers : Call(c) \/ generate(c) \/ get_wechat_access_token(c) \/ Answer(c) \/ CallFails(c)

Spec == Init /\ [][Next]_vars

-----------------------------------------------------------------------------
(* Properties.                                                              *)

\* One request at a time is within the lock, and codes are codes.
TypeOK ==
    /\ Cardinality({c \in Callers : call[c].pc \in {"fetch", "post"}}) <= 1
    /\ codes \subseteq Codes /\ calls \in 0..MaxCalls

\* A code is asked for with a token WeChat still takes when the request leaves,
\* although the server counts a token's life from the answer, WeChat from before it.
TokenAliveWhenSent == \A c \in Callers : call[c].pc = "post" => call[c].sent < token.dies
=============================================================================
