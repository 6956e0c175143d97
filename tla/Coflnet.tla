------------------------------- MODULE Coflnet ------------------------------
(***************************************************************************)
(* CoflnetClient (app/lowball/api/coflnet.py) between the cache            *)
(* (api/cache.py) and the rate limiter. Coroutines of one event loop ask   *)
(* it questions: a step is what one of them does from one await to the     *)
(* next. What the API answers is any answer the client tells apart.        *)
(*                                                                         *)
(* A question is the sequence of cache keys that may answer it: an         *)
(* analysis walks down from the window it wants to one it can read, every  *)
(* other endpoint has a single key.                                        *)
(***************************************************************************)
EXTENDS RateLimiter

CONSTANTS
    None,
    Questions,   \* what each caller may ask
    MaxRetries,  \* requests sent for a key at most
    Ttl,         \* lifetime of an answer
    TtlUnknown,  \* and of the answer that the thing is unknown
    Backoffs,    \* how long to wait after each failed attempt
    RetryAfters, \* what the server asks for when it is asked too much
    MaxFaults,   \* bound on the attempts that fail
    MaxCalls     \* bound on the questions of a caller

ASSUME CoflnetAssumption == RetryAfters \subseteq Nat /\ None # "stale"

VARIABLES
    call,   \* per caller, the question it is at
    cache,  \* per key, the entry in api_cache, or None
    faults, \* failed attempts so far
    calls   \* questions asked so far, per caller

vars == <<limiter, call, cache, faults, calls>>

Keys == UNION {UNION {{q[i] : i \in DOMAIN q} : q \in Questions[p]} : p \in Callers}

\* A question that has ended, and how; "failed" says that an attempt for it failed.
Ended(answer, failed) ==
    [pc |-> "idle", keys |-> <<>>, attempt |-> 0, until |-> 0, error |-> None,
     answer |-> answer, failed |-> failed]

TypeOK ==
    /\ LimiterTypeOK
    /\ \A p \in Callers :
        /\ call[p].pc \in {"idle", "queued", "asking", "backoff"}
        /\ call[p].attempt \in 0 .. MaxRetries
        /\ call[p].pc # "idle" <=> call[p].keys # <<>>
        /\ call[p].pc = "queued" <=> \E i \in DOMAIN queue : queue[i] = p
    /\ \A k \in Keys : cache[k] # None => cache[k].at <= now
    /\ faults \in 0 .. MaxFaults

Init ==
    /\ LimiterInit
    /\ call = [p \in Callers |-> Ended(None, FALSE)]
    /\ \E entry \in {None} \cup [what : {"data"}, at : {0, -Ttl}, ttl : {Ttl}] :
           cache = [k \in Keys |-> entry]   \* it outlives the application
    /\ faults = 0 /\ calls = [p \in Callers |-> 0]

-----------------------------------------------------------------------------
(***************************************************************************)
(* The cache.                                                              *)
(***************************************************************************)
\* Mutant of Fresh: the lifetime is not looked at.
Present(k) == cache[k] # None

Fresh(k) == cache[k] # None /\ now - cache[k].at < cache[k].ttl
Data(k)  == cache[k] # None /\ cache[k].what = "data"
Put(k, what, ttl) == cache' = [cache EXCEPT ![k] = [what |-> what, at |-> now, ttl |-> ttl]]

\* The answer that the entry gives.
Answer(k, failed) ==
    IF now - cache[k].at < cache[k].ttl THEN Ended("data", FALSE) ELSE Ended("stale", failed)

-----------------------------------------------------------------------------
(***************************************************************************)
(* One question.                                                           *)
(***************************************************************************)
\* Goes through the keys: what the cache knows to be unknown is passed over, a price
\* it has ends the question, and for the first key it has no fresh entry of the
\* caller joins the limiter's queue.
Proceed(p, keys, failed) ==
    LET open == {i \in DOMAIN keys : ~ Fresh(keys[i]) \/ Data(keys[i])}
        i    == CHOOSE j \in open : \A k \in open : j <= k
    IN IF open = {}
       THEN /\ call' = [call EXCEPT ![p] = Ended("nothing", FALSE)]
            /\ UNCHANGED limiter
       ELSE IF Fresh(keys[i])
       THEN /\ call' = [call EXCEPT ![p] = Answer(keys[i], failed)]
            /\ UNCHANGED limiter
       ELSE /\ call' = [call EXCEPT ![p] =
                    [Ended(None, failed) EXCEPT !.pc = "queued", !.keys = SubSeq(keys, i, Len(keys))]]
            /\ Enter(p)

Ask(p) ==
    /\ call[p].pc = "idle" /\ calls[p] < MaxCalls
    /\ calls' = [calls EXCEPT ![p] = @ + 1]
    /\ \E q \in Questions[p] : Proceed(p, q, FALSE)
    /\ UNCHANGED <<cache, faults>>

\* acquire() returns, and the request goes out.
Request(p) ==
    /\ Grant(p)
    /\ call' = [call EXCEPT ![p].pc = "asking", ![p].attempt = @ + 1]
    /\ UNCHANGED <<cache, faults, calls>>

KeepWaiting(p) ==
    /\ Wait(p)
    /\ UNCHANGED <<call, cache, faults, calls>>

\* The last attempt has failed, or the query was rejected. An old answer is better
\* than none. An error of the API sends an analysis on to its next window, and is no
\* answer to any other question; an error of the network is raised.
GiveUp(p, error) ==
    LET k == Head(call[p].keys)
    IN IF Data(k)
       THEN /\ call' = [call EXCEPT ![p] = Answer(k, TRUE)]
            /\ UNCHANGED limiter
       ELSE IF cache[k] = None /\ error = "network"
       THEN call' = [call EXCEPT ![p] = Ended("raised", FALSE)] /\ UNCHANGED limiter
       ELSE Proceed(p, Tail(call[p].keys), TRUE)

\* A price, or an answer that is no price: the thing is unknown.
Succeed(p) ==
    /\ call[p].pc = "asking"
    /\ Put(Head(call[p].keys), "data", Ttl)
    /\ call' = [call EXCEPT ![p] = Ended("data", FALSE)]
    /\ UNCHANGED <<limiter, faults, calls>>

Unknown(p) ==
    /\ call[p].pc = "asking"
    /\ Put(Head(call[p].keys), "unknown", TtlUnknown)
    /\ Proceed(p, Tail(call[p].keys), call[p].failed)
    /\ UNCHANGED <<faults, calls>>

Fault == faults < MaxFaults /\ faults' = faults + 1

\* A status that will be the same every time, or a body that cannot be read.
Rejected(p) ==
    /\ call[p].pc = "asking" /\ Fault
    /\ GiveUp(p, "refused")
    /\ UNCHANGED <<cache, calls>>

Pause(p, error, seconds) ==
    call' = [call EXCEPT ![p].pc = "backoff", ![p].until = now + seconds,
                         ![p].error = error, ![p].failed = TRUE]

\* The connection fails, or a gateway does: a pause before the next attempt.
Transient(p) ==
    /\ call[p].pc = "asking" /\ Fault
    /\ \E error \in {"network", "refused"} : Pause(p, error, Backoffs[call[p].attempt])
    /\ UNCHANGED <<limiter, cache, calls>>

\* A 429 holds everyone back. The caller makes its next attempt without a pause.
TooMany(p) ==
    /\ call[p].pc = "asking" /\ Fault
    /\ \E seconds \in RetryAfters : NoteRetryAfter(seconds)
    /\ Pause(p, "refused", 0)
    /\ UNCHANGED <<cache, calls>>

\* Mutant of TryAgain: the end of the attempts is not the end of the question.
TryAgainOnly(p) ==
    /\ call[p].pc = "backoff" /\ call[p].until <= now
    /\ call[p].attempt < MaxRetries
    /\ call' = [call EXCEPT ![p].pc = "queued", ![p].until = 0, ![p].error = None]
    /\ Enter(p)
    /\ UNCHANGED <<cache, faults, calls>>

TryAgain(p) ==
    /\ call[p].pc = "backoff" /\ call[p].until <= now
    /\ IF call[p].attempt < MaxRetries
       THEN /\ call' = [call EXCEPT ![p].pc = "queued", ![p].until = 0, ![p].error = None]
            /\ Enter(p)
       ELSE GiveUp(p, call[p].error)
    /\ UNCHANGED <<cache, faults, calls>>

\* The clock moves while somebody waits for it.
Tick ==
    /\ \/ wakeAt > now
       \/ \E p \in Callers : call[p].pc = "backoff" /\ call[p].until > now
    /\ Pass
    /\ UNCHANGED <<call, cache, faults, calls>>

\* A caller goes on: the API answers, or what it waits for has come.
Resume(p) ==
    \/ Request(p) \/ KeepWaiting(p) \/ TryAgain(p)
    \/ Succeed(p) \/ Unknown(p) \/ Rejected(p) \/ Transient(p) \/ TooMany(p)

Next == Tick \/ \E p \in Callers : Ask(p) \/ Resume(p)

(***************************************************************************)
(* Fairness: the loop runs what is due, a request is answered or times     *)
(* out, and the clock moves. Nobody has to ask.                            *)
(***************************************************************************)
Fairness == WF_vars(Tick) /\ \A p \in Callers : WF_vars(Resume(p))

Spec == Init /\ [][Next]_vars /\ Fairness

-----------------------------------------------------------------------------
(***************************************************************************)
(* Properties.                                                             *)
(***************************************************************************)
\* An answer that has outlived its lifetime is given only to a caller that failed to
\* get a better one.
StaleOnlyAfterFailure == \A p \in Callers : call[p].answer = "stale" => call[p].failed

\* Every question ends, whatever fails: nobody holds the lock for good or tries forever.
QuestionsEnd == \A p \in Callers : call[p].pc # "idle" ~> call[p].pc = "idle"

=============================================================================
