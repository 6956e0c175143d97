----------------------------- MODULE RateLimiter ----------------------------
(***************************************************************************)
(* DualWindowLimiter (app/lowball/api/ratelimit.py): coroutines queue for  *)
(* its lock; the one that holds it sends as soon as every window, the      *)
(* minimum interval and the server's own word allow, and until then sleeps *)
(* with the lock held.                                                     *)
(*                                                                         *)
(* Time is a natural number. The clock moves only between the steps of the *)
(* event loop, but by any number of ticks before a sleeper is woken.       *)
(***************************************************************************)
EXTENDS Integers, Sequences

CONSTANTS
    Callers,      \* coroutines that send requests
    Windows,      \* the windows that are enforced together
    Limit, Span,  \* the requests each allows, in this span of time
    MinInterval,  \* between two requests
    SafetyMargin  \* added to every wait

ASSUME LimiterAssumption ==
    /\ Limit \in [Windows -> Nat \ {0}] /\ Span \in [Windows -> Nat]
    /\ MinInterval \in Nat /\ SafetyMargin \in Nat

VARIABLES
    now,          \* the clock
    hits,         \* per window, when its requests were sent
    lastRequest,  \* when the last one was sent, long ago at first
    penaltyUntil, \* the server wants none before
    queue,        \* callers in acquire(), in order: the first holds the lock
    wakeAt,       \* when the first one's sleep ends
    sent,         \* history: when the requests were sent
    told          \* history: the times the server has told to wait for

limiter == <<now, hits, lastRequest, penaltyUntil, queue, wakeAt, sent, told>>

LimiterInit ==
    /\ now = 0 /\ sent = <<>> /\ told = {}
    /\ hits = [w \in Windows |-> <<>>]
    /\ lastRequest = -MinInterval /\ penaltyUntil = 0
    /\ queue = <<>> /\ wakeAt = 0

LimiterTypeOK ==
    /\ now \in Nat
    /\ hits \in [Windows -> Seq(Nat)] /\ \A w \in Windows : Len(hits[w]) <= Limit[w]
    /\ lastRequest \in Int /\ penaltyUntil \in Nat /\ wakeAt \in Nat
    /\ queue \in Seq(Callers)
    /\ sent \in Seq(Nat) /\ told \subseteq Nat

\* Mutant of Left: a hit leaves the window one tick early.
LeftEarly(w, h, k) == /\ \A i \in 1 .. k : h[i] <= now - Span[w] + 1
                      /\ k < Len(h) => h[k + 1] > now - Span[w] + 1

\* _prune(): the oldest hits, as long as they have left the window. One that is just as
\* old as the window is long has left it.
Left(w, h, k) == /\ \A i \in 1 .. k : h[i] <= now - Span[w]
                 /\ k < Len(h) => h[k + 1] > now - Span[w]
Pruned == [w \in Windows |->
    LET k == CHOOSE k \in 0 .. Len(hits[w]) : Left(w, hits[w], k)
    IN SubSeq(hits[w], k + 1, Len(hits[w]))]

\* _wait_needed(): the times that have to come before a request may go out.
Bars(h) == {penaltyUntil, lastRequest + MinInterval}
           \cup {h[w][1] + Span[w] : w \in {v \in Windows : Len(h[v]) >= Limit[v]}}
Clear(h) == \A t \in Bars(h) : t <= now

\* acquire(): joins the queue for the lock.
Enter(p) ==
    /\ queue' = Append(queue, p)
    /\ UNCHANGED <<now, hits, lastRequest, penaltyUntil, wakeAt, sent, told>>

Holds(p) == queue # <<>> /\ Head(queue) = p /\ wakeAt <= now

\* One turn of its loop: the request may go out and the lock is let go of.
Grant(p) ==
    /\ Holds(p) /\ Clear(Pruned)
    /\ hits' = [w \in Windows |-> Append(Pruned[w], now)]
    /\ lastRequest' = now
    /\ queue' = Tail(queue) /\ wakeAt' = 0
    /\ sent' = Append(sent, now)
    /\ UNCHANGED <<now, penaltyUntil, told>>

\* One turn of its loop: too early. It sleeps, and holds on to the lock.
Wait(p) ==
    /\ Holds(p) /\ ~ Clear(Pruned)
    /\ hits' = Pruned
    /\ \E t \in Bars(Pruned) :
           /\ \A u \in Bars(Pruned) : u <= t
           /\ wakeAt' = t + SafetyMargin
    /\ UNCHANGED <<now, lastRequest, penaltyUntil, queue, sent, told>>

\* Mutant of NoteRetryAfter: the last penalty wins.
NoteLastRetryAfter(seconds) ==
    /\ penaltyUntil' = now + seconds
    /\ told' = told \cup {now + seconds}
    /\ UNCHANGED <<now, hits, lastRequest, queue, wakeAt, sent>>

\* note_retry_after(): the longest penalty wins.
NoteRetryAfter(seconds) ==
    /\ told' = told \cup {now + seconds}
    /\ penaltyUntil' = IF now + seconds > penaltyUntil THEN now + seconds ELSE penaltyUntil
    /\ UNCHANGED <<now, hits, lastRequest, queue, wakeAt, sent>>

Pass ==
    /\ now' = now + 1
    /\ UNCHANGED <<hits, lastRequest, penaltyUntil, queue, wakeAt, sent, told>>

LimiterNext ==
    \/ \E p \in Callers : Enter(p) \/ Grant(p) \/ Wait(p)
    \/ \E seconds \in Nat : NoteRetryAfter(seconds)
    \/ Pass

LimiterSpec == LimiterInit /\ [][LimiterNext]_limiter

-----------------------------------------------------------------------------
\* Requests keep within every window at once, over any span of time.
Allowance == INSTANCE Quota WITH
    Windows <- Windows, Limit <- Limit, Span <- Span, now <- now, sent <- sent
KeepsQuota == Allowance!Spec

\* "Nothing goes out until the server says it may" (note_retry_after), whichever of its
\* words came first, and also when one came while the next caller was asleep.
PenaltyHonoured == [][sent' # sent => \A t \in told : t <= now]_limiter

=============================================================================
