---------------------------- MODULE CoflnetProofs ---------------------------
(***************************************************************************)
(* The rate limiter keeps every quota, for any number of callers and       *)
(* windows, any limits and spans, any penalties and any clock. The API     *)
(* client, for any questions, callers, lifetimes and faults, uses it as    *)
(* its specification says, and hands out an old answer only for want of a  *)
(* newer one.                                                              *)
(***************************************************************************)
EXTENDS Coflnet, LogInduction, TLAPS

-----------------------------------------------------------------------------
(***************************************************************************)
(* Pruning a window.                                                       *)
(***************************************************************************)
\* There is a longest prefix of a window's hits that have left it.
LEMMA SomeHaveLeft ==
    ASSUME NEW w \in Windows, NEW h \in Seq(Nat), now \in Nat
    PROVE  \E k \in 0 .. Len(h) : Left(w, h, k)
<1> DEFINE Inside == {k \in 0 .. Len(h) : k < Len(h) => h[k + 1] > now - Span[w]}
<1>1. Len(h) \in Inside
  OBVIOUS
<1>2. Len(h) \in Nat /\ Inside \in SUBSET (0 .. Len(h)) /\ Inside # {}
  BY <1>1
<1>3. \E k \in Inside : \A j \in Inside : k <= j
  <2> HIDE DEF Inside
  <2> QED BY <1>2, LeastOfSegment
<1>4. PICK k \in Inside : \A j \in Inside : k <= j
  BY <1>3
<1>5. k \in 0 .. Len(h) /\ (k < Len(h) => h[k + 1] > now - Span[w])
  OBVIOUS
<1>6. ASSUME NEW i \in 1 .. k
      PROVE  h[i] <= now - Span[w]
  <2>1. i - 1 \notin Inside
    <3> HIDE DEF Inside
    <3> QED BY <1>2, <1>4, <1>5
  <2>2. i - 1 \in 0 .. Len(h) /\ i - 1 < Len(h) /\ (i - 1) + 1 = i
    BY <1>5
  <2>3. ~ (h[i] > now - Span[w])
    BY <2>1, <2>2
  <2> QED BY <1>5, <2>2, <2>3, LimiterAssumption
<1> QED BY <1>5, <1>6 DEF Left

\* Pruning takes a prefix of the hits, all of which have left the window, and the
\* first hit that stays, if any, has not.
LEMMA PrunedWindow ==
    ASSUME NEW w \in Windows, hits[w] \in Seq(Nat), now \in Nat
    PROVE  \E k \in 0 .. Len(hits[w]) :
               /\ Pruned[w] = SubSeq(hits[w], k + 1, Len(hits[w]))
               /\ Left(w, hits[w], k)
<1>1. \E k \in 0 .. Len(hits[w]) : Left(w, hits[w], k)
  BY SomeHaveLeft
<1> DEFINE k == CHOOSE k \in 0 .. Len(hits[w]) : Left(w, hits[w], k)
<1>2. k \in 0 .. Len(hits[w]) /\ Left(w, hits[w], k)
  BY <1>1
<1>3. Pruned[w] = SubSeq(hits[w], k + 1, Len(hits[w]))
  BY DEF Pruned
<1> QED BY <1>2, <1>3

-----------------------------------------------------------------------------
(***************************************************************************)
(* The inductive invariant: each window's hits are the last requests that  *)
(* were sent, and those before them have left the window.                  *)
(***************************************************************************)
HitsAreSent(w, h) ==
    /\ h \in Seq(Nat)
    /\ Len(h) <= Len(sent)
    /\ \A i \in 1 .. Len(h) : h[i] = sent[Len(sent) - Len(h) + i]
    /\ \A i \in 1 .. Len(sent) - Len(h) : sent[i] + Span[w] <= now

LimiterInv ==
    /\ now \in Nat /\ sent \in Seq(Nat)
    /\ penaltyUntil \in Nat /\ told \subseteq Nat
    /\ DOMAIN hits = Windows
    /\ \A w \in Windows : HitsAreSent(w, hits[w]) /\ Len(hits[w]) <= Limit[w]
    /\ \A t \in told : t <= penaltyUntil

\* Without a prefix that has left the window the hits are still the last of what was
\* sent, and the first of them, if any, is younger than the window is long.
LEMMA PrefixLeft ==
    ASSUME now \in Nat, sent \in Seq(Nat), NEW w \in Windows,
           NEW h, HitsAreSent(w, h), NEW k \in 0 .. Len(h), Left(w, h, k)
    PROVE  LET p == SubSeq(h, k + 1, Len(h))
           IN /\ HitsAreSent(w, p)
              /\ Len(p) <= Len(h)
              /\ Len(p) > 0 => p[1] + Span[w] > now
<1> DEFINE p == SubSeq(h, k + 1, Len(h))
<1>1. h \in Seq(Nat) /\ Len(h) \in Nat /\ Len(sent) \in Nat /\ Len(h) <= Len(sent)
      /\ Span[w] \in Nat /\ k \in Nat /\ k <= Len(h)
  BY LimiterAssumption DEF HitsAreSent
<1>2. p \in Seq(Nat) /\ Len(p) = Len(h) - k /\ Len(p) \in Nat
  BY <1>1
<1>3. \A i \in 1 .. Len(p) : p[i] = h[k + i]
  BY <1>1, <1>2
<1> HIDE DEF p
<1>4. \A i \in 1 .. Len(p) : p[i] = sent[Len(sent) - Len(p) + i]
  <2> SUFFICES ASSUME NEW i \in 1 .. Len(p)
               PROVE  p[i] = sent[Len(sent) - Len(p) + i]
    OBVIOUS
  <2>1. i \in Nat /\ i >= 1 /\ i <= Len(p)
    BY <1>2
  <2>2. k + i \in 1 .. Len(h)
    BY <1>1, <1>2, <2>1
  <2>3. Len(sent) - Len(h) + (k + i) = Len(sent) - Len(p) + i
    BY <1>1, <1>2, <2>1
  <2>4. h[k + i] = sent[Len(sent) - Len(h) + (k + i)]
    BY <2>2 DEF HitsAreSent
  <2> QED BY <1>3, <2>3, <2>4
<1>5. \A i \in 1 .. Len(sent) - Len(p) : sent[i] + Span[w] <= now
  <2> SUFFICES ASSUME NEW i \in 1 .. Len(sent) - Len(p)
               PROVE  sent[i] + Span[w] <= now
    OBVIOUS
  <2>1. i \in Nat /\ i >= 1 /\ i <= Len(sent) - Len(p) /\ sent[i] \in Nat
    BY <1>1, <1>2
  <2>2. CASE i <= Len(sent) - Len(h)
    <3>1. i \in 1 .. Len(sent) - Len(h)
      BY <1>1, <2>1, <2>2
    <3> QED BY <3>1 DEF HitsAreSent
  <2>3. CASE i > Len(sent) - Len(h)
    <3>1. PICK j \in 1 .. k : Len(sent) - Len(h) + j = i
      <4>1. i - (Len(sent) - Len(h)) \in 1 .. k
        BY <1>1, <1>2, <2>1, <2>3
      <4>2. Len(sent) - Len(h) + (i - (Len(sent) - Len(h))) = i
        BY <1>1, <2>1
      <4> QED BY <4>1, <4>2
    <3>2. j \in 1 .. Len(h)
      BY <1>1
    <3>3. h[j] <= now - Span[w]
      BY DEF Left
    <3>4. h[j] = sent[i]
      BY <3>1, <3>2 DEF HitsAreSent
    <3>5. sent[i] <= now - Span[w]
      BY <3>3, <3>4
    <3>6. Span[w] \in Nat /\ sent[i] \in Nat
      BY <1>1, <2>1
    <3> QED BY <3>5, <3>6
  <2> QED BY <1>1, <2>1, <2>2, <2>3
<1>6. HitsAreSent(w, p)
  BY <1>1, <1>2, <1>4, <1>5 DEF HitsAreSent
<1>7. Len(p) > 0 => p[1] + Span[w] > now
  <2> SUFFICES ASSUME Len(p) > 0
               PROVE  p[1] + Span[w] > now
    OBVIOUS
  <2>1. k < Len(h) /\ p[1] = h[k + 1] /\ k + 1 \in 1 .. Len(h)
    BY <1>1, <1>2, <1>3
  <2>2. h[k + 1] > now - Span[w] /\ h[k + 1] \in Nat
    BY <1>1, <2>1 DEF Left
  <2> QED BY <1>1, <2>1, <2>2
<1> QED BY <1>1, <1>2, <1>6, <1>7 DEF p

\* So it is with what pruning leaves.
LEMMA PrunedHits ==
    ASSUME LimiterInv, NEW w \in Windows
    PROVE  /\ HitsAreSent(w, Pruned[w])
           /\ Len(Pruned[w]) <= Limit[w]
           /\ Len(Pruned[w]) > 0 => Pruned[w][1] + Span[w] > now
<1>1. HitsAreSent(w, hits[w]) /\ Len(hits[w]) <= Limit[w]
      /\ now \in Nat /\ sent \in Seq(Nat) /\ hits[w] \in Seq(Nat)
  BY DEF LimiterInv, HitsAreSent
<1>2. PICK k \in 0 .. Len(hits[w]) : /\ Pruned[w] = SubSeq(hits[w], k + 1, Len(hits[w]))
                                     /\ Left(w, hits[w], k)
  BY <1>1, PrunedWindow
<1>3. /\ HitsAreSent(w, Pruned[w])
      /\ Len(Pruned[w]) <= Len(hits[w])
      /\ Len(Pruned[w]) > 0 => Pruned[w][1] + Span[w] > now
  BY <1>1, <1>2, PrefixLeft
<1>4. Len(Pruned[w]) \in Nat /\ Len(hits[w]) \in Nat /\ Limit[w] \in Nat
  BY <1>1, <1>3, LimiterAssumption DEF HitsAreSent
<1> QED BY <1>1, <1>3, <1>4

\* A request that may go out finds no window full.
LEMMA ClearIsRoom ==
    ASSUME LimiterInv, Clear(Pruned)
    PROVE  /\ \A w \in Windows : Len(Pruned[w]) < Limit[w]
           /\ penaltyUntil <= now
<1>1. penaltyUntil <= now
  BY DEF Clear, Bars
<1>2. ASSUME NEW w \in Windows, Len(Pruned[w]) >= Limit[w]
      PROVE  FALSE
  <2>1. Pruned[w][1] + Span[w] <= now
    BY <1>2 DEF Clear, Bars
  <2>2. Pruned[w] \in Seq(Nat) /\ (Len(Pruned[w]) > 0 => Pruned[w][1] + Span[w] > now)
    BY PrunedHits DEF HitsAreSent
  <2>3. Limit[w] \in Nat \ {0} /\ Span[w] \in Nat
    BY LimiterAssumption
  <2>4. now \in Nat
    BY DEF LimiterInv
  <2>5. Len(Pruned[w]) \in Nat /\ Len(Pruned[w]) > 0
    BY <1>2, <2>2, <2>3
  <2>6. Pruned[w][1] \in Nat
    BY <2>2, <2>5
  <2> QED BY <2>1, <2>2, <2>3, <2>4, <2>5, <2>6
<1>3. \A w \in Windows : Len(Pruned[w]) \in Nat /\ Limit[w] \in Nat
  BY PrunedHits, LimiterAssumption DEF HitsAreSent
<1> QED BY <1>1, <1>2, <1>3

-----------------------------------------------------------------------------
(***************************************************************************)
(* The invariant is inductive.                                             *)
(***************************************************************************)
LEMMA LimiterInitially ==
    ASSUME LimiterInit
    PROVE  LimiterInv
BY LimiterAssumption DEF LimiterInit, LimiterInv, HitsAreSent

\* Nothing that a window counts on gets younger when the clock moves.
LEMMA PassKeeps ==
    ASSUME LimiterInv, Pass
    PROVE  LimiterInv'
<1>1. ASSUME NEW w \in Windows
      PROVE  HitsAreSent(w, hits[w])' /\ Len(hits'[w]) <= Limit[w]
  <2>1. /\ hits[w] \in Seq(Nat) /\ Len(hits[w]) <= Len(sent)
        /\ \A i \in 1 .. Len(hits[w]) : hits[w][i] = sent[Len(sent) - Len(hits[w]) + i]
        /\ \A i \in 1 .. Len(sent) - Len(hits[w]) : sent[i] + Span[w] <= now
        /\ Len(hits[w]) <= Limit[w]
    BY DEF LimiterInv, HitsAreSent
  <2>2. hits' = hits /\ sent' = sent /\ now' = now + 1 /\ now \in Nat
    BY DEF Pass, LimiterInv
  <2>3. ASSUME NEW i \in 1 .. Len(sent) - Len(hits[w])
        PROVE  sent[i] + Span[w] <= now + 1
    <3>1. sent[i] \in Nat /\ Span[w] \in Nat
      BY <2>1, LimiterAssumption DEF LimiterInv
    <3>2. sent[i] + Span[w] <= now
      BY <2>1
    <3> QED BY <2>2, <3>1, <3>2
  <2> QED BY <2>1, <2>2, <2>3 DEF HitsAreSent
<1> QED BY <1>1 DEF Pass, LimiterInv

\* A request that goes out joins every window.
LEMMA GrantKeeps ==
    ASSUME LimiterInv, NEW c \in Callers, Grant(c)
    PROVE  LimiterInv'
<1>1. ASSUME NEW w \in Windows
      PROVE  HitsAreSent(w, hits[w])' /\ Len(hits'[w]) <= Limit[w]
  <2> DEFINE p == Pruned[w]
  <2>1. HitsAreSent(w, p) /\ Len(p) < Limit[w]
    BY PrunedHits, ClearIsRoom DEF Grant
  <2>2. sent' = Append(sent, now) /\ hits'[w] = Append(p, now) /\ now' = now
    BY DEF Grant
  <2> HIDE DEF p
  <2>3. sent \in Seq(Nat) /\ now \in Nat /\ p \in Seq(Nat) /\ Limit[w] \in Nat /\ Len(p) <= Len(sent)
    BY <2>1, LimiterAssumption DEF LimiterInv, HitsAreSent
  <2>4. Len(Append(p, now)) = Len(p) + 1 /\ Len(Append(sent, now)) = Len(sent) + 1
        /\ Append(p, now) \in Seq(Nat)
    BY <2>3
  <2>5. ASSUME NEW i \in 1 .. Len(p) + 1
        PROVE  Append(p, now)[i] = Append(sent, now)[Len(sent) - Len(p) + i]
    <3>1. CASE i = Len(p) + 1
      BY <2>3, <3>1
    <3>2. CASE i # Len(p) + 1
      <4>1. i \in 1 .. Len(p) /\ Len(sent) - Len(p) + i \in 1 .. Len(sent)
        BY <2>3, <3>2
      <4>2. p[i] = sent[Len(sent) - Len(p) + i]
        BY <2>1, <4>1 DEF HitsAreSent
      <4> QED BY <2>3, <4>1, <4>2
    <3> QED BY <3>1, <3>2
  <2>6. ASSUME NEW i \in 1 .. Len(sent) - Len(p)
        PROVE  Append(sent, now)[i] + Span[w] <= now
    <3>1. i \in 1 .. Len(sent)
      BY <2>3
    <3> QED BY <2>1, <2>3, <3>1 DEF HitsAreSent
  <2> DEFINE q == Append(p, now)  s == Append(sent, now)
  <2>7. Len(s) - Len(q) = Len(sent) - Len(p) /\ Len(q) <= Len(s) /\ Len(q) <= Limit[w]
    BY <2>1, <2>3, <2>4
  <2>8. /\ q \in Seq(Nat)
        /\ \A i \in 1 .. Len(q) : q[i] = s[Len(s) - Len(q) + i]
        /\ \A i \in 1 .. Len(s) - Len(q) : s[i] + Span[w] <= now
    BY <2>4, <2>5, <2>6, <2>7
  <2>9. s = sent' /\ q = hits'[w] /\ now = now'
    BY <2>2
  <2> HIDE DEF q, s
  <2> QED BY <2>7, <2>8, <2>9 DEF HitsAreSent
<1> QED BY <1>1 DEF Grant, LimiterInv

LEMMA WaitKeeps ==
    ASSUME LimiterInv, NEW c \in Callers, Wait(c)
    PROVE  LimiterInv'
<1>1. ASSUME NEW w \in Windows
      PROVE  HitsAreSent(w, hits[w])' /\ Len(hits'[w]) <= Limit[w]
  <2>1. HitsAreSent(w, Pruned[w]) /\ Len(Pruned[w]) <= Limit[w]
    BY PrunedHits
  <2>2. hits'[w] = Pruned[w] /\ sent' = sent /\ now' = now
    BY DEF Wait
  <2> QED BY <2>1, <2>2 DEF HitsAreSent
<1>2. DOMAIN hits' = Windows
  BY DEF Wait, Pruned
<1> QED BY <1>1, <1>2 DEF Wait, LimiterInv

LEMMA LimiterStep ==
    ASSUME LimiterInv, [LimiterNext]_limiter
    PROVE  LimiterInv'
<1>1. CASE \E c \in Callers : Enter(c)
  BY <1>1 DEF Enter, LimiterInv, HitsAreSent
<1>2. CASE \E c \in Callers : Grant(c)
  BY <1>2, GrantKeeps
<1>3. CASE \E c \in Callers : Wait(c)
  BY <1>3, WaitKeeps
<1>4. CASE \E seconds \in Nat : NoteRetryAfter(seconds)
  <2>1. PICK seconds \in Nat : NoteRetryAfter(seconds)
    BY <1>4
  <2>2. now \in Nat /\ now + seconds \in Nat /\ penaltyUntil \in Nat /\ told \subseteq Nat
        /\ \A t \in told : t <= penaltyUntil
    BY DEF LimiterInv
  <2>3. penaltyUntil' \in Nat /\ told' \subseteq Nat /\ \A t \in told' : t <= penaltyUntil'
    BY <2>1, <2>2 DEF NoteRetryAfter
  <2> QED BY <2>1, <2>3 DEF NoteRetryAfter, LimiterInv, HitsAreSent
<1>5. CASE Pass
  BY <1>5, PassKeeps
<1>6. CASE UNCHANGED limiter
  BY <1>6 DEF limiter, LimiterInv, HitsAreSent
<1> QED BY <1>1, <1>2, <1>3, <1>4, <1>5, <1>6 DEF LimiterNext

LEMMA LimiterInvHolds == LimiterSpec => []LimiterInv
<1>1. LimiterInit => LimiterInv
  BY LimiterInitially
<1>2. LimiterInv /\ [LimiterNext]_limiter => LimiterInv'
  BY LimiterStep
<1> QED BY <1>1, <1>2, PTL DEF LimiterSpec

-----------------------------------------------------------------------------
(***************************************************************************)
(* The theorems.                                                           *)
(***************************************************************************)
\* When a request goes out the one that is as many back as a window allows has left
\* that window: it is not among the hits that pruning leaves.
LEMMA GrantHasRoom ==
    ASSUME LimiterInv, NEW c \in Callers, Grant(c)
    PROVE  Allowance!HasRoom
<1> SUFFICES ASSUME NEW w \in Windows, Len(sent) >= Limit[w]
             PROVE  sent[Len(sent) + 1 - Limit[w]] + Span[w] <= now
  BY DEF Allowance!HasRoom
<1>1. HitsAreSent(w, Pruned[w]) /\ Len(Pruned[w]) < Limit[w]
  BY PrunedHits, ClearIsRoom DEF Grant
<1>2. Len(Pruned[w]) \in Nat /\ Limit[w] \in Nat \ {0} /\ Len(sent) \in Nat
  BY <1>1, LimiterAssumption DEF LimiterInv, HitsAreSent
<1>3. Len(sent) + 1 - Limit[w] \in 1 .. Len(sent) - Len(Pruned[w])
  BY <1>1, <1>2
<1> QED BY <1>1, <1>3 DEF HitsAreSent

LEMMA StepKeepsQuota ==
    ASSUME LimiterInv, [LimiterNext]_limiter
    PROVE  [Allowance!Send \/ Allowance!Pass]_<<now, sent>>
<1>1. CASE \E c \in Callers : Grant(c)
  <2>1. PICK c \in Callers : Grant(c)
    BY <1>1
  <2>2. Allowance!HasRoom
    BY <2>1, GrantHasRoom
  <2>3. Allowance!Send
    BY <2>1, <2>2 DEF Allowance!Send, Grant
  <2> QED BY <2>3
<1>2. CASE Pass
  <2>1. Allowance!Pass
    BY <1>2 DEF Allowance!Pass, Pass, LimiterInv
  <2> QED BY <2>1
<1>3. CASE \/ \E c \in Callers : Enter(c) \/ Wait(c)
           \/ \E seconds \in Nat : NoteRetryAfter(seconds)
           \/ UNCHANGED limiter
  BY <1>3 DEF Enter, Wait, NoteRetryAfter, limiter
<1> QED BY <1>1, <1>2, <1>3 DEF LimiterNext

\* However many callers wait and whatever penalties come, the limiter implements the
\* quota of the API: no window ever sees more requests than it allows.
THEOREM LimiterKeepsQuota == LimiterSpec => KeepsQuota
<1>1. LimiterInit => Allowance!Init
  BY DEF LimiterInit, Allowance!Init
<1>2. LimiterInv /\ [LimiterNext]_limiter => [Allowance!Send \/ Allowance!Pass]_<<now, sent>>
  BY StepKeepsQuota
<1> QED BY <1>1, <1>2, LimiterInvHolds, PTL DEF LimiterSpec, KeepsQuota, Allowance!Spec

\* No request goes out before a time the server has told to wait for, also when it said
\* so while the caller that sends it was asleep.
THEOREM LimiterHonoursPenalties == LimiterSpec => PenaltyHonoured
<1>1. LimiterInv /\ [LimiterNext]_limiter => [sent' # sent => \A t \in told : t <= now]_limiter
  <2> SUFFICES ASSUME LimiterInv, LimiterNext, sent' # sent, NEW t \in told
               PROVE  t <= now
    OBVIOUS
  <2>1. PICK c \in Callers : Grant(c)
    BY DEF LimiterNext, Enter, Wait, NoteRetryAfter, Pass
  <2>2. penaltyUntil <= now
    BY <2>1, ClearIsRoom DEF Grant
  <2>3. t <= penaltyUntil /\ t \in Nat /\ penaltyUntil \in Nat /\ now \in Nat
    BY DEF LimiterInv
  <2> QED BY <2>2, <2>3
<1> QED BY <1>1, LimiterInvHolds, PTL DEF LimiterSpec, PenaltyHonoured

-----------------------------------------------------------------------------
(***************************************************************************)
(* The limiter's part of a step.                                           *)
(***************************************************************************)
LEMMA ProceedInLimiter ==
    ASSUME NEW p \in Callers, NEW keys, NEW failed, Proceed(p, keys, failed)
    PROVE  Enter(p) \/ UNCHANGED limiter
<1> DEFINE open == {i \in DOMAIN keys : ~ Fresh(keys[i]) \/ Data(keys[i])}
           i    == CHOOSE j \in open : \A k \in open : j <= k
<1>1. CASE open = {}
  BY <1>1 DEF Proceed
<1>2. CASE open # {} /\ Fresh(keys[i])
  BY <1>2 DEF Proceed
<1>3. CASE open # {} /\ ~ Fresh(keys[i])
  BY <1>3 DEF Proceed
<1> QED BY <1>1, <1>2, <1>3

LEMMA GiveUpInLimiter ==
    ASSUME NEW p \in Callers, NEW error, GiveUp(p, error)
    PROVE  Enter(p) \/ UNCHANGED limiter
<1>1. CASE UNCHANGED limiter
  BY <1>1
<1>2. CASE Proceed(p, Tail(call[p].keys), TRUE)
  BY <1>2, ProceedInLimiter
<1> QED BY <1>1, <1>2 DEF GiveUp

LEMMA ResumeInLimiter ==
    ASSUME NEW p \in Callers, Resume(p)
    PROVE  [LimiterNext]_limiter
<1>1. CASE Request(p)
  BY <1>1 DEF Request, LimiterNext
<1>2. CASE KeepWaiting(p)
  BY <1>2 DEF KeepWaiting, LimiterNext
<1>3. CASE TryAgain(p)
  <2>1. Enter(p) \/ GiveUp(p, call[p].error)
    BY <1>3 DEF TryAgain
  <2> QED BY <2>1, GiveUpInLimiter DEF LimiterNext
<1>4. CASE Succeed(p) \/ Transient(p)
  BY <1>4 DEF Succeed, Transient
<1>5. CASE Unknown(p)
  BY <1>5, ProceedInLimiter DEF Unknown, LimiterNext
<1>6. CASE Rejected(p)
  BY <1>6, GiveUpInLimiter DEF Rejected, LimiterNext
<1>7. CASE TooMany(p)
  BY <1>7, CoflnetAssumption DEF TooMany, LimiterNext
<1> QED BY <1>1, <1>2, <1>3, <1>4, <1>5, <1>6, <1>7 DEF Resume

LEMMA NextInLimiter ==
    ASSUME [Next]_vars
    PROVE  [LimiterNext]_limiter
<1>1. CASE Tick
  BY <1>1 DEF Tick, LimiterNext
<1>2. ASSUME NEW p \in Callers, Ask(p)
      PROVE  [LimiterNext]_limiter
  BY <1>2, ProceedInLimiter DEF Ask, LimiterNext
<1>3. ASSUME NEW p \in Callers, Resume(p)
      PROVE  [LimiterNext]_limiter
  BY <1>3, ResumeInLimiter
<1>4. CASE UNCHANGED vars
  BY <1>4 DEF vars
<1> QED BY <1>1, <1>2, <1>3, <1>4 DEF Next

\* The client never touches the limiter but through acquire() and note_retry_after().
THEOREM CoflnetImplementsLimiter == Spec => LimiterSpec
<1>1. Init => LimiterInit
  BY DEF Init
<1>2. [Next]_vars => [LimiterNext]_limiter
  BY NextInLimiter
<1> QED BY <1>1, <1>2, PTL DEF Spec, LimiterSpec

\* Whatever is asked, fails and is retried, the requests the client sends keep within
\* every window of the API.
THEOREM CoflnetKeepsQuota == Spec => KeepsQuota
BY CoflnetImplementsLimiter, LimiterKeepsQuota, PTL

\* And none of them goes out before the server wants to hear of the client again.
THEOREM CoflnetHonoursPenalties == Spec => PenaltyHonoured
BY CoflnetImplementsLimiter, LimiterHonoursPenalties, PTL

-----------------------------------------------------------------------------
(***************************************************************************)
(* Old answers. A question that is being worked on has no answer yet, so   *)
(* none of the steps that send, wait and try again turns one stale.        *)
(***************************************************************************)
\* A call is a record with the two fields that matter here, whatever the others are.
Shaped(c) == /\ c = [field \in DOMAIN c |-> c[field]]
             /\ {"answer", "failed"} \subseteq DOMAIN c
StaleFailed(c) == Shaped(c) /\ (c.answer = "stale" => c.failed)

CallInv == /\ call = [p \in Callers |-> call[p]]
           /\ \A p \in Callers : StaleFailed(call[p])

\* A question that ends with something else than a stale answer, or that failed.
LEMMA EndedFailed ==
    ASSUME NEW answer, NEW failed, answer # "stale" \/ failed
    PROVE  StaleFailed(Ended(answer, failed))
BY DEF StaleFailed, Shaped, Ended

\* Replacing one call by another that keeps the invariant.
LEMMA OneCall ==
    ASSUME CallInv, NEW p \in Callers, NEW c, StaleFailed(c), call' = [call EXCEPT ![p] = c]
    PROVE  CallInv'
<1>1. ASSUME NEW q \in Callers
      PROVE  StaleFailed(call'[q])
  BY DEF CallInv
<1>2. call' = [q \in Callers |-> call'[q]]
  BY DEF CallInv
<1> QED BY <1>1, <1>2 DEF CallInv, StaleFailed, Shaped

LEMMA ProceedKeeps ==
    ASSUME CallInv, NEW p \in Callers, NEW keys, NEW failed, Proceed(p, keys, failed)
    PROVE  CallInv'
<1> DEFINE open == {i \in DOMAIN keys : ~ Fresh(keys[i]) \/ Data(keys[i])}
           i    == CHOOSE j \in open : \A k \in open : j <= k
           next == [Ended(None, failed) EXCEPT !.pc = "queued", !.keys = SubSeq(keys, i, Len(keys))]
<1>1. CASE open = {}
  <2>1. call' = [call EXCEPT ![p] = Ended("nothing", FALSE)]
    BY <1>1 DEF Proceed
  <2> QED BY <2>1, OneCall, EndedFailed
<1>2. CASE open # {} /\ Fresh(keys[i])
  <2>1. call' = [call EXCEPT ![p] = Answer(keys[i], failed)]
    BY <1>2 DEF Proceed
  <2>2. Answer(keys[i], failed) = Ended("data", FALSE)
    BY <1>2 DEF Answer, Fresh
  <2> QED BY <2>1, <2>2, OneCall, EndedFailed
<1>3. CASE open # {} /\ ~ Fresh(keys[i])
  <2>1. call' = [call EXCEPT ![p] = next]
    BY <1>3 DEF Proceed
  <2> HIDE DEF i
  <2>2. StaleFailed(next)
    BY CoflnetAssumption DEF StaleFailed, Shaped, Ended
  <2> QED BY <2>1, <2>2, OneCall
<1> QED BY <1>1, <1>2, <1>3

LEMMA GiveUpKeeps ==
    ASSUME CallInv, NEW p \in Callers, NEW error, GiveUp(p, error)
    PROVE  CallInv'
<1> DEFINE k == Head(call[p].keys)
<1>1. CASE Data(k)
  <2>1. call' = [call EXCEPT ![p] = Answer(k, TRUE)]
    BY <1>1 DEF GiveUp
  <2>2. StaleFailed(Answer(k, TRUE))
    <3>1. StaleFailed(Ended("data", FALSE)) /\ StaleFailed(Ended("stale", TRUE))
      BY EndedFailed
    <3> QED BY <3>1 DEF Answer
  <2> QED BY <2>1, <2>2, OneCall
<1>2. CASE ~ Data(k) /\ cache[k] = None /\ error = "network"
  <2>1. call' = [call EXCEPT ![p] = Ended("raised", FALSE)]
    BY <1>2 DEF GiveUp
  <2> QED BY <2>1, OneCall, EndedFailed
<1>3. CASE ~ Data(k) /\ ~ (cache[k] = None /\ error = "network")
  <2>1. Proceed(p, Tail(call[p].keys), TRUE)
    BY <1>3 DEF GiveUp
  <2> QED BY <2>1, ProceedKeeps
<1> QED BY <1>1, <1>2, <1>3

LEMMA ResumeKeeps ==
    ASSUME CallInv, NEW p \in Callers, Resume(p)
    PROVE  CallInv'
<1> DEFINE c == call[p]
           asked == [c EXCEPT !.pc = "asking", !.attempt = @ + 1]
           again == [c EXCEPT !.pc = "queued", !.until = 0, !.error = None]
           paused(error, seconds) == [c EXCEPT !.pc = "backoff", !.until = now + seconds,
                                               !.error = error, !.failed = TRUE]
<1>0. StaleFailed(c)
  BY DEF CallInv
<1>1. CASE Request(p)
  <2>1. call' = [call EXCEPT ![p] = asked]
    BY <1>1 DEF Request, CallInv
  <2>2. StaleFailed(asked)
    BY <1>0 DEF StaleFailed, Shaped
  <2> QED BY <2>1, <2>2, OneCall
<1>2. CASE KeepWaiting(p)
  BY <1>2 DEF KeepWaiting, CallInv, StaleFailed, Shaped
<1>3. CASE TryAgain(p) /\ call[p].attempt < MaxRetries
  <2>1. call' = [call EXCEPT ![p] = again]
    BY <1>3 DEF TryAgain, CallInv
  <2>2. StaleFailed(again)
    BY <1>0 DEF StaleFailed, Shaped
  <2> QED BY <2>1, <2>2, OneCall
<1>4. CASE TryAgain(p) /\ ~ (call[p].attempt < MaxRetries)
  <2>1. GiveUp(p, call[p].error)
    BY <1>4 DEF TryAgain
  <2> QED BY <2>1, GiveUpKeeps
<1>5. CASE Succeed(p)
  BY <1>5, OneCall, EndedFailed DEF Succeed
<1>6. CASE Unknown(p)
  BY <1>6, ProceedKeeps DEF Unknown
<1>7. CASE Rejected(p)
  BY <1>7, GiveUpKeeps DEF Rejected
<1>8. ASSUME NEW error, NEW seconds, Pause(p, error, seconds)
      PROVE  CallInv'
  <2>1. call' = [call EXCEPT ![p] = paused(error, seconds)]
    BY <1>8 DEF Pause, CallInv
  <2>2. StaleFailed(paused(error, seconds))
    BY <1>0 DEF StaleFailed, Shaped
  <2> HIDE DEF paused
  <2> QED BY <2>1, <2>2, OneCall
<1>9. CASE Transient(p) \/ TooMany(p)
  BY <1>8, <1>9 DEF Transient, TooMany
<1> QED BY <1>1, <1>2, <1>3, <1>4, <1>5, <1>6, <1>7, <1>9 DEF Resume

LEMMA CallInvHolds == Spec => []CallInv
<1>1. Init => CallInv
  <2>1. StaleFailed(Ended(None, FALSE))
    BY CoflnetAssumption, EndedFailed
  <2> QED BY <2>1 DEF Init, CallInv
<1>2. CallInv /\ [Next]_vars => CallInv'
  <2> SUFFICES ASSUME CallInv, [Next]_vars
               PROVE  CallInv'
    OBVIOUS
  <2>1. CASE Tick \/ UNCHANGED vars
    BY <2>1 DEF Tick, vars, CallInv, StaleFailed, Shaped
  <2>2. ASSUME NEW p \in Callers, Ask(p)
        PROVE  CallInv'
    BY <2>2, ProceedKeeps DEF Ask
  <2>3. ASSUME NEW p \in Callers, Resume(p)
        PROVE  CallInv'
    BY <2>3, ResumeKeeps
  <2> QED BY <2>1, <2>2, <2>3 DEF Next
<1> QED BY <1>1, <1>2, PTL DEF Spec

\* An answer that has outlived its lifetime is given only to a caller that failed to get
\* a better one, whatever the lifetimes and however many calls run at once.
THEOREM CoflnetStaleOnlyAfterFailure == Spec => []StaleOnlyAfterFailure
<1>1. CallInv => StaleOnlyAfterFailure
  BY DEF CallInv, StaleFailed, StaleOnlyAfterFailure
<1> QED BY <1>1, CallInvHolds, PTL

=============================================================================
