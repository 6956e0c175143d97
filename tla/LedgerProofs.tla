---------------------------- MODULE LedgerProofs ----------------------------
(***************************************************************************)
(* What replaying a log computes, for every log: how it unfolds, what      *)
(* appending an event does to it, and what it preserves. On top of it,     *)
(* what holds of the ledger for every set of ids and amounts, every log    *)
(* an older build may have left, and every choice of fault windows; and of *)
(* the negotiation sessions that use it.                                   *)
(***************************************************************************)
EXTENDS Negotiation, LogInduction, SequenceTheorems

-----------------------------------------------------------------------------
(***************************************************************************)
(* The two passes over the log, as the recursions that define them. Each   *)
(* proof builds the pass row by row, up to every length.                   *)
(***************************************************************************)
LEMMA ReplayRecursion ==
    ASSUME NEW log, Len(log) \in Nat, NEW t, NEW from \in 0..Len(log)
    PROVE  ReplayFrom(t, log, from) = [n \in from..Len(log) |->
              IF n = from THEN t ELSE ReplayStep(ReplayFrom(t, log, from)[n-1], log, n)]
<1> DEFINE Body(f, n) == IF n = from THEN t ELSE ReplayStep(f[n-1], log, n)
           S == {k \in Nat : \E f : f = [n \in from..(from + k) |-> Body(f, n)]}
<1>1. 0 \in S
  <2> DEFINE f == [n \in from..(from + 0) |-> t]
  <2>1. f = [n \in from..(from + 0) |-> Body(f, n)]
    OBVIOUS
  <2> QED BY <2>1, Zenon
<1>2. ASSUME NEW k \in S PROVE k + 1 \in S
  <2> DEFINE m == from + k
  <2>1. PICK f : f = [n \in from..m |-> Body(f, n)]
    OBVIOUS
  <2>2. m \in Nat /\ k + 1 \in Nat /\ from + (k + 1) = m + 1 /\ from <= m
    OBVIOUS
  <2> HIDE DEF m
  <2> DEFINE g == [n \in from..(m+1) |->
                      IF n = m + 1 THEN ReplayStep(f[m], log, m + 1) ELSE f[n]]
  <2>3. g = [n \in from..(m+1) |-> Body(g, n)]
    <3>1. ASSUME NEW n \in from..(m+1) PROVE g[n] = Body(g, n)
      <4>1. CASE n = m + 1
        BY <2>2, <4>1
      <4>2. CASE n # m + 1
        <5>1. n \in from..m BY <2>2, <4>2
        <5>2. f[n] = Body(f, n) BY <2>1, <5>1
        <5> QED BY <2>2, <4>2, <5>1, <5>2
      <4> QED BY <4>1, <4>2
    <3> QED BY <3>1
  <2> HIDE DEF g
  <2> QED BY <2>2, <2>3
<1>3. S = Nat
  <2>1. S \in SUBSET Nat
    OBVIOUS
  <2> HIDE DEF S
  <2> QED BY <1>1, <1>2, <2>1, Induction
<1>4. \E f : f = [n \in from..Len(log) |-> Body(f, n)]
  <2>1. PICK k \in Nat : from + k = Len(log)
    <3>1. Len(log) - from \in Nat /\ from + (Len(log) - from) = Len(log)
      OBVIOUS
    <3> QED BY <3>1
  <2>2. \E f : f = [n \in from..(from + k) |-> Body(f, n)]
    BY <1>3
  <2> QED BY <2>1, <2>2
<1> QED
  BY <1>4 DEF ReplayFrom

LEMMA ReplayStepwise ==
    ASSUME NEW log, Len(log) \in Nat, NEW t, NEW from \in 0..Len(log)
    PROVE  LET upTo == ReplayFrom(t, log, from)
           IN /\ upTo[from] = t
              /\ \A n \in from..Len(log) :
                    n < Len(log) => upTo[n+1] = ReplayStep(upTo[n], log, n + 1)
<1> DEFINE upTo == ReplayFrom(t, log, from)
<1> HIDE DEF upTo
<1>1. upTo = [n \in from..Len(log) |-> IF n = from THEN t ELSE ReplayStep(upTo[n-1], log, n)]
  BY ReplayRecursion DEF upTo
<1>2. upTo[from] = t
  BY <1>1
<1>3. ASSUME NEW n \in from..Len(log), n < Len(log)
      PROVE  upTo[n+1] = ReplayStep(upTo[n], log, n + 1)
  <2>1. n + 1 \in from..Len(log) /\ n + 1 # from /\ (n + 1) - 1 = n
    BY <1>3
  <2> QED BY <1>1, <2>1
<1> QED
  BY <1>2, <1>3 DEF upTo

LEMMA CorrectionsRecursion ==
    ASSUME NEW log, Len(log) \in Nat
    PROVE  CorrectionsUpTo(log) = [n \in 0..Len(log) |->
              IF n = 0 THEN NoCorrections
              ELSE IF log[n].type = Correction
                   THEN Collapse(CorrectionsUpTo(log)[n-1], log[n])
                   ELSE CorrectionsUpTo(log)[n-1]]
<1> DEFINE Body(f, n) == IF n = 0 THEN NoCorrections
                         ELSE IF log[n].type = Correction THEN Collapse(f[n-1], log[n])
                         ELSE f[n-1]
           S == {m \in Nat : \E f : f = [n \in 0..m |-> Body(f, n)]}
<1>1. 0 \in S
  <2> DEFINE f == [n \in 0..0 |-> NoCorrections]
  <2>1. f = [n \in 0..0 |-> Body(f, n)]
    OBVIOUS
  <2> QED BY <2>1, Zenon
<1>2. ASSUME NEW m \in S PROVE m + 1 \in S
  <2>1. PICK f : f = [n \in 0..m |-> Body(f, n)]
    OBVIOUS
  <2> DEFINE last == IF log[m+1].type = Correction THEN Collapse(f[m], log[m+1]) ELSE f[m]
             g == [n \in 0..(m+1) |-> IF n = m + 1 THEN last ELSE f[n]]
  <2>2. g = [n \in 0..(m+1) |-> Body(g, n)]
    <3>1. ASSUME NEW n \in 0..(m+1) PROVE g[n] = Body(g, n)
      <4>1. CASE n = m + 1
        BY <4>1
      <4>2. CASE n # m + 1
        <5>1. n \in 0..m BY <4>2
        <5>2. f[n] = Body(f, n) BY <2>1, <5>1
        <5> QED BY <4>2, <5>1, <5>2
      <4> QED BY <4>1, <4>2
    <3> QED BY <3>1
  <2>3. m + 1 \in Nat
    OBVIOUS
  <2> HIDE DEF g
  <2> QED BY <2>2, <2>3
<1>3. S = Nat
  <2>1. S \in SUBSET Nat
    OBVIOUS
  <2> HIDE DEF S
  <2> QED BY <1>1, <1>2, <2>1, Induction
<1>4. \E f : f = [n \in 0..Len(log) |-> Body(f, n)]
  BY <1>3
<1> QED
  BY <1>4 DEF CorrectionsUpTo

-----------------------------------------------------------------------------
(***************************************************************************)
(* Appending an event that is not a correction to a well-formed log.       *)
(***************************************************************************)
LEMMA CorrectionTarget ==
    ASSUME NEW e \in Event, e.type = Correction
    PROVE  e.target \in Nat \ {0}
<1>1. Correction \notin EventType
  BY DEF Correction, EventType, SessionEvents, ItemEvents, SaleEvents
<1> QED
  BY <1>1 DEF Event

\* The corrections only ever speak of positions of the log.
LEMMA CorrectionsPointBack ==
    ASSUME NEW log, WellFormed(log)
    PROVE  /\ Corrections(log).voided \subseteq 1..Len(log)
           /\ DOMAIN Corrections(log).patches \subseteq 1..Len(log)
<1>0. log \in Seq(Event) /\ Len(log) \in Nat
  BY DEF WellFormed
<1> DEFINE C == CorrectionsUpTo(log)
           Points(c) == c.voided \subseteq 1..Len(log) /\ DOMAIN c.patches \subseteq 1..Len(log)
           S == {n \in Nat : Points(C[n])}
<1>1. 0 \in S
  <2>1. C[0] = NoCorrections
    BY <1>0, CorrectionsRecursion
  <2> QED BY <2>1 DEF NoCorrections, NoPatch
<1>2. ASSUME NEW n \in 0..Len(log), n \in S, n < Len(log) PROVE n + 1 \in S
  <2>1. Points(C[n]) /\ n + 1 \in 1..Len(log) /\ n + 1 \in Nat
    BY <1>0, <1>2
  <2>2. C[n+1] = IF log[n+1].type = Correction THEN Collapse(C[n], log[n+1]) ELSE C[n]
    BY <1>0, <1>2, CorrectionsRecursion
  <2>3. CASE log[n+1].type = Correction
    <3>1. log[n+1] \in Event
      BY <1>0, <2>1
    <3>2. log[n+1].target \in Nat \ {0} /\ log[n+1].target < n + 1
      BY <2>1, <2>3, <3>1, CorrectionTarget DEF WellFormed
    <3>3. log[n+1].target \in 1..Len(log)
      BY <1>0, <1>2, <3>2
    <3> QED BY <2>1, <2>2, <2>3, <3>3 DEF Collapse
  <2>4. CASE log[n+1].type # Correction
    BY <2>1, <2>2, <2>4
  <2> QED BY <2>3, <2>4
<1>3. 0..Len(log) \subseteq S
  <2> HIDE DEF S
  <2> QED BY <1>0, <1>1, <1>2, SegmentInduction
<1> QED
  BY <1>0, <1>3 DEF Corrections

LEMMA AppendEvent ==
    ASSUME NEW log, WellFormed(log), NEW e \in Event,
           IF e.type = Correction THEN Correctable(log, e.target) ELSE Addressed(e)
    PROVE  WellFormed(Append(log, e)) /\ Len(Append(log, e)) = Len(log) + 1
<1> DEFINE longer == Append(log, e)
           InPlace(l, i) == IF l[i].type = Correction
                            THEN l[i].target < i /\ l[l[i].target].type # Correction
                            ELSE Addressed(l[i])
<1>0. /\ log \in Seq(Event) /\ Len(log) \in Nat
      /\ longer \in Seq(Event) /\ Len(longer) = Len(log) + 1
      /\ longer[Len(log) + 1] = e
      /\ \A i \in 1..Len(log) : longer[i] = log[i]
  BY AppendProperties DEF WellFormed
<1> HIDE DEF longer
<1>1. InPlace(longer, Len(log) + 1)
  BY <1>0 DEF Correctable
<1>2. ASSUME NEW i \in 1..Len(log) PROVE InPlace(longer, i)
  <2>1. longer[i] = log[i] /\ log[i] \in Event /\ InPlace(log, i)
    BY <1>0 DEF WellFormed
  <2>2. CASE log[i].type = Correction
    <3>1. log[i].target \in 1..Len(log)
      BY <1>0, <2>1, <2>2, CorrectionTarget
    <3> QED BY <1>0, <2>1, <2>2, <3>1
  <2>3. CASE log[i].type # Correction
    BY <2>1, <2>3
  <2> QED BY <2>2, <2>3
<1>3. \A i \in 1..Len(longer) : InPlace(longer, i)
  BY <1>0, <1>1, <1>2
<1> QED
  BY <1>0, <1>3 DEF WellFormed, longer

\* An event that is not a correction changes no correction.
LEMMA CorrectionsOfAppend ==
    ASSUME NEW log, WellFormed(log), NEW e \in Event, e.type # Correction
    PROVE  Corrections(Append(log, e)) = Corrections(log)
<1> DEFINE longer == Append(log, e)
           C == CorrectionsUpTo(log)
           D == CorrectionsUpTo(longer)
           S == {n \in Nat : D[n] = C[n]}
<1>0. /\ log \in Seq(Event) /\ Len(log) \in Nat
      /\ Len(longer) = Len(log) + 1
      /\ longer[Len(log) + 1] = e
      /\ \A i \in 1..Len(log) : longer[i] = log[i]
  BY AppendProperties DEF WellFormed
<1> HIDE DEF longer
<1>1. 0 \in S
  BY <1>0, CorrectionsRecursion
<1>2. ASSUME NEW n \in 0..Len(log), n \in S, n < Len(log) PROVE n + 1 \in S
  <2>1. D[n] = C[n] /\ n + 1 \in 1..Len(log) /\ longer[n+1] = log[n+1]
    BY <1>0, <1>2
  <2>2. C[n+1] = IF log[n+1].type = Correction THEN Collapse(C[n], log[n+1]) ELSE C[n]
    BY <1>0, <1>2, CorrectionsRecursion
  <2>3. D[n+1] = IF longer[n+1].type = Correction THEN Collapse(D[n], longer[n+1]) ELSE D[n]
    BY <1>0, <1>2, CorrectionsRecursion
  <2> QED BY <2>1, <2>2, <2>3
<1>3. 0..Len(log) \subseteq S
  <2> HIDE DEF S
  <2> QED BY <1>0, <1>1, <1>2, SegmentInduction
<1>4. D[Len(log)] = C[Len(log)]
  BY <1>0, <1>3
<1>5. D[Len(log) + 1] = D[Len(log)]
  BY <1>0, CorrectionsRecursion
<1> QED
  BY <1>0, <1>4, <1>5 DEF Corrections, longer

\* Replaying a longer log is replaying the shorter one and applying the new event.
LEMMA ReplayOfAppend ==
    ASSUME NEW log, WellFormed(log), NEW e \in Event, e.type # Correction
    PROVE  Replay(Append(log, e)) = Apply(Replay(log), Len(log) + 1, e)
<1> DEFINE longer == Append(log, e)
           R == ReplayFrom(EmptyTables, log, 0)
           Q == ReplayFrom(EmptyTables, longer, 0)
           S == {n \in Nat : Q[n] = R[n]}
<1>0. /\ log \in Seq(Event) /\ Len(log) \in Nat
      /\ Len(longer) = Len(log) + 1
      /\ longer[Len(log) + 1] = e
      /\ \A i \in 1..Len(log) : longer[i] = log[i]
  BY AppendProperties DEF WellFormed
<1>c. Corrections(longer) = Corrections(log)
  BY CorrectionsOfAppend
<1> HIDE DEF longer
<1>1. 0 \in S
  BY <1>0, ReplayStepwise
<1>2. ASSUME NEW n \in 0..Len(log), n \in S, n < Len(log) PROVE n + 1 \in S
  <2>1. Q[n] = R[n] /\ n + 1 \in 1..Len(log) /\ longer[n+1] = log[n+1]
    BY <1>0, <1>2
  <2>2. R[n+1] = ReplayStep(R[n], log, n + 1) /\ Q[n+1] = ReplayStep(Q[n], longer, n + 1)
    BY <1>0, <1>2, ReplayStepwise
  <2>3. IsEffective(log, n + 1) <=> IsEffective(longer, n + 1)
    BY <1>c, <2>1 DEF IsEffective
  <2>4. EffectiveEvent(log, n + 1) = EffectiveEvent(longer, n + 1)
    BY <1>c, <2>1, Zenon DEF EffectiveEvent
  <2>5. ReplayStep(R[n], log, n + 1) = ReplayStep(R[n], longer, n + 1)
    BY <2>3, <2>4, Zenon DEF ReplayStep
  <2> QED BY <2>1, <2>2, <2>5
<1>3. 0..Len(log) \subseteq S
  <2> HIDE DEF S
  <2> QED BY <1>0, <1>1, <1>2, SegmentInduction
<1>4. Q[Len(log)] = R[Len(log)]
  BY <1>0, <1>3
<1>5. Q[Len(log) + 1] = ReplayStep(Q[Len(log)], longer, Len(log) + 1)
  BY <1>0, ReplayStepwise
<1>6. IsEffective(longer, Len(log) + 1) /\ EffectiveEvent(longer, Len(log) + 1) = e
  <2>1. /\ Len(log) + 1 \notin Corrections(longer).voided
        /\ Len(log) + 1 \notin DOMAIN Corrections(longer).patches
    BY <1>0, <1>c, CorrectionsPointBack
  <2> QED BY <1>0, <2>1 DEF IsEffective, EffectiveEvent
<1> QED
  BY <1>0, <1>4, <1>5, <1>6 DEF Replay, ReplayStep, longer

-----------------------------------------------------------------------------
(***************************************************************************)
(* Patching an event.                                                      *)
(***************************************************************************)
Recordable == {e \in [type : EventType, payload : Payload] : Addressed(e)}

LEMMA RecordableIsEvent ==
    \A e \in Recordable : e \in Event /\ e.type # Correction /\ Addressed(e)
BY DEF Recordable, Event, Correction, EventType, SessionEvents, ItemEvents, SaleEvents

LEMMA MergedPatch ==
    ASSUME NEW old \in Patch, NEW new \in Patch
    PROVE  Merge(old, new) \in Patch
<1>1. DOMAIN old \subseteq PatchKeys /\ \A k \in DOMAIN old : old[k] \in Amounts
  BY DEF Patch
<1>2. DOMAIN new \subseteq PatchKeys /\ \A k \in DOMAIN new : new[k] \in Amounts
  BY DEF Patch
<1>3. Merge(old, new) \in [DOMAIN old \cup DOMAIN new -> Amounts]
  BY <1>1, <1>2 DEF Merge
<1>4. DOMAIN old \cup DOMAIN new \in SUBSET PatchKeys
  BY <1>1, <1>2
<1> QED
  BY <1>3, <1>4 DEF Patch

LEMMA EmptyPatch == NoPatch \in Patch
<1>1. {} \in SUBSET PatchKeys /\ NoPatch \in [{} -> Amounts]
  BY DEF NoPatch
<1> QED
  BY <1>1 DEF Patch

\* A patch gives coin figures to coin keys, and leaves the ids of the event alone.
LEMMA MergedPayload ==
    ASSUME NEW p \in Payload, NEW patch \in Patch
    PROVE  /\ Merge(p, patch) \in Payload
           /\ Merge(p, patch).session = p.session
           /\ Merge(p, patch).offer = p.offer
           /\ Merge(p, patch).item = p.item
<1> DEFINE keys == {"session", "offer", "item", "amount", "est", "fee", "taxed"}
           q == Merge(p, patch)
<1>1. DOMAIN p = keys
  BY DEF Payload
<1>2. DOMAIN patch \subseteq {"amount", "est"} /\ \A k \in DOMAIN patch : patch[k] \in Amounts
  BY DEF Patch, PatchKeys
<1>3. q = [k \in keys |-> IF k \in DOMAIN patch THEN patch[k] ELSE p[k]]
  <2>1. DOMAIN p \cup DOMAIN patch = keys
    BY <1>1, <1>2
  <2> QED BY <2>1 DEF Merge
<1>4. /\ q.session = p.session /\ q.offer = p.offer /\ q.item = p.item
      /\ q.fee = p.fee /\ q.taxed = p.taxed
      /\ q.amount \in Amounts \cup {p.amount} /\ q.est \in Amounts \cup {p.est}
  BY <1>2, <1>3
<1>5. q = [session |-> q.session, offer |-> q.offer, item |-> q.item, amount |-> q.amount,
           est |-> q.est, fee |-> q.fee, taxed |-> q.taxed]
  BY <1>3
<1>6. q \in Payload
  <2> HIDE DEF q
  <2> QED BY <1>4, <1>5 DEF Payload
<1> QED
  BY <1>4, <1>6

LEMMA PatchesTyped ==
    ASSUME NEW log, WellFormed(log)
    PROVE  \A i \in DOMAIN Corrections(log).patches : Corrections(log).patches[i] \in Patch
<1>0. log \in Seq(Event) /\ Len(log) \in Nat
  BY DEF WellFormed
<1> DEFINE C == CorrectionsUpTo(log)
           Typed(c) == \A i \in DOMAIN c.patches : c.patches[i] \in Patch
           S == {n \in Nat : Typed(C[n])}
<1>1. 0 \in S
  <2>1. C[0] = NoCorrections
    BY <1>0, CorrectionsRecursion
  <2> QED BY <2>1 DEF NoCorrections, NoPatch
<1>2. ASSUME NEW n \in 0..Len(log), n \in S, n < Len(log) PROVE n + 1 \in S
  <2>1. Typed(C[n]) /\ n + 1 \in 1..Len(log) /\ n + 1 \in Nat
    BY <1>0, <1>2
  <2>2. C[n+1] = IF log[n+1].type = Correction THEN Collapse(C[n], log[n+1]) ELSE C[n]
    BY <1>0, <1>2, CorrectionsRecursion
  <2>3. CASE log[n+1].type = Correction
    <3> DEFINE e == log[n+1]
               old == IF e.target \in DOMAIN C[n].patches THEN C[n].patches[e.target] ELSE NoPatch
    <3>1. e.patch \in Patch
      <4>1. e \in Event /\ Correction \notin EventType
        BY <1>0, <2>1 DEF Correction, EventType, SessionEvents, ItemEvents, SaleEvents
      <4> QED BY <2>3, <4>1 DEF Event
    <3>2. Merge(old, e.patch) \in Patch
      BY <2>1, <3>1, EmptyPatch, MergedPatch
    <3>3. Typed(Collapse(C[n], e))
      <4> HIDE DEF e
      <4> QED BY <2>1, <3>2 DEF Collapse
    <3> QED BY <2>1, <2>2, <2>3, <3>3
  <2>4. CASE log[n+1].type # Correction
    BY <2>1, <2>2, <2>4
  <2> QED BY <2>3, <2>4
<1>3. 0..Len(log) \subseteq S
  <2> HIDE DEF S
  <2> QED BY <1>0, <1>1, <1>2, SegmentInduction
<1> QED
  BY <1>0, <1>3 DEF Corrections

\* What the projections are given: an event that may be recorded, of the type and
\* about the rows that the log says.
LEMMA EffectiveEventTyped ==
    ASSUME NEW log, WellFormed(log), NEW i \in 1..Len(log), log[i].type # Correction
    PROVE  LET e == EffectiveEvent(log, i)
           IN /\ e \in Recordable
              /\ e.type = log[i].type
              /\ e.payload.session = log[i].payload.session
              /\ e.payload.offer = log[i].payload.offer
              /\ e.payload.item = log[i].payload.item
<1>1. log[i] \in Event /\ Addressed(log[i])
  BY DEF WellFormed
<1>2. log[i] \in [type : EventType, payload : Payload]
  BY <1>1 DEF Event
<1> DEFINE patches == Corrections(log).patches
<1>3. CASE i \in DOMAIN patches
  <2> DEFINE q == Merge(log[i].payload, patches[i])
  <2>1. patches[i] \in Patch
    BY <1>3, PatchesTyped
  <2>2. /\ q \in Payload /\ q.session = log[i].payload.session
        /\ q.offer = log[i].payload.offer /\ q.item = log[i].payload.item
    BY <1>2, <2>1, MergedPayload
  <2>3. EffectiveEvent(log, i) = [log[i] EXCEPT !.payload = q]
    BY <1>3 DEF EffectiveEvent
  <2> HIDE DEF q
  <2>4. EffectiveEvent(log, i) = [type |-> log[i].type, payload |-> q]
    BY <1>2, <2>3
  <2>5. Addressed(EffectiveEvent(log, i))
    BY <1>1, <2>2, <2>4 DEF Addressed
  <2> QED BY <1>2, <2>2, <2>4, <2>5 DEF Recordable
<1>4. CASE i \notin DOMAIN patches
  <2>1. EffectiveEvent(log, i) = log[i]
    BY <1>4, Zenon DEF EffectiveEvent
  <2> QED BY <1>1, <1>2, <2>1 DEF Recordable
<1> QED
  BY <1>3, <1>4

-----------------------------------------------------------------------------
(***************************************************************************)
(* The handlers keep the derived tables within their types.                *)
(***************************************************************************)
LEMMA EmptyTablesTyped == EmptyTables \in Tables
BY DEF EmptyTables, Tables

\* The number of a new offer is a number: the chain it joins is finite.
LEMMA OfferRowMade ==
    ASSUME NEW t \in Tables, NEW s \in Sessions
    PROVE  LET seqs == {t.offers[o].seq : o \in OffersOf(t.offers, s)}
           IN [session |-> s, seq |-> Max({0} \cup seqs) + 1, outcome |-> "PENDING",
               counter |-> None, settled |-> None] \in OfferRow
<1> DEFINE chain == OffersOf(t.offers, s)
           seqs  == {t.offers[o].seq : o \in chain}
           seqOf == [o \in chain |-> t.offers[o].seq]
<1>1. IsFiniteSet(chain)
  BY OffersFinite, FS_Subset DEF OffersOf
<1>2. IsFiniteSet(seqs)
  <2>1. seqOf \in Surjection(chain, seqs)
    <3>1. seqOf \in [chain -> seqs] /\ \A n \in seqs : \E o \in chain : seqOf[o] = n
      OBVIOUS
    <3> HIDE DEF seqOf, seqs, chain
    <3> QED BY <3>1 DEF Surjection
  <2> HIDE DEF seqOf, seqs, chain
  <2> QED BY <1>1, <2>1, FS_Surjection
<1>3. IsFiniteSet({0} \cup seqs)
  BY <1>2, FS_Singleton, FS_Union, Zenon
<1>4. seqs \subseteq Nat
  BY DEF OffersOf, OfferRow, Tables
<1>5. {0} \cup seqs \in SUBSET Nat /\ {0} \cup seqs # {}
  BY <1>4
<1>6. Max({0} \cup seqs) \in {0} \cup seqs
  BY <1>3, <1>5, MaxOfFinite, Zenon
<1>7. Max({0} \cup seqs) \in Nat
  BY <1>5, <1>6, Zenon
<1> QED
  BY <1>7 DEF OfferRow

LEMMA OfferMadeTyped ==
    ASSUME NEW t \in Tables, NEW p \in Payload, p.session \in Sessions, p.offer \in Offers
    PROVE  OfferMade(t, p) \in Tables
<1> DEFINE seqs   == {t.offers[o].seq : o \in OffersOf(t.offers, p.session)}
           row    == [session |-> p.session, seq |-> Max({0} \cup seqs) + 1,
                      outcome |-> "PENDING", counter |-> None, settled |-> None]
           offers == [t.offers EXCEPT ![p.offer] = row]
           count  == Cardinality(OffersOf(offers, p.session))
<1>1. t.offers \in [Offers -> OfferRow \cup {None}]
  BY DEF Tables
<1>3. row \in OfferRow
  BY OfferRowMade
<1>4. offers \in [Offers -> OfferRow \cup {None}]
  <2> HIDE DEF row
  <2> QED BY <1>1, <1>3
<1>5. count \in Nat
  <2>1. IsFiniteSet(OffersOf(offers, p.session))
    BY OffersFinite, FS_Subset DEF OffersOf
  <2> QED BY <2>1, FS_CardinalityType, Zenon
<1>6. OfferMade(t, p) = [t EXCEPT !.offers = offers,
                                 !.sessions[p.session] =
                                    IF @ = None THEN None ELSE [@ EXCEPT !.offerCount = count]]
  BY DEF OfferMade
<1> HIDE DEF offers, count
<1>7. t.sessions \in [Sessions -> SessionRow \cup {None}]
  BY DEF Tables
<1>8. [t.sessions EXCEPT ![p.session] =
          IF @ = None THEN None ELSE [@ EXCEPT !.offerCount = count]]
        \in [Sessions -> SessionRow \cup {None}]
  BY <1>5, <1>7 DEF SessionRow
<1> QED
  BY <1>4, <1>6, <1>8 DEF Tables

LEMMA SessionHandlersTyped ==
    ASSUME NEW t \in Tables, NEW p \in Payload
    PROVE  /\ p.session \in Sessions => SessionStarted(t, p) \in Tables
           /\ p.offer \in Offers => OfferRejected(t, p) \in Tables
           /\ p.offer \in Offers => OfferCountered(t, p) \in Tables
           /\ p.session \in Sessions => SessionAbandoned(t, p) \in Tables
<1>1. p.session \in Sessions => SessionStarted(t, p) \in Tables
  BY DEF SessionStarted, Tables, SessionRow
<1>2. p.offer \in Offers => OfferRejected(t, p) \in Tables
  BY DEF OfferRejected, Tables, OfferRow
<1>0. /\ t.offers \in [Offers -> OfferRow \cup {None}]
      /\ t.sessions \in [Sessions -> SessionRow \cup {None}]
      /\ p.amount \in Amounts \cup {None}
  BY DEF Tables, Payload
<1>3. ASSUME p.offer \in Offers PROVE OfferCountered(t, p) \in Tables
  <2> DEFINE offers == [t.offers EXCEPT ![p.offer] =
                           IF @ = None THEN None
                           ELSE [@ EXCEPT !.outcome = "COUNTERED", !.counter = p.amount]]
  <2>1. offers \in [Offers -> OfferRow \cup {None}]
    BY <1>0, <1>3 DEF OfferRow
  <2>2. OfferCountered(t, p) = [t EXCEPT !.offers = offers]
    BY DEF OfferCountered
  <2> HIDE DEF offers
  <2> QED BY <2>1, <2>2 DEF Tables
<1>4. ASSUME p.session \in Sessions PROVE SessionAbandoned(t, p) \in Tables
  <2> DEFINE offers == [o \in Offers |->
                           IF o \in OffersOf(t.offers, p.session)
                                /\ t.offers[o].outcome = "PENDING"
                           THEN [t.offers[o] EXCEPT !.outcome = "ABANDONED"]
                           ELSE t.offers[o]]
             sessions == [t.sessions EXCEPT ![p.session] =
                             IF @ = None THEN None ELSE [@ EXCEPT !.state = "ABANDONED"]]
  <2>1. offers \in [Offers -> OfferRow \cup {None}]
    BY <1>0 DEF OfferRow, OffersOf
  <2>2. sessions \in [Sessions -> SessionRow \cup {None}]
    BY <1>0, <1>4 DEF SessionRow
  <2>3. SessionAbandoned(t, p) = [t EXCEPT !.offers = offers, !.sessions = sessions]
    BY DEF SessionAbandoned
  <2> HIDE DEF offers, sessions
  <2> QED BY <2>1, <2>2, <2>3 DEF Tables
<1> QED
  BY <1>1, <1>2, <1>3, <1>4

LEMMA RecordExitTyped ==
    ASSUME NEW t \in Tables, NEW id \in Nat \ {0}, NEW item \in Items,
           NEW route \in {"SOLD", "KEPT"}, NEW gross \in Nat, NEW fees \in Nat
    PROVE  RecordExit(t, id, item, route, gross, fees) \in Tables
<1> DEFINE cost  == IF t.items[item] = None THEN 0 ELSE t.items[item].cost
           exit  == [id |-> id, item |-> item, route |-> route,
                     gross |-> gross, fees |-> fees, cost |-> cost]
           exits == {x \in t.exits : x.item # item} \cup {exit}
           items == [t.items EXCEPT ![item] =
                        IF @ = None THEN None ELSE [@ EXCEPT !.exited = TRUE]]
<1>0. t.items \in [Items -> ItemRow \cup {None}] /\ t.exits \subseteq ExitRow
  BY DEF Tables
<1>1. cost \in Nat
  BY <1>0 DEF ItemRow
<1>2. exit \in ExitRow
  <2> HIDE DEF cost
  <2> QED BY <1>1 DEF ExitRow
<1>3. exits \subseteq ExitRow
  <2> HIDE DEF exit
  <2> QED BY <1>0, <1>2
<1>4. items \in [Items -> ItemRow \cup {None}]
  BY <1>0 DEF ItemRow
<1>5. RecordExit(t, id, item, route, gross, fees) = [t EXCEPT !.exits = exits, !.items = items]
  BY DEF RecordExit
<1> HIDE DEF exits, items
<1> QED
  BY <1>3, <1>4, <1>5 DEF Tables

LEMMA MarkItemTyped ==
    ASSUME NEW t \in Tables, NEW item \in Items, NEW state \in {"HELD", "SOLD", "KEPT"}
    PROVE  MarkItem(t, item, state) \in Tables
BY DEF MarkItem, Tables, ItemRow

LEMMA CoinsTyped == \A x \in Amounts \cup {None} : Coins(x) \in Nat
BY AmountsAssumption DEF Coins

LEMMA ItemHandlersTyped ==
    ASSUME NEW t \in Tables, NEW id \in Nat \ {0}, NEW p \in Payload, p.item \in Items
    PROVE  /\ ItemAcquired(t, p) \in Tables
           /\ \A type \in SaleEvents : ItemSold(t, id, type, p) \in Tables
           /\ ItemKept(t, id, p) \in Tables
           /\ ExitUnwound(t, p) \in Tables
<1>0. /\ p.amount \in Amounts \cup {None} /\ p.est \in Amounts \cup {None}
      /\ p.fee \in Nat \cup {None} /\ p.session \in Sessions \cup {None}
      /\ Coins(p.amount) \in Nat
  BY CoinsTyped DEF Payload
<1>t. /\ t.items \in [Items -> ItemRow \cup {None}] /\ t.exits \subseteq ExitRow
      /\ t.offers \in [Offers -> OfferRow \cup {None}]
      /\ t.sessions \in [Sessions -> SessionRow \cup {None}]
  BY DEF Tables
<1>1. ItemAcquired(t, p) \in Tables
  <2> DEFINE row == [state |-> "HELD", cost |-> Coins(p.amount), est |-> p.est,
                     session |-> p.session, exited |-> FALSE]
             items == [t.items EXCEPT ![p.item] = row]
             offers == [o \in Offers |->
                IF o = p.offer /\ t.offers[o] # None
                THEN [t.offers[o] EXCEPT !.outcome = "CONFIRMED", !.settled = Coins(p.amount)]
                ELSE t.offers[o]]
             sessions == [s \in Sessions |->
                IF s = p.session /\ t.sessions[s] # None
                THEN [t.sessions[s] EXCEPT !.state = "CONFIRMED", !.item = p.item]
                ELSE t.sessions[s]]
  <2>1. items \in [Items -> ItemRow \cup {None}]
    <3>1. row \in ItemRow
      BY <1>0 DEF ItemRow
    <3> HIDE DEF row
    <3> QED BY <1>t, <3>1
  <2>2. offers \in [Offers -> OfferRow \cup {None}]
    BY <1>0, <1>t DEF OfferRow
  <2>3. sessions \in [Sessions -> SessionRow \cup {None}]
    BY <1>t DEF SessionRow
  <2>4. ItemAcquired(t, p) = [t EXCEPT !.items = items, !.offers = offers,
                                       !.sessions = sessions]
    BY DEF ItemAcquired
  <2> HIDE DEF items, offers, sessions
  <2> QED BY <2>1, <2>2, <2>3, <2>4 DEF Tables
<1>2. ASSUME NEW type \in SaleEvents PROVE ItemSold(t, id, type, p) \in Tables
  <2>1. SaleFees(type, p) \in Nat
    BY <1>0, ClaimTaxAssumption DEF SaleFees
  <2> QED BY <1>0, <2>1, MarkItemTyped, RecordExitTyped DEF ItemSold
<1>3. ItemKept(t, id, p) \in Tables
  <2>1. KeepValue(t, p) \in Nat
    BY <1>0, AmountsAssumption, CoinsTyped DEF KeepValue, Tables, ItemRow
  <2> QED BY <1>0, <2>1, MarkItemTyped, RecordExitTyped DEF ItemKept
<1>4. ExitUnwound(t, p) \in Tables
  <2> DEFINE exits == {x \in t.exits : x.item # p.item}
             items == [t.items EXCEPT ![p.item] =
                          IF @ = None THEN None
                          ELSE [@ EXCEPT !.state = "HELD", !.exited = FALSE]]
  <2>1. exits \subseteq ExitRow
    BY <1>t
  <2>2. items \in [Items -> ItemRow \cup {None}]
    <3>1. t.items \in [Items -> ItemRow \cup {None}]
      BY <1>t
    <3>2. ASSUME NEW row \in ItemRow
          PROVE  [row EXCEPT !.state = "HELD", !.exited = FALSE] \in ItemRow
      BY DEF ItemRow
    <3> QED BY <3>1, <3>2
  <2>3. ExitUnwound(t, p) = [t EXCEPT !.exits = exits, !.items = items]
    BY DEF ExitUnwound
  <2> HIDE DEF exits, items
  <2> QED BY <2>1, <2>2, <2>3 DEF Tables
<1> QED
  BY <1>1, <1>2, <1>3, <1>4

LEMMA ValuationRecordedTyped ==
    ASSUME NEW t \in Tables, NEW id \in Nat \ {0}, NEW p \in Payload
    PROVE  ValuationRecorded(t, id, p) \in Tables
<1> DEFINE row == [id |-> id, item |-> p.item]
           valuations == {v \in t.valuations : v.id # id} \cup {row}
           items == [i \in Items |->
                        IF i = p.item /\ t.items[i] # None /\ p.est # None
                        THEN [t.items[i] EXCEPT !.est = p.est]
                        ELSE t.items[i]]
<1>0. /\ t.items \in [Items -> ItemRow \cup {None}] /\ t.valuations \subseteq ValuationRow
      /\ p.est \in Amounts \cup {None} /\ p.item \in Items \cup {None}
  BY DEF Tables, Payload
<1>1. valuations \subseteq ValuationRow
  <2>1. row \in ValuationRow
    BY <1>0 DEF ValuationRow
  <2> HIDE DEF row
  <2> QED BY <1>0, <2>1
<1>2. items \in [Items -> ItemRow \cup {None}]
  BY <1>0 DEF ItemRow
<1>3. ValuationRecorded(t, id, p) = [t EXCEPT !.valuations = valuations, !.items = items]
  BY DEF ValuationRecorded
<1> HIDE DEF valuations, items
<1> QED
  BY <1>1, <1>2, <1>3 DEF Tables

LEMMA ApplyTyped ==
    ASSUME NEW t \in Tables, NEW id \in Nat \ {0}, NEW e \in Recordable
    PROVE  Apply(t, id, e) \in Tables
<1> DEFINE p == e.payload
<1>0. p \in Payload /\ e.type \in EventType /\ Addressed(e)
  BY DEF Recordable
<1>1. /\ e.type \in {"SESSION_STARTED", "OFFER_MADE", "SESSION_ABANDONED"}
           => p.session \in Sessions
      /\ e.type \in {"OFFER_MADE", "OFFER_REJECTED", "OFFER_COUNTERED"} => p.offer \in Offers
      /\ e.type \in ItemEvents \ {"VALUATION_RECORDED"} => p.item \in Items
  BY <1>0 DEF Addressed, Payload
<1> HIDE DEF p
<1>2. CASE e.type \in SessionEvents
  <2>1. CASE e.type = "SESSION_STARTED"
    BY <1>0, <1>1, <2>1, SessionHandlersTyped DEF Apply, SaleEvents, p
  <2>2. CASE e.type = "OFFER_MADE"
    BY <1>0, <1>1, <2>2, OfferMadeTyped DEF Apply, SaleEvents, p
  <2>3. CASE e.type = "OFFER_REJECTED"
    BY <1>0, <1>1, <2>3, SessionHandlersTyped DEF Apply, SaleEvents, p
  <2>4. CASE e.type = "OFFER_COUNTERED"
    BY <1>0, <1>1, <2>4, SessionHandlersTyped DEF Apply, SaleEvents, p
  <2>5. CASE e.type = "SESSION_ABANDONED"
    BY <1>0, <1>1, <2>5, SessionHandlersTyped DEF Apply, SaleEvents, p
  <2> QED BY <1>2, <2>1, <2>2, <2>3, <2>4, <2>5 DEF SessionEvents
<1>3. CASE e.type \in ItemEvents
  BY <1>0, <1>1, <1>3, ItemHandlersTyped, ValuationRecordedTyped
     DEF Apply, ItemEvents, SaleEvents, p
<1> QED
  BY <1>0, <1>2, <1>3 DEF EventType

\* Replaying, seen position by position: T[n] holds what the tables may be after row n.
LEMMA ReplayInduction ==
    ASSUME NEW log, Len(log) \in Nat, NEW from \in 0..Len(log), NEW T, NEW t \in T[from],
           \A n \in from..Len(log) : n < Len(log) =>
               \A u \in T[n] : ReplayStep(u, log, n + 1) \in T[n+1]
    PROVE  ReplayFrom(t, log, from)[Len(log)] \in T[Len(log)]
<1> DEFINE upTo == ReplayFrom(t, log, from)
           S == {n \in Nat : n >= from => upTo[n] \in T[n]}
<1>0. upTo[from] = t
  BY ReplayStepwise
<1>1. 0 \in S
  BY <1>0
<1>2. ASSUME NEW n \in 0..Len(log), n \in S, n < Len(log) PROVE n + 1 \in S
  <2>1. CASE n + 1 = from
    BY <1>0, <2>1
  <2>2. CASE n >= from
    <3>1. upTo[n] \in T[n] /\ n \in from..Len(log) /\ n + 1 \in Nat
      BY <1>2, <2>2
    <3>2. upTo[n+1] = ReplayStep(upTo[n], log, n + 1)
      BY <1>2, <3>1, ReplayStepwise
    <3>3. upTo[n+1] \in T[n+1]
      <4> HIDE DEF upTo
      <4> QED BY <1>2, <3>1, <3>2
    <3> QED BY <3>1, <3>3
  <2>3. CASE n + 1 < from
    BY <2>3
  <2> QED BY <2>1, <2>2, <2>3
<1>3. 0..Len(log) \subseteq S
  <2> HIDE DEF S
  <2> QED BY <1>1, <1>2, SegmentInduction
<1> QED
  BY <1>3

\* Catching up on nothing but corrections does nothing.
LEMMA CatchUpIdle ==
    ASSUME NEW log, WellFormed(log), NEW mark \in Nat, NEW t,
           \A i \in 1..Len(log) : i > mark => log[i].type = Correction
    PROVE  CatchUp(t, log, mark) = t
<1>0. Len(log) \in Nat
  BY DEF WellFormed
<1> SUFFICES ASSUME mark < Len(log)
             PROVE  ReplayFrom(t, log, mark)[Len(log)] = t
  BY DEF CatchUp
<1> DEFINE T == [n \in Nat |-> {t}]
<1>1. mark \in 0..Len(log) /\ t \in T[mark]
  BY <1>0
<1>2. ASSUME NEW n \in mark..Len(log), n < Len(log), NEW u \in T[n]
      PROVE  ReplayStep(u, log, n + 1) \in T[n+1]
  <2>1. n \in Nat /\ n + 1 \in Nat /\ n + 1 \in 1..Len(log) /\ n + 1 > mark
    BY <1>0, <1>2
  <2>2. ~ IsEffective(log, n + 1)
    BY <2>1 DEF IsEffective
  <2> QED BY <1>2, <2>1, <2>2 DEF ReplayStep
<1>3. ReplayFrom(t, log, mark)[Len(log)] \in T[Len(log)]
  <2> HIDE DEF T
  <2> QED BY <1>0, <1>1, <1>2, ReplayInduction
<1> QED
  BY <1>0, <1>3

\* Replaying stays in any set of tables that every effective event stays in.
LEMMA ReplayStays ==
    ASSUME NEW log, WellFormed(log), NEW T, NEW t \in T, NEW from \in 0..Len(log),
           \A u \in T, i \in 1..Len(log) :
               IsEffective(log, i) => Apply(u, i, EffectiveEvent(log, i)) \in T
    PROVE  ReplayFrom(t, log, from)[Len(log)] \in T
<1> DEFINE F == [n \in Nat |-> T]
<1>0. Len(log) \in Nat /\ t \in F[from]
  BY DEF WellFormed
<1>1. ASSUME NEW n \in from..Len(log), n < Len(log), NEW u \in F[n]
      PROVE  ReplayStep(u, log, n + 1) \in F[n+1]
  <2>1. n \in Nat /\ n + 1 \in Nat /\ n + 1 \in 1..Len(log) /\ u \in T
    BY <1>0, <1>1
  <2>2. ReplayStep(u, log, n + 1) \in T
    <3> DEFINE m == n + 1
    <3> HIDE DEF m
    <3>1. IsEffective(log, m) => Apply(u, m, EffectiveEvent(log, m)) \in T
      BY <2>1 DEF m
    <3>2. ReplayStep(u, log, m) \in T
      BY <2>1, <3>1, Zenon DEF ReplayStep
    <3> QED BY <3>2 DEF m
  <2> QED BY <2>1, <2>2
<1>2. ReplayFrom(t, log, from)[Len(log)] \in F[Len(log)]
  <2> HIDE DEF F
  <2> QED BY <1>0, <1>1, ReplayInduction
<1> QED
  BY <1>0, <1>2

LEMMA ReplayTyped ==
    ASSUME NEW log, WellFormed(log)
    PROVE  /\ Replay(log) \in Tables
           /\ \A t \in Tables, mark \in Nat : CatchUp(t, log, mark) \in Tables
<1>0. Len(log) \in Nat
  BY DEF WellFormed
<1>1. ASSUME NEW u \in Tables, NEW i \in 1..Len(log), IsEffective(log, i)
      PROVE  Apply(u, i, EffectiveEvent(log, i)) \in Tables
  <2>1. EffectiveEvent(log, i) \in Recordable
    BY <1>1, EffectiveEventTyped DEF IsEffective
  <2> QED BY <1>0, <2>1, ApplyTyped
<1>2. \A t \in Tables, from \in 0..Len(log) : ReplayFrom(t, log, from)[Len(log)] \in Tables
  BY <1>1, ReplayStays
<1> QED
  BY <1>0, <1>2, EmptyTablesTyped DEF Replay, CatchUp

-----------------------------------------------------------------------------
(***************************************************************************)
(* What an event does to the exits: nothing, or it removes those of its    *)
(* item, or it puts one of its own in their place.                         *)
(***************************************************************************)
ExitEvents == SaleEvents \cup {"ITEM_KEPT"}

ExitsAfter(old, new, id, e) ==
    \/ new = old
    \/ new = {x \in old : x.item # e.payload.item}
    \/ /\ e.type \in ExitEvents
       /\ \E row : /\ row.id = id /\ row.item = e.payload.item
                  /\ new = {x \in old : x.item # e.payload.item} \cup {row}

LEMMA RecordedExit ==
    ASSUME NEW t \in Tables, NEW id, NEW item \in Items, NEW state, NEW route, NEW gross, NEW fees
    PROVE  \E row : /\ row.id = id /\ row.item = item
                   /\ RecordExit(MarkItem(t, item, state), id, item, route, gross, fees).exits
                        = {x \in t.exits : x.item # item} \cup {row}
<1> DEFINE m == MarkItem(t, item, state)
           cost == IF m.items[item] = None THEN 0 ELSE m.items[item].cost
           row == [id |-> id, item |-> item, route |-> route,
                   gross |-> gross, fees |-> fees, cost |-> cost]
           exits == {x \in m.exits : x.item # item} \cup {row}
           items == [m.items EXCEPT ![item] =
                        IF @ = None THEN None ELSE [@ EXCEPT !.exited = TRUE]]
<1>1. m = [sessions |-> t.sessions, offers |-> t.offers, items |-> m.items,
           exits |-> t.exits, valuations |-> t.valuations]
  BY DEF MarkItem, Tables
<1>2. RecordExit(m, id, item, route, gross, fees) = [m EXCEPT !.exits = exits, !.items = items]
  BY DEF RecordExit
<1>3. row.id = id /\ row.item = item
  OBVIOUS
<1> HIDE DEF m, row, items
<1>4. RecordExit(m, id, item, route, gross, fees).exits = exits /\ m.exits = t.exits
  BY <1>1, <1>2
<1> QED
  BY <1>3, <1>4 DEF m

LEMMA ApplyExits ==
    ASSUME NEW t \in Tables, NEW id \in Nat \ {0}, NEW e \in Recordable
    PROVE  ExitsAfter(t.exits, Apply(t, id, e).exits, id, e)
<1> DEFINE p == e.payload
<1>0. p \in Payload /\ e.type \in EventType /\ Addressed(e)
  BY DEF Recordable
<1>1. e.type \in ItemEvents \ {"VALUATION_RECORDED"} => p.item \in Items
  BY <1>0 DEF Addressed, Payload
<1>2. CASE e.type \in {"SESSION_STARTED", "OFFER_MADE", "OFFER_REJECTED", "OFFER_COUNTERED",
                       "SESSION_ABANDONED", "ITEM_ACQUIRED", "VALUATION_RECORDED"}
  BY <1>2 DEF Apply, ExitsAfter, SaleEvents, Tables, SessionStarted, OfferMade, OfferRejected,
              OfferCountered, SessionAbandoned, ItemAcquired, ValuationRecorded
<1>3. CASE e.type \in SaleEvents
  <2>1. Apply(t, id, e) = RecordExit(MarkItem(t, p.item, "SOLD"), id, p.item, "SOLD",
                                     Coins(p.amount), SaleFees(e.type, p))
    BY <1>3 DEF Apply, SaleEvents, ItemSold
  <2>2. p.item \in Items
    BY <1>1, <1>3 DEF ItemEvents, SaleEvents
  <2> HIDE DEF p
  <2>3. \E row : /\ row.id = id /\ row.item = p.item
                 /\ Apply(t, id, e).exits = {x \in t.exits : x.item # p.item} \cup {row}
    BY <2>1, <2>2, RecordedExit
  <2> QED BY <1>3, <2>3 DEF ExitsAfter, ExitEvents, p
<1>4. CASE e.type = "ITEM_KEPT"
  <2>1. Apply(t, id, e) = RecordExit(MarkItem(t, p.item, "KEPT"), id, p.item, "KEPT",
                                     KeepValue(t, p), 0)
    BY <1>4 DEF Apply, SaleEvents, ItemKept
  <2>2. p.item \in Items
    BY <1>1, <1>4 DEF ItemEvents, SaleEvents
  <2> HIDE DEF p
  <2>3. \E row : /\ row.id = id /\ row.item = p.item
                 /\ Apply(t, id, e).exits = {x \in t.exits : x.item # p.item} \cup {row}
    BY <2>1, <2>2, RecordedExit
  <2> QED BY <1>4, <2>3 DEF ExitsAfter, ExitEvents, p
<1>5. CASE e.type = "EXIT_UNWOUND"
  <2>1. Apply(t, id, e) = ExitUnwound(t, p)
    BY <1>5 DEF Apply, SaleEvents
  <2> QED BY <2>1 DEF ExitUnwound, ExitsAfter, Tables
<1> QED
  BY <1>0, <1>2, <1>3, <1>4, <1>5 DEF EventType, SessionEvents, ItemEvents, SaleEvents

\* At most one exit of each item.
OneExit(t) == \A x, y \in t.exits : x.item = y.item => x = y

\* Every exit was written by an event of the log, about its item.
Traceable(t, log) ==
    \A x \in t.exits : /\ x.id \in 1..Len(log)
                       /\ log[x.id].type \in ExitEvents
                       /\ log[x.id].payload.item = x.item

LEMMA ApplyOneExit ==
    ASSUME NEW t \in Tables, OneExit(t), NEW id \in Nat \ {0}, NEW e \in Recordable
    PROVE  OneExit(Apply(t, id, e))
BY ApplyExits DEF ExitsAfter, OneExit

LEMMA ReplayOneExit ==
    ASSUME NEW log, WellFormed(log)
    PROVE  /\ OneExit(Replay(log))
           /\ \A t \in Tables, mark \in Nat :
                 OneExit(t) => OneExit(CatchUp(t, log, mark))
<1> DEFINE T == {t \in Tables : OneExit(t)}
<1>0. Len(log) \in Nat
  BY DEF WellFormed
<1>1. ASSUME NEW u \in T, NEW i \in 1..Len(log), IsEffective(log, i)
      PROVE  Apply(u, i, EffectiveEvent(log, i)) \in T
  <2>1. EffectiveEvent(log, i) \in Recordable /\ i \in Nat \ {0}
    BY <1>0, <1>1, EffectiveEventTyped DEF IsEffective
  <2> QED BY <2>1, ApplyTyped, ApplyOneExit
<1>2. EmptyTables \in T
  BY EmptyTablesTyped DEF EmptyTables, OneExit
<1>3. \A t \in T, from \in 0..Len(log) : ReplayFrom(t, log, from)[Len(log)] \in T
  <2> HIDE DEF T
  <2> QED BY <1>1, ReplayStays
<1> QED
  BY <1>0, <1>2, <1>3 DEF Replay, CatchUp

LEMMA ReplayTraceable ==
    ASSUME NEW log, WellFormed(log)
    PROVE  /\ Traceable(Replay(log), log)
           /\ \A t \in Tables, mark \in Nat :
                 Traceable(t, log) => Traceable(CatchUp(t, log, mark), log)
<1> DEFINE T == {t \in Tables : Traceable(t, log)}
<1>0. Len(log) \in Nat
  BY DEF WellFormed
<1>1. ASSUME NEW u \in T, NEW i \in 1..Len(log), IsEffective(log, i)
      PROVE  Apply(u, i, EffectiveEvent(log, i)) \in T
  <2> DEFINE e == EffectiveEvent(log, i)
  <2>1. /\ e \in Recordable /\ i \in Nat \ {0}
        /\ e.type = log[i].type /\ e.payload.item = log[i].payload.item
    BY <1>0, <1>1, EffectiveEventTyped DEF IsEffective
  <2> HIDE DEF e
  <2>2. ExitsAfter(u.exits, Apply(u, i, e).exits, i, e) /\ Apply(u, i, e) \in Tables
    BY <2>1, ApplyTyped, ApplyExits
  <2>3. Traceable(Apply(u, i, e), log)
    BY <2>1, <2>2 DEF ExitsAfter, Traceable
  <2> QED BY <2>2, <2>3 DEF e
<1>2. EmptyTables \in T
  BY EmptyTablesTyped DEF EmptyTables, Traceable
<1>3. \A t \in T, from \in 0..Len(log) : ReplayFrom(t, log, from)[Len(log)] \in T
  <2> HIDE DEF T
  <2> QED BY <1>1, ReplayStays
<1> QED
  BY <1>0, <1>2, <1>3 DEF Replay, CatchUp

-----------------------------------------------------------------------------
(***************************************************************************)
(* What the pass over the corrections holds, said without the pass.        *)
(***************************************************************************)
About(log, i, n) == {c \in 1..n : log[c].type = Correction /\ log[c].target = i}
Voids(log, i, n) == {c \in About(log, i, n) : log[c].void}

\* The patches of one key that no void came after.
Live(log, i, n, k) == {c \in About(log, i, n) : /\ ~ log[c].void
                                                /\ k \in DOMAIN log[c].patch
                                                /\ \A v \in Voids(log, i, n) : v < c}

IsVoid(log, i, n) == \E v \in Voids(log, i, n) : \A c \in About(log, i, n) : c <= v

\* Of what the pass holds after n rows, what is about row i and one key of it.
TellsVoid(c, log, i, n) == i \in c.voided <=> IsVoid(log, i, n)
TellsPatch(c, log, i, n, k) ==
    /\ i \in DOMAIN c.patches /\ k \in DOMAIN c.patches[i] <=> Live(log, i, n, k) # {}
    /\ Live(log, i, n, k) # {} =>
          \E m \in Live(log, i, n, k) : /\ \A l \in Live(log, i, n, k) : l <= m
                                        /\ c.patches[i][k] = log[m].patch[k]

LEMMA CorrectionsTell ==
    ASSUME NEW log, WellFormed(log), NEW i, NEW k
    PROVE  /\ TellsVoid(Corrections(log), log, i, Len(log))
           /\ TellsPatch(Corrections(log), log, i, Len(log), k)
<1>0. log \in Seq(Event) /\ Len(log) \in Nat
  BY DEF WellFormed
<1> DEFINE C == CorrectionsUpTo(log)
           S == {n \in Nat : TellsVoid(C[n], log, i, n) /\ TellsPatch(C[n], log, i, n, k)}
<1>1. 0 \in S
  <2>1. C[0] = NoCorrections
    BY <1>0, CorrectionsRecursion
  <2>2. About(log, i, 0) = {}
    BY DEF About
  <2>3. Voids(log, i, 0) = {} /\ Live(log, i, 0, k) = {}
    BY <2>2 DEF Voids, Live
  <2> QED BY <2>1, <2>2, <2>3 DEF NoCorrections, NoPatch, TellsVoid, TellsPatch, IsVoid
<1>2. ASSUME NEW n \in 0..Len(log), n \in S, n < Len(log) PROVE n + 1 \in S
  <2> DEFINE e == log[n+1]
             here == e.type = Correction /\ e.target = i
             c == C[n]
             d == C[n+1]
  <2>0. n \in Nat /\ n + 1 \in Nat /\ 1..(n+1) = 1..n \cup {n+1} /\ \A m \in 1..n : m < n + 1
    BY <1>0
  <2>1. d = IF e.type = Correction THEN Collapse(c, e) ELSE c
    BY <1>0, <1>2, CorrectionsRecursion
  <2>2. TellsVoid(c, log, i, n) /\ TellsPatch(c, log, i, n, k)
    BY <1>2
  <2>a. About(log, i, n+1) = IF here THEN About(log, i, n) \cup {n+1} ELSE About(log, i, n)
    BY <2>0 DEF About
  <2>b. About(log, i, n) \subseteq 1..n /\ Voids(log, i, n) \subseteq About(log, i, n)
        /\ Live(log, i, n, k) \subseteq About(log, i, n)
    BY DEF About, Voids, Live
  <2>c. \A m \in About(log, i, n) : m \in Nat /\ m < n + 1
    BY <2>0, <2>b
  <2> HIDE DEF C, c, d, e
  <2>3. CASE ~ here
    <3>1. About(log, i, n+1) = About(log, i, n)
      BY <2>a, <2>3
    <3>2. Voids(log, i, n+1) = Voids(log, i, n)
      BY <3>1, Zenon DEF Voids
    <3>3. Live(log, i, n+1, k) = Live(log, i, n, k)
      BY <3>1, <3>2, Zenon DEF Live
    <3>4. /\ i \in d.voided <=> i \in c.voided
          /\ i \in DOMAIN d.patches <=> i \in DOMAIN c.patches
          /\ i \in DOMAIN c.patches => d.patches[i] = c.patches[i]
      BY <2>1, <2>3 DEF Collapse
    <3>5. TellsVoid(d, log, i, n+1)
      BY <2>2, <3>1, <3>2, <3>4 DEF TellsVoid, IsVoid
    <3>6. TellsPatch(d, log, i, n+1, k)
      BY <2>2, <3>3, <3>4 DEF TellsPatch
    <3> QED BY <2>0, <3>5, <3>6 DEF d
  <2>4. CASE here /\ e.void
    <3>1. Voids(log, i, n+1) = Voids(log, i, n) \cup {n+1}
      BY <2>a, <2>4 DEF Voids, e
    <3>2. Live(log, i, n+1, k) = {}
      <4>1. ASSUME NEW l \in About(log, i, n+1) PROVE ~ n + 1 < l
        BY <2>0, <2>a, <2>c, <2>4
      <4> QED BY <3>1, <4>1 DEF Live
    <3>3. i \in d.voided /\ i \notin DOMAIN d.patches
      BY <2>1, <2>4 DEF Collapse
    <3>4. IsVoid(log, i, n+1)
      <4>1. \A l \in About(log, i, n+1) : l <= n + 1
        BY <2>0, <2>a, <2>c, <2>4
      <4> QED BY <3>1, <4>1 DEF IsVoid
    <3> QED BY <2>0, <3>2, <3>3, <3>4 DEF TellsVoid, TellsPatch, d
  <2>5. CASE here /\ ~ e.void
    <3>1. Voids(log, i, n+1) = Voids(log, i, n)
      BY <2>a, <2>5 DEF Voids, e
    <3>2. Live(log, i, n+1, k) = Live(log, i, n, k)
                                   \cup IF k \in DOMAIN e.patch THEN {n+1} ELSE {}
      BY <2>a, <2>b, <2>c, <2>5, <3>1 DEF Live, e
    <3>3. i \notin d.voided
      BY <2>1, <2>5 DEF Collapse
    <3>4. ~ IsVoid(log, i, n+1)
      <4>1. n + 1 \in About(log, i, n+1) /\ \A v \in Voids(log, i, n+1) : ~ n + 1 <= v
        BY <2>0, <2>a, <2>b, <2>c, <2>5, <3>1
      <4> QED BY <4>1 DEF IsVoid
    <3> DEFINE old == IF i \in DOMAIN c.patches THEN c.patches[i] ELSE NoPatch
    <3>5. i \in DOMAIN d.patches /\ d.patches[i] = Merge(old, e.patch)
      BY <2>1, <2>5 DEF Collapse
    <3>6. k \in DOMAIN d.patches[i] <=> k \in DOMAIN old \/ k \in DOMAIN e.patch
      BY <3>5 DEF Merge
    <3>7. k \in DOMAIN old <=> Live(log, i, n, k) # {}
      BY <2>2 DEF TellsPatch, NoPatch
    <3>8. CASE k \in DOMAIN e.patch
      <4>1. d.patches[i][k] = e.patch[k]
        BY <3>5, <3>8 DEF Merge
      <4>2. n + 1 \in Live(log, i, n+1, k) /\ \A l \in Live(log, i, n+1, k) : l <= n + 1
        BY <2>0, <2>b, <2>c, <3>2, <3>8
      <4>3. TellsPatch(d, log, i, n+1, k)
        BY <3>5, <3>6, <3>8, <4>1, <4>2 DEF TellsPatch, e
      <4> QED BY <2>0, <3>3, <3>4, <4>3 DEF TellsVoid, d
    <3>9. CASE k \notin DOMAIN e.patch
      <4>1. Live(log, i, n+1, k) = Live(log, i, n, k)
        BY <3>2, <3>9
      <4>2. k \in DOMAIN old => d.patches[i][k] = c.patches[i][k]
        BY <3>5, <3>9 DEF Merge, NoPatch
      <4>3. TellsPatch(d, log, i, n+1, k)
        BY <2>2, <3>5, <3>6, <3>7, <3>9, <4>1, <4>2 DEF TellsPatch
      <4> QED BY <2>0, <3>3, <3>4, <4>3 DEF TellsVoid, d
    <3> QED BY <3>8, <3>9
  <2> QED BY <2>3, <2>4, <2>5
<1>3. 0..Len(log) \subseteq S
  <2> HIDE DEF S
  <2> QED BY <1>0, <1>1, <1>2, SegmentInduction
<1> QED
  BY <1>0, <1>3 DEF Corrections

\* EventLog.corrections makes one pass; what comes out is what a reader of the log
\* expects.
LEMMA CorrectionsWin ==
    ASSUME NEW log, WellFormed(log), NEW i \in 1..Len(log), log[i].type # Correction
    PROVE  /\ IsEffective(log, i) <=> ~ IsVoid(log, i, Len(log))
           /\ \A k \in PatchKeys :
                 LET live == Live(log, i, Len(log), k)
                 IN EffectiveEvent(log, i).payload[k] =
                       IF live = {} THEN log[i].payload[k] ELSE log[Max(live)].patch[k]
<1> DEFINE C == Corrections(log)
<1>1. IsEffective(log, i) <=> ~ IsVoid(log, i, Len(log))
  BY CorrectionsTell DEF IsEffective, TellsVoid
<1>2. ASSUME NEW k \in PatchKeys
      PROVE  LET live == Live(log, i, Len(log), k)
             IN EffectiveEvent(log, i).payload[k] =
                   IF live = {} THEN log[i].payload[k] ELSE log[Max(live)].patch[k]
  <2> DEFINE live == Live(log, i, Len(log), k)
  <2>1. TellsPatch(C, log, i, Len(log), k)
    BY CorrectionsTell
  <2>2. log[i] \in [type : EventType, payload : Payload]
    BY DEF WellFormed, Event
  <2>3. k \in DOMAIN log[i].payload
    BY <2>2 DEF Payload, PatchKeys
  <2>4. CASE live = {}
    <3>1. ~ (i \in DOMAIN C.patches /\ k \in DOMAIN C.patches[i])
      BY <2>1, <2>4 DEF TellsPatch
    <3>2. CASE i \in DOMAIN C.patches
      <4>1. EffectiveEvent(log, i).payload = Merge(log[i].payload, C.patches[i])
        BY <2>2, <3>2 DEF EffectiveEvent
      <4> QED BY <2>3, <2>4, <3>1, <3>2, <4>1 DEF Merge
    <3>3. CASE i \notin DOMAIN C.patches
      BY <2>4, <3>3 DEF EffectiveEvent
    <3> QED BY <3>2, <3>3
  <2>5. CASE live # {}
    <3>1. PICK m \in live : /\ \A l \in live : l <= m
                            /\ C.patches[i][k] = log[m].patch[k]
      BY <2>1, <2>5 DEF TellsPatch
    <3>2. i \in DOMAIN C.patches /\ k \in DOMAIN C.patches[i]
      BY <2>1, <2>5 DEF TellsPatch
    <3>3. live \subseteq Int
      BY DEF Live, About, WellFormed
    <3>4. Max(live) = m
      <4> HIDE DEF live
      <4> QED BY <3>1, <3>3, GreatestIsMax
    <3>5. EffectiveEvent(log, i).payload = Merge(log[i].payload, C.patches[i])
      BY <2>2, <3>2 DEF EffectiveEvent
    <3>6. EffectiveEvent(log, i).payload[k] = C.patches[i][k]
      BY <3>2, <3>5 DEF Merge
    <3> QED BY <2>5, <3>1, <3>4, <3>6
  <2> QED BY <2>4, <2>5
<1> QED BY <1>1, <1>2

-----------------------------------------------------------------------------
(***************************************************************************)
(* An item and its exits.                                                  *)
(***************************************************************************)
ItemMatches(row, exits) ==
    IF row.state = "HELD"
    THEN exits = {} /\ ~ row.exited
    ELSE row.exited /\ \E x \in exits : x.route = row.state /\ x.cost = row.cost

Matched(t) == \A i \in Items : t.items[i] # None =>
                  ItemMatches(t.items[i], {x \in t.exits : x.item = i})

LEMMA OutcomeMatched ==
    ASSUME NEW t \in Tables, Matched(t), NEW id, NEW item \in Items,
           NEW route \in {"SOLD", "KEPT"}, NEW gross, NEW fees
    PROVE  Matched(RecordExit(MarkItem(t, item, route), id, item, route, gross, fees))
<1> DEFINE m == MarkItem(t, item, route)
           cost == IF m.items[item] = None THEN 0 ELSE m.items[item].cost
           row == [id |-> id, item |-> item, route |-> route,
                   gross |-> gross, fees |-> fees, cost |-> cost]
           exits == {x \in m.exits : x.item # item} \cup {row}
           items == [m.items EXCEPT ![item] =
                        IF @ = None THEN None ELSE [@ EXCEPT !.exited = TRUE]]
           after == RecordExit(m, id, item, route, gross, fees)
<1>0. t.items \in [Items -> ItemRow \cup {None}]
  BY DEF Tables
<1>1. m = [sessions |-> t.sessions, offers |-> t.offers, items |-> m.items,
           exits |-> t.exits, valuations |-> t.valuations]
  BY DEF MarkItem, Tables
<1>2. m.items = [t.items EXCEPT ![item] = IF @ = None THEN None ELSE [@ EXCEPT !.state = route]]
  BY DEF MarkItem, Tables
<1>3. after = [m EXCEPT !.exits = exits, !.items = items]
  BY DEF RecordExit
<1>4. row.item = item /\ row.route = route /\ row.cost = cost
  OBVIOUS
<1> HIDE DEF m, row, after
<1>5. after.items = items /\ after.exits = exits /\ m.exits = t.exits
  BY <1>1, <1>3
<1>6. ASSUME NEW i \in Items, after.items[i] # None
      PROVE  ItemMatches(after.items[i], {x \in after.exits : x.item = i})
  <2>1. CASE i = item
    <3>1. t.items[item] # None /\ t.items[item] \in ItemRow
      BY <1>0, <1>2, <1>5, <1>6, <2>1
    <3>n. [t.items[item] EXCEPT !.state = route] # None
      BY <3>1, NoRowAssumption DEF ItemRow
    <3>2. m.items[item] = [t.items[item] EXCEPT !.state = route] /\ m.items[item] # None
      BY <1>0, <1>2, <3>1, <3>n
    <3>3. items[item] = [t.items[item] EXCEPT !.state = route, !.exited = TRUE]
      BY <1>0, <1>2, <3>1, <3>2 DEF ItemRow
    <3>4. items[item].state = route /\ items[item].exited /\ items[item].cost = cost
      BY <3>1, <3>2, <3>3 DEF ItemRow
    <3>5. row \in {x \in after.exits : x.item = i}
      BY <1>4, <1>5, <2>1
    <3> QED BY <1>4, <1>5, <2>1, <3>4, <3>5 DEF ItemMatches
  <2>2. CASE i # item
    <3>1. after.items[i] = t.items[i]
      BY <1>0, <1>2, <1>5, <2>2
    <3>2. {x \in after.exits : x.item = i} = {x \in t.exits : x.item = i}
      BY <1>4, <1>5, <2>2
    <3> QED BY <1>6, <3>1, <3>2 DEF Matched
  <2> QED BY <2>1, <2>2
<1> QED
  BY <1>6 DEF Matched, after, m

LEMMA ApplyMatched ==
    ASSUME NEW t \in Tables, Matched(t), NEW id \in Nat \ {0}, NEW e \in Recordable,
           e.type = "ITEM_ACQUIRED" => \A x \in t.exits : x.item # e.payload.item
    PROVE  Matched(Apply(t, id, e))
<1> DEFINE p == e.payload
           after == Apply(t, id, e)
<1>0. p \in Payload /\ e.type \in EventType /\ Addressed(e)
  BY DEF Recordable
<1>1. e.type \in ItemEvents \ {"VALUATION_RECORDED"} => p.item \in Items
  BY <1>0 DEF Addressed, Payload
<1>t. /\ t.items \in [Items -> ItemRow \cup {None}]
      /\ t = [sessions |-> t.sessions, offers |-> t.offers, items |-> t.items,
              exits |-> t.exits, valuations |-> t.valuations]
  BY DEF Tables
<1>2. CASE e.type \in SessionEvents
  <2>1. after.items = t.items /\ after.exits = t.exits
    BY <1>2, <1>t DEF Apply, SessionEvents, SaleEvents, SessionStarted, OfferMade, OfferRejected,
                      OfferCountered, SessionAbandoned
  <2> HIDE DEF after
  <2> QED BY <2>1 DEF Matched, after
<1>3. CASE e.type = "ITEM_ACQUIRED"
  <2> DEFINE row == [state |-> "HELD", cost |-> Coins(p.amount), est |-> p.est,
                     session |-> p.session, exited |-> FALSE]
  <2>0. p.item \in Items /\ \A x \in t.exits : x.item # p.item
    BY <1>1, <1>3 DEF ItemEvents
  <2>1. after = ItemAcquired(t, p)
    BY <1>3 DEF Apply, SaleEvents
  <2>2. after.items = [t.items EXCEPT ![p.item] = row] /\ after.exits = t.exits
    BY <1>t, <2>1 DEF ItemAcquired
  <2>3. row.state = "HELD" /\ ~ row.exited
    OBVIOUS
  <2> HIDE DEF after, row
  <2>4. ASSUME NEW i \in Items, after.items[i] # None
        PROVE  ItemMatches(after.items[i], {x \in after.exits : x.item = i})
    <3>1. CASE i = p.item
      BY <1>t, <2>0, <2>2, <2>3, <3>1 DEF ItemMatches
    <3>2. CASE i # p.item
      BY <1>t, <2>2, <2>4, <3>2 DEF Matched
    <3> QED BY <3>1, <3>2
  <2> QED BY <2>4 DEF Matched, after
<1>4. CASE e.type \in SaleEvents
  <2>1. after = RecordExit(MarkItem(t, p.item, "SOLD"), id, p.item, "SOLD",
                           Coins(p.amount), SaleFees(e.type, p))
    BY <1>4 DEF Apply, SaleEvents, ItemSold
  <2>2. p.item \in Items
    BY <1>1, <1>4 DEF ItemEvents, SaleEvents
  <2> HIDE DEF after, p
  <2>3. Matched(after)
    BY <2>1, <2>2, OutcomeMatched
  <2> QED BY <2>3 DEF after
<1>5. CASE e.type = "ITEM_KEPT"
  <2>1. after = RecordExit(MarkItem(t, p.item, "KEPT"), id, p.item, "KEPT", KeepValue(t, p), 0)
    BY <1>5 DEF Apply, SaleEvents, ItemKept
  <2>2. p.item \in Items
    BY <1>1, <1>5 DEF ItemEvents, SaleEvents
  <2> HIDE DEF after, p
  <2>3. Matched(after)
    BY <2>1, <2>2, OutcomeMatched
  <2> QED BY <2>3 DEF after
<1>6. CASE e.type = "EXIT_UNWOUND"
  <2>1. after = ExitUnwound(t, p) /\ p.item \in Items
    BY <1>1, <1>6 DEF Apply, SaleEvents, ItemEvents
  <2>2. /\ after.exits = {x \in t.exits : x.item # p.item}
        /\ after.items = [t.items EXCEPT ![p.item] =
                             IF @ = None THEN None
                             ELSE [@ EXCEPT !.state = "HELD", !.exited = FALSE]]
    BY <1>t, <2>1 DEF ExitUnwound
  <2> HIDE DEF after, p
  <2>3. ASSUME NEW i \in Items, after.items[i] # None
        PROVE  ItemMatches(after.items[i], {x \in after.exits : x.item = i})
    <3>1. CASE i = p.item
      <4>1. t.items[i] \in ItemRow
        BY <1>t, <2>2, <2>3, <3>1
      <4>2. after.items[i] = [t.items[i] EXCEPT !.state = "HELD", !.exited = FALSE]
        BY <1>t, <2>2, <2>3, <3>1
      <4>3. after.items[i].state = "HELD" /\ ~ after.items[i].exited
        BY <4>1, <4>2 DEF ItemRow
      <4>4. {x \in after.exits : x.item = i} = {}
        BY <2>2, <3>1
      <4> QED BY <4>3, <4>4 DEF ItemMatches
    <3>2. CASE i # p.item
      <4>1. after.items[i] = t.items[i]
        BY <1>t, <2>2, <3>2
      <4>2. {x \in after.exits : x.item = i} = {x \in t.exits : x.item = i}
        BY <2>2, <3>2
      <4> QED BY <2>3, <4>1, <4>2 DEF Matched
    <3> QED BY <3>1, <3>2
  <2> QED BY <2>3 DEF Matched, after
<1>7. CASE e.type = "VALUATION_RECORDED"
  <2>1. after = ValuationRecorded(t, id, p)
    BY <1>7 DEF Apply, SaleEvents
  <2>2. /\ after.exits = t.exits
        /\ after.items = [i \in Items |->
              IF i = p.item /\ t.items[i] # None /\ p.est # None
              THEN [t.items[i] EXCEPT !.est = p.est]
              ELSE t.items[i]]
    BY <1>t, <2>1 DEF ValuationRecorded
  <2> HIDE DEF after, p
  <2>3. ASSUME NEW i \in Items, after.items[i] # None
        PROVE  ItemMatches(after.items[i], {x \in after.exits : x.item = i})
    <3>0. t.items[i] # None
      BY <2>2, <2>3
    <3>1. t.items[i] \in ItemRow
      BY <1>t, <3>0
    <3>2. /\ after.items[i].state = t.items[i].state /\ after.items[i].cost = t.items[i].cost
          /\ after.items[i].exited = t.items[i].exited
      BY <2>2, <3>1 DEF ItemRow
    <3>3. ItemMatches(t.items[i], {x \in t.exits : x.item = i})
      BY <3>0 DEF Matched
    <3> QED BY <2>2, <3>2, <3>3 DEF ItemMatches
  <2> QED BY <2>3 DEF Matched, after
<1> QED
  BY <1>0, <1>2, <1>3, <1>4, <1>5, <1>6, <1>7 DEF EventType, SessionEvents, ItemEvents, SaleEvents

-----------------------------------------------------------------------------
(***************************************************************************)
(* The numbers of the offers of a session.                                 *)
(***************************************************************************)
ChainOf(t, s) == OffersOf(t.offers, s)
SeqsOf(t, s)  == {t.offers[o].seq : o \in ChainOf(t, s)}

Numbered(t) ==
    \A s \in Sessions :
        /\ SeqsOf(t, s) = 1..Cardinality(ChainOf(t, s))
        /\ t.sessions[s] # None => t.sessions[s].offerCount = Cardinality(ChainOf(t, s))

\* No offer changes its session or its number, and no session its count.
SameChains(t, u) ==
    /\ \A o \in Offers : /\ u.offers[o] = None <=> t.offers[o] = None
                         /\ t.offers[o] # None =>
                               /\ u.offers[o].session = t.offers[o].session
                               /\ u.offers[o].seq = t.offers[o].seq
    /\ \A s \in Sessions : /\ u.sessions[s] = None <=> t.sessions[s] = None
                           /\ t.sessions[s] # None =>
                                 u.sessions[s].offerCount = t.sessions[s].offerCount

LEMMA SameChainsNumbered ==
    ASSUME NEW t, NEW u, SameChains(t, u), Numbered(t)
    PROVE  Numbered(u)
<1>1. ASSUME NEW s \in Sessions PROVE ChainOf(u, s) = ChainOf(t, s)
  BY DEF SameChains, ChainOf, OffersOf
<1>2. ASSUME NEW s \in Sessions PROVE SeqsOf(u, s) = SeqsOf(t, s)
  <2>1. \A o \in ChainOf(t, s) : u.offers[o].seq = t.offers[o].seq
    BY DEF SameChains, ChainOf, OffersOf
  <2> QED BY <1>1, <2>1 DEF SeqsOf
<1> QED
  BY <1>1, <1>2 DEF Numbered, SameChains

LEMMA OfferMadeNumbered ==
    ASSUME NEW t \in Tables, Numbered(t), NEW p \in Payload, p.session \in Sessions,
           p.offer \in Offers, t.offers[p.offer] = None
    PROVE  Numbered(OfferMade(t, p))
<1> DEFINE n    == Cardinality(ChainOf(t, p.session))
           row  == [session |-> p.session, seq |-> Max({0} \cup SeqsOf(t, p.session)) + 1,
                    outcome |-> "PENDING", counter |-> None, settled |-> None]
           u    == OfferMade(t, p)
           count == Cardinality(ChainOf(u, p.session))
<1>0. /\ t.offers \in [Offers -> OfferRow \cup {None}]
      /\ t.sessions \in [Sessions -> SessionRow \cup {None}]
  BY DEF Tables
<1>1. /\ u.offers = [t.offers EXCEPT ![p.offer] = row]
      /\ u.sessions = [t.sessions EXCEPT ![p.session] =
             IF @ = None THEN None ELSE [@ EXCEPT !.offerCount = count]]
  BY DEF OfferMade, Tables, ChainOf, SeqsOf
<1>2. \A s \in Sessions : IsFiniteSet(ChainOf(t, s)) /\ Cardinality(ChainOf(t, s)) \in Nat
  <2>1. \A s \in Sessions : IsFiniteSet(ChainOf(t, s))
    BY OffersFinite, FS_Subset DEF ChainOf, OffersOf
  <2> QED BY <2>1, FS_CardinalityType
<1>3. SeqsOf(t, p.session) = 1..n /\ n \in Nat
  BY <1>2 DEF Numbered
<1>4. row.seq = n + 1 /\ row.session = p.session
  <2>1. {0} \cup 1..n = 0..n
    BY <1>3
  <2>2. Max(0..n) = n
    <3>1. 0..n \in SUBSET Int /\ n \in 0..n /\ \A m \in 0..n : m <= n
      BY <1>3
    <3> HIDE DEF n
    <3> QED BY <3>1, GreatestIsMax
  <2> QED BY <1>3, <2>1, <2>2
<1>r. row # None
  <2>1. row.outcome = "PENDING" /\ row \in OfferRow
    BY <1>3, <1>4 DEF OfferRow
  <2> QED BY <2>1, NoRowAssumption
<1> HIDE DEF u, row, n
<1>5. ASSUME NEW s \in Sessions
      PROVE  /\ SeqsOf(u, s) = 1..Cardinality(ChainOf(u, s))
             /\ u.sessions[s] # None => u.sessions[s].offerCount = Cardinality(ChainOf(u, s))
  <2>1. CASE s = p.session
    <3>1. ChainOf(u, s) = ChainOf(t, s) \cup {p.offer} /\ p.offer \notin ChainOf(t, s)
      BY <1>0, <1>1, <1>4, <1>r, <2>1 DEF ChainOf, OffersOf
    <3>2. Cardinality(ChainOf(u, s)) = n + 1
      BY <1>2, <2>1, <3>1, FS_AddElement DEF n
    <3>3. SeqsOf(u, s) = SeqsOf(t, s) \cup {n + 1}
      <4>1. u.offers[p.offer].seq = n + 1
        BY <1>0, <1>1, <1>4
      <4>2. \A o \in ChainOf(t, s) : u.offers[o].seq = t.offers[o].seq
        BY <1>0, <1>1, <3>1
      <4> QED BY <3>1, <4>1, <4>2 DEF SeqsOf
    <3>4. SeqsOf(u, s) = 1..(n + 1)
      BY <1>3, <2>1, <3>3
    <3>5. u.sessions[s] # None => u.sessions[s].offerCount = count
      BY <1>0, <1>1, <2>1 DEF SessionRow
    <3> QED BY <2>1, <3>2, <3>4, <3>5
  <2>2. CASE s # p.session
    <3>1. ChainOf(u, s) = ChainOf(t, s) /\ p.offer \notin ChainOf(t, s)
      BY <1>0, <1>1, <1>4, <2>2 DEF ChainOf, OffersOf
    <3>2. SeqsOf(u, s) = SeqsOf(t, s)
      <4>2. \A o \in ChainOf(t, s) : u.offers[o].seq = t.offers[o].seq
        BY <1>0, <1>1, <3>1
      <4> QED BY <3>1, <4>2 DEF SeqsOf
    <3>3. u.sessions[s] = t.sessions[s]
      BY <1>0, <1>1, <2>2
    <3> QED BY <3>1, <3>2, <3>3 DEF Numbered
  <2> QED BY <2>1, <2>2
<1> QED
  BY <1>5 DEF Numbered, u

LEMMA SessionStartedNumbered ==
    ASSUME NEW t \in Tables, Numbered(t), NEW p \in Payload, p.session \in Sessions,
           ChainOf(t, p.session) = {}
    PROVE  Numbered(SessionStarted(t, p))
<1> DEFINE row == [state |-> "ACTIVE", item |-> None, offerCount |-> 0]
           u == SessionStarted(t, p)
<1>1. u.offers = t.offers /\ u.sessions = [t.sessions EXCEPT ![p.session] = row]
  BY DEF SessionStarted, Tables
<1>2. t.sessions \in [Sessions -> SessionRow \cup {None}] /\ row.offerCount = 0
  BY DEF Tables
<1> HIDE DEF u, row
<1>3. ASSUME NEW s \in Sessions
      PROVE  ChainOf(u, s) = ChainOf(t, s) /\ SeqsOf(u, s) = SeqsOf(t, s)
  BY <1>1 DEF ChainOf, SeqsOf
<1>4. Cardinality(ChainOf(t, p.session)) = 0
  BY FS_EmptySet
<1>5. ASSUME NEW s \in Sessions, u.sessions[s] # None
      PROVE  u.sessions[s].offerCount = Cardinality(ChainOf(u, s))
  <2>1. CASE s = p.session
    BY <1>1, <1>2, <1>3, <1>4, <2>1
  <2>2. CASE s # p.session
    BY <1>1, <1>2, <1>3, <1>5, <2>2 DEF Numbered
  <2> QED BY <2>1, <2>2
<1> QED
  BY <1>3, <1>5 DEF Numbered, u

\* The answers to an offer, and what becomes of a session, keep its number and count.
LEMMA RowsKept ==
    /\ \A r \in OfferRow, outcome \in {"CONFIRMED", "REJECTED", "COUNTERED", "ABANDONED"},
          amount \in Amounts \cup {None}, coins \in Nat :
          /\ [r EXCEPT !.outcome = outcome] \in OfferRow
          /\ [r EXCEPT !.outcome = outcome, !.counter = amount] \in OfferRow
          /\ [r EXCEPT !.outcome = outcome, !.settled = coins] \in OfferRow
    /\ \A r \in SessionRow, item \in Items, state \in {"CONFIRMED", "ABANDONED"} :
          /\ [r EXCEPT !.state = state] \in SessionRow
          /\ [r EXCEPT !.state = state, !.item = item] \in SessionRow
    /\ \A r \in OfferRow : r # None
    /\ \A r \in SessionRow : r # None
BY NoRowAssumption DEF OfferRow, SessionRow

\* Of the events about items, only an acquisition touches offers and sessions.
LEMMA ItemEventsLeaveChains ==
    ASSUME NEW t \in Tables, NEW id, NEW e, e.type \in ItemEvents \ {"ITEM_ACQUIRED"}
    PROVE  Apply(t, id, e).offers = t.offers /\ Apply(t, id, e).sessions = t.sessions
<1>1. t = [sessions |-> t.sessions, offers |-> t.offers, items |-> t.items,
           exits |-> t.exits, valuations |-> t.valuations]
  BY DEF Tables
<1>2. CASE e.type \in SaleEvents
  BY <1>1, <1>2 DEF Apply, SaleEvents, ItemSold, RecordExit, MarkItem
<1>3. CASE e.type \in {"ITEM_KEPT", "EXIT_UNWOUND", "VALUATION_RECORDED"}
  BY <1>1, <1>3 DEF Apply, SaleEvents, ItemKept, ExitUnwound, ValuationRecorded,
                    RecordExit, MarkItem
<1> QED
  BY <1>2, <1>3 DEF ItemEvents

\* Every other handler leaves the chains as they are.
LEMMA ApplyChains ==
    ASSUME NEW t \in Tables, NEW id \in Nat \ {0}, NEW e \in Recordable,
           e.type \notin {"OFFER_MADE", "SESSION_STARTED"}
    PROVE  SameChains(t, Apply(t, id, e))
<1> DEFINE p == e.payload
           after == Apply(t, id, e)
<1>0. p \in Payload /\ e.type \in EventType /\ Addressed(e)
  BY DEF Recordable
<1>1. /\ e.type \in {"SESSION_STARTED", "OFFER_MADE", "SESSION_ABANDONED"}
           => p.session \in Sessions
      /\ e.type \in {"OFFER_MADE", "OFFER_REJECTED", "OFFER_COUNTERED"} => p.offer \in Offers
  BY <1>0 DEF Addressed, Payload
<1>t. /\ t.offers \in [Offers -> OfferRow \cup {None}]
      /\ t.sessions \in [Sessions -> SessionRow \cup {None}]
      /\ t = [sessions |-> t.sessions, offers |-> t.offers, items |-> t.items,
              exits |-> t.exits, valuations |-> t.valuations]
  BY DEF Tables
<1>n. (\A o \in OfferRow : o # None) /\ (\A s \in SessionRow : s # None)
  BY NoRowAssumption
<1>2. CASE e.type \in ItemEvents \ {"ITEM_ACQUIRED"}
  BY <1>2, ItemEventsLeaveChains DEF SameChains
<1>3. CASE e.type = "ITEM_ACQUIRED"
  <2>1. after = ItemAcquired(t, p)
    BY <1>3 DEF Apply, SaleEvents
  <2>2. /\ after.offers = [o \in Offers |->
              IF o = p.offer /\ t.offers[o] # None
              THEN [t.offers[o] EXCEPT !.outcome = "CONFIRMED", !.settled = Coins(p.amount)]
              ELSE t.offers[o]]
        /\ after.sessions = [s \in Sessions |->
              IF s = p.session /\ t.sessions[s] # None
              THEN [t.sessions[s] EXCEPT !.state = "CONFIRMED", !.item = p.item]
              ELSE t.sessions[s]]
    BY <1>t, <2>1 DEF ItemAcquired
  <2>4. Coins(p.amount) \in Nat /\ p.item \in Items
    BY <1>0, <1>3, CoinsTyped DEF Payload, Addressed, ItemEvents
  <2> HIDE DEF after, p
  <2>5. ASSUME NEW o \in Offers
        PROVE  /\ after.offers[o] = None <=> t.offers[o] = None
               /\ t.offers[o] # None => /\ after.offers[o].session = t.offers[o].session
                                        /\ after.offers[o].seq = t.offers[o].seq
    <3>1. CASE t.offers[o] = None
      BY <2>2, <3>1
    <3>2. CASE t.offers[o] # None
      <4> DEFINE r == t.offers[o]
                 q == [r EXCEPT !.outcome = "CONFIRMED", !.settled = Coins(p.amount)]
      <4>1. r \in OfferRow
        BY <1>t, <3>2
      <4>2. q # None
        BY <2>4, <4>1, RowsKept
      <4>3. q.session = r.session /\ q.seq = r.seq
        BY <4>1 DEF OfferRow
      <4>4. after.offers[o] = IF o = p.offer THEN q ELSE r
        BY <2>2, <3>2
      <4> HIDE DEF q
      <4> QED BY <3>2, <4>2, <4>3, <4>4
    <3> QED BY <3>1, <3>2
  <2>6. ASSUME NEW s \in Sessions
        PROVE  /\ after.sessions[s] = None <=> t.sessions[s] = None
               /\ t.sessions[s] # None =>
                     after.sessions[s].offerCount = t.sessions[s].offerCount
    <3>1. CASE t.sessions[s] = None
      BY <2>2, <3>1
    <3>2. CASE t.sessions[s] # None
      <4> DEFINE r == t.sessions[s]
                 q == [r EXCEPT !.state = "CONFIRMED", !.item = p.item]
      <4>1. r \in SessionRow
        BY <1>t, <3>2
      <4>2. q # None
        BY <2>4, <4>1, RowsKept
      <4>3. q.offerCount = r.offerCount
        BY <4>1 DEF SessionRow
      <4>4. after.sessions[s] = IF s = p.session THEN q ELSE r
        BY <2>2, <3>2
      <4> HIDE DEF q
      <4> QED BY <3>2, <4>2, <4>3, <4>4
    <3> QED BY <3>1, <3>2
  <2>7. SameChains(t, after)
    BY <2>5, <2>6 DEF SameChains
  <2> QED BY <2>7, Zenon DEF after
<1>4. CASE e.type \in {"OFFER_REJECTED", "OFFER_COUNTERED"}
  <2>1. after = OfferRejected(t, p) \/ after = OfferCountered(t, p)
    BY <1>4 DEF Apply, SaleEvents
  <2>3. after \in Tables
    BY ApplyTyped
  <2> HIDE DEF after, p
  <2>4. CASE after = OfferRejected(t, p)
    <3>1. /\ after.sessions = t.sessions
          /\ after.offers = [t.offers EXCEPT ![p.offer] =
                IF @ = None THEN None ELSE [@ EXCEPT !.outcome = "REJECTED"]]
      BY <1>t, <2>4 DEF OfferRejected
    <3>2. SameChains(t, after)
      BY <1>t, <1>n, <2>3, <3>1 DEF SameChains, OfferRow, Tables
    <3> QED BY <3>2, Zenon DEF after
  <2>5. CASE after = OfferCountered(t, p)
    <3>1. /\ after.sessions = t.sessions
          /\ after.offers = [t.offers EXCEPT ![p.offer] =
                IF @ = None THEN None
                ELSE [@ EXCEPT !.outcome = "COUNTERED", !.counter = p.amount]]
      BY <1>t, <2>5 DEF OfferCountered
    <3>2. p.amount \in Amounts \cup {None}
      BY <1>0 DEF Payload, p
    <3>3. CASE t.offers[p.offer] = None
      <4>1. SameChains(t, after)
        BY <1>t, <3>1, <3>3 DEF SameChains
      <4> QED BY <4>1, Zenon DEF after
    <3>4. CASE t.offers[p.offer] # None
      <4> DEFINE r == t.offers[p.offer]
                 q == [r EXCEPT !.outcome = "COUNTERED", !.counter = p.amount]
      <4>1. r \in OfferRow /\ p.offer \in Offers
        BY <1>t, <1>1, <1>4, <3>4 DEF p
      <4>2. q # None
        BY <3>2, <4>1, RowsKept
      <4>3. q.session = r.session /\ q.seq = r.seq
        BY <4>1 DEF OfferRow
      <4>4. after.offers = [t.offers EXCEPT ![p.offer] = q]
        BY <1>t, <3>1, <3>4
      <4> HIDE DEF q
      <4>5. SameChains(t, after)
        BY <1>t, <3>1, <3>4, <4>2, <4>3, <4>4 DEF SameChains
      <4> QED BY <4>5, Zenon DEF after
    <3> QED BY <3>3, <3>4
  <2> QED BY <2>1, <2>4, <2>5
<1>5. CASE e.type = "SESSION_ABANDONED"
  <2>1. after = SessionAbandoned(t, p)
    BY <1>5 DEF Apply, SaleEvents
  <2>2. /\ after.offers = [o \in Offers |->
              IF o \in OffersOf(t.offers, p.session) /\ t.offers[o].outcome = "PENDING"
              THEN [t.offers[o] EXCEPT !.outcome = "ABANDONED"]
              ELSE t.offers[o]]
        /\ after.sessions = [t.sessions EXCEPT ![p.session] =
              IF @ = None THEN None ELSE [@ EXCEPT !.state = "ABANDONED"]]
    BY <1>t, <2>1 DEF SessionAbandoned
  <2>3. after \in Tables
    BY ApplyTyped
  <2>o. \A o \in OffersOf(t.offers, p.session) : t.offers[o] # None
    BY DEF OffersOf
  <2> HIDE DEF after, p
  <2>4. SameChains(t, after)
    BY <1>t, <1>n, <2>2, <2>3, <2>o DEF SameChains, OfferRow, SessionRow, Tables
  <2> QED BY <2>4, Zenon DEF after
<1> QED
  BY <1>0, <1>2, <1>3, <1>4, <1>5 DEF EventType, SessionEvents

LEMMA ApplyNumbered ==
    ASSUME NEW t \in Tables, Numbered(t), NEW id \in Nat \ {0}, NEW e \in Recordable,
           e.type = "OFFER_MADE" => t.offers[e.payload.offer] = None,
           e.type = "SESSION_STARTED" => ChainOf(t, e.payload.session) = {}
    PROVE  Numbered(Apply(t, id, e))
<1> DEFINE p == e.payload
<1>0. /\ p \in Payload
      /\ e.type \in {"SESSION_STARTED", "OFFER_MADE"} => p.session \in Sessions
      /\ e.type = "OFFER_MADE" => p.offer \in Offers
  BY DEF Recordable, Addressed, Payload
<1>1. CASE e.type = "SESSION_STARTED"
  <2>1. Apply(t, id, e) = SessionStarted(t, p)
    BY <1>1 DEF Apply, SaleEvents
  <2> QED BY <1>0, <1>1, <2>1, SessionStartedNumbered
<1>2. CASE e.type = "OFFER_MADE"
  <2>1. Apply(t, id, e) = OfferMade(t, p)
    BY <1>2 DEF Apply, SaleEvents
  <2> QED BY <1>0, <1>2, <2>1, OfferMadeNumbered
<1>3. CASE e.type \notin {"OFFER_MADE", "SESSION_STARTED"}
  BY <1>3, ApplyChains, SameChainsNumbered
<1> QED
  BY <1>1, <1>2, <1>3

-----------------------------------------------------------------------------
(***************************************************************************)
(* What the tables know, the log has named.                                *)
(***************************************************************************)
NamesItem(log, n, i)    == \E j \in 1..n : log[j].type # Correction /\ log[j].payload.item = i
NamesOffer(log, n, o)   == \E j \in 1..n : log[j].type # Correction /\ log[j].payload.offer = o
NamesSession(log, n, s) == \E j \in 1..n : log[j].type # Correction /\ log[j].payload.session = s

Named(t, log, n) ==
    /\ \A x \in t.exits : NamesItem(log, n, x.item)
    /\ \A o \in Offers : t.offers[o] # None =>
          NamesOffer(log, n, o) /\ NamesSession(log, n, t.offers[o].session)

LEMMA ReplayStepNamed ==
    ASSUME NEW log, WellFormed(log), NEW n \in 0..Len(log), n < Len(log),
           NEW t \in Tables, Named(t, log, n)
    PROVE  Named(ReplayStep(t, log, n + 1), log, n + 1)
<1> DEFINE m == n + 1
<1>0. Len(log) \in Nat /\ m \in 1..Len(log) /\ 1..n \subseteq 1..m /\ m \in Nat \ {0} /\ m \in 1..m
  BY DEF WellFormed
<1> HIDE DEF m
<1>1. Named(t, log, m)
  BY <1>0 DEF Named, NamesItem, NamesOffer, NamesSession
<1>2. CASE IsEffective(log, m)
  <2> DEFINE e == EffectiveEvent(log, m)
             p == e.payload
             after == Apply(t, m, e)
  <2>0. log[m].type # Correction
    BY <1>2 DEF IsEffective
  <2>1. /\ e \in Recordable /\ e.type = log[m].type
        /\ p.session = log[m].payload.session
        /\ p.offer = log[m].payload.offer /\ p.item = log[m].payload.item
    BY <1>0, <2>0, EffectiveEventTyped
  <2> HIDE DEF e
  <2>2. NamesItem(log, m, p.item) /\ NamesOffer(log, m, p.offer) /\ NamesSession(log, m, p.session)
    BY <1>0, <2>0, <2>1 DEF NamesItem, NamesOffer, NamesSession
  <2>3. \A x \in after.exits : NamesItem(log, m, x.item)
    <3>1. ExitsAfter(t.exits, after.exits, m, e)
      BY <1>0, <2>1, ApplyExits
    <3> HIDE DEF after
    <3> QED BY <1>1, <2>2, <3>1 DEF ExitsAfter, Named
  <2>4. ASSUME NEW o \in Offers, after.offers[o] # None
        PROVE  NamesOffer(log, m, o) /\ NamesSession(log, m, after.offers[o].session)
    <3>t. t.offers \in [Offers -> OfferRow \cup {None}]
      BY DEF Tables
    <3>1. CASE e.type = "OFFER_MADE"
      <4>1. after = OfferMade(t, p)
        BY <3>1 DEF Apply, SaleEvents
      <4> DEFINE seqs == {t.offers[q].seq : q \in OffersOf(t.offers, p.session)}
                 row == [session |-> p.session, seq |-> Max({0} \cup seqs) + 1,
                         outcome |-> "PENDING", counter |-> None, settled |-> None]
      <4>2. after.offers = [t.offers EXCEPT ![p.offer] = row] /\ row.session = p.session
        BY <4>1 DEF OfferMade, Tables
      <4> HIDE DEF after, row
      <4> QED BY <1>1, <2>2, <2>4, <3>t, <4>2 DEF Named
    <3>2. CASE e.type = "SESSION_STARTED"
      <4>1. after = SessionStarted(t, p)
        BY <3>2 DEF Apply, SaleEvents
      <4>2. after.offers = t.offers
        BY <4>1 DEF SessionStarted, Tables
      <4> HIDE DEF after
      <4> QED BY <1>1, <2>4, <4>2 DEF Named
    <3>3. CASE e.type \notin {"OFFER_MADE", "SESSION_STARTED"}
      <4>1. SameChains(t, after)
        BY <1>0, <2>1, <3>3, ApplyChains
      <4> HIDE DEF after
      <4> QED BY <1>1, <2>4, <4>1 DEF Named, SameChains
    <3> QED BY <3>1, <3>2, <3>3
  <2>5. ReplayStep(t, log, m) = after
    BY <1>2, Zenon DEF ReplayStep, e
  <2> QED BY <2>3, <2>4, <2>5 DEF Named, m
<1>3. CASE ~ IsEffective(log, m)
  BY <1>1, <1>3 DEF ReplayStep, m
<1> QED
  BY <1>2, <1>3

LEMMA EmptyTablesNumbered == Numbered(EmptyTables)
<1>1. \A s \in Sessions : ChainOf(EmptyTables, s) = {}
  BY DEF ChainOf, OffersOf, EmptyTables
<1>2. \A s \in Sessions : SeqsOf(EmptyTables, s) = {}
  BY <1>1 DEF SeqsOf
<1>3. Cardinality({}) = 0 /\ 1..0 = {}
  BY FS_EmptySet
<1> QED
  BY <1>1, <1>2, <1>3 DEF Numbered, EmptyTables

\* Replaying a log whose new ids are new gives each item the exit of its latest
\* outcome, and each session offers that are numbered without a gap.
LEMMA ReplayMatchedNumbered ==
    ASSUME NEW log, WellFormed(log), FreshIds(log)
    PROVE  Matched(Replay(log)) /\ Numbered(Replay(log)) /\ Named(Replay(log), log, Len(log))
<1> DEFINE T == [n \in Nat |-> {t \in Tables : Matched(t) /\ Numbered(t) /\ Named(t, log, n)}]
<1>0. Len(log) \in Nat
  BY DEF WellFormed
<1>1. EmptyTables \in T[0]
  <2>1. Matched(EmptyTables)
    BY DEF Matched, EmptyTables
  <2>2. Named(EmptyTables, log, 0)
    BY DEF Named, EmptyTables
  <2> QED BY <2>1, <2>2, EmptyTablesNumbered, EmptyTablesTyped
<1>2. ASSUME NEW n \in 0..Len(log), n < Len(log), NEW u \in T[n]
      PROVE  ReplayStep(u, log, n + 1) \in T[n+1]
  <2> DEFINE m == n + 1
             v == ReplayStep(u, log, m)
  <2>0. /\ n \in Nat /\ m \in Nat /\ m \in Nat \ {0} /\ m \in 1..Len(log)
        /\ \A j \in 1..n : j \in 1..Len(log) /\ j < m
    BY <1>0, <1>2
  <2>1. u \in Tables /\ Matched(u) /\ Numbered(u) /\ Named(u, log, n)
    BY <1>2, <2>0
  <2>2. Named(v, log, m)
    BY <1>2, <2>1, ReplayStepNamed
  <2> HIDE DEF m, T
  <2>3. v \in Tables /\ Matched(v) /\ Numbered(v)
    <3>1. CASE IsEffective(log, m)
      <4> DEFINE e == EffectiveEvent(log, m)
      <4>0. log[m].type # Correction
        BY <3>1 DEF IsEffective
      <4>1. /\ e \in Recordable /\ e.type = log[m].type
            /\ e.payload.session = log[m].payload.session
            /\ e.payload.offer = log[m].payload.offer /\ e.payload.item = log[m].payload.item
        BY <2>0, <4>0, EffectiveEventTyped
      <4>2. v = Apply(u, m, e)
        BY <3>1 DEF ReplayStep
      <4> HIDE DEF e, v
      <4>f. ASSUME NEW j \in 1..n, log[j].type # Correction
            PROVE  /\ e.type = "SESSION_STARTED" => log[j].payload.session # e.payload.session
                   /\ e.type = "OFFER_MADE" => log[j].payload.offer # e.payload.offer
                   /\ e.type = "ITEM_ACQUIRED" => log[j].payload.item # e.payload.item
        <5>1. j \in 1..Len(log) /\ j < m /\ m \in 1..Len(log)
          BY <2>0
        <5> QED BY <4>1, <4>f, <5>1 DEF FreshIds
      <4>3. ASSUME e.type = "ITEM_ACQUIRED", NEW x \in u.exits PROVE x.item # e.payload.item
        BY <2>1, <4>3, <4>f DEF Named, NamesItem
      <4>4. ASSUME e.type = "OFFER_MADE" PROVE u.offers[e.payload.offer] = None
        <5>1. e.payload.offer \in Offers
          BY <4>1, <4>4 DEF Recordable, Addressed, Payload
        <5>2. ~ NamesOffer(log, n, e.payload.offer)
          BY <4>4, <4>f DEF NamesOffer
        <5> QED BY <2>1, <5>1, <5>2 DEF Named
      <4>5. ASSUME e.type = "SESSION_STARTED" PROVE ChainOf(u, e.payload.session) = {}
        <5>1. ~ NamesSession(log, n, e.payload.session)
          BY <4>5, <4>f DEF NamesSession
        <5> QED BY <2>1, <5>1 DEF Named, ChainOf, OffersOf
      <4> QED BY <2>0, <2>1, <4>1, <4>2, <4>3, <4>4, <4>5, ApplyTyped, ApplyMatched, ApplyNumbered
    <3>2. CASE ~ IsEffective(log, m)
      BY <2>1, <3>2 DEF ReplayStep
    <3> QED BY <3>1, <3>2
  <2> QED BY <2>0, <2>2, <2>3 DEF T, m
<1>3. ReplayFrom(EmptyTables, log, 0)[Len(log)] \in T[Len(log)]
  <2>1. 0 \in 0..Len(log)
    BY <1>0
  <2> HIDE DEF T
  <2> QED BY <1>0, <1>1, <1>2, <2>1, ReplayInduction
<1> QED
  BY <1>0, <1>3 DEF Replay


-----------------------------------------------------------------------------
(***************************************************************************)
(* What every operation that records one event has in common.              *)
(***************************************************************************)
\* The row that an event makes has an id that neither the log nor the tables know.
MakesFreshRow(e) ==
    /\ e.type = "SESSION_STARTED" => e.payload.session \notin KnownSessions
    /\ e.type = "OFFER_MADE" => e.payload.offer \notin KnownOffers
    /\ e.type = "ITEM_ACQUIRED" => e.payload.item \notin KnownItems

RecordsEvent(e) ==
    /\ phase = "idle"
    /\ MakesFreshRow(e)
    /\ ~ ExitIdTaken(tables, Len(events) + 1, e)
    /\ events' = Append(events, e)
    /\ tables' = Apply(tables, Len(events) + 1, e)
    /\ watermark' = Len(events) + 1
    /\ UNCHANGED <<version, phase, lapses>>

LEMMA RecordedEvent ==
    ASSUME Negotiate \/ Trade
    PROVE  \E e \in Recordable : RecordsEvent(e)
<1> DEFINE Put(type, payload) == [type |-> type, payload |-> payload]
<1>1. ASSUME NEW type, NEW payload, Record(type, payload),
             Put(type, payload) \in Recordable, MakesFreshRow(Put(type, payload))
      PROVE  \E e \in Recordable : RecordsEvent(e)
  <2>1. RecordsEvent(Put(type, payload))
    BY <1>1 DEF Record, RecordsEvent
  <2> HIDE DEF Put
  <2> QED BY <1>1, <2>1
<1>2. CASE \E s \in Sessions : StartSession(s)
  <2> PICK s \in Sessions : StartSession(s)
    BY <1>2
  <2>1. Put("SESSION_STARTED", [NoPayload EXCEPT !.session = s]) \in Recordable
    BY NoneAssumption
       DEF Recordable, Payload, NoPayload, Addressed, EventType, SessionEvents,
           ItemEvents, SaleEvents
  <2>2. MakesFreshRow(Put("SESSION_STARTED", [NoPayload EXCEPT !.session = s]))
    BY DEF MakesFreshRow, NoPayload, StartSession
  <2> QED BY <1>1, <2>1, <2>2 DEF StartSession
<1>3. CASE \E s \in Sessions : AbandonSession(s)
  <2> PICK s \in Sessions : AbandonSession(s)
    BY <1>3
  <2>1. Put("SESSION_ABANDONED", [NoPayload EXCEPT !.session = s]) \in Recordable
    BY NoneAssumption
       DEF Recordable, Payload, NoPayload, Addressed, EventType, SessionEvents,
           ItemEvents, SaleEvents
  <2>2. MakesFreshRow(Put("SESSION_ABANDONED", [NoPayload EXCEPT !.session = s]))
    BY DEF MakesFreshRow, NoPayload, AbandonSession
  <2> QED BY <1>1, <2>1, <2>2 DEF AbandonSession
<1>4. CASE \E s \in Sessions, o \in Offers : RecordOffer(s, o)
  <2> PICK s \in Sessions, o \in Offers : RecordOffer(s, o)
    BY <1>4
  <2>1. Put("OFFER_MADE", [NoPayload EXCEPT !.session = s, !.offer = o]) \in Recordable
    BY NoneAssumption
       DEF Recordable, Payload, NoPayload, Addressed, EventType, SessionEvents,
           ItemEvents, SaleEvents
  <2>2. MakesFreshRow(Put("OFFER_MADE", [NoPayload EXCEPT !.session = s, !.offer = o]))
    BY DEF MakesFreshRow, NoPayload, RecordOffer
  <2> QED BY <1>1, <2>1, <2>2 DEF RecordOffer
<1>5. CASE \E o \in Offers : RejectOffer(o)
  <2> PICK o \in Offers : RejectOffer(o)
    BY <1>5
  <2>1. Put("OFFER_REJECTED", [NoPayload EXCEPT !.offer = o]) \in Recordable
    BY NoneAssumption
       DEF Recordable, Payload, NoPayload, Addressed, EventType, SessionEvents,
           ItemEvents, SaleEvents
  <2>2. MakesFreshRow(Put("OFFER_REJECTED", [NoPayload EXCEPT !.offer = o]))
    BY DEF MakesFreshRow, NoPayload, RejectOffer
  <2> QED BY <1>1, <2>1, <2>2 DEF RejectOffer
<1>6. CASE \E o \in Offers, price \in Amounts : CounterOffer(o, price)
  <2> PICK o \in Offers, price \in Amounts : CounterOffer(o, price)
    BY <1>6
  <2>1. Put("OFFER_COUNTERED", [NoPayload EXCEPT !.offer = o, !.amount = price]) \in Recordable
    BY NoneAssumption
       DEF Recordable, Payload, NoPayload, Addressed, EventType, SessionEvents,
           ItemEvents, SaleEvents
  <2>2. MakesFreshRow(Put("OFFER_COUNTERED", [NoPayload EXCEPT !.offer = o, !.amount = price]))
    BY DEF MakesFreshRow, NoPayload, CounterOffer
  <2> QED BY <1>1, <2>1, <2>2 DEF CounterOffer
<1>7. CASE \E i \in Items, s \in Sessions \cup {None}, o \in Offers \cup {None},
               cost \in Amounts, est \in Estimates \cup {None} : AcquireItem(i, s, o, cost, est)
  <2> PICK i \in Items, s \in Sessions \cup {None}, o \in Offers \cup {None},
           cost \in Amounts, est \in Estimates \cup {None} : AcquireItem(i, s, o, cost, est)
    BY <1>7
  <2>1. Put("ITEM_ACQUIRED", [NoPayload EXCEPT !.item = i, !.session = s, !.offer = o,
                                               !.amount = cost, !.est = est]) \in Recordable
    BY NoneAssumption, LedgerAssumption
       DEF Recordable, Payload, NoPayload, Addressed, EventType, SessionEvents,
           ItemEvents, SaleEvents
  <2>2. MakesFreshRow(Put("ITEM_ACQUIRED", [NoPayload EXCEPT !.item = i, !.session = s,
                                                            !.offer = o, !.amount = cost,
                                                            !.est = est]))
    BY DEF MakesFreshRow, NoPayload, AcquireItem
  <2> QED BY <1>1, <2>1, <2>2 DEF AcquireItem
<1>8. CASE \E i \in Items, price \in Amounts, taxed \in BOOLEAN : SellItem(i, price, taxed)
  <2> PICK i \in Items, price \in Amounts, taxed \in BOOLEAN : SellItem(i, price, taxed)
    BY <1>8
  <2> DEFINE fee == IF taxed THEN ClaimTax[price] ELSE 0
  <2>1. fee \in Nat
    BY ClaimTaxAssumption
  <2> HIDE DEF fee
  <2>2. Put("ITEM_SOLD", [NoPayload EXCEPT !.item = i, !.amount = price, !.taxed = taxed,
                                           !.fee = fee]) \in Recordable
    BY <2>1, NoneAssumption
       DEF Recordable, Payload, NoPayload, Addressed, EventType, SessionEvents,
           ItemEvents, SaleEvents
  <2>3. MakesFreshRow(Put("ITEM_SOLD", [NoPayload EXCEPT !.item = i, !.amount = price,
                                                        !.taxed = taxed, !.fee = fee]))
    BY DEF MakesFreshRow, NoPayload, SellItem
  <2> QED BY <1>1, <2>2, <2>3 DEF SellItem, fee
<1>9. CASE \E i \in Items, value \in Amounts \cup {None} : KeepItem(i, value)
  <2> PICK i \in Items, value \in Amounts \cup {None} : KeepItem(i, value)
    BY <1>9
  <2>1. Put("ITEM_KEPT", [NoPayload EXCEPT !.item = i, !.amount = value]) \in Recordable
    BY NoneAssumption
       DEF Recordable, Payload, NoPayload, Addressed, EventType, SessionEvents,
           ItemEvents, SaleEvents
  <2>2. MakesFreshRow(Put("ITEM_KEPT", [NoPayload EXCEPT !.item = i, !.amount = value]))
    BY DEF MakesFreshRow, NoPayload, KeepItem
  <2> QED BY <1>1, <2>1, <2>2 DEF KeepItem
<1>10. CASE \E i \in Items : UnwindExit(i)
  <2> PICK i \in Items : UnwindExit(i)
    BY <1>10
  <2>1. Put("EXIT_UNWOUND", [NoPayload EXCEPT !.item = i]) \in Recordable
    BY NoneAssumption
       DEF Recordable, Payload, NoPayload, Addressed, EventType, SessionEvents,
           ItemEvents, SaleEvents
  <2>2. MakesFreshRow(Put("EXIT_UNWOUND", [NoPayload EXCEPT !.item = i]))
    BY DEF MakesFreshRow, NoPayload, UnwindExit
  <2> QED BY <1>1, <2>1, <2>2 DEF UnwindExit
<1>11. CASE \E i \in Items \cup {None}, est \in Estimates : RecordValuation(i, est)
  <2> PICK i \in Items \cup {None}, est \in Estimates : RecordValuation(i, est)
    BY <1>11
  <2>1. Put("VALUATION_RECORDED", [NoPayload EXCEPT !.item = i, !.est = est]) \in Recordable
    BY NoneAssumption, LedgerAssumption
       DEF Recordable, Payload, NoPayload, Addressed, EventType, SessionEvents,
           ItemEvents, SaleEvents
  <2>2. MakesFreshRow(Put("VALUATION_RECORDED", [NoPayload EXCEPT !.item = i, !.est = est]))
    BY DEF MakesFreshRow, NoPayload, RecordValuation
  <2> QED BY <1>1, <2>1, <2>2 DEF RecordValuation
<1> QED
  BY <1>2, <1>3, <1>4, <1>5, <1>6, <1>7, <1>8, <1>9, <1>10, <1>11 DEF Negotiate, Trade

-----------------------------------------------------------------------------
(***************************************************************************)
(* The log.                                                                *)
(***************************************************************************)
LEMMA EmptyLog == WellFormed(<<>>) /\ Len(<<>>) = 0
BY EmptySeq DEF WellFormed

LEMMA LegacyLog == ASSUME NEW log \in LegacyLogs PROVE WellFormed(log) /\ Len(log) \in Nat
<1>1. log \in Seq(Recordable)
  BY LedgerAssumption DEF Recordable
<1>2. Len(log) \in Nat /\ \A i \in 1..Len(log) : log[i] \in Recordable
  BY <1>1
<1>3. log \in Seq(Event)
  BY <1>1, RecordableIsEvent, SeqMonotonic
<1> QED
  BY <1>2, <1>3, RecordableIsEvent DEF WellFormed

LEMMA AmendedLog ==
    ASSUME WellFormed(events), Amend
    PROVE  WellFormed(events') /\ phase' \in Windows
<1>0. events \in Seq(Event) /\ Len(events) \in Nat
  BY DEF WellFormed
<1>1. ASSUME NEW target, NEW void \in BOOLEAN, NEW patch \in Patch,
             CorrectLog(target, void, patch)
      PROVE  WellFormed(events') /\ phase' \in Windows
  <2> DEFINE e == [type |-> Correction, target |-> target, void |-> void, patch |-> patch]
  <2>1. events' = Append(events, e) /\ Correctable(events, target) /\ phase' = "correcting"
    BY <1>1 DEF CorrectLog
  <2>2. e \in Event /\ e.type = Correction /\ e.target = target
    BY <1>0, <2>1 DEF Event, Correctable
  <2> HIDE DEF e
  <2> QED BY <1>0, <2>1, <2>2, AppendEvent DEF Windows
<1>2. CASE ClearLog
  BY <1>2, EmptyLog DEF ClearLog, Windows
<1>3. NoPatch \in Patch /\ Patches \subseteq Patch
  BY EmptyPatch, LedgerAssumption
<1> QED
  BY <1>1, <1>2, <1>3 DEF Amend

-----------------------------------------------------------------------------
(***************************************************************************)
(* Agreement. It is not inductive: it says nothing of a stopped process,   *)
(* and so nothing of the tables the next start finds; and it says nothing  *)
(* of the watermark, on which catching up relies. The invariant adds both. *)
(***************************************************************************)
UpToDate == tables = Replay(events) /\ watermark = Len(events)

LedgerInv ==
    /\ WellFormed(events)
    /\ watermark \in Nat
    /\ phase \in {"down", "idle"} \cup Windows
    /\ phase # "down" => version = PROJECTION_VERSION
    /\ phase \notin Windows /\ lapses = {} /\ version = PROJECTION_VERSION => UpToDate

LEMMA LedgerInvInit == Init => LedgerInv
<1> SUFFICES ASSUME Init PROVE LedgerInv
  OBVIOUS
<1>1. WellFormed(events) /\ watermark \in Nat
  BY EmptyLog, LegacyLog DEF Init
<1> QED
  BY <1>1 DEF Init, LedgerInv, Windows, PROJECTION_VERSION

LEMMA LedgerInvNext == LedgerInv /\ [Next]_vars => LedgerInv'
<1> SUFFICES ASSUME LedgerInv, [Next]_vars PROVE LedgerInv'
  OBVIOUS
<1>0. WellFormed(events) /\ events \in Seq(Event) /\ Len(events) \in Nat
  BY DEF LedgerInv, WellFormed
<1>r. ASSUME RebuildTables, UNCHANGED events, phase' = "idle" PROVE LedgerInv'
  BY <1>0, <1>r DEF LedgerInv, RebuildTables, UpToDate, Windows
<1>1. CASE Open
  <2>1. CASE RebuildTables
    BY <1>1, <1>r, <2>1 DEF Open
  <2>2. CASE version = PROJECTION_VERSION /\ CatchUpTables
    <3>1. lapses = {} => tables' = tables
      BY <1>1, <1>0, <2>2 DEF Open, CatchUpTables, CatchUp, LedgerInv, UpToDate, Windows
    <3>2. UNCHANGED <<events, version, lapses>> /\ phase' = "idle" /\ phase = "down"
          /\ watermark' = Len(events)
      BY <1>1, <2>2 DEF Open, CatchUpTables
    <3> QED BY <1>0, <2>2, <3>1, <3>2 DEF LedgerInv, UpToDate, Windows
  <2> QED BY <1>1, <2>1, <2>2 DEF Open
<1>2. CASE Stop
  BY <1>0, <1>2, LedgerAssumption DEF Stop, LedgerInv, UpToDate, Windows
<1>3. CASE Negotiate \/ Trade
  <2>1. PICK e \in Recordable : RecordsEvent(e)
    BY <1>3, RecordedEvent
  <2>2. e \in Event /\ e.type # Correction /\ Addressed(e)
    BY RecordableIsEvent
  <2>3. WellFormed(events') /\ Len(events') = Len(events) + 1
    BY <1>0, <2>1, <2>2, AppendEvent DEF RecordsEvent
  <2>4. UpToDate => UpToDate'
    BY <1>0, <2>1, <2>2, <2>3, ReplayOfAppend DEF UpToDate, RecordsEvent
  <2> QED BY <1>0, <2>1, <2>3, <2>4 DEF LedgerInv, RecordsEvent
<1>4. CASE Amend
  <2>1. WellFormed(events') /\ phase' \in Windows
    BY <1>0, <1>4, AmendedLog
  <2>2. UNCHANGED <<tables, watermark, version, lapses>> /\ phase = "idle"
    BY <1>4 DEF Amend, CorrectLog, ClearLog
  <2> QED BY <2>1, <2>2 DEF LedgerInv, Windows
<1>5. CASE Rebuild \/ RebuildAnew
  BY <1>5, <1>r DEF Rebuild, RebuildAnew
<1>6. CASE RebuildFails
  BY <1>0, <1>6, LedgerAssumption DEF RebuildFails, LedgerInv, UpToDate, Windows
<1>7. CASE UNCHANGED vars
  BY <1>7 DEF vars, LedgerInv, UpToDate
<1> QED
  BY <1>1, <1>2, <1>3, <1>4, <1>5, <1>6, <1>7 DEF Next

\* "The log and the derived tables can never disagree" (store.py), for every
\* instance: while no fault has struck a window, what the application reads is a
\* full replay of the log with every correction applied.
THEOREM AgreementHolds == Spec => []Agreement
<1>1. LedgerInv => Agreement
  BY DEF LedgerInv, Agreement, UpToDate, Windows
<1> QED
  BY <1>1, LedgerInvInit, LedgerInvNext, PTL DEF Spec

-----------------------------------------------------------------------------
(***************************************************************************)
(* The type invariant is inductive: it holds whatever the faults.          *)
(***************************************************************************)
LEMMA TypeOKNext == TypeOK /\ [Next]_vars => TypeOK'
<1> SUFFICES ASSUME TypeOK, [Next]_vars PROVE TypeOK'
  OBVIOUS
<1>0. WellFormed(events) /\ events \in Seq(Event) /\ Len(events) \in Nat
  BY DEF TypeOK, WellFormed
<1>r. ASSUME RebuildTables, UNCHANGED events, phase' \in {"down", "idle"} \cup Windows
      PROVE  TypeOK'
  BY <1>0, <1>r, ReplayTyped DEF TypeOK, RebuildTables
<1>1. CASE Open
  <2>1. ASSUME CatchUpTables PROVE TypeOK'
    <3>1. CatchUp(tables, events, watermark) \in Tables
      BY <1>0, ReplayTyped DEF TypeOK
    <3> QED BY <1>0, <1>1, <2>1, <3>1 DEF TypeOK, Open, CatchUpTables
  <2> QED BY <1>1, <1>r, <2>1 DEF Open
<1>2. CASE Stop
  BY <1>2, LedgerAssumption DEF Stop, TypeOK, Windows
<1>3. CASE Negotiate \/ Trade
  <2>2. PICK e \in Recordable : RecordsEvent(e)
    BY <1>3, RecordedEvent
  <2>3. WellFormed(events') /\ Len(events) + 1 \in Nat \ {0}
    BY <1>0, <2>2, AppendEvent, RecordableIsEvent DEF RecordsEvent
  <2>4. tables' \in Tables
    BY <2>2, <2>3, ApplyTyped DEF TypeOK, RecordsEvent
  <2> QED BY <1>0, <2>2, <2>3, <2>4 DEF TypeOK, RecordsEvent
<1>4. CASE Amend
  <2>1. WellFormed(events') /\ phase' \in Windows
    BY <1>0, <1>4, AmendedLog
  <2>2. UNCHANGED <<tables, watermark, version, lapses>>
    BY <1>4 DEF Amend, CorrectLog, ClearLog
  <2> QED BY <2>1, <2>2 DEF TypeOK
<1>5. CASE Rebuild \/ RebuildAnew
  BY <1>5, <1>r DEF Rebuild, RebuildAnew
<1>6. CASE RebuildFails
  BY <1>6, LedgerAssumption DEF RebuildFails, TypeOK, Windows
<1>7. CASE UNCHANGED vars
  BY <1>7 DEF vars, TypeOK
<1> QED
  BY <1>1, <1>2, <1>3, <1>4, <1>5, <1>6, <1>7 DEF Next

\* Every reachable log is well formed and every derived row has its type: a
\* correction never dangles, and no sequence of events makes a handler fail.
THEOREM TypeOKHolds == Spec => []TypeOK
<1>1. Init => TypeOK
  BY EmptyLog, LegacyLog, EmptyTablesTyped DEF Init, TypeOK
<1> QED
  BY <1>1, TypeOKNext, PTL DEF Spec

-----------------------------------------------------------------------------
(***************************************************************************)
(* The exits.                                                              *)
(***************************************************************************)
\* What a step may do to the tables: the ways to arrive at new ones.
LEMMA TablesNext ==
    ASSUME TypeOK, Next
    PROVE  \/ tables' = Replay(events) /\ UNCHANGED events
           \/ tables' = CatchUp(tables, events, watermark) /\ UNCHANGED events
           \/ \E e \in Recordable : RecordsEvent(e)
           \/ UNCHANGED tables
<1>1. CASE Negotiate \/ Trade
  BY <1>1, RecordedEvent
<1>2. CASE Open \/ Stop \/ Amend \/ Rebuild \/ RebuildFails \/ RebuildAnew
  BY <1>2 DEF Open, Stop, Amend, CorrectLog, ClearLog, Rebuild, RebuildFails, RebuildAnew,
              RebuildTables, CatchUpTables
<1> QED
  BY <1>1, <1>2 DEF Next

LEMMA OneExitNext == TypeOK /\ OneExitPerItem /\ [Next]_vars => OneExitPerItem'
<1> SUFFICES ASSUME TypeOK, OneExitPerItem, [Next]_vars PROVE OneExitPerItem'
  OBVIOUS
<1>0. /\ WellFormed(events) /\ Len(events) \in Nat /\ tables \in Tables
      /\ watermark \in Nat /\ OneExit(tables)
  BY DEF TypeOK, WellFormed, OneExitPerItem, OneExit
<1>1. CASE tables' = Replay(events)
  BY <1>0, <1>1, ReplayOneExit DEF OneExitPerItem, OneExit
<1>2. CASE tables' = CatchUp(tables, events, watermark)
  <2>1. OneExit(CatchUp(tables, events, watermark))
    BY <1>0, ReplayOneExit
  <2> QED BY <1>2, <2>1 DEF OneExitPerItem, OneExit
<1>3. CASE \E e \in Recordable : RecordsEvent(e)
  <2>1. PICK e \in Recordable : tables' = Apply(tables, Len(events) + 1, e)
    BY <1>3 DEF RecordsEvent
  <2>2. OneExit(Apply(tables, Len(events) + 1, e))
    BY <1>0, ApplyOneExit
  <2> QED BY <2>1, <2>2 DEF OneExitPerItem, OneExit
<1>4. CASE UNCHANGED tables
  BY <1>4 DEF OneExitPerItem
<1> QED
  BY <1>1, <1>2, <1>3, <1>4, TablesNext DEF vars

\* "One exit per item" (_record_exit): no order of outcomes, corrections, faults
\* and restarts gives an item two exits, so no profit is counted twice.
THEOREM OneExitPerItemHolds == Spec => []OneExitPerItem
<1>1. Init => OneExitPerItem
  BY DEF Init, OneExitPerItem, EmptyTables
<1> QED
  BY <1>1, TypeOKHolds, OneExitNext, PTL DEF Spec

\* ExitsTraceable is not inductive: the tables matter while the process is down
\* and while a correction waits for its rebuild, too.
ExitsInv == phase # "clearing" /\ "clearing" \notin lapses => Traceable(tables, events)

LEMMA TraceableInLongerLog ==
    ASSUME NEW log, WellFormed(log), NEW e, NEW t, Traceable(t, log)
    PROVE  Traceable(t, Append(log, e))
<1>1. log \in Seq(Event) /\ Len(log) \in Nat
  BY DEF WellFormed
<1>2. /\ Len(Append(log, e)) = Len(log) + 1
      /\ \A i \in 1..Len(log) : Append(log, e)[i] = log[i]
  BY <1>1
<1> QED
  BY <1>1, <1>2 DEF Traceable

LEMMA ExitsInvNext == TypeOK /\ ExitsInv /\ [Next]_vars => ExitsInv'
<1> SUFFICES ASSUME TypeOK, ExitsInv, [Next]_vars, phase' # "clearing", "clearing" \notin lapses'
             PROVE  Traceable(tables, events)'
  BY DEF ExitsInv
<1>0. /\ WellFormed(events) /\ events \in Seq(Event) /\ Len(events) \in Nat
      /\ tables \in Tables /\ watermark \in Nat
  BY DEF TypeOK, WellFormed
<1>1. CASE tables' = Replay(events) /\ UNCHANGED events
  BY <1>0, <1>1, ReplayTraceable DEF Traceable
<1>2. CASE phase # "clearing" /\ "clearing" \notin lapses
  <2>0. Traceable(tables, events)
    BY <1>2 DEF ExitsInv
  <2>1. CASE tables' = CatchUp(tables, events, watermark) /\ UNCHANGED events
    <3>1. Traceable(CatchUp(tables, events, watermark), events)
      BY <1>0, <2>0, ReplayTraceable
    <3> QED BY <2>1, <3>1 DEF Traceable
  <2>2. CASE \E e \in Recordable : RecordsEvent(e)
    <3>1. PICK e \in Recordable : RecordsEvent(e)
      BY <2>2
    <3> DEFINE id == Len(events) + 1
    <3>2. /\ events' = Append(events, e) /\ Len(events') = id /\ events'[id] = e
          /\ tables' = Apply(tables, id, e)
      BY <1>0, <3>1 DEF RecordsEvent
    <3>3. Traceable(tables, events')
      BY <1>0, <2>0, <3>2, TraceableInLongerLog
    <3>4. ExitsAfter(tables.exits, tables'.exits, id, e)
      BY <1>0, <3>2, ApplyExits
    <3>5. id \in 1..Len(events')
      BY <1>0, <3>2
    <3> HIDE DEF id
    <3> QED BY <3>2, <3>3, <3>4, <3>5 DEF Traceable, ExitsAfter
  <2>3. CASE Amend
    <3>1. UNCHANGED tables
      BY <2>3 DEF Amend, CorrectLog, ClearLog
    <3>2. \E e : events' = Append(events, e)
      BY <2>3 DEF Amend, CorrectLog, ClearLog
    <3>3. Traceable(tables, events')
      BY <1>0, <2>0, <3>2, TraceableInLongerLog
    <3> QED BY <3>1, <3>3 DEF Traceable
  <2>4. CASE UNCHANGED <<tables, events>>
    BY <2>0, <2>4 DEF Traceable
  <2>5. CASE Open \/ Stop \/ Rebuild \/ RebuildAnew \/ RebuildFails \/ UNCHANGED vars
    BY <1>1, <2>1, <2>4, <2>5
       DEF Open, Stop, Rebuild, RebuildAnew, RebuildFails, RebuildTables, CatchUpTables, vars
  <2>6. CASE Negotiate \/ Trade
    BY <2>2, <2>6, RecordedEvent
  <2> QED BY <2>3, <2>5, <2>6 DEF Next
<1>3. CASE phase = "clearing" \/ "clearing" \in lapses
  <2>1. tables' = Replay(events) /\ UNCHANGED events
    <3>1. CASE phase = "clearing"
      <4>1. ~ Open /\ ~ Amend /\ ~ (Negotiate \/ Trade)
        BY <3>1, RecordedEvent DEF Open, Amend, CorrectLog, ClearLog, RecordsEvent
      <4>2. ~ Stop /\ ~ RebuildFails /\ ~ RebuildAnew /\ ~ UNCHANGED vars
        BY <3>1 DEF Stop, RebuildFails, RebuildAnew, vars, Windows
      <4> QED BY <4>1, <4>2 DEF Next, Rebuild, RebuildTables
    <3>2. CASE "clearing" \in lapses
      <4>1. lapses' # lapses
        BY <3>2
      <4>2. ~ Amend /\ ~ (Negotiate \/ Trade) /\ ~ UNCHANGED vars
        BY <4>1, RecordedEvent DEF Amend, CorrectLog, ClearLog, RecordsEvent, vars
      <4>3. ~ Stop /\ ~ RebuildFails
        BY <3>2 DEF Stop, RebuildFails
      <4> QED BY <4>1, <4>2, <4>3 DEF Next, Open, Rebuild, RebuildAnew, RebuildTables, CatchUpTables
    <3> QED BY <1>3, <3>1, <3>2
  <2> QED BY <1>1, <2>1
<1> QED
  BY <1>2, <1>3

\* Every exit the application shows was written by an event its log still holds,
\* so the id of the next event is free and its outcome can be recorded, as long
\* as no fault has struck clear_history() since the last rebuild.
THEOREM ExitsTraceableHolds == Spec => []ExitsTraceable
<1>1. Init => ExitsInv
  BY DEF Init, ExitsInv, Traceable, EmptyTables
<1>2. ExitsInv => ExitsTraceable
  BY DEF ExitsInv, ExitsTraceable, Traceable, ExitEvents
<1> QED
  BY <1>1, <1>2, TypeOKHolds, ExitsInvNext, PTL DEF Spec

-----------------------------------------------------------------------------
(***************************************************************************)
(* The watermark.                                                          *)
(***************************************************************************)
LEMMA BehindNext == TypeOK /\ BehindIsCorrections /\ [Next]_vars => BehindIsCorrections'
<1> SUFFICES ASSUME TypeOK, BehindIsCorrections, [Next]_vars PROVE BehindIsCorrections'
  OBVIOUS
<1>0. events \in Seq(Event) /\ Len(events) \in Nat /\ watermark \in Nat
  BY DEF TypeOK, WellFormed
<1>1. CASE Negotiate \/ Trade
  <2>1. PICK e \in Recordable : RecordsEvent(e)
    BY <1>1, RecordedEvent
  <2>2. Len(events') = Len(events) + 1 /\ watermark' = Len(events) + 1
    BY <1>0, <2>1 DEF RecordsEvent
  <2>3. \A i \in 1..Len(events') : ~ i > watermark'
    BY <1>0, <2>2
  <2> QED BY <2>3 DEF BehindIsCorrections
<1>2. CASE Amend
  <2>1. UNCHANGED watermark
    BY <1>2 DEF Amend, CorrectLog, ClearLog
  <2>2. CASE ClearLog
    BY <2>2, EmptyLog DEF ClearLog, BehindIsCorrections
  <2>3. CASE \E e : e.type = Correction /\ events' = Append(events, e)
    <3>1. PICK e : e.type = Correction /\ events' = Append(events, e)
      BY <2>3
    <3>2. /\ Len(events') = Len(events) + 1 /\ events'[Len(events) + 1] = e
          /\ \A i \in 1..Len(events) : events'[i] = events[i]
      BY <1>0, <3>1
    <3> QED BY <1>0, <2>1, <3>1, <3>2 DEF BehindIsCorrections
  <2>4. ASSUME NEW target, NEW void, NEW patch, CorrectLog(target, void, patch)
        PROVE  \E e : e.type = Correction /\ events' = Append(events, e)
    <3> DEFINE e == [type |-> Correction, target |-> target, void |-> void, patch |-> patch]
    <3>1. e.type = Correction /\ events' = Append(events, e)
      BY <2>4 DEF CorrectLog
    <3> HIDE DEF e
    <3> QED BY <3>1
  <2> QED BY <1>2, <2>2, <2>3, <2>4 DEF Amend
<1>3. CASE Open \/ Stop \/ Rebuild \/ RebuildAnew \/ RebuildFails \/ UNCHANGED vars
  <2>1. UNCHANGED events /\ (UNCHANGED watermark \/ watermark' = Len(events))
    BY <1>3 DEF Open, Stop, Rebuild, RebuildAnew, RebuildFails, RebuildTables, CatchUpTables, vars
  <2> QED BY <1>0, <2>1 DEF BehindIsCorrections
<1> QED
  BY <1>1, <1>2, <1>3 DEF Next

\* Whatever the tables have not seen is a correction, so catch_up() never has
\* anything to apply: a correction that missed its rebuild stays unapplied
\* through every restart, until some other rebuild.
THEOREM BehindIsCorrectionsHolds == Spec => []BehindIsCorrections
<1>1. Init => BehindIsCorrections
  BY EmptyLog, LegacyLog DEF Init, BehindIsCorrections
<1> QED
  BY <1>1, TypeOKHolds, BehindNext, PTL DEF Spec

-----------------------------------------------------------------------------
(***************************************************************************)
(* The corrections of the log.                                             *)
(***************************************************************************)
LEMMA CorrectionsOfEvents == TypeOK => LastCorrectionWins
<1> SUFFICES ASSUME TypeOK, NEW i \in 1..Len(events), events[i].type # Correction
             PROVE  LET about   == {c \in 1..Len(events) :
                                       events[c].type = Correction /\ events[c].target = i}
                        voids   == {c \in about : events[c].void}
                        live(k) == {c \in about : /\ ~ events[c].void
                                                  /\ k \in DOMAIN events[c].patch
                                                  /\ \A v \in voids : v < c}
                    IN /\ IsEffective(events, i) <=> ~ \E v \in voids : \A c \in about : c <= v
                       /\ \A k \in PatchKeys : IsEffective(events, i) =>
                             EffectiveEvent(events, i).payload[k] =
                                 IF live(k) = {} THEN events[i].payload[k]
                                 ELSE events[Max(live(k))].patch[k]
  BY DEF LastCorrectionWins
<1>1. WellFormed(events)
  BY DEF TypeOK
<1>2. /\ IsEffective(events, i) <=> ~ IsVoid(events, i, Len(events))
      /\ \A k \in PatchKeys :
            EffectiveEvent(events, i).payload[k] =
                IF Live(events, i, Len(events), k) = {} THEN events[i].payload[k]
                ELSE events[Max(Live(events, i, Len(events), k))].patch[k]
  BY <1>1, CorrectionsWin
<1> QED BY <1>2, Zenon DEF IsVoid, Live, Voids, About

\* However the corrections of an event interleave with each other and with the rest
\* of the log: it is void exactly when the last correction about it says so, and a
\* patched figure is that of the last patch of it that no void came after.
THEOREM LastCorrectionWinsHolds == Spec => []LastCorrectionWins
BY CorrectionsOfEvents, TypeOKHolds, PTL

-----------------------------------------------------------------------------
(***************************************************************************)
(* Fresh ids, and what rests on them: the exit of each item and the        *)
(* numbers of each chain.                                                  *)
(***************************************************************************)
LEMMA FreshIdsNext == TypeOK /\ FreshIds(events) /\ [Next]_vars => FreshIds(events)'
<1> SUFFICES ASSUME TypeOK, FreshIds(events), [Next]_vars PROVE FreshIds(events)'
  OBVIOUS
<1>0. events \in Seq(Event) /\ Len(events) \in Nat
  BY DEF TypeOK, WellFormed
<1>a. ASSUME NEW e, events' = Append(events, e),
             e.type = "SESSION_STARTED" => e.payload.session \notin Mentioned("session"),
             e.type = "OFFER_MADE" => e.payload.offer \notin Mentioned("offer"),
             e.type = "ITEM_ACQUIRED" => e.payload.item \notin Mentioned("item")
      PROVE  FreshIds(events)'
  <2> DEFINE id == Len(events) + 1
  <2>1. /\ Len(events') = id /\ events'[id] = e
        /\ \A i \in 1..Len(events) : events'[i] = events[i]
    BY <1>0, <1>a
  <2>2. ASSUME NEW n \in 1..Len(events'), NEW j \in 1..Len(events'), j < n,
               events'[j].type # Correction
        PROVE  /\ events'[n].type = "SESSION_STARTED" =>
                      events'[j].payload.session # events'[n].payload.session
               /\ events'[n].type = "OFFER_MADE" =>
                      events'[j].payload.offer # events'[n].payload.offer
               /\ events'[n].type = "ITEM_ACQUIRED" =>
                      events'[j].payload.item # events'[n].payload.item
    <3>1. j \in 1..Len(events) /\ events'[j] = events[j]
      BY <1>0, <2>1, <2>2
    <3>2. CASE n = id
      <4>1. events'[n] = e
        BY <2>1, <3>2
      <4>2. events[j].type # Correction
        BY <2>2, <3>1
      <4> QED BY <1>a, <3>1, <4>1, <4>2 DEF Mentioned
    <3>3. CASE n # id
      <4>1. n \in 1..Len(events) /\ events'[n] = events[n]
        BY <1>0, <2>1, <3>3
      <4> QED BY <2>2, <3>1, <4>1 DEF FreshIds
    <3> QED BY <3>2, <3>3
  <2> QED BY <2>2 DEF FreshIds
<1>1. CASE Negotiate \/ Trade
  <2>1. PICK e \in Recordable : RecordsEvent(e)
    BY <1>1, RecordedEvent
  <2>2. /\ e.type = "SESSION_STARTED" => e.payload.session \in Sessions
        /\ e.type = "OFFER_MADE" => e.payload.offer \in Offers
        /\ e.type = "ITEM_ACQUIRED" => e.payload.item \in Items
    BY DEF Recordable, Addressed, Payload, ItemEvents
  <2> QED BY <1>a, <2>1, <2>2 DEF RecordsEvent, MakesFreshRow, KnownSessions,
                                      KnownOffers, KnownItems
<1>2. CASE Amend
  <2>1. CASE ClearLog
    BY <2>1, EmptyLog DEF ClearLog, FreshIds
  <2>2. ASSUME NEW target, NEW void, NEW patch, CorrectLog(target, void, patch)
        PROVE  FreshIds(events)'
    <3> DEFINE e == [type |-> Correction, target |-> target, void |-> void, patch |-> patch]
    <3>1. events' = Append(events, e) /\ e.type = "MANUAL_CORRECTION"
      BY <2>2 DEF CorrectLog, Correction
    <3> HIDE DEF e
    <3> QED BY <1>a, <3>1
  <2> QED BY <1>2, <2>1, <2>2 DEF Amend
<1>3. CASE UNCHANGED events
  BY <1>3 DEF FreshIds
<1> QED
  BY <1>1, <1>2, <1>3
     DEF Next, Open, Stop, Rebuild, RebuildAnew, RebuildFails, vars

\* ExitsMatchItems and ChainNumbered are inductive for every way to arrive at new
\* tables but one: catching up relies on there being nothing to catch up on.
LEMMA MatchedNumberedNext ==
    TypeOK /\ BehindIsCorrections /\ FreshIds(events) /\ Matched(tables) /\ Numbered(tables)
      /\ [Next]_vars => (Matched(tables) /\ Numbered(tables))'
<1> SUFFICES ASSUME TypeOK, BehindIsCorrections, FreshIds(events),
                    Matched(tables), Numbered(tables), [Next]_vars
             PROVE  (Matched(tables) /\ Numbered(tables))'
  OBVIOUS
<1>0. WellFormed(events) /\ Len(events) \in Nat /\ tables \in Tables /\ watermark \in Nat
  BY DEF TypeOK, WellFormed
<1>1. CASE tables' = Replay(events)
  <2>1. Matched(Replay(events)) /\ Numbered(Replay(events))
    BY <1>0, ReplayMatchedNumbered
  <2> QED BY <1>1, <2>1 DEF Matched, Numbered, SeqsOf, ChainOf
<1>2. CASE tables' = CatchUp(tables, events, watermark)
  <2>1. CatchUp(tables, events, watermark) = tables
    BY <1>0, CatchUpIdle DEF BehindIsCorrections
  <2> QED BY <1>2, <2>1 DEF Matched, Numbered, SeqsOf, ChainOf
<1>3. CASE \E e \in Recordable : RecordsEvent(e)
  <2>1. PICK e \in Recordable : RecordsEvent(e)
    BY <1>3
  <2> DEFINE id == Len(events) + 1
  <2>2. tables' = Apply(tables, id, e) /\ MakesFreshRow(e) /\ id \in Nat \ {0}
    BY <1>0, <2>1 DEF RecordsEvent
  <2> HIDE DEF id
  <2>3. /\ e.type = "SESSION_STARTED" => e.payload.session \in Sessions
        /\ e.type = "OFFER_MADE" => e.payload.offer \in Offers
        /\ e.type = "ITEM_ACQUIRED" => e.payload.item \in Items
    BY DEF Recordable, Addressed, Payload, ItemEvents
  <2>4. e.type = "ITEM_ACQUIRED" => \A x \in tables.exits : x.item # e.payload.item
    BY <2>2, <2>3 DEF MakesFreshRow, KnownItems
  <2>5. e.type = "OFFER_MADE" => tables.offers[e.payload.offer] = None
    BY <2>2, <2>3 DEF MakesFreshRow, KnownOffers
  <2>6. e.type = "SESSION_STARTED" => ChainOf(tables, e.payload.session) = {}
    BY <2>2, <2>3 DEF MakesFreshRow, KnownSessions, ChainOf
  <2>7. Matched(Apply(tables, id, e)) /\ Numbered(Apply(tables, id, e))
    BY <1>0, <2>2, <2>4, <2>5, <2>6, ApplyMatched, ApplyNumbered
  <2> QED BY <2>2, <2>7 DEF Matched, Numbered, SeqsOf, ChainOf
<1>4. CASE UNCHANGED tables
  BY <1>4 DEF Matched, Numbered, SeqsOf, ChainOf
<1> QED
  BY <1>1, <1>2, <1>3, <1>4, TablesNext DEF vars

LEMMA MatchedNumberedInit == Init => FreshIds(events) /\ Matched(tables) /\ Numbered(tables)
<1> SUFFICES ASSUME Init PROVE FreshIds(events) /\ Matched(tables) /\ Numbered(tables)
  OBVIOUS
<1>1. FreshIds(<<>>) /\ WellFormed(<<>>)
  BY EmptyLog DEF FreshIds
<1>2. FreshIds(events)
  BY <1>1, LedgerAssumption DEF Init
<1>3. Matched(tables)
  BY DEF Init, EmptyTables, Matched
<1>4. Numbered(tables)
  BY EmptyTablesNumbered DEF Init
<1> QED
  BY <1>2, <1>3, <1>4

LEMMA MatchedNumberedHolds == Spec => [](FreshIds(events) /\ Matched(tables) /\ Numbered(tables))
BY MatchedNumberedInit, FreshIdsNext, MatchedNumberedNext, TypeOKHolds,
   BehindIsCorrectionsHolds, PTL DEF Spec

\* The exit of an item is the one of its latest outcome, booked against the item's
\* own cost basis (_record_exit), after any corrections, faults and restarts: the
\* profit shown for an item is never that of an outcome that was undone or replaced.
THEOREM ExitsMatchItemsHolds == Spec => []ExitsMatchItems
<1>1. OneExitPerItem /\ Matched(tables) => ExitsMatchItems
  BY DEF Matched, ExitsMatchItems, ItemMatches
<1> QED
  BY <1>1, OneExitPerItemHolds, MatchedNumberedHolds, PTL

\* The offers of a session are numbered 1, 2, ... and counted right (offer_count in
\* _on_offer_made), although both are computed from the tables and not from the log.
THEOREM ChainNumberedHolds == Spec => []ChainNumbered
<1>1. Numbered(tables) => ChainNumbered
  BY DEF Numbered, ChainNumbered, ChainOf, SeqsOf
<1> QED
  BY <1>1, MatchedNumberedHolds, PTL

-----------------------------------------------------------------------------
(***************************************************************************)
(* The negotiation sessions (Negotiation.tla) use the ledger as its        *)
(* specification says it is used: every step of the composed system is a   *)
(* step of the ledger or leaves it alone, and so what is proved of the     *)
(* ledger holds of it. What the sessions in memory say then agrees with    *)
(* what the ledger shows, and with what it would show if its tables were   *)
(* rebuilt.                                                                *)
(***************************************************************************)
(***************************************************************************)
(* The type invariant of the sessions in memory, which is inductive.       *)
(***************************************************************************)
LEMMA SessionsTypedInit == NegotiationInit => NegotiationTypeOK
BY DEF NegotiationInit, NegotiationTypeOK, Task, AtRest, Offering

\* A handler that changes the session of one key and is then at rest, or abandons.
LEMMA OneSessionChanged ==
    ASSUME NegotiationTypeOK, NEW k \in Keys, NEW session \in Session,
           store' = [store EXCEPT ![k] = session],
           NEW next \in Task, task' = next,
           next.op # "offering"
    PROVE  NegotiationTypeOK'
BY DEF NegotiationTypeOK, Offering

LEMMA SessionsTypedNext ==
    NegotiationTypeOK /\ [NegotiationNext]_negotiationVars => NegotiationTypeOK'
<1> SUFFICES ASSUME NegotiationTypeOK, [NegotiationNext]_negotiationVars
             PROVE  NegotiationTypeOK'
  OBVIOUS
<1>t. /\ AtRest \in Task /\ AtRest.op # "offering"
      /\ Closing \in Task /\ Closing.op # "offering"
      /\ \A i \in Items : Valuing(i) \in Task /\ Valuing(i).op # "offering"
      /\ \A k \in Keys : Offering(k) \in Task /\ AtRest # Offering(k)
  BY DEF Task, AtRest, Closing, Valuing, Offering
<1>s. \A k \in Keys : store[k] # None => store[k] \in Session
  BY DEF NegotiationTypeOK
<1>r. ASSUME UNCHANGED store, task' = AtRest PROVE NegotiationTypeOK'
  BY <1>r, <1>t DEF NegotiationTypeOK
<1>f. ASSUME Forget PROVE NegotiationTypeOK'
  BY <1>f, <1>t DEF NegotiationTypeOK, Forget
<1>u. ASSUME UNCHANGED <<store, task>> PROVE NegotiationTypeOK'
  BY <1>u DEF NegotiationTypeOK
<1>1. ASSUME NEW k \in Keys, NEW s \in Sessions, OpenSession(k, s) PROVE NegotiationTypeOK'
  <2> DEFINE session == [id |-> s, state |-> "IDLE", pending |-> None, item |-> None]
  <2>1. session \in Session /\ IsOpen(session)
    BY NoSessionAssumption DEF Session, IsOpen
  <2>2. store' = [store EXCEPT ![k] = session] /\ task' = Offering(k)
    BY <1>1 DEF OpenSession
  <2>3. \A l \in Keys : Offering(k) = Offering(l) => k = l
    BY DEF Offering
  <2> QED BY <1>t, <2>1, <2>2, <2>3 DEF NegotiationTypeOK
<1>2. ASSUME NEW k \in Keys, TurnDown(k) PROVE NegotiationTypeOK'
  <2> DEFINE session == [store[k] EXCEPT !.pending = None, !.state = "IDLE"]
  <2>1. session \in Session /\ IsOpen(session) /\ session.pending = None
    BY <1>2, <1>s, NoSessionAssumption DEF Session, IsOpen, TurnDown
  <2>2. store' = [store EXCEPT ![k] = session] /\ task' = Offering(k)
    BY <1>2 DEF TurnDown, NegotiationTypeOK
  <2>3. \A l \in Keys : Offering(k) = Offering(l) => k = l
    BY DEF Offering
  <2> QED BY <1>t, <2>1, <2>2, <2>3 DEF NegotiationTypeOK
<1>3. ASSUME NEW k \in Keys, NEW o \in Offers, MakeOffer(k, o) PROVE NegotiationTypeOK'
  <2> DEFINE session == [store[k] EXCEPT !.pending = o, !.state = "OFFER_PENDING"]
  <2>1. store[k] # None
    BY <1>3 DEF MakeOffer, NegotiationTypeOK, IsOpen
  <2>2. session \in Session
    BY <1>s, <2>1 DEF Session
  <2>3. store' = [store EXCEPT ![k] = session] /\ task' = AtRest
    BY <1>3 DEF MakeOffer, NegotiationTypeOK
  <2> HIDE DEF session
  <2> QED BY <1>t, <2>2, <2>3, OneSessionChanged
<1>4. ASSUME NEW k \in Keys, Reject(k) PROVE NegotiationTypeOK'
  <2> DEFINE state   == IF store[k].state = "OFFER_PENDING" THEN "IDLE" ELSE store[k].state
             session == [store[k] EXCEPT !.pending = None, !.state = state]
  <2>1. session \in Session
    BY <1>4, <1>s DEF Session, Reject
  <2>2. store' = [store EXCEPT ![k] = session] /\ task' = AtRest
    BY <1>4, <1>s DEF Reject, NegotiationTypeOK, Session
  <2> HIDE DEF session
  <2> QED BY <1>t, <2>1, <2>2, OneSessionChanged
<1>5. ASSUME NEW k \in Keys, NEW price \in Amounts, Counter(k, price)
      PROVE  NegotiationTypeOK'
  <2> DEFINE session == [store[k] EXCEPT !.pending = None, !.state = "IDLE"]
  <2>1. session \in Session
    BY <1>5, <1>s DEF Session, Counter
  <2>2. store' = [store EXCEPT ![k] = session] /\ task' = AtRest
    BY <1>5 DEF Counter, NegotiationTypeOK
  <2> HIDE DEF session
  <2> QED BY <1>t, <2>1, <2>2, OneSessionChanged
<1>6. ASSUME NEW k \in Keys, NEW i \in Items, NEW price \in Amounts, NEW est \in Estimates,
             Confirm(k, i, price, est)
      PROVE  NegotiationTypeOK'
  <2> DEFINE session == [store[k] EXCEPT !.item = i, !.pending = None, !.state = "CONFIRMED"]
  <2>1. session \in Session
    BY <1>6, <1>s DEF Session, Confirm
  <2>2. store' = [store EXCEPT ![k] = session] /\ task' = Valuing(i)
    BY <1>6 DEF Confirm, NegotiationTypeOK
  <2> HIDE DEF session
  <2> QED BY <1>t, <2>1, <2>2, OneSessionChanged
<1>7. ASSUME NEW k \in Keys, Abandon(k) PROVE NegotiationTypeOK'
  <2> DEFINE session == [store[k] EXCEPT !.pending = None, !.state = "ABANDONED"]
  <2>1. session \in Session
    BY <1>7, <1>s DEF Session, Abandon, LeftOpen, IsOpen
  <2>2. store' = [store EXCEPT ![k] = session] /\ task' = Closing
    BY <1>7 DEF Abandon, NegotiationTypeOK
  <2> HIDE DEF session
  <2> QED BY <1>t, <2>1, <2>2, OneSessionChanged
<1>8. ASSUME NEW est \in Estimates, RecordItsValuation(est) PROVE NegotiationTypeOK'
  BY <1>8, <1>r DEF RecordItsValuation
<1> QED
  BY <1>1, <1>2, <1>3, <1>4, <1>5, <1>6, <1>7, <1>8, <1>r, <1>f, <1>u
     DEF NegotiationNext, negotiationVars, Raise, Close, Kill, Resume, Tidy, FinishClearing

\* Sessions in memory keep their types, and the session a handler is about to record
\* an offer in is open with nothing on the table, whatever raises and wherever the
\* process is killed (NegotiationSession, SessionStore).
THEOREM NegotiationTypeOKHolds == NegotiationSpec => []NegotiationTypeOK
BY SessionsTypedInit, SessionsTypedNext, PTL DEF NegotiationSpec

-----------------------------------------------------------------------------
(***************************************************************************)
(* Each transaction of a handler is a step of the ledger.                  *)
(***************************************************************************)
LEMMA HandlersUseLedger ==
    ASSUME NegotiationTypeOK, [NegotiationNext]_negotiationVars
    PROVE  [Next]_vars
<1>s. \A k \in Keys : store[k] # None => store[k] \in Session
  BY DEF NegotiationTypeOK
<1>1. ASSUME NEW k \in Keys, NEW s \in Sessions, OpenSession(k, s) PROVE Next
  BY <1>1 DEF OpenSession, Next, Negotiate
<1>2. ASSUME NEW k \in Keys, TurnDown(k) \/ Reject(k) PROVE Next
  <2>1. store[k].pending \in Offers /\ RejectOffer(store[k].pending)
    BY <1>2, <1>s DEF TurnDown, Reject, Session, IsOpen
  <2> QED BY <2>1 DEF Next, Negotiate
<1>3. ASSUME NEW k \in Keys, NEW o \in Offers, MakeOffer(k, o) PROVE Next
  <2>1. store[k].id \in Sessions /\ RecordOffer(store[k].id, o)
    BY <1>3, <1>s DEF MakeOffer, NegotiationTypeOK, IsOpen, Session
  <2> QED BY <2>1 DEF Next, Negotiate
<1>4. ASSUME NEW k \in Keys, NEW price \in Amounts, Counter(k, price) PROVE Next
  <2>1. store[k].pending \in Offers /\ CounterOffer(store[k].pending, price)
    BY <1>4, <1>s DEF Counter, Session
  <2> QED BY <2>1 DEF Next, Negotiate
<1>5. ASSUME NEW k \in Keys, NEW i \in Items, NEW price \in Amounts, NEW est \in Estimates,
             Confirm(k, i, price, est)
      PROVE  Next
  <2>1. /\ store[k].id \in Sessions \cup {None} /\ store[k].pending \in Offers \cup {None}
        /\ AcquireItem(i, store[k].id, store[k].pending, price, est)
    BY <1>5, <1>s DEF Confirm, Session
  <2>2. Trade
    BY <2>1 DEF Trade
  <2> QED BY <2>2 DEF Next
<1>6. ASSUME NEW est \in Estimates, RecordItsValuation(est) PROVE Next
  <2>1. task.item \in Items /\ RecordValuation(task.item, est)
    BY <1>6 DEF RecordItsValuation, NegotiationTypeOK, Task, AtRest, Closing, Offering, Valuing
  <2>2. Trade
    BY <2>1 DEF Trade
  <2> QED BY <2>2 DEF Next
<1>7. ASSUME NEW k \in Keys, Abandon(k) PROVE Next
  <2>1. store[k].id \in Sessions /\ AbandonSession(store[k].id)
    BY <1>7, <1>s DEF Abandon, LeftOpen, IsOpen, Session
  <2> QED BY <2>1 DEF Next, Negotiate
<1>8. CASE Raise
  BY <1>8 DEF Raise
<1>9. CASE Close \/ Kill \/ Resume \/ Tidy \/ FinishClearing
  BY <1>9 DEF Close, Kill, Resume, Tidy, FinishClearing, Next, Amend
<1> QED
  BY <1>1, <1>2, <1>3, <1>4, <1>5, <1>6, <1>7, <1>8, <1>9
     DEF NegotiationNext, negotiationVars

\* The sessions and the controller's handlers on top of the ledger, with everything
\* that may interrupt them, are an implementation of the ledger's specification: no
\* handler uses the facade in a way the ledger was not verified for.
THEOREM NegotiationImplementsLedger == NegotiationSpec => Spec
<1>1. NegotiationInit => Init
  BY DEF NegotiationInit
<1>2. NegotiationTypeOK /\ [NegotiationNext]_negotiationVars => [Next]_vars
  BY HandlersUseLedger
<1> QED
  BY <1>1, <1>2, NegotiationTypeOKHolds, PTL DEF NegotiationSpec, Spec

\* So the log and the tables agree between any two transactions of a negotiation
\* ("the log and the derived tables can never disagree", store.py).
THEOREM NegotiationKeepsAgreement == NegotiationSpec => []Agreement
BY NegotiationImplementsLedger, AgreementHolds, PTL

-----------------------------------------------------------------------------
(***************************************************************************)
(* What an event does to the offers and the sessions, row by row.          *)
(***************************************************************************)
OutcomeAfter(e, o, row) ==
    IF e.type = "OFFER_REJECTED" /\ o = e.payload.offer THEN "REJECTED"
    ELSE IF e.type = "OFFER_COUNTERED" /\ o = e.payload.offer THEN "COUNTERED"
    ELSE IF e.type = "ITEM_ACQUIRED" /\ o = e.payload.offer THEN "CONFIRMED"
    ELSE IF /\ e.type = "SESSION_ABANDONED" /\ row.session = e.payload.session
            /\ row.outcome = "PENDING" THEN "ABANDONED"
    ELSE row.outcome

StateAfter(e, s, row) ==
    IF e.type = "ITEM_ACQUIRED" /\ s = e.payload.session THEN "CONFIRMED"
    ELSE IF e.type = "SESSION_ABANDONED" /\ s = e.payload.session THEN "ABANDONED"
    ELSE row.state

OfferMoves(t, u, e, o) ==
    IF e.type = "OFFER_MADE" /\ o = e.payload.offer
    THEN /\ u.offers[o] # None
         /\ u.offers[o].session = e.payload.session
         /\ u.offers[o].outcome = "PENDING"
    ELSE /\ u.offers[o] = None <=> t.offers[o] = None
         /\ t.offers[o] # None =>
               /\ u.offers[o].session = t.offers[o].session
               /\ u.offers[o].outcome = OutcomeAfter(e, o, t.offers[o])

SessionMoves(t, u, e, s) ==
    IF e.type = "SESSION_STARTED" /\ s = e.payload.session
    THEN u.sessions[s] # None
    ELSE /\ u.sessions[s] = None <=> t.sessions[s] = None
         /\ t.sessions[s] # None => u.sessions[s].state = StateAfter(e, s, t.sessions[s])

Moves(t, u, e) == /\ \A o \in Offers : OfferMoves(t, u, e, o)
                  /\ \A s \in Sessions : SessionMoves(t, u, e, s)

LEMMA ApplyMoves ==
    ASSUME NEW t \in Tables, NEW id \in Nat \ {0}, NEW e \in Recordable
    PROVE  Moves(t, Apply(t, id, e), e)
<1> DEFINE p == e.payload
           u == Apply(t, id, e)
<1>0. /\ p \in Payload /\ e.type \in EventType /\ Addressed(e) /\ Coins(p.amount) \in Nat
      /\ p.amount \in Amounts \cup {None}
  BY CoinsTyped DEF Recordable, Payload
<1>1. /\ e.type \in {"SESSION_STARTED", "OFFER_MADE", "SESSION_ABANDONED"}
           => p.session \in Sessions
      /\ e.type \in {"OFFER_MADE", "OFFER_REJECTED", "OFFER_COUNTERED"} => p.offer \in Offers
      /\ e.type = "ITEM_ACQUIRED" => p.item \in Items
  BY <1>0 DEF Addressed, Payload, ItemEvents
<1>t. /\ t.offers \in [Offers -> OfferRow \cup {None}]
      /\ t.sessions \in [Sessions -> SessionRow \cup {None}]
      /\ t = [sessions |-> t.sessions, offers |-> t.offers, items |-> t.items,
              exits |-> t.exits, valuations |-> t.valuations]
  BY DEF Tables
<1>u. u \in Tables
  BY ApplyTyped
<1>2. CASE e.type = "SESSION_STARTED"
  <2> DEFINE row == [state |-> "ACTIVE", item |-> None, offerCount |-> 0]
  <2>1. u = SessionStarted(t, p)
    BY <1>2 DEF Apply, SaleEvents
  <2>2. u.offers = t.offers /\ u.sessions = [t.sessions EXCEPT ![p.session] = row]
    BY <1>t, <2>1 DEF SessionStarted
  <2>3. row # None
    <3>1. row \in SessionRow
      BY DEF SessionRow
    <3> QED BY <3>1, RowsKept
  <2> HIDE DEF u, row
  <2>4. \A o \in Offers : OfferMoves(t, u, e, o)
    BY <1>2, <2>2 DEF OfferMoves, OutcomeAfter
  <2>5. \A s \in Sessions : SessionMoves(t, u, e, s)
    BY <1>1, <1>2, <1>t, <2>2, <2>3 DEF SessionMoves, StateAfter
  <2> QED BY <2>4, <2>5 DEF Moves, u
<1>3. CASE e.type = "OFFER_MADE"
  <2> DEFINE seqs == {t.offers[q].seq : q \in OffersOf(t.offers, p.session)}
             row == [session |-> p.session, seq |-> Max({0} \cup seqs) + 1,
                     outcome |-> "PENDING", counter |-> None, settled |-> None]
             count == Cardinality(OffersOf([t.offers EXCEPT ![p.offer] = row], p.session))
  <2>1. u = OfferMade(t, p)
    BY <1>3 DEF Apply, SaleEvents
  <2>2. /\ u.offers = [t.offers EXCEPT ![p.offer] = row]
        /\ u.sessions = [t.sessions EXCEPT ![p.session] =
               IF @ = None THEN None ELSE [@ EXCEPT !.offerCount = count]]
    BY <1>t, <2>1 DEF OfferMade
  <2>3. row.session = p.session /\ row.outcome = "PENDING"
    OBVIOUS
  <2>4. row # None
    BY <1>1, <1>3, OfferRowMade, RowsKept
  <2>c. count \in Nat
    <3>1. IsFiniteSet(OffersOf([t.offers EXCEPT ![p.offer] = row], p.session))
      BY OffersFinite, FS_Subset DEF OffersOf
    <3> QED BY <3>1, FS_CardinalityType, Zenon
  <2> HIDE DEF u, row, count, seqs, p
  <2>5. \A o \in Offers : OfferMoves(t, u, e, o)
    BY <1>1, <1>3, <1>t, <2>2, <2>3, <2>4 DEF OfferMoves, OutcomeAfter, p
  <2>6. \A s \in Sessions : SessionMoves(t, u, e, s)
    <3>1. ASSUME NEW s \in Sessions
          PROVE  /\ u.sessions[s] = None <=> t.sessions[s] = None
                 /\ t.sessions[s] # None => u.sessions[s].state = t.sessions[s].state
      <4>1. CASE t.sessions[s] = None
        BY <1>1, <1>3, <1>t, <2>2, <4>1
      <4>2. CASE t.sessions[s] # None
        <5> DEFINE r == t.sessions[s]
                   q == [r EXCEPT !.offerCount = count]
        <5>1. r \in SessionRow
          BY <1>t, <4>2
        <5>2. q \in SessionRow /\ q.state = r.state
          BY <2>c, <5>1 DEF SessionRow
        <5>3. u.sessions[s] = IF s = p.session THEN q ELSE r
          BY <1>1, <1>3, <1>t, <2>2, <4>2
        <5> HIDE DEF q
        <5> QED BY <4>2, <5>2, <5>3, RowsKept
      <4> QED BY <4>1, <4>2
    <3> QED BY <1>3, <3>1 DEF SessionMoves, StateAfter
  <2> QED BY <2>5, <2>6 DEF Moves, u
<1>4. CASE e.type \in ItemEvents \ {"ITEM_ACQUIRED"}
  <2>1. u.offers = t.offers /\ u.sessions = t.sessions
    BY <1>4, ItemEventsLeaveChains
  <2> QED
    BY <1>4, <2>1
       DEF Moves, OfferMoves, SessionMoves, OutcomeAfter, StateAfter, ItemEvents, SaleEvents
<1>c. e.type \notin {"OFFER_MADE", "SESSION_STARTED"} => SameChains(t, u)
  BY ApplyChains
<1>5. CASE e.type = "ITEM_ACQUIRED"
  <2>1. u = ItemAcquired(t, p)
    BY <1>5 DEF Apply, SaleEvents
  <2>2. /\ u.offers = [o \in Offers |->
              IF o = p.offer /\ t.offers[o] # None
              THEN [t.offers[o] EXCEPT !.outcome = "CONFIRMED", !.settled = Coins(p.amount)]
              ELSE t.offers[o]]
        /\ u.sessions = [s \in Sessions |->
              IF s = p.session /\ t.sessions[s] # None
              THEN [t.sessions[s] EXCEPT !.state = "CONFIRMED", !.item = p.item]
              ELSE t.sessions[s]]
    BY <1>t, <2>1 DEF ItemAcquired
  <2>3. SameChains(t, u)
    BY <1>5, <1>c
  <2> HIDE DEF u, p
  <2>4. ASSUME NEW o \in Offers, t.offers[o] # None
        PROVE  u.offers[o].outcome = IF o = p.offer THEN "CONFIRMED" ELSE t.offers[o].outcome
    <3>1. t.offers[o] \in OfferRow
      BY <1>t, <2>4
    <3>2. u.offers[o] = IF o = p.offer
                        THEN [t.offers[o] EXCEPT !.outcome = "CONFIRMED",
                                                 !.settled = Coins(p.amount)]
                        ELSE t.offers[o]
      BY <2>2, <2>4
    <3> QED BY <3>1, <3>2 DEF OfferRow
  <2>5. ASSUME NEW s \in Sessions, t.sessions[s] # None
        PROVE  u.sessions[s].state = IF s = p.session THEN "CONFIRMED" ELSE t.sessions[s].state
    BY <1>t, <2>2, <2>5 DEF SessionRow
  <2> QED
    BY <1>5, <2>3, <2>4, <2>5
       DEF Moves, OfferMoves, SessionMoves, OutcomeAfter, StateAfter, SameChains, u, p
<1>6. CASE e.type \in {"OFFER_REJECTED", "OFFER_COUNTERED"}
  <2> DEFINE outcome == IF e.type = "OFFER_REJECTED" THEN "REJECTED" ELSE "COUNTERED"
  <2>1. u = IF e.type = "OFFER_REJECTED" THEN OfferRejected(t, p) ELSE OfferCountered(t, p)
    BY <1>6 DEF Apply, SaleEvents
  <2>2. SameChains(t, u) /\ p.offer \in Offers
    BY <1>1, <1>6, <1>c
  <2> HIDE DEF u, p
  <2>3. u.sessions = t.sessions
    BY <1>t, <2>1 DEF OfferRejected, OfferCountered
  <2>4. ASSUME NEW o \in Offers, t.offers[o] # None
        PROVE  u.offers[o].outcome = IF o = p.offer THEN outcome ELSE t.offers[o].outcome
    <3>1. CASE e.type = "OFFER_REJECTED"
      <4>1. u.offers = [t.offers EXCEPT ![p.offer] =
                           IF @ = None THEN None ELSE [@ EXCEPT !.outcome = "REJECTED"]]
        BY <1>t, <2>1, <3>1 DEF OfferRejected
      <4> QED BY <1>t, <2>2, <2>4, <3>1, <4>1 DEF OfferRow
    <3>2. CASE e.type = "OFFER_COUNTERED"
      <4>1. u.offers = [t.offers EXCEPT ![p.offer] =
                           IF @ = None THEN None
                           ELSE [@ EXCEPT !.outcome = "COUNTERED", !.counter = p.amount]]
        BY <1>t, <2>1, <3>2 DEF OfferCountered
      <4> QED BY <1>t, <2>2, <2>4, <3>2, <4>1 DEF OfferRow
    <3> QED BY <1>6, <3>1, <3>2
  <2> QED
    BY <1>6, <2>2, <2>3, <2>4
       DEF Moves, OfferMoves, SessionMoves, OutcomeAfter, StateAfter, SameChains, u, p
<1>7. CASE e.type = "SESSION_ABANDONED"
  <2>1. u = SessionAbandoned(t, p)
    BY <1>7 DEF Apply, SaleEvents
  <2>2. /\ u.offers = [o \in Offers |->
              IF o \in OffersOf(t.offers, p.session) /\ t.offers[o].outcome = "PENDING"
              THEN [t.offers[o] EXCEPT !.outcome = "ABANDONED"]
              ELSE t.offers[o]]
        /\ u.sessions = [t.sessions EXCEPT ![p.session] =
              IF @ = None THEN None ELSE [@ EXCEPT !.state = "ABANDONED"]]
    BY <1>t, <2>1 DEF SessionAbandoned
  <2>3. SameChains(t, u) /\ p.session \in Sessions
    BY <1>1, <1>7, <1>c
  <2> HIDE DEF u, p
  <2>4. ASSUME NEW o \in Offers, t.offers[o] # None
        PROVE  u.offers[o].outcome =
                  IF t.offers[o].session = p.session /\ t.offers[o].outcome = "PENDING"
                  THEN "ABANDONED" ELSE t.offers[o].outcome
    BY <1>t, <2>2, <2>4 DEF OfferRow, OffersOf
  <2>5. ASSUME NEW s \in Sessions, t.sessions[s] # None
        PROVE  u.sessions[s].state = IF s = p.session THEN "ABANDONED" ELSE t.sessions[s].state
    BY <1>t, <2>2, <2>3, <2>5 DEF SessionRow
  <2> QED
    BY <1>7, <2>3, <2>4, <2>5
       DEF Moves, OfferMoves, SessionMoves, OutcomeAfter, StateAfter, SameChains, u, p
<1> QED
  BY <1>0, <1>2, <1>3, <1>4, <1>5, <1>6, <1>7 DEF EventType, SessionEvents

-----------------------------------------------------------------------------
(***************************************************************************)
(* What a session in memory and the ledger's tables say of each other. The *)
(* invariant says it of two tables: those the application reads, and those *)
(* the log would give if they were rebuilt now, which is what the next     *)
(* rebuild turns them into.                                                *)
(***************************************************************************)
Shows(t, session) ==
    /\ WaitingIn(t, session.id) \subseteq {session.pending}
    /\ /\ session.pending # None
       /\ t.sessions[session.id] # None \/ t.offers[session.pending] # None
       => session.pending \in WaitingIn(t, session.id)
    /\ ~ IsOpen(session) /\ t.sessions[session.id] # None =>
          t.sessions[session.id].state \in {"CONFIRMED", "ABANDONED"}

ShowsAll(t, st) == OneWaits(t) /\ \A k \in Keys : st[k] # None => Shows(t, st[k])

\* No two sessions in memory share an id or an offer.
Apart(st) ==
    /\ \A k \in Keys : st[k] # None /\ st[k].pending # None => st[k].state = "OFFER_PENDING"
    /\ \A k, l \in Keys : k # l /\ st[k] # None /\ st[l] # None =>
          /\ st[k].id # st[l].id
          /\ st[k].pending # None => st[k].pending # st[l].pending

\* Where both tables have a row of an offer, they agree on what became of it.
SameOutcomes(t, u) ==
    \A o \in Offers : t.offers[o] # None /\ u.offers[o] # None =>
        t.offers[o].session = u.offers[o].session /\ t.offers[o].outcome = u.offers[o].outcome

\* The event is about none of the other sessions in memory.
Spares(e, session) ==
    /\ session.id # e.payload.session
    /\ session.pending # None => session.pending # e.payload.offer

LEMMA WaitingAfter ==
    ASSUME NEW t, NEW u, NEW e, Moves(t, u, e), NEW s \in Sessions
    PROVE  WaitingIn(u, s) \subseteq WaitingIn(t, s)
             \cup IF e.type = "OFFER_MADE" /\ s = e.payload.session THEN {e.payload.offer} ELSE {}
BY DEF Moves, OfferMoves, OutcomeAfter, WaitingIn, OffersOf

LEMMA OneStillWaits ==
    ASSUME NEW t, NEW u, NEW e, Moves(t, u, e), OneWaits(t),
           e.type = "OFFER_MADE" => WaitingIn(t, e.payload.session) = {}
    PROVE  OneWaits(u)
BY WaitingAfter DEF OneWaits

LEMMA SparedShows ==
    ASSUME NEW t, NEW u, NEW e, Moves(t, u, e), NEW r \in Session, Shows(t, r), Spares(e, r)
    PROVE  Shows(u, r)
<1>0. r.id \in Sessions /\ r.pending \in Offers \cup {None}
  BY DEF Session
<1>1. WaitingIn(u, r.id) \subseteq WaitingIn(t, r.id)
  BY <1>0, WaitingAfter DEF Spares
<1>2. /\ u.sessions[r.id] = None <=> t.sessions[r.id] = None
      /\ t.sessions[r.id] # None => u.sessions[r.id].state = t.sessions[r.id].state
  BY <1>0 DEF Moves, SessionMoves, StateAfter, Spares
<1>3. ASSUME r.pending # None
      PROVE  /\ u.offers[r.pending] = None <=> t.offers[r.pending] = None
             /\ r.pending \in WaitingIn(t, r.id) => r.pending \in WaitingIn(u, r.id)
  BY <1>0, <1>3 DEF Moves, OfferMoves, OutcomeAfter, Spares, WaitingIn, OffersOf
<1> QED
  BY <1>1, <1>2, <1>3 DEF Shows

\* A handler that changes the session of one key, and the event it records.
LEMMA OneSessionShown ==
    ASSUME NEW st \in [Keys -> Session \cup {None}], NEW t, NEW u, NEW e, Moves(t, u, e),
           ShowsAll(t, st), NEW k \in Keys, NEW session \in Session,
           \A l \in Keys \ {k} : st[l] # None => Spares(e, st[l]),
           OneWaits(u), Shows(u, session)
    PROVE  ShowsAll(u, [st EXCEPT ![k] = session])
<1> DEFINE new == [st EXCEPT ![k] = session]
<1>1. ASSUME NEW l \in Keys, new[l] # None PROVE Shows(u, new[l])
  <2>1. CASE l = k
    BY <2>1
  <2>2. CASE l # k
    <3>1. new[l] = st[l] /\ st[l] \in Session
      BY <1>1, <2>2
    <3> QED BY <1>1, <2>2, <3>1, SparedShows DEF ShowsAll
  <2> QED BY <2>1, <2>2
<1> QED
  BY <1>1 DEF ShowsAll

LEMMA SameOutcomesAfter ==
    ASSUME NEW t, NEW u, NEW v, NEW w, NEW e, Moves(t, v, e), Moves(u, w, e), SameOutcomes(t, u)
    PROVE  SameOutcomes(v, w)
BY DEF Moves, OfferMoves, OutcomeAfter, SameOutcomes

-----------------------------------------------------------------------------
(***************************************************************************)
(* Each handler, on either of the two tables.                              *)
(***************************************************************************)
LEMMA ShownOpened ==
    ASSUME NEW st \in [Keys -> Session \cup {None}], NEW t, NEW u, NEW e, Moves(t, u, e),
           ShowsAll(t, st), NEW k \in Keys, NEW session \in Session,
           e.type = "SESSION_STARTED", e.payload.session = session.id, e.payload.offer = None,
           \A l \in Keys : st[l] # None => st[l].id # session.id,
           OffersOf(t.offers, session.id) = {}, IsOpen(session), session.pending = None
    PROVE  ShowsAll(u, [st EXCEPT ![k] = session])
<1>1. \A l \in Keys : st[l] # None => Spares(e, st[l])
  BY DEF Spares
<1>2. OneWaits(u)
  BY OneStillWaits DEF ShowsAll
<1>3. WaitingIn(u, session.id) = {}
  BY WaitingAfter DEF WaitingIn, Session
<1> QED
  BY <1>1, <1>2, <1>3, OneSessionShown DEF Shows

LEMMA ShownTurnedDown ==
    ASSUME NEW st \in [Keys -> Session \cup {None}], NEW t, NEW u, NEW e, Moves(t, u, e),
           ShowsAll(t, st), Apart(st), NEW k \in Keys, NEW session \in Session, st[k] # None,
           st[k].pending # None, e.type \in {"OFFER_REJECTED", "OFFER_COUNTERED"},
           e.payload.offer = st[k].pending, e.payload.session = None,
           session.id = st[k].id, session.pending = None, IsOpen(session)
    PROVE  ShowsAll(u, [st EXCEPT ![k] = session])
<1>0. st[k] \in Session /\ session.id \in Sessions /\ st[k].pending \in Offers
  BY DEF Session
<1>1. \A l \in Keys \ {k} : st[l] # None => Spares(e, st[l])
  BY NoneAssumption DEF Spares, Session, Apart
<1>2. OneWaits(u)
  BY OneStillWaits DEF ShowsAll
<1>3. WaitingIn(u, session.id) = {}
  <2>1. WaitingIn(u, session.id) \subseteq {st[k].pending}
    BY <1>0, WaitingAfter DEF ShowsAll, Shows
  <2>2. st[k].pending \notin WaitingIn(u, session.id)
    BY <1>0 DEF Moves, OfferMoves, OutcomeAfter, WaitingIn, OffersOf
  <2> QED BY <2>1, <2>2
<1> QED
  BY <1>1, <1>2, <1>3, OneSessionShown DEF Shows

LEMMA ShownOffered ==
    ASSUME NEW st \in [Keys -> Session \cup {None}], NEW t, NEW u, NEW e, Moves(t, u, e),
           ShowsAll(t, st), Apart(st), NEW k \in Keys, NEW session \in Session, st[k] # None,
           st[k].pending = None, e.type = "OFFER_MADE", e.payload.offer = session.pending,
           e.payload.session = st[k].id, session.id = st[k].id, session.pending # None,
           \A l \in Keys : st[l] # None => st[l].pending # session.pending, IsOpen(session)
    PROVE  ShowsAll(u, [st EXCEPT ![k] = session])
<1>0. st[k] \in Session /\ session.id \in Sessions /\ session.pending \in Offers
  BY DEF Session
<1>1. \A l \in Keys \ {k} : st[l] # None => Spares(e, st[l])
  BY DEF Spares, Apart
<1>2. WaitingIn(t, session.id) = {}
  <2>1. WaitingIn(t, session.id) \subseteq {None} /\ WaitingIn(t, session.id) \subseteq Offers
    BY DEF ShowsAll, Shows, WaitingIn, OffersOf
  <2> QED BY <2>1, NoneAssumption
<1>3. OneWaits(u)
  BY <1>2, OneStillWaits DEF ShowsAll
<1>4. WaitingIn(u, session.id) \subseteq {session.pending}
  BY <1>0, <1>2, WaitingAfter
<1>5. session.pending \in WaitingIn(u, session.id)
  BY <1>0 DEF Moves, OfferMoves, WaitingIn, OffersOf
<1> QED
  BY <1>1, <1>3, <1>4, <1>5, OneSessionShown DEF Shows

LEMMA ShownConfirmed ==
    ASSUME NEW st \in [Keys -> Session \cup {None}], NEW t, NEW u, NEW e, Moves(t, u, e),
           ShowsAll(t, st), Apart(st), NEW k \in Keys, NEW session \in Session, st[k] # None,
           e.type = "ITEM_ACQUIRED", e.payload.offer = st[k].pending,
           e.payload.session = st[k].id, session.id = st[k].id, session.pending = None
    PROVE  ShowsAll(u, [st EXCEPT ![k] = session])
<1>0. st[k] \in Session /\ session.id \in Sessions /\ st[k].pending \in Offers \cup {None}
  BY DEF Session
<1>1. \A l \in Keys \ {k} : st[l] # None => Spares(e, st[l])
  BY DEF Spares, Apart
<1>2. OneWaits(u)
  BY OneStillWaits DEF ShowsAll
<1>3. WaitingIn(u, session.id) = {}
  <2>1. WaitingIn(u, session.id) \subseteq {st[k].pending}
    BY <1>0, WaitingAfter DEF ShowsAll, Shows
  <2>2. WaitingIn(u, session.id) \subseteq Offers
    BY DEF WaitingIn, OffersOf
  <2>3. ASSUME st[k].pending # None PROVE st[k].pending \notin WaitingIn(u, session.id)
    BY <1>0, <2>3 DEF Moves, OfferMoves, OutcomeAfter, WaitingIn, OffersOf
  <2> QED BY <2>1, <2>2, <2>3, NoneAssumption
<1>4. u.sessions[session.id] # None => u.sessions[session.id].state = "CONFIRMED"
  BY <1>0 DEF Moves, SessionMoves, StateAfter
<1> QED
  BY <1>1, <1>2, <1>3, <1>4, OneSessionShown DEF Shows

LEMMA ShownAbandoned ==
    ASSUME NEW st \in [Keys -> Session \cup {None}], NEW t, NEW u, NEW e, Moves(t, u, e),
           ShowsAll(t, st), Apart(st), NEW k \in Keys, NEW session \in Session, st[k] # None,
           e.type = "SESSION_ABANDONED", e.payload.offer = None,
           e.payload.session = st[k].id, session.id = st[k].id, session.pending = None
    PROVE  ShowsAll(u, [st EXCEPT ![k] = session])
<1>0. st[k] \in Session /\ session.id \in Sessions
  BY DEF Session
<1>1. \A l \in Keys \ {k} : st[l] # None => Spares(e, st[l])
  BY DEF Spares, Apart
<1>2. OneWaits(u)
  BY OneStillWaits DEF ShowsAll
<1>3. WaitingIn(u, session.id) = {}
  BY <1>0 DEF Moves, OfferMoves, OutcomeAfter, WaitingIn, OffersOf
<1>4. u.sessions[session.id] # None => u.sessions[session.id].state = "ABANDONED"
  BY <1>0 DEF Moves, SessionMoves, StateAfter
<1> QED
  BY <1>1, <1>2, <1>3, <1>4, OneSessionShown DEF Shows

LEMMA ShownValued ==
    ASSUME NEW st \in [Keys -> Session \cup {None}], NEW t, NEW u, NEW e, Moves(t, u, e),
           ShowsAll(t, st), e.type = "VALUATION_RECORDED",
           e.payload.session = None, e.payload.offer = None
    PROVE  ShowsAll(u, st)
<1>1. \A l \in Keys : st[l] # None => Spares(e, st[l])
  BY NoneAssumption DEF Spares, Session
<1>2. OneWaits(u)
  BY OneStillWaits DEF ShowsAll
<1> QED
  BY <1>1, <1>2, SparedShows DEF ShowsAll

-----------------------------------------------------------------------------
(***************************************************************************)
(* The invariant of the composed system.                                   *)
(***************************************************************************)
\* Nothing here corrects the log, and a process that is down holds no session.
Control == /\ phase # "correcting"
           /\ "correcting" \notin lapses
           /\ phase = "down" => store = [k \in Keys |-> None]

NegotiationInv ==
    /\ Control
    /\ Apart(store)
    /\ ShowsAll(tables, store)
    /\ ShowsAll(Replay(events), store)
    /\ SameOutcomes(tables, Replay(events))

\* An event that a handler records moves the tables and the replay of the log alike.
LEMMA Moved ==
    ASSUME TypeOK, NegotiationInv, NEW type, NEW payload, Record(type, payload),
           [type |-> type, payload |-> payload] \in Recordable
    PROVE  LET e == [type |-> type, payload |-> payload]
           IN /\ Moves(tables, tables', e)
              /\ Moves(Replay(events), Replay(events'), e)
              /\ SameOutcomes(tables', Replay(events'))
              /\ phase = "idle" /\ UNCHANGED <<phase, lapses>>
<1> DEFINE e == [type |-> type, payload |-> payload]
           id == Len(events) + 1
<1>0. WellFormed(events) /\ Len(events) \in Nat /\ tables \in Tables
  BY DEF TypeOK, WellFormed
<1>1. id \in Nat \ {0}
  BY <1>0
<1>2. /\ tables' = Apply(tables, id, e) /\ events' = Append(events, e)
      /\ phase = "idle" /\ UNCHANGED <<phase, lapses>>
  BY DEF Record
<1>3. e \in Recordable /\ e \in Event /\ e.type # Correction
  BY RecordableIsEvent
<1> HIDE DEF e
<1>4. Replay(events') = Apply(Replay(events), id, e)
  BY <1>0, <1>2, <1>3, ReplayOfAppend
<1> HIDE DEF id
<1>5. Moves(tables, tables', e)
  BY <1>0, <1>1, <1>2, <1>3, ApplyMoves
<1>6. Moves(Replay(events), Replay(events'), e)
  <2>1. Replay(events) \in Tables
    BY <1>0, ReplayTyped
  <2> QED BY <2>1, <1>1, <1>3, <1>4, ApplyMoves
<1>7. SameOutcomes(tables', Replay(events'))
  BY <1>5, <1>6, SameOutcomesAfter DEF NegotiationInv
<1> QED
  BY <1>2, <1>5, <1>6, <1>7 DEF e

\* A handler that changed the session of one key.
LEMMA HandlerKeeps ==
    ASSUME NegotiationInv, NEW st, store' = st, Apart(st),
           ShowsAll(tables', st), ShowsAll(Replay(events'), st),
           SameOutcomes(tables', Replay(events')),
           phase = "idle", UNCHANGED <<phase, lapses>>
    PROVE  NegotiationInv'
BY DEF NegotiationInv, Control, Apart, ShowsAll, OneWaits, WaitingIn, OffersOf, Shows, SameOutcomes

LEMMA ApartAfter ==
    ASSUME NEW st \in [Keys -> Session \cup {None}], Apart(st), NEW k \in Keys,
           NEW session \in Session, session.pending # None => session.state = "OFFER_PENDING",
           \A l \in Keys \ {k} : st[l] # None =>
               /\ st[l].id # session.id
               /\ session.pending # None => st[l].pending # session.pending
    PROVE  Apart([st EXCEPT ![k] = session])
BY DEF Apart

LEMMA ApartSameSession ==
    ASSUME NEW st \in [Keys -> Session \cup {None}], Apart(st), NEW k \in Keys, st[k] # None,
           NEW session \in Session, session.id = st[k].id, session.pending = None
    PROVE  Apart([st EXCEPT ![k] = session])
BY ApartAfter DEF Apart

-----------------------------------------------------------------------------
(***************************************************************************)
(* What a step may never do, which the invariant before it tells.          *)
(***************************************************************************)
HandlerStep == AnswersStay /\ RowsStay /\ DealsCredited

\* An answer that is recorded is to the offer on the table, which has none yet.
LEMMA EventStep ==
    ASSUME NegotiationTypeOK, NegotiationInv, NEW e, Moves(tables, tables', e),
           NEW k \in Keys, NEW session \in Session, store' = [store EXCEPT ![k] = session],
           e.type = "OFFER_MADE" => tables.offers[e.payload.offer] = None,
           e.type \in {"OFFER_REJECTED", "OFFER_COUNTERED", "ITEM_ACQUIRED"} =>
               store[k] # None /\ e.payload.offer = store[k].pending,
           \/ store[k] # None /\ session.id = store[k].id
           \/ e.type = "SESSION_STARTED" /\ session.id = e.payload.session,
           session.state = "CONFIRMED" => e.type = "ITEM_ACQUIRED"
    PROVE  HandlerStep
<1>0. /\ store \in [Keys -> Session \cup {None}]
      /\ \A l \in Keys : store[l] # None =>
            store[l].id \in Sessions /\ store[l].pending \in Offers \cup {None}
  BY DEF NegotiationTypeOK, Session
<1>1. \A l \in Keys : store'[l] = IF l = k THEN session ELSE store[l]
  BY <1>0
<1>2. AnswersStay
  <2> SUFFICES ASSUME NEW o \in Offers, tables.offers[o] # None,
                      tables.offers[o].outcome # "PENDING"
               PROVE  tables'.offers[o].outcome = tables.offers[o].outcome
    BY DEF AnswersStay
  <2>1. OfferMoves(tables, tables', e, o)
    BY DEF Moves
  <2>2. store[k] # None => Shows(tables, store[k])
    BY DEF NegotiationInv, ShowsAll
  <2>3. store[k] # None => store[k].pending # o
    BY <2>2, NoneAssumption DEF Shows, WaitingIn
  <2> QED BY <2>1, <2>3 DEF OfferMoves, OutcomeAfter
<1>3. RowsStay
  BY <1>0, <1>1 DEF RowsStay, Moves, SessionMoves, Session
<1>4. DealsCredited
  <2> SUFFICES ASSUME NEW l \in Keys, store[l] # None, store'[l] # None,
                      store'[l].state = "CONFIRMED", store[l].pending # None,
                      tables.offers[store[l].pending] # None
               PROVE  tables'.offers[store[l].pending].outcome = "CONFIRMED"
    BY DEF DealsCredited
  <2>1. store[l].state = "OFFER_PENDING"
    BY DEF NegotiationInv, Apart
  <2>2. l = k
    BY <1>1, <2>1
  <2>3. e.type = "ITEM_ACQUIRED" /\ e.payload.offer = store[l].pending
    BY <1>1, <2>2
  <2> QED BY <1>0, <2>3 DEF Moves, OfferMoves, OutcomeAfter
<1> QED
  BY <1>2, <1>3, <1>4 DEF HandlerStep

\* A step that changes no session keeps what the tables showed, or forgets it.
LEMMA IdleStep ==
    ASSUME NegotiationTypeOK, NegotiationInv,
           UNCHANGED store \/ store' = [k \in Keys |-> None],
           AnswersStay,
           \/ store' = [k \in Keys |-> None] \/ "clearing" \in lapses
           \/ \A s \in Sessions : tables.sessions[s] # None => tables'.sessions[s] # None
    PROVE  HandlerStep
<1>0. \A l \in Keys : store[l] # None => store[l].id \in Sessions
  BY DEF NegotiationTypeOK, Session
<1>1. RowsStay
  BY <1>0 DEF RowsStay
<1>2. DealsCredited
  BY DEF DealsCredited, NegotiationInv, Apart
<1> QED
  BY <1>1, <1>2 DEF HandlerStep

-----------------------------------------------------------------------------
LEMMA OpenSessionKeeps ==
    ASSUME TypeOK, NegotiationTypeOK, FreshIds(events), NegotiationInv,
           NEW k \in Keys, NEW s \in Sessions, OpenSession(k, s)
    PROVE  NegotiationInv' /\ HandlerStep
<1> DEFINE payload == [NoPayload EXCEPT !.session = s]
           e == [type |-> "SESSION_STARTED", payload |-> payload]
           session == [id |-> s, state |-> "IDLE", pending |-> None, item |-> None]
           st == [store EXCEPT ![k] = session]
<1>1. e \in Recordable /\ e.type = "SESSION_STARTED" /\ payload.session = s /\ payload.offer = None
      /\ e.payload.session = s /\ e.payload.offer = None
  BY NoneAssumption
     DEF Recordable, Payload, NoPayload, Addressed, EventType, SessionEvents,
         ItemEvents, SaleEvents
<1>2. Record("SESSION_STARTED", payload) /\ s \notin KnownSessions /\ s \notin HeldSessions
      /\ store' = st
  BY DEF OpenSession, StartSession
<1>3. session \in Session /\ IsOpen(session) /\ session.id = s /\ session.pending = None
  BY NoSessionAssumption DEF Session, IsOpen
<1>4. store \in [Keys -> Session \cup {None}]
  BY DEF NegotiationTypeOK
<1>5. \A l \in Keys : store[l] # None => store[l].id # s
  BY <1>2 DEF HeldSessions, Held
<1>6. OffersOf(tables.offers, s) = {}
  BY <1>2 DEF KnownSessions
<1>7. OffersOf(Replay(events).offers, s) = {}
  <2>1. Named(Replay(events), events, Len(events))
    BY ReplayMatchedNumbered DEF TypeOK
  <2>2. ~ NamesSession(events, Len(events), s)
    BY <1>2 DEF NamesSession, KnownSessions, Mentioned
  <2> QED BY <2>1, <2>2 DEF Named, OffersOf
<1>8. /\ Moves(tables, tables', e)
      /\ Moves(Replay(events), Replay(events'), e)
      /\ SameOutcomes(tables', Replay(events'))
      /\ phase = "idle" /\ UNCHANGED <<phase, lapses>>
  BY <1>1, <1>2, Moved
<1>9. session.state = "IDLE"
  OBVIOUS
<1> HIDE DEF e, session, payload
<1>10. HandlerStep
  BY <1>1, <1>2, <1>3, <1>8, <1>9, EventStep
<1>11. Apart(st)
  BY <1>3, <1>4, <1>5, ApartAfter DEF NegotiationInv
<1>12. ShowsAll(tables', st)
  BY <1>1, <1>3, <1>4, <1>5, <1>6, <1>8, ShownOpened DEF NegotiationInv
<1>13. ShowsAll(Replay(events'), st)
  BY <1>1, <1>3, <1>4, <1>5, <1>7, <1>8, ShownOpened DEF NegotiationInv
<1> HIDE DEF st
<1> QED
  BY <1>2, <1>8, <1>10, <1>11, <1>12, <1>13, HandlerKeeps

\* An offer that is answered leaves the table.
LEMMA AnswerKeeps ==
    ASSUME TypeOK, NegotiationTypeOK, NegotiationInv,
           NEW k \in Keys, TurnDown(k) \/ Reject(k) \/ \E price \in Amounts : Counter(k, price)
    PROVE  NegotiationInv' /\ HandlerStep
<1>0. store \in [Keys -> Session \cup {None}] /\ store[k] # None /\ store[k] \in Session
  BY DEF NegotiationTypeOK, TurnDown, Reject, Counter, IsOpen
<1>1. store[k].pending # None /\ store[k].state = "OFFER_PENDING" /\ store[k].pending \in Offers
  BY <1>0 DEF TurnDown, Reject, Counter, NegotiationInv, Apart, Session
<1> DEFINE session == [store[k] EXCEPT !.pending = None, !.state = "IDLE"]
           st == [store EXCEPT ![k] = session]
<1>2. /\ session \in Session /\ IsOpen(session)
      /\ session.id = store[k].id /\ session.pending = None /\ session.state = "IDLE"
  BY <1>0, NoSessionAssumption DEF Session, IsOpen
<1>3. store' = st
  <2>1. CASE TurnDown(k) \/ \E price \in Amounts : Counter(k, price)
    BY <1>0, <2>1 DEF TurnDown, Counter
  <2>2. CASE Reject(k)
    BY <1>0, <1>1, <2>2 DEF Reject, Session
  <2> QED BY <2>1, <2>2
<1> HIDE DEF session
<1>4. ASSUME NEW e \in Recordable, Record(e.type, e.payload), e.payload.session = None,
             e.type \in {"OFFER_REJECTED", "OFFER_COUNTERED"},
             e.payload.offer = store[k].pending
      PROVE  NegotiationInv' /\ HandlerStep
  <2>0. e = [type |-> e.type, payload |-> e.payload]
    BY DEF Recordable
  <2>1. /\ Moves(tables, tables', e)
        /\ Moves(Replay(events), Replay(events'), e)
        /\ SameOutcomes(tables', Replay(events'))
        /\ phase = "idle" /\ UNCHANGED <<phase, lapses>>
    BY <1>4, <2>0, Moved
  <2>2. Apart(st)
    BY <1>0, <1>2, ApartSameSession DEF NegotiationInv
  <2>3. ShowsAll(tables', st)
    BY <1>0, <1>1, <1>2, <1>4, <2>1, ShownTurnedDown DEF NegotiationInv
  <2>4. ShowsAll(Replay(events'), st)
    BY <1>0, <1>1, <1>2, <1>4, <2>1, ShownTurnedDown DEF NegotiationInv
  <2>5. HandlerStep
    BY <1>0, <1>2, <1>3, <1>4, <2>1, EventStep
  <2> HIDE DEF st
  <2> QED BY <1>3, <2>1, <2>2, <2>3, <2>4, <2>5, HandlerKeeps
<1>5. CASE RejectOffer(store[k].pending)
  <2> DEFINE payload == [NoPayload EXCEPT !.offer = store[k].pending]
             e == [type |-> "OFFER_REJECTED", payload |-> payload]
  <2>1. e \in Recordable /\ e.type = "OFFER_REJECTED" /\ e.payload = payload
        /\ payload.session = None /\ payload.offer = store[k].pending
    BY <1>1, NoneAssumption
       DEF Recordable, Payload, NoPayload, Addressed, EventType, SessionEvents,
           ItemEvents, SaleEvents
  <2>2. Record("OFFER_REJECTED", payload)
    BY <1>5 DEF RejectOffer
  <2> HIDE DEF e, payload
  <2> QED BY <1>4, <2>1, <2>2
<1>6. ASSUME NEW price \in Amounts, CounterOffer(store[k].pending, price)
      PROVE  NegotiationInv' /\ HandlerStep
  <2> DEFINE payload == [NoPayload EXCEPT !.offer = store[k].pending, !.amount = price]
             e == [type |-> "OFFER_COUNTERED", payload |-> payload]
  <2>1. e \in Recordable /\ e.type = "OFFER_COUNTERED" /\ e.payload = payload
        /\ payload.session = None /\ payload.offer = store[k].pending
    BY <1>1, NoneAssumption
       DEF Recordable, Payload, NoPayload, Addressed, EventType, SessionEvents,
           ItemEvents, SaleEvents
  <2>2. Record("OFFER_COUNTERED", payload)
    BY <1>6 DEF CounterOffer
  <2> HIDE DEF e, payload
  <2> QED BY <1>4, <2>1, <2>2
<1> QED
  BY <1>5, <1>6 DEF TurnDown, Reject, Counter

LEMMA MakeOfferKeeps ==
    ASSUME TypeOK, NegotiationTypeOK, NegotiationInv,
           NEW k \in Keys, NEW o \in Offers, MakeOffer(k, o)
    PROVE  NegotiationInv' /\ HandlerStep
<1>0. /\ store \in [Keys -> Session \cup {None}] /\ IsOpen(store[k]) /\ store[k].pending = None
      /\ store[k] # None /\ store[k] \in Session
  BY DEF NegotiationTypeOK, MakeOffer, IsOpen
<1> DEFINE session == [store[k] EXCEPT !.pending = o, !.state = "OFFER_PENDING"]
           st == [store EXCEPT ![k] = session]
           payload == [NoPayload EXCEPT !.session = store[k].id, !.offer = o]
           e == [type |-> "OFFER_MADE", payload |-> payload]
<1>1. o \in Offers /\ o # None /\ store[k].id \in Sessions
  BY <1>0, NoneAssumption DEF Session
<1>2. /\ session \in Session /\ IsOpen(session) /\ session.state = "OFFER_PENDING"
      /\ session.id = store[k].id /\ session.pending = o
  BY <1>0, <1>1, NoSessionAssumption DEF Session, IsOpen
<1>3. store' = st
  BY <1>0 DEF MakeOffer
<1>4. /\ e \in Recordable /\ e.type = "OFFER_MADE" /\ e.payload = payload
      /\ payload.session = store[k].id /\ payload.offer = o
  BY <1>1, NoneAssumption
     DEF Recordable, Payload, NoPayload, Addressed, EventType, SessionEvents,
         ItemEvents, SaleEvents
<1>5. Record("OFFER_MADE", payload)
  BY DEF MakeOffer, RecordOffer
<1>6. \A l \in Keys : store[l] # None => store[l].pending # o
  BY DEF MakeOffer, HeldOffers, Held
<1>n. tables.offers[o] = None
  BY DEF MakeOffer, RecordOffer, KnownOffers
<1>7. /\ Moves(tables, tables', e)
      /\ Moves(Replay(events), Replay(events'), e)
      /\ SameOutcomes(tables', Replay(events'))
      /\ phase = "idle" /\ UNCHANGED <<phase, lapses>>
  BY <1>4, <1>5, Moved
<1> HIDE DEF session, payload, e
<1>12. HandlerStep
  BY <1>0, <1>2, <1>3, <1>4, <1>7, <1>n, EventStep
<1>8. \A l \in Keys \ {k} : store[l] # None => store[l].id # session.id
  BY <1>0, <1>2 DEF NegotiationInv, Apart
<1>9. Apart(st)
  BY <1>0, <1>2, <1>6, <1>8, ApartAfter DEF NegotiationInv
<1>10. ShowsAll(tables', st)
  BY <1>0, <1>1, <1>2, <1>4, <1>6, <1>7, ShownOffered DEF NegotiationInv
<1>11. ShowsAll(Replay(events'), st)
  BY <1>0, <1>1, <1>2, <1>4, <1>6, <1>7, ShownOffered DEF NegotiationInv
<1> HIDE DEF st
<1> QED
  BY <1>3, <1>7, <1>9, <1>10, <1>11, <1>12, HandlerKeeps

LEMMA ConfirmKeeps ==
    ASSUME TypeOK, NegotiationTypeOK, NegotiationInv, NEW k \in Keys, NEW i \in Items,
           NEW price \in Amounts, NEW est \in Estimates, Confirm(k, i, price, est)
    PROVE  NegotiationInv' /\ HandlerStep
<1>0. store \in [Keys -> Session \cup {None}] /\ store[k] # None /\ store[k] \in Session
  BY DEF NegotiationTypeOK, Confirm
<1> DEFINE session == [store[k] EXCEPT !.item = i, !.pending = None, !.state = "CONFIRMED"]
           st == [store EXCEPT ![k] = session]
           payload == [NoPayload EXCEPT !.item = i, !.session = store[k].id,
                           !.offer = store[k].pending, !.amount = price, !.est = est]
           e == [type |-> "ITEM_ACQUIRED", payload |-> payload]
<1>1. store[k].id \in Sessions /\ store[k].pending \in Offers \cup {None} /\ est \in Amounts
  BY <1>0, LedgerAssumption DEF Session
<1>2. session \in Session /\ session.id = store[k].id /\ session.pending = None
  BY <1>0 DEF Session
<1>3. store' = st
  BY <1>0 DEF Confirm
<1>4. /\ e \in Recordable /\ e.type = "ITEM_ACQUIRED" /\ e.payload = payload
      /\ payload.session = store[k].id /\ payload.offer = store[k].pending
  BY <1>1, NoneAssumption
     DEF Recordable, Payload, NoPayload, Addressed, EventType, SessionEvents,
         ItemEvents, SaleEvents
<1>5. Record("ITEM_ACQUIRED", payload)
  BY DEF Confirm, AcquireItem
<1>7. /\ Moves(tables, tables', e)
      /\ Moves(Replay(events), Replay(events'), e)
      /\ SameOutcomes(tables', Replay(events'))
      /\ phase = "idle" /\ UNCHANGED <<phase, lapses>>
  BY <1>4, <1>5, Moved
<1> HIDE DEF session, payload, e
<1>8. HandlerStep
  BY <1>0, <1>2, <1>3, <1>4, <1>7, EventStep
<1>9. Apart(st)
  BY <1>0, <1>2, ApartSameSession DEF NegotiationInv
<1>10. ShowsAll(tables', st)
  BY <1>0, <1>2, <1>4, <1>7, ShownConfirmed DEF NegotiationInv
<1>11. ShowsAll(Replay(events'), st)
  BY <1>0, <1>2, <1>4, <1>7, ShownConfirmed DEF NegotiationInv
<1> HIDE DEF st
<1>12. NegotiationInv'
  BY <1>3, <1>7, <1>9, <1>10, <1>11, HandlerKeeps
<1> QED
  BY <1>8, <1>12

LEMMA AbandonKeeps ==
    ASSUME TypeOK, NegotiationTypeOK, NegotiationInv, NEW k \in Keys, Abandon(k)
    PROVE  NegotiationInv' /\ HandlerStep
<1>0. store \in [Keys -> Session \cup {None}] /\ store[k] # None /\ store[k] \in Session
  BY DEF NegotiationTypeOK, Abandon, LeftOpen, IsOpen
<1> DEFINE session == [store[k] EXCEPT !.pending = None, !.state = "ABANDONED"]
           st == [store EXCEPT ![k] = session]
           payload == [NoPayload EXCEPT !.session = store[k].id]
           e == [type |-> "SESSION_ABANDONED", payload |-> payload]
<1>1. store[k].id \in Sessions
  BY <1>0 DEF Session
<1>2. session \in Session /\ session.id = store[k].id /\ session.pending = None
      /\ session.state = "ABANDONED"
  BY <1>0 DEF Session
<1>3. store' = st
  BY <1>0 DEF Abandon
<1>4. /\ e \in Recordable /\ e.type = "SESSION_ABANDONED" /\ e.payload = payload
      /\ payload.session = store[k].id /\ payload.offer = None
  BY <1>1, NoneAssumption
     DEF Recordable, Payload, NoPayload, Addressed, EventType, SessionEvents,
         ItemEvents, SaleEvents
<1>5. Record("SESSION_ABANDONED", payload)
  BY DEF Abandon, AbandonSession
<1>7. /\ Moves(tables, tables', e)
      /\ Moves(Replay(events), Replay(events'), e)
      /\ SameOutcomes(tables', Replay(events'))
      /\ phase = "idle" /\ UNCHANGED <<phase, lapses>>
  BY <1>4, <1>5, Moved
<1> HIDE DEF session, payload, e
<1>8. HandlerStep
  BY <1>0, <1>2, <1>3, <1>4, <1>7, EventStep
<1>9. Apart(st)
  BY <1>0, <1>2, ApartSameSession DEF NegotiationInv
<1>10. ShowsAll(tables', st)
  BY <1>0, <1>2, <1>4, <1>7, ShownAbandoned DEF NegotiationInv
<1>11. ShowsAll(Replay(events'), st)
  BY <1>0, <1>2, <1>4, <1>7, ShownAbandoned DEF NegotiationInv
<1> HIDE DEF st
<1> QED
  BY <1>3, <1>7, <1>8, <1>9, <1>10, <1>11, HandlerKeeps

LEMMA ValuationKeeps ==
    ASSUME TypeOK, NegotiationTypeOK, NegotiationInv,
           NEW est \in Estimates, RecordItsValuation(est)
    PROVE  NegotiationInv' /\ HandlerStep
<1> DEFINE payload == [NoPayload EXCEPT !.item = task.item, !.est = est]
           e == [type |-> "VALUATION_RECORDED", payload |-> payload]
<1>1. task.item \in Items /\ est \in Amounts
  BY LedgerAssumption
     DEF RecordItsValuation, NegotiationTypeOK, Task, AtRest, Closing, Offering, Valuing
<1>4. /\ e \in Recordable /\ e.type = "VALUATION_RECORDED" /\ e.payload = payload
      /\ payload.session = None /\ payload.offer = None
  BY <1>1, NoneAssumption
     DEF Recordable, Payload, NoPayload, Addressed, EventType, SessionEvents,
         ItemEvents, SaleEvents
<1>5. Record("VALUATION_RECORDED", payload) /\ store' = store
      /\ store \in [Keys -> Session \cup {None}]
  BY DEF RecordItsValuation, RecordValuation, NegotiationTypeOK
<1>7. /\ Moves(tables, tables', e)
      /\ Moves(Replay(events), Replay(events'), e)
      /\ SameOutcomes(tables', Replay(events'))
      /\ phase = "idle" /\ UNCHANGED <<phase, lapses>>
  BY <1>4, <1>5, Moved
<1> HIDE DEF payload, e
<1>10. ShowsAll(tables', store) /\ ShowsAll(Replay(events'), store)
  BY <1>4, <1>5, <1>7, ShownValued DEF NegotiationInv
<1>11. AnswersStay /\ \A s \in Sessions : tables.sessions[s] # None => tables'.sessions[s] # None
  BY <1>4, <1>7 DEF AnswersStay, Moves, OfferMoves, OutcomeAfter, SessionMoves
<1>12. HandlerStep
  BY <1>5, <1>11, IdleStep
<1> QED
  BY <1>5, <1>7, <1>10, <1>12, HandlerKeeps DEF NegotiationInv

-----------------------------------------------------------------------------
LEMMA ReplayNothing == Replay(<<>>) = EmptyTables
BY EmptyLog, ReplayStepwise DEF Replay

LEMMA NothingShown ==
    /\ \A st \in [Keys -> Session \cup {None}] : ShowsAll(EmptyTables, st)
    /\ \A t \in {tables, EmptyTables} : SameOutcomes(t, EmptyTables)
<1>1. \A s \in Sessions : WaitingIn(EmptyTables, s) = {} /\ EmptyTables.sessions[s] = None
  BY DEF EmptyTables, WaitingIn, OffersOf
<1>2. \A o \in Offers : EmptyTables.offers[o] = None
  BY DEF EmptyTables
<1> QED
  BY <1>1, <1>2 DEF OneWaits, ShowsAll, Shows, SameOutcomes, Session

LEMMA NegotiationInvInit == NegotiationInit => NegotiationInv
<1> SUFFICES ASSUME NegotiationInit PROVE NegotiationInv
  OBVIOUS
<1>1. /\ tables = EmptyTables /\ phase = "down" /\ lapses = {}
      /\ store = [k \in Keys |-> None]
      /\ events = <<>> \/ events \in LegacyLogs
  BY DEF NegotiationInit, Init
<1>2. OneWaits(EmptyTables)
  BY DEF EmptyTables, OneWaits, WaitingIn, OffersOf
<1>3. OneWaits(Replay(events))
  BY <1>1, <1>2, ReplayNothing, LegacyNegotiationsAssumption
<1>4. OneWaits(tables) /\ SameOutcomes(tables, Replay(events))
  BY <1>1, <1>2 DEF SameOutcomes, EmptyTables
<1> QED
  BY <1>1, <1>3, <1>4 DEF NegotiationInv, Control, Apart, ShowsAll

\* The process stops and forgets its sessions, or none is held and it starts.
LEMMA ForgottenKeeps ==
    ASSUME NegotiationInv, store' = [k \in Keys |-> None],
           OneWaits(tables'), OneWaits(Replay(events')), SameOutcomes(tables', Replay(events')),
           phase' # "correcting", "correcting" \notin lapses'
    PROVE  NegotiationInv'
BY DEF NegotiationInv, Control, Apart, ShowsAll, OneWaits, WaitingIn, OffersOf, SameOutcomes

\* The ledger's own steps, with the sessions held in memory as they are.
LEMMA LedgerKeeps ==
    ASSUME NegotiationInv, UNCHANGED <<store, events>>,
           tables' \in {tables, Replay(events)},
           phase' # "correcting", phase' # "down", "correcting" \notin lapses'
    PROVE  NegotiationInv'
<1>1. SameOutcomes(tables', Replay(events'))
  BY DEF SameOutcomes, NegotiationInv
<1>2. ShowsAll(tables', store) /\ ShowsAll(Replay(events'), store)
  BY DEF NegotiationInv
<1> QED
  BY <1>1, <1>2
     DEF NegotiationInv, Control, Apart, ShowsAll, OneWaits, WaitingIn, OffersOf, Shows,
         SameOutcomes

LEMMA NegotiationInvNext ==
    TypeOK /\ NegotiationTypeOK /\ BehindIsCorrections /\ FreshIds(events) /\ NegotiationInv
      /\ LedgerInv /\ [NegotiationNext]_negotiationVars => NegotiationInv' /\ HandlerStep
<1> SUFFICES ASSUME TypeOK, NegotiationTypeOK, BehindIsCorrections, FreshIds(events),
                    LedgerInv, NegotiationInv, [NegotiationNext]_negotiationVars
             PROVE  NegotiationInv' /\ HandlerStep
  OBVIOUS
<1>0. WellFormed(events) /\ watermark \in Nat
  BY DEF TypeOK
<1>k. OneWaits(tables) /\ OneWaits(Replay(events)) /\ SameOutcomes(tables, Replay(events))
      /\ phase # "correcting" /\ "correcting" \notin lapses
  BY DEF NegotiationInv, ShowsAll, Control
<1>s. SameOutcomes(Replay(events), Replay(events))
  BY DEF SameOutcomes
<1>1. CASE \E k \in Keys, s \in Sessions : OpenSession(k, s)
  BY <1>1, OpenSessionKeeps
<1>2. CASE \E k \in Keys : TurnDown(k) \/ Reject(k) \/ \E price \in Amounts : Counter(k, price)
  BY <1>2, AnswerKeeps
<1>3. CASE \E k \in Keys : Abandon(k)
  BY <1>3, AbandonKeeps
<1>4. CASE \E k \in Keys, o \in Offers : MakeOffer(k, o)
  BY <1>4, MakeOfferKeeps
<1>5. CASE \E k \in Keys, i \in Items, price \in Amounts, est \in Estimates :
               Confirm(k, i, price, est)
  BY <1>5, ConfirmKeeps
<1>6. CASE \E est \in Estimates : RecordItsValuation(est)
  BY <1>6, ValuationKeeps
<1>a. /\ tables' = tables => AnswersStay
      /\ tables' = Replay(events) => AnswersStay
  BY <1>k DEF AnswersStay, SameOutcomes
<1>f. ASSUME store' = [k \in Keys |-> None], AnswersStay PROVE HandlerStep
  BY <1>f, IdleStep
<1>7. CASE UNCHANGED <<vars, store>>
  <2>1. NegotiationInv'
    BY <1>7
       DEF vars, NegotiationInv, Control, Apart, ShowsAll, OneWaits, WaitingIn, OffersOf,
           Shows, SameOutcomes
  <2>2. HandlerStep
    BY <1>7, <1>a, IdleStep DEF vars
  <2> QED BY <2>1, <2>2
<1>8. CASE Stop /\ Forget
  <2>1. NegotiationInv'
    BY <1>8, <1>k, ForgottenKeeps DEF Stop, Forget
  <2>2. HandlerStep
    BY <1>8, <1>a, <1>f DEF Stop, Forget
  <2> QED BY <2>1, <2>2
<1>9. CASE Resume
  <2>1. store' = [k \in Keys |-> None] /\ UNCHANGED events /\ phase' = "idle"
    BY <1>9 DEF Resume, Open, NegotiationInv, Control
  <2>2. CASE RebuildTables
    BY <1>a, <1>f, <1>k, <1>s, <2>1, <2>2, ForgottenKeeps DEF RebuildTables
  <2>3. CASE CatchUpTables
    <3>1. CatchUp(tables, events, watermark) = tables
      BY <1>0, CatchUpIdle DEF BehindIsCorrections
    <3> QED BY <1>a, <1>f, <1>k, <2>1, <2>3, <3>1, ForgottenKeeps DEF CatchUpTables
  <2> QED BY <1>9, <2>2, <2>3 DEF Resume, Open
<1>10. CASE Tidy
  <2>1. CASE ClearLog
    <3>1. /\ events' = <<>> /\ phase' = "clearing"
          /\ UNCHANGED <<tables, lapses, store>>
      BY <1>10, <2>1 DEF Tidy, ClearLog
    <3>2. store \in [Keys -> Session \cup {None}]
      BY DEF NegotiationTypeOK
    <3>3. ShowsAll(Replay(events'), store) /\ SameOutcomes(tables, Replay(events'))
      BY <3>1, <3>2, ReplayNothing, NothingShown
    <3>4. NegotiationInv'
      BY <1>k, <3>1, <3>3
         DEF NegotiationInv, Control, Apart, ShowsAll, OneWaits, WaitingIn, OffersOf, Shows,
             SameOutcomes
    <3>5. HandlerStep
      BY <1>a, <3>1, IdleStep
    <3> QED BY <3>4, <3>5
  <2>2. CASE RebuildAnew
    <3>1. /\ tables' = Replay(events) /\ phase' = "idle" /\ phase = "idle" /\ lapses' = {}
          /\ UNCHANGED <<events, store>>
      BY <1>10, <2>2 DEF Tidy, RebuildAnew, RebuildTables
    <3>2. "clearing" \in lapses \/ tables' = tables
      BY <1>k, <3>1 DEF LedgerInv, UpToDate, TypeOK, Windows
    <3>3. HandlerStep
      BY <1>a, <3>1, <3>2, IdleStep
    <3> QED BY <3>1, <3>3, LedgerKeeps
  <2>3. CASE RebuildFails
    <3>1. HandlerStep
      BY <1>10, <1>a, <2>3, IdleStep DEF Tidy, RebuildFails
    <3> QED BY <1>10, <1>k, <2>3, <3>1, LedgerKeeps DEF Tidy, RebuildFails
  <2> QED BY <1>10, <2>1, <2>2, <2>3 DEF Tidy
<1>11. CASE FinishClearing
  <2>1. store' = [k \in Keys |-> None] /\ tables' = Replay(events) /\ UNCHANGED events
        /\ phase' = "idle" /\ lapses' = {}
    BY <1>11 DEF FinishClearing, Rebuild, RebuildTables, Forget
  <2>2. HandlerStep
    BY <1>a, <1>f, <2>1
  <2> QED BY <1>k, <1>s, <2>1, <2>2, ForgottenKeeps
<1> QED
  BY <1>1, <1>2, <1>3, <1>4, <1>5, <1>6, <1>7, <1>8, <1>9, <1>10, <1>11
     DEF NegotiationNext, negotiationVars, Raise, Close, Kill

-----------------------------------------------------------------------------
(***************************************************************************)
(* The theorems.                                                           *)
(***************************************************************************)
LEMMA NegotiationInvHolds ==
    NegotiationSpec => /\ [](TypeOK /\ NegotiationTypeOK /\ LedgerInv /\ NegotiationInv)
                       /\ [][HandlerStep]_negotiationVars
<1>1. LedgerInv /\ TypeOK /\ NegotiationTypeOK /\ BehindIsCorrections /\ FreshIds(events)
        /\ NegotiationInv /\ [NegotiationNext]_negotiationVars
        => NegotiationInv' /\ [HandlerStep]_negotiationVars
  BY NegotiationInvNext
<1>2. Spec => []LedgerInv
  BY LedgerInvInit, LedgerInvNext, PTL DEF Spec
<1>3. NegotiationSpec => [](LedgerInv /\ TypeOK /\ NegotiationTypeOK /\ BehindIsCorrections
                              /\ FreshIds(events))
  BY <1>2, NegotiationImplementsLedger, NegotiationTypeOKHolds, TypeOKHolds,
     BehindIsCorrectionsHolds, MatchedNumberedHolds, PTL
<1> QED
  BY <1>1, <1>3, NegotiationInvInit, PTL DEF NegotiationSpec

\* An offer is never forgotten in memory while the ledger, and the acceptance curve
\* drawn from it, still waits for its answer: what raises between two transactions of a
\* handler, or erases the history under a session, does not part the two.
THEOREM PendingRecordedHolds == NegotiationSpec => []PendingRecorded
<1>1. NegotiationTypeOK /\ NegotiationInv => PendingRecorded
  <2> SUFFICES ASSUME NegotiationTypeOK, NegotiationInv, NEW k \in Keys, store[k] # None,
                      tables.sessions[store[k].id] # None
               PROVE  Waiting(store[k].id) = {store[k].pending} \ {None}
    BY DEF PendingRecorded
  <2>1. Shows(tables, store[k])
    BY DEF NegotiationInv, ShowsAll
  <2>2. None \notin WaitingIn(tables, store[k].id)
    BY NoneAssumption DEF WaitingIn, OffersOf
  <2> QED BY <2>1, <2>2 DEF Shows, Waiting
<1> QED
  BY <1>1, NegotiationInvHolds, PTL

\* "The chain records itself" (machine.py): however often an offer is moved past, and
\* wherever the process is killed, no session has two offers that wait for an answer.
THEOREM OneOfferWaitsHolds == NegotiationSpec => []OneOfferWaits
<1>1. NegotiationInv => OneOfferWaits
  <2> SUFFICES ASSUME NegotiationInv, NEW s \in Sessions
               PROVE  Cardinality(Waiting(s)) <= 1
    BY DEF OneOfferWaits
  <2>1. \A o, q \in Waiting(s) : o = q
    BY DEF NegotiationInv, ShowsAll, OneWaits, Waiting
  <2>2. CASE Waiting(s) = {}
    BY <2>2, FS_EmptySet
  <2>3. CASE Waiting(s) # {}
    <3> PICK o \in Waiting(s) : Waiting(s) = {o}
      BY <2>1, <2>3
    <3> QED BY FS_Singleton
  <2> QED BY <2>2, <2>3
<1> QED
  BY <1>1, NegotiationInvHolds, PTL

\* An offer that was answered keeps its answer, through confirmations, walk-aways,
\* rebuilds, restarts and a clear that failed half way: each handler answers only what is
\* on the table, and a rebuild finds the same answers in the log.
THEOREM OutcomesFinalHolds == NegotiationSpec => OutcomesFinal
<1>1. HandlerStep => AnswersStay
  BY DEF HandlerStep
<1> QED
  BY <1>1, NegotiationInvHolds, PTL DEF OutcomesFinal

\* Confirming credits the deal to the offer that is on the table (confirm_sale), and
\* nothing else confirms a session.
THEOREM DealCreditedHolds == NegotiationSpec => DealCredited
<1>1. HandlerStep => DealsCredited
  BY DEF HandlerStep
<1> QED
  BY <1>1, NegotiationInvHolds, PTL DEF DealCredited

\* A session in memory never outlives its row, except by a rebuild after a clear that
\* failed half way (clear_history).
THEOREM ClearedTogetherHolds == NegotiationSpec => ClearedTogether
<1>1. HandlerStep => RowsStay
  BY DEF HandlerStep
<1> QED
  BY <1>1, NegotiationInvHolds, PTL DEF ClearedTogether

\* closeEvent leaves no session of this run open that has made an offer: what it finds
\* open it abandons first, and what it finds closed the ledger shows as closed.
THEOREM CloseSettlesHolds == NegotiationSpec => CloseSettles
<1>1. NegotiationTypeOK /\ NegotiationInv => (Close => Settled)
  <2> SUFFICES ASSUME NegotiationTypeOK, NegotiationInv, Close,
                      NEW k \in Keys, store[k] # None,
                      OffersOf(tables.offers, store[k].id) # {},
                      tables.sessions[store[k].id] # None
               PROVE  tables.sessions[store[k].id].state \in {"CONFIRMED", "ABANDONED"}
    BY DEF Settled
  <2>1. ~ IsOpen(store[k])
    BY DEF Close, LeftOpen
  <2>2. Shows(tables, store[k])
    BY DEF NegotiationInv, ShowsAll
  <2> QED BY <2>1, <2>2 DEF Shows
<1> QED
  BY <1>1, NegotiationInvHolds, PTL DEF CloseSettles

=============================================================================
