--------------------------- MODULE EventLedgerProofs ---------------------------
(***************************************************************************)
(* What a reader of a conversation may rely on, for any numbers of         *)
(* messages, parts, readers and events, and any bounds of the ledger: no   *)
(* read misses what the stream delivered, none brings a removed row back,  *)
(* and what one confirms is stored.                                        *)
(***************************************************************************)
EXTENDS EventLedger, WellFoundedInduction, TLAPS

-----------------------------------------------------------------------------
(* Types.                                                                  *)

Top == Larger(MaxLength, 2)

RowsTyped ==
    live \in [Key -> 0..Top] /\ held \in [Key -> 0..Top] /\ hist \in [Key -> 0..Top]
MarksTyped ==
    /\ confirmed \in [Key -> 0..issued] /\ cleared \in [Key -> 0..issued]
    /\ removedAt \in [Key -> 0..issued] /\ rev \in [Key -> Nat]
SetsTyped == settled \subseteq Message /\ removed \subseteq Key /\ forgotten \subseteq Key
CountsTyped == issued \in 0..MaxReads /\ events \in 0..MaxEvents
Plans ==
    [confirmed : SUBSET Key, dropped : SUBSET Message, cleared : SUBSET Key,
     orphans : SUBSET Part, rev : [Key -> Nat]]
ReadOf(n) ==
    [pc : {"closed", "open", "queried", "composed", "committed"},
     ticket : 0..n, seen : [Key -> 0..Top], plan : Plans]
ReadsTyped == reads \in [Reader -> ReadOf(issued)]

Typed == RowsTyped /\ MarksTyped /\ SetsTyped /\ CountsTyped /\ ReadsTyped

LEMMA TopType == Top \in Nat /\ Top >= 2 /\ Top >= MaxLength /\ MaxLength \in Nat
BY LedgerAssumption DEF Top, Larger

\* The rows of messages and of their parts.
LEMMA KeyFacts ==
    /\ Message \subseteq Key /\ Part \subseteq Key /\ Message \subseteq Nat
    /\ \A k \in Key : k \in Part <=> k \notin Message
    /\ \A p \in Part : MessageOf[p] \in Message
    /\ MaxReads \in Nat /\ MaxEvents \in Nat
BY LedgerAssumption DEF Key

LEMMA TypedImpliesTypeOK == Typed => TypeOK
<1> SUFFICES ASSUME Typed PROVE TypeOK
  OBVIOUS
<1> USE DEF Typed
<1>1. {live, hist, held, confirmed, cleared, rev, removedAt} \subseteq [Key -> Nat]
  BY TopType, KeyFacts DEF RowsTyped, MarksTyped, CountsTyped
<1>2. \A k \in Key : live[k] <= Larger(MaxLength, 2) /\ held[k] <= Larger(MaxLength, 2)
  BY TopType DEF RowsTyped, Top
<1>3. \A k \in Key : confirmed[k] <= issued /\ cleared[k] <= issued /\ removedAt[k] <= issued
  BY KeyFacts DEF MarksTyped, CountsTyped
<1> QED BY <1>1, <1>2, <1>3 DEF TypeOK, SetsTyped, CountsTyped, ReadsTyped, ReadOf

-----------------------------------------------------------------------------
(* The kinds of step.                                                      *)

\* The row k, of message m, is told with content n; the entries E are evicted.
Upserted(k, m, n, E) ==
    /\ \/ k = m /\ n <= 2
       \/ k \in Part /\ MessageOf[k] = m /\ live[m] > 0
    /\ Returns \/ k \notin forgotten
    /\ n >= live[k] /\ k \notin E /\ m \notin E
    /\ live' = [live EXCEPT ![k] = n]
    /\ held' = [j \in Key |-> IF j = k THEN n ELSE IF j \in E THEN 0 ELSE held[j]]
    /\ forgotten' = (forgotten \ {k}) \cup {j \in E : held[j] > 0}
    /\ settled' = settled \ ({m} \cup E)
    /\ Changed({k, m}, {})
    /\ events' = events + 1 /\ events < MaxEvents
    /\ UNCHANGED <<hist, issued, reads, removedAt>>

\* The row k is removed, with its parts K.
Removed(k, K) ==
    /\ live[k] > 0
    /\ k \in K /\ K \subseteq Key /\ (k \in Part => K = {k}) /\ (k \in Message => K = Groups({k}))
    /\ RemovesRows(K) /\ Changed({k}, {k})
    /\ forgotten' = forgotten \cup K
    /\ settled' \in SUBSET settled
    /\ events' = events + 1 /\ events < MaxEvents
    /\ UNCHANGED <<hist, issued, reads>>

\* The ledger gives up the entries K, or learns that turns ended.
LetGo(K) ==
    /\ held' = Cleanse(held, K)
    /\ forgotten' = forgotten \cup (K \cap Holding(held))
    /\ settled' \in SUBSET Message
    /\ events' = events \/ (events' = events + 1 /\ events < MaxEvents)
    /\ UNCHANGED <<live, hist, marks, issued, reads, removedAt>>

\* An upsert never evicts the group it belongs to.
LEMMA EvictsOthers ==
    ASSUME NEW h, NEW S, S \subseteq Message, NEW X \in EvictCounts(h, S)
    PROVE  X \subseteq Groups(S) /\ X \subseteq Key
<1>1. PICK D \in EvictedParts(h, S), F \in EvictedMessages(h, S) : X = D \cup Groups(F)
  BY DEF EvictCounts
<1>2. D \subseteq PartsOf(S) /\ F \subseteq S
  BY <1>1 DEF EvictedParts, EvictedMessages, Surplus
<1>3. X \subseteq Groups(S)
  BY <1>1, <1>2 DEF Groups, PartsOf
<1>4. Groups(S) \subseteq Key
  BY KeyFacts DEF Groups, PartsOf
<1> QED BY <1>3, <1>4

LEMMA UpsertKind ==
    ASSUME Typed, NEW k \in Key, NEW m \in Message, NEW n \in 1..Top,
           (k = m /\ n <= 2) \/ (k \in Part /\ MessageOf[k] = m /\ live[m] > 0),
           Returns \/ k \notin forgotten, n >= live[k], Event, Upsert(k, n, m)
    PROVE  \E E \in SUBSET Key : Upserted(k, m, n, E)
<1>1. PICK E \in EvictCounts([held EXCEPT ![k] = n], settled \ {m}) :
          /\ held' = Cleanse([held EXCEPT ![k] = n], E)
          /\ settled' = settled \ ({m} \cup E)
          /\ forgotten' = (forgotten \ {k}) \cup (E \cap Holding(held))
  BY DEF Upsert
<1>2. E \subseteq Groups(settled \ {m}) /\ E \subseteq Key
  BY EvictsOthers DEF Typed, SetsTyped
<1>3. k \notin E /\ m \notin E
  <2>1. settled \ {m} \subseteq Message
    BY DEF Typed, SetsTyped
  <2>2. m \notin Groups(settled \ {m})
    BY KeyFacts DEF Groups, PartsOf
  <2>3. k \notin Groups(settled \ {m})
    BY <2>1, KeyFacts DEF Groups, PartsOf
  <2> QED BY <1>2, <2>2, <2>3
<1>4. held' = [j \in Key |-> IF j = k THEN n ELSE IF j \in E THEN 0 ELSE held[j]]
  BY <1>1, <1>3 DEF Cleanse, Typed, RowsTyped
<1>5. E \cap Holding(held) = {j \in E : held[j] > 0}
  BY <1>2 DEF Holding
<1> QED BY <1>1, <1>2, <1>3, <1>4, <1>5 DEF Upserted, Upsert, Event

\* Every step is of one kind.
LEMMA Kinds ==
    ASSUME Typed, [Next]_vars
    PROVE  \/ \E k \in Key, m \in Message, n \in 1..Top, E \in SUBSET Key : Upserted(k, m, n, E)
           \/ \E p \in Part : PartDelta(p)
           \/ \E k \in Key, K \in SUBSET Key : Removed(k, K)
           \/ \E K \in SUBSET Key : LetGo(K)
           \/ \E k \in Key : Ingest(k)
           \/ \E r \in Reader : BeginRead(r) \/ Query(r) \/ Capture(r) \/ Commit(r) \/ End(r)
           \/ UNCHANGED vars
<1>1. CASE \E p \in Part : PartUpserted(p)
  <2>1. PICK p \in Part, n \in 1..MaxLength :
           /\ Event /\ live[MessageOf[p]] > 0 /\ (Returns \/ p \notin forgotten)
           /\ n >= live[p] /\ Upsert(p, n, MessageOf[p])
    BY <1>1 DEF PartUpserted
  <2>2. n \in 1..Top /\ p \in Key /\ MessageOf[p] \in Message
    BY TopType, KeyFacts
  <2> QED BY <2>1, <2>2, UpsertKind
<1>2. CASE \E m \in Message : MessageUpserted(m)
  <2>1. PICK m \in Message, n \in {1, 2} :
           Event /\ (Returns \/ m \notin forgotten) /\ n >= live[m] /\ Upsert(m, n, m)
    BY <1>2 DEF MessageUpserted
  <2>2. n \in 1..Top /\ n <= 2 /\ m \in Key
    BY TopType, KeyFacts
  <2> QED BY <2>1, <2>2, UpsertKind
<1>3. CASE \E p \in Part : PartRemoved(p)
  <2>1. PICK p \in Part : PartRemoved(p)
    BY <1>3
  <2>2. Removed(p, {p})
    BY <2>1, KeyFacts DEF PartRemoved, Removed, Event
  <2> QED BY <2>2, KeyFacts
<1>4. CASE \E m \in Message : MessageRemoved(m)
  <2>1. PICK m \in Message : MessageRemoved(m)
    BY <1>4
  <2>2. Groups({m}) \subseteq Key /\ m \in Groups({m})
    BY KeyFacts DEF Groups, PartsOf
  <2>3. Removed(m, Groups({m}))
    BY <2>1, <2>2, KeyFacts DEF MessageRemoved, Removed, Event
  <2> QED BY <2>2, <2>3, KeyFacts
<1>5. CASE HistoryRewritten \/ Settle \/ \E m \in Message : Evict(m)
  <2>1. settled \subseteq Message /\ held \in [Key -> 0..Top]
    BY DEF Typed, SetsTyped, RowsTyped
  <2>2. CASE HistoryRewritten
    <3>1. Groups(settled) \subseteq Key
      BY <2>1, KeyFacts DEF Groups, PartsOf
    <3>2. LetGo(Groups(settled))
      BY <2>1, <2>2 DEF HistoryRewritten, LetGo, Event
    <3> QED BY <3>1, <3>2
  <2>3. CASE Settle
    <3>1. LetGo({})
      BY <2>1, <2>3 DEF Settle, LetGo, Cleanse
    <3> QED BY <3>1
  <2>4. CASE \E m \in Message : Evict(m)
    <3>1. PICK m \in Message : Evict(m)
      BY <2>4
    <3>2. Groups({m}) \subseteq Key
      BY KeyFacts DEF Groups, PartsOf
    <3>3. LetGo(Groups({m}))
      BY <2>1, <3>1 DEF Evict, LetGo
    <3> QED BY <3>2, <3>3
  <2> QED BY <1>5, <2>2, <2>3, <2>4
<1> QED BY <1>1, <1>2, <1>3, <1>4, <1>5 DEF Next

-----------------------------------------------------------------------------
(* The type invariant.                                                     *)

\* The choice of oldestOpenLocked: no other open read is older.
LEMMA OldestOfOpen ==
    ASSUME Typed, NEW r \in Reader
    PROVE  /\ OldestOpen(r) \in 0..issued + 1
           /\ \A o \in Reader \ {r} : reads[o].pc # "closed" => OldestOpen(r) <= reads[o].ticket
           /\ (\A o \in Reader \ {r} : reads[o].pc = "closed") => OldestOpen(r) = issued + 1
<1> DEFINE still == {reads[o].ticket : o \in {s \in Reader \ {r} : reads[s].pc # "closed"}}
           R     == OpToRel(<, Nat)
<1>1. issued \in Nat /\ still \subseteq 0..issued
  BY KeyFacts DEF Typed, CountsTyped, ReadsTyped, ReadOf
<1>2. \E t \in still \cup {issued + 1} : \A u \in still : t <= u
  <2>1. CASE still = {}
    BY <2>1
  <2>2. CASE still # {}
    <3>1. IsWellFoundedOn(R, Nat)
      BY NatLessThanWellFounded
    <3>2. still \subseteq Nat
      BY <1>1
    <3> HIDE DEF R, still
    <3>3. PICK t \in still : \A u \in still : ~ (<<u, t>> \in R)
      BY <2>2, <3>1, <3>2, WFMin
    <3>4. \A u \in still : t <= u
      <4> TAKE u \in still
      <4>1. u < t => <<u, t>> \in R
        BY <3>2 DEF R, OpToRel
      <4> QED BY <3>2, <3>3, <4>1
    <3> QED BY <3>4
  <2> QED BY <2>1, <2>2
<1>3. OldestOpen(r) = CHOOSE t \in still \cup {issued + 1} : \A u \in still : t <= u
  BY DEF OldestOpen
<1>4. OldestOpen(r) \in still \cup {issued + 1} /\ \A u \in still : OldestOpen(r) <= u
  <2> HIDE DEF still
  <2> QED BY <1>2, <1>3
<1>5. (\A o \in Reader \ {r} : reads[o].pc = "closed") => still = {}
  OBVIOUS
<1> QED BY <1>1, <1>4, <1>5

LEMMA ChangedTypes ==
    ASSUME Typed, NEW K \in SUBSET Key, NEW T \in SUBSET Key, Changed(K, T)
    PROVE  /\ confirmed' \in [Key -> 0..issued] /\ cleared' \in [Key -> 0..issued]
           /\ rev' \in [Key -> Nat] /\ removed' \subseteq Key
BY DEF Changed, Cleanse, Typed, MarksTyped, SetsTyped, CountsTyped

LEMMA UpsertedTypes ==
    ASSUME Typed, NEW k \in Key, NEW m \in Message, NEW n \in 1..Top, NEW E \in SUBSET Key, Upserted(k, m, n, E)
    PROVE  Typed'
<1>1. /\ confirmed' \in [Key -> 0..issued] /\ cleared' \in [Key -> 0..issued]
      /\ rev' \in [Key -> Nat] /\ removed' \subseteq Key
  BY ChangedTypes, KeyFacts DEF Upserted
<1>2. MarksTyped' /\ ReadsTyped'
  BY <1>1 DEF Upserted, Typed, MarksTyped, ReadsTyped, ReadOf, Plans
<1>3. SetsTyped' /\ CountsTyped'
  <2>1. SetsTyped'
    BY <1>1 DEF Upserted, Typed, SetsTyped
  <2>2. CountsTyped'
    BY KeyFacts DEF Upserted, Typed, CountsTyped
  <2> QED BY <2>1, <2>2
<1>4. RowsTyped'
  BY TopType DEF Upserted, Typed, RowsTyped
<1> QED BY <1>2, <1>3, <1>4 DEF Typed

LEMMA DeltaTypes ==
    ASSUME Typed, NEW p \in Part, PartDelta(p)
    PROVE  Typed'
<1>1. /\ confirmed' \in [Key -> 0..issued] /\ cleared' \in [Key -> 0..issued]
      /\ rev' \in [Key -> Nat] /\ removed' \subseteq Key
  BY ChangedTypes, KeyFacts DEF PartDelta
<1>2. MarksTyped' /\ ReadsTyped'
  BY <1>1 DEF PartDelta, Event, Typed, MarksTyped, ReadsTyped, ReadOf, Plans
<1>3. SetsTyped' /\ CountsTyped'
  BY <1>1, KeyFacts DEF PartDelta, Event, Typed, SetsTyped, CountsTyped
<1>4. RowsTyped'
  <2>1. live[p] + 1 \in 0..Top /\ (held[p] = live[p] => held[p] + 1 \in 0..Top)
    BY TopType, KeyFacts DEF PartDelta
  <2> QED BY <2>1 DEF PartDelta, Event, Typed, RowsTyped
<1> QED BY <1>2, <1>3, <1>4 DEF Typed

LEMMA RemovedTypes ==
    ASSUME Typed, NEW k \in Key, NEW K \in SUBSET Key, Removed(k, K)
    PROVE  Typed'
<1>1. /\ confirmed' \in [Key -> 0..issued] /\ cleared' \in [Key -> 0..issued]
      /\ rev' \in [Key -> Nat] /\ removed' \subseteq Key
  BY ChangedTypes DEF Removed
<1>2. MarksTyped' /\ ReadsTyped'
  BY <1>1, KeyFacts DEF Removed, RemovesRows, Typed, MarksTyped, CountsTyped, ReadsTyped, ReadOf, Plans
<1>3. SetsTyped' /\ CountsTyped'
  BY <1>1, KeyFacts DEF Removed, Typed, SetsTyped, CountsTyped
<1>4. RowsTyped'
  BY TopType DEF Removed, RemovesRows, Cleanse, Typed, RowsTyped
<1> QED BY <1>2, <1>3, <1>4 DEF Typed

LEMMA LetGoTypes ==
    ASSUME Typed, NEW K \in SUBSET Key, LetGo(K)
    PROVE  Typed'
<1>1. RowsTyped' /\ MarksTyped'
  BY TopType DEF LetGo, marks, Cleanse, Typed, RowsTyped, MarksTyped
<1>2. SetsTyped'
  BY DEF LetGo, marks, Typed, SetsTyped
<1>3. CountsTyped' /\ ReadsTyped'
  BY KeyFacts DEF LetGo, Typed, CountsTyped, ReadsTyped
<1> QED BY <1>1, <1>2, <1>3 DEF Typed

LEMMA PlanType ==
    ASSUME Typed, NEW r \in Reader
    PROVE  Plan(r) \in Plans
<1>1. Captured(r) \subseteq Key /\ Dropped(r) \subseteq Message /\ Attached(r) \subseteq Part
  BY DEF Captured, Holding, Dropped, Attached
<1>2. rev \in [Key -> Nat] /\ removed \subseteq Key
  BY DEF Typed, MarksTyped, SetsTyped
<1> QED BY <1>1, <1>2, KeyFacts DEF Plan, Plans

LEMMA ReadTypes ==
    ASSUME Typed, NEW r \in Reader, BeginRead(r) \/ Query(r) \/ Capture(r)
    PROVE  Typed'
<1>1. RowsTyped' /\ SetsTyped'
  BY DEF BeginRead, Query, Capture, content, marks, Typed, RowsTyped, SetsTyped
<1>2. CASE BeginRead(r)
  <2>1. issued \in Nat /\ issued' = issued + 1 /\ issued' \in 0..MaxReads
    BY <1>2, KeyFacts DEF BeginRead, Typed, CountsTyped
  <2>2. MarksTyped' /\ CountsTyped'
    BY <1>2, <2>1 DEF BeginRead, content, marks, Typed, MarksTyped, CountsTyped
  <2>3. ReadsTyped'
    <3>1. \A o \in Reader : reads[o] \in ReadOf(issued')
      BY <2>1 DEF Typed, ReadsTyped, ReadOf
    <3>2. [reads[r] EXCEPT !.pc = "open", !.ticket = issued + 1] \in ReadOf(issued')
      <4>1. issued + 1 \in 0..issued'
        BY <2>1
      <4>2. reads[r] \in ReadOf(issued')
        BY <3>1
      <4> QED BY <4>1, <4>2 DEF ReadOf
    <3>3. reads' = [reads EXCEPT ![r] = [reads[r] EXCEPT !.pc = "open", !.ticket = issued + 1]]
      BY <1>2 DEF BeginRead, Typed, ReadsTyped
    <3> QED BY <3>1, <3>2, <3>3 DEF Typed, ReadsTyped
  <2> QED BY <1>1, <2>2, <2>3 DEF Typed
<1>3. CASE Query(r) \/ Capture(r)
  <2>1. MarksTyped' /\ CountsTyped'
    BY <1>3 DEF Query, Capture, content, marks, Typed, MarksTyped, CountsTyped
  <2>2. reads[r] \in ReadOf(issued) /\ hist \in [Key -> 0..Top] /\ NoRows \in [Key -> 0..Top]
    BY TopType DEF Typed, ReadsTyped, RowsTyped, NoRows
  <2>3. PICK x \in ReadOf(issued) : reads' = [reads EXCEPT ![r] = x]
    <3>1. CASE Query(r)
      <4>1. [reads[r] EXCEPT !.pc = "queried", !.seen = hist] \in ReadOf(issued)
        BY <2>2 DEF ReadOf
      <4>2. reads' = [reads EXCEPT ![r] = [reads[r] EXCEPT !.pc = "queried", !.seen = hist]]
        BY <3>1 DEF Query, Typed, ReadsTyped
      <4> QED BY <4>1, <4>2
    <3>2. CASE Capture(r)
      <4>1. [reads[r] EXCEPT !.pc = "composed", !.seen = NoRows, !.plan = Plan(r)] \in ReadOf(issued)
        BY <2>2, PlanType DEF ReadOf
      <4> QED BY <3>2, <4>1 DEF Capture, Typed, ReadsTyped
    <3> QED BY <1>3, <3>1, <3>2
  <2>4. issued' = issued
    BY <1>3 DEF Query, Capture
  <2>5. ReadsTyped'
    BY <2>3, <2>4 DEF Typed, ReadsTyped
  <2> QED BY <1>1, <2>1, <2>5 DEF Typed
<1> QED BY <1>2, <1>3

\* What a commit lets go of and marks.
LEMMA CommitShape ==
    ASSUME Typed, NEW r \in Reader, Commit(r)
    PROVE  \E gone \in SUBSET Key :
              /\ held' = Cleanse(held, gone)
              /\ forgotten' = forgotten \cup (gone \cap Holding(held))
              /\ settled' \in SUBSET settled
<1> DEFINE plan == reads[r].plan
           drop == {m \in plan.dropped : Same(r, m) /\ m \in settled}
           gone == Groups(drop) \cup {p \in plan.orphans : Same(r, p)}
<1>1. plan.dropped \subseteq Message /\ plan.orphans \subseteq Part
  BY DEF Typed, ReadsTyped, ReadOf, Plans
<1>2. gone \subseteq Key
  BY <1>1, KeyFacts DEF Groups, PartsOf
<1>3. /\ held' = Cleanse(held, gone) /\ settled' = settled \ drop
      /\ forgotten' = forgotten \cup (gone \cap Holding(held))
  BY DEF Commit
<1> HIDE DEF gone, drop
<1> QED BY <1>2, <1>3

LEMMA CommitTypes ==
    ASSUME Typed, NEW r \in Reader, Commit(r)
    PROVE  Typed'
<1>1. PICK gone \in SUBSET Key :
        /\ held' = Cleanse(held, gone)
        /\ forgotten' = forgotten \cup (gone \cap Holding(held))
        /\ settled' \in SUBSET settled
  BY CommitShape
<1>2. RowsTyped'
  BY <1>1, TopType DEF Commit, Cleanse, Typed, RowsTyped
<1>3. SetsTyped' /\ CountsTyped'
  BY <1>1 DEF Commit, Typed, SetsTyped, CountsTyped
<1>4. MarksTyped'
  <2>1. issued \in Nat /\ issued \in 0..issued
    BY KeyFacts DEF Typed, CountsTyped
  <2> QED BY <2>1 DEF Commit, Typed, MarksTyped
<1>5. ReadsTyped'
  <2>1. NoPlan \in Plans
    BY DEF NoPlan, Plans, NoRows
  <2>2. [reads[r] EXCEPT !.pc = "committed", !.plan = NoPlan] \in ReadOf(issued)
    BY <2>1 DEF Typed, ReadsTyped, ReadOf
  <2>3. reads' = [reads EXCEPT ![r] = [reads[r] EXCEPT !.pc = "committed", !.plan = NoPlan]]
    BY DEF Commit
  <2> QED BY <2>2, <2>3 DEF Commit, Typed, ReadsTyped
<1> QED BY <1>2, <1>3, <1>4, <1>5 DEF Typed

LEMMA EndTypes ==
    ASSUME Typed, NEW r \in Reader, End(r)
    PROVE  Typed'
<1>1. Purge(OldestOpen(r)) /\ UNCHANGED <<live, hist, issued, forgotten, removedAt, events>>
  BY DEF End
<1>2. RowsTyped'
  BY <1>1, TopType DEF Purge, Cleanse, Typed, RowsTyped
<1>3. SetsTyped' /\ CountsTyped'
  BY <1>1 DEF Purge, Typed, SetsTyped, CountsTyped
<1>4. MarksTyped'
  <2>1. 0 \in 0..issued
    BY KeyFacts DEF Typed, CountsTyped
  <2> QED BY <1>1, <2>1 DEF Purge, Cleanse, Typed, MarksTyped
<1>5. Closed \in ReadOf(issued)
  BY TopType, KeyFacts DEF Closed, ReadOf, NoPlan, Plans, NoRows, Typed, CountsTyped
<1>6. ReadsTyped'
  BY <1>5 DEF End, Typed, ReadsTyped
<1> QED BY <1>2, <1>3, <1>4, <1>6 DEF Typed

LEMMA TypedStep == Typed /\ [Next]_vars => Typed'
<1> SUFFICES ASSUME Typed, [Next]_vars PROVE Typed'
  OBVIOUS
<1>1. CASE \E k \in Key : Ingest(k)
  <2>1. RowsTyped'
    BY <1>1 DEF Ingest, content, Typed, RowsTyped
  <2>2. MarksTyped' /\ SetsTyped' /\ CountsTyped' /\ ReadsTyped'
    BY <1>1 DEF Ingest, content, marks, Typed, MarksTyped, SetsTyped, CountsTyped, ReadsTyped, ReadOf, Plans
  <2> QED BY <2>1, <2>2 DEF Typed
<1>2. CASE UNCHANGED vars
  BY <1>2 DEF vars, content, marks, Typed, RowsTyped, MarksTyped, SetsTyped, CountsTyped, ReadsTyped, ReadOf, Plans
<1> QED BY <1>1, <1>2, Kinds, UpsertedTypes, DeltaTypes, RemovedTypes, LetGoTypes, ReadTypes, CommitTypes, EndTypes

-----------------------------------------------------------------------------
(* The invariant, while entries the ledger forgot are not streamed again.  *)

\* What the ledger holds is what the stream told last; removals stay.
Rows ==
    /\ \A k \in Key : held[k] > 0 => held[k] = live[k]
    /\ \A k \in forgotten : held[k] = 0
    /\ \A k \in removed : k \in forgotten /\ live[k] = 0
    /\ \A p \in Part : live[p] > 0 => live[MessageOf[p]] > 0
    /\ \A m \in Message : live[m] <= 2

\* History lags behind the stream, and what a read queried behind history.
Lagging ==
    \A k \in Key : k \notin forgotten \/ live[k] > 0 =>
        /\ hist[k] <= live[k]
        /\ \A r \in Reader : reads[r].pc = "queried" => reads[r].seen[k] <= hist[k]

\* The entries whose tombstone covers the row k.
Covering(k) == {j \in Key : j = k \/ (k \in Part /\ j = MessageOf[k])}

\* A removal has a tombstone as long as a read older than it is open.
Tombs ==
    \A r \in Reader, k \in Key :
        reads[r].pc # "closed" /\ live[k] = 0 /\ reads[r].ticket <= removedAt[k] =>
            \E j \in Covering(k) : j \in removed /\ (cleared[j] = 0 \/ reads[r].ticket <= cleared[j])

\* The rows h do not have all of the entry k.
Behind(h, k) == h[k] < live[k] /\ (k \in Part => h[MessageOf[k]] # 2)

Remembered(k) == k \notin forgotten /\ (k \in Part => MessageOf[k] \notin forgotten)

\* The ledger keeps what history lacks, for each read what that read lacks.
Kept ==
    \A k \in Key :
        /\ held[k] > 0 /\ confirmed[k] # 0 => ~Behind(hist, k)
        /\ Remembered(k) /\ Behind(hist, k) => held[k] > 0 /\ confirmed[k] = 0
        /\ \A r \in Composing : Remembered(k) /\ Behind(reads[r].seen, k) =>
              held[k] > 0 /\ (confirmed[k] = 0 \/ reads[r].ticket <= confirmed[k])

\* A confirmation that was decided holds for the entry while it is unchanged,
\* and the entry with its revision outlives the read.
Decided ==
    \A r \in Reader, k \in Key :
        reads[r].pc = "composed" /\ k \in reads[r].plan.confirmed /\ k \notin forgotten =>
            /\ held[k] > 0 /\ rev[k] >= reads[r].plan.rev[k]
            /\ confirmed[k] = 0 \/ reads[r].ticket <= confirmed[k]
            /\ rev[k] = reads[r].plan.rev[k] => ~Behind(hist, k)

IInv == ~Returns /\ Typed /\ Rows /\ Lagging /\ Tombs /\ Kept /\ Decided

\* The end of a read leaves what other open reads may need.
LEMMA PurgeKeeps ==
    ASSUME Typed, NEW r \in Reader, End(r), NEW k \in Key
    PROVE  /\ held'[k] = held[k] \/ (held'[k] = 0 /\ confirmed[k] # 0)
           /\ confirmed'[k] = confirmed[k] \/ confirmed'[k] = 0
           /\ \A o \in Reader : reads'[o].pc # "closed" =>
                 /\ o # r /\ reads'[o] = reads[o]
                 /\ reads[o].ticket <= confirmed[k] \/ confirmed[k] = 0 =>
                       held'[k] = held[k] /\ confirmed'[k] = confirmed[k]
                 /\ k \in removed /\ (reads[o].ticket <= cleared[k] \/ cleared[k] = 0) =>
                       k \in removed' /\ cleared'[k] = cleared[k]
           /\ held'[k] > 0 => rev'[k] = rev[k]
           /\ removed' \subseteq removed
<1> DEFINE oldest == OldestOpen(r)
<1>1. /\ oldest \in 0..issued + 1 /\ issued \in Nat
      /\ \A o \in Reader \ {r} : reads[o].pc # "closed" => oldest <= reads[o].ticket
  BY OldestOfOpen, KeyFacts DEF Typed, CountsTyped
<1>2. /\ held[k] \in Nat /\ confirmed[k] \in Nat /\ cleared[k] \in Nat
      /\ \A o \in Reader : reads[o].ticket \in Nat
  BY <1>1, TopType DEF Typed, RowsTyped, MarksTyped, ReadsTyped, ReadOf
<1>3. reads' = [reads EXCEPT ![r] = Closed] /\ Purge(oldest)
  BY DEF End
<1> HIDE DEF oldest
<1>4. /\ held'[k] = IF confirmed[k] # 0 /\ confirmed[k] < oldest THEN 0 ELSE held[k]
      /\ confirmed'[k] = IF confirmed[k] # 0 /\ confirmed[k] < oldest THEN 0 ELSE confirmed[k]
  BY <1>3 DEF Purge, Cleanse
<1>5. /\ cleared'[k] = IF k \in removed /\ cleared[k] # 0 /\ cleared[k] < oldest THEN 0 ELSE cleared[k]
      /\ removed' = removed \ {j \in removed : cleared[j] # 0 /\ cleared[j] < oldest}
  BY <1>3 DEF Purge, Cleanse
<1>6. held'[k] > 0 => rev'[k] = rev[k]
  BY <1>2, <1>3, <1>4 DEF Purge, Cleanse, Holding
<1>7. \A o \in Reader : reads'[o].pc # "closed" =>
        o # r /\ reads'[o] = reads[o] /\ oldest <= reads[o].ticket
  BY <1>1, <1>3 DEF Closed, Typed, ReadsTyped
<1>8. ASSUME NEW o \in Reader, oldest <= reads[o].ticket
      PROVE  /\ reads[o].ticket <= confirmed[k] \/ confirmed[k] = 0 =>
                   held'[k] = held[k] /\ confirmed'[k] = confirmed[k]
             /\ k \in removed /\ (reads[o].ticket <= cleared[k] \/ cleared[k] = 0) =>
                   k \in removed' /\ cleared'[k] = cleared[k]
  BY <1>1, <1>2, <1>4, <1>5, <1>8
<1> QED BY <1>4, <1>5, <1>6, <1>7, <1>8

\* What the events of the stream do, entry by entry.
UpsertEffect(k, m, n, E) ==
    /\ k \notin forgotten /\ forgotten' = forgotten \cup {j \in E : held[j] > 0}
    /\ removed' = removed \ {k, m} /\ k \notin E /\ m \notin E /\ n > 0 /\ n >= live[k]
    /\ (k = m /\ n <= 2) \/ (k \in Part /\ MessageOf[k] = m /\ live[m] > 0)
    /\ \A j \in Key : /\ live'[j] = IF j = k THEN n ELSE live[j]
                      /\ held'[j] = IF j = k THEN n ELSE IF j \in E THEN 0 ELSE held[j]
                      /\ confirmed'[j] = IF j \in {k, m} THEN 0 ELSE confirmed[j]
                      /\ cleared'[j] = IF j \in {k, m} THEN 0 ELSE cleared[j]
                      /\ rev'[j] = IF j \in {k, m} THEN rev[j] + 1 ELSE rev[j]
    /\ UNCHANGED <<hist, issued, reads, removedAt>>

LEMMA UpsertEffects ==
    ASSUME Typed, ~Returns, NEW k \in Key, NEW m \in Message, NEW n \in 1..Top, NEW E \in SUBSET Key,
           Upserted(k, m, n, E)
    PROVE  UpsertEffect(k, m, n, E)
<1>1. live \in [Key -> 0..Top]
  BY DEF Typed, RowsTyped
<1> QED BY <1>1, TopType DEF UpsertEffect, Upserted, Changed, Cleanse

DeltaEffect(p) ==
    /\ forgotten' = forgotten /\ removed' = removed \ {p}
    /\ live[p] > 0 /\ (held[p] > 0 \/ p \in forgotten) /\ live[p] \in Nat
    /\ \A j \in Key : /\ live'[j] = IF j = p THEN live[p] + 1 ELSE live[j]
                      /\ held'[j] = IF j = p /\ held[p] > 0 /\ held[p] = live[p]
                                   THEN held[p] + 1 ELSE held[j]
                      /\ confirmed'[j] = IF j = p THEN 0 ELSE confirmed[j]
                      /\ cleared'[j] = IF j = p THEN 0 ELSE cleared[j]
                      /\ rev'[j] = IF j = p THEN rev[j] + 1 ELSE rev[j]
    /\ UNCHANGED <<hist, issued, reads, removedAt>>

LEMMA DeltaEffects ==
    ASSUME Typed, NEW p \in Part, PartDelta(p)
    PROVE  DeltaEffect(p)
<1>1. live \in [Key -> 0..Top] /\ held \in [Key -> 0..Top]
  BY DEF Typed, RowsTyped
<1> QED BY <1>1, TopType, KeyFacts DEF DeltaEffect, PartDelta, Event, Changed, Cleanse

RemoveEffect(k, K) ==
    /\ forgotten' = forgotten \cup K /\ removed' = removed \cup {k} /\ k \in K
    /\ \A j \in K : k \in Covering(j)
    /\ \A p \in Part : MessageOf[p] \in K => p \in K
    /\ \A j \in Key : /\ live'[j] = IF j \in K THEN 0 ELSE live[j]
                      /\ held'[j] = IF j \in K THEN 0 ELSE held[j]
                      /\ confirmed'[j] = IF j = k THEN 0 ELSE confirmed[j]
                      /\ cleared'[j] = IF j = k THEN 0 ELSE cleared[j]
                      /\ rev'[j] = IF j = k THEN rev[j] + 1 ELSE rev[j]
                      /\ removedAt'[j] = IF j \in K THEN issued ELSE removedAt[j]
    /\ UNCHANGED <<hist, issued, reads>>

LEMMA RemoveEffects ==
    ASSUME Typed, NEW k \in Key, NEW K \in SUBSET Key, Removed(k, K)
    PROVE  RemoveEffect(k, K)
<1>1. \A j \in K : k \in Covering(j)
  <2>1. CASE k \in Part
    BY <2>1, KeyFacts DEF Removed, Covering
  <2>2. CASE k \in Message
    BY <2>2, KeyFacts DEF Removed, Covering, Groups, PartsOf
  <2> QED BY <2>1, <2>2, KeyFacts
<1>2. \A p \in Part : MessageOf[p] \in K => p \in K
  <2>1. CASE k \in Part
    BY <2>1, KeyFacts DEF Removed
  <2>2. CASE k \in Message
    <3>1. K = {k} \cup {p \in Part : MessageOf[p] = k}
      BY <2>2 DEF Removed, Groups, PartsOf
    <3> QED BY <2>2, <3>1, KeyFacts
  <2> QED BY <2>1, <2>2, KeyFacts
<1> QED BY <1>1, <1>2 DEF RemoveEffect, Removed, RemovesRows, Changed, Cleanse

LEMMA RowsStep ==
    ASSUME Typed, ~Returns, Rows, [Next]_vars
    PROVE  Rows'
<1> USE KeyFacts DEF Rows
<1>0. /\ live \in [Key -> Nat] /\ held \in [Key -> Nat]
      /\ settled \subseteq Message /\ forgotten \subseteq Key /\ removed \subseteq Key
  BY TopType DEF Typed, SetsTyped, RowsTyped
<1>1. ASSUME NEW k \in Key, NEW m \in Message, NEW n \in 1..Top, NEW E \in SUBSET Key, Upserted(k, m, n, E)
      PROVE  Rows'
  <2>1. UpsertEffect(k, m, n, E)
    BY <1>1, UpsertEffects
  <2>2. \A j \in forgotten' : held'[j] = 0
    BY <1>0, <2>1 DEF UpsertEffect
  <2>3. \A j \in removed' : j \in forgotten' /\ live'[j] = 0
    BY <1>0, <2>1 DEF UpsertEffect
  <2>4. \A p \in Part : live'[p] > 0 => live'[MessageOf[p]] > 0
    BY <2>1 DEF UpsertEffect
  <2>5. \A j \in Message : live'[j] <= 2
    BY <2>1 DEF UpsertEffect
  <2>6. \A j \in Key : held'[j] > 0 => held'[j] = live'[j]
    BY <2>1 DEF UpsertEffect
  <2> QED BY <2>2, <2>3, <2>4, <2>5, <2>6
<1>2. ASSUME NEW p \in Part, PartDelta(p) PROVE Rows'
  <2>1. DeltaEffect(p)
    BY <1>2, DeltaEffects
  <2>2. \A j \in removed' : j \in forgotten' /\ live'[j] = 0
    BY <1>0, <2>1 DEF DeltaEffect
  <2>3. \A j \in forgotten' : held'[j] = 0
    BY <1>0, <2>1 DEF DeltaEffect
  <2>4. \A q \in Part : live'[q] > 0 => live'[MessageOf[q]] > 0
    BY <1>0, <2>1 DEF DeltaEffect
  <2>5. \A j \in Key : held'[j] > 0 => held'[j] = live'[j]
    BY <1>0, <2>1 DEF DeltaEffect
  <2>6. \A j \in Message : live'[j] <= 2
    BY <1>0, <2>1 DEF DeltaEffect
  <2> QED BY <2>2, <2>3, <2>4, <2>5, <2>6
<1>3. ASSUME NEW k \in Key, NEW K \in SUBSET Key, Removed(k, K) PROVE Rows'
  <2>1. RemoveEffect(k, K)
    BY <1>3, RemoveEffects
  <2>2. \A j \in removed' : j \in forgotten' /\ live'[j] = 0
    BY <1>0, <2>1 DEF RemoveEffect
  <2>3. \A j \in forgotten' : held'[j] = 0
    BY <1>0, <2>1 DEF RemoveEffect
  <2>4. ASSUME NEW p \in Part, live'[p] > 0 PROVE live'[MessageOf[p]] > 0
    <3>1. p \notin K /\ live[p] > 0
      BY <2>1, <2>4 DEF RemoveEffect
    <3>2. MessageOf[p] \notin K /\ MessageOf[p] \in Key
      BY <2>1, <3>1 DEF RemoveEffect
    <3> QED BY <2>1, <3>1, <3>2 DEF RemoveEffect
  <2>5. \A j \in Key : held'[j] > 0 => held'[j] = live'[j]
    BY <1>0, <2>1 DEF RemoveEffect
  <2>6. \A j \in Message : live'[j] <= 2
    BY <1>0, <2>1 DEF RemoveEffect
  <2> QED BY <2>2, <2>3, <2>4, <2>5, <2>6
<1>4. CASE \E K \in SUBSET Key : LetGo(K)
  BY <1>0, <1>4 DEF LetGo, marks, Cleanse, Holding, Typed, SetsTyped
<1>5. CASE \E r \in Reader : Commit(r)
  <2>1. PICK r \in Reader : Commit(r)
    BY <1>5
  <2>2. PICK gone \in SUBSET Key :
          held' = Cleanse(held, gone) /\ forgotten' = forgotten \cup (gone \cap Holding(held))
    BY <2>1, CommitShape
  <2>3. UNCHANGED <<live, removed>>
    BY <2>1 DEF Commit
  <2> QED BY <2>2, <2>3 DEF Cleanse, Holding, Typed, SetsTyped
<1>6. CASE \E r \in Reader : End(r)
  <2>1. PICK r \in Reader : End(r)
    BY <1>6
  <2>2. UNCHANGED <<live, forgotten>> /\ removed' \subseteq removed
    BY <2>1, PurgeKeeps DEF End, Purge
  <2>3. \A k \in Key : held'[k] = held[k] \/ held'[k] = 0
    BY <2>1, PurgeKeeps
  <2> QED BY <2>2, <2>3 DEF Typed, SetsTyped
<1>7. CASE UNCHANGED <<live, held, forgotten, removed>>
  BY <1>7
<1>8. \/ UNCHANGED <<live, held, forgotten, removed>>
      \/ \E k \in Key, m \in Message, n \in 1..Top, E \in SUBSET Key : Upserted(k, m, n, E)
      \/ \E p \in Part : PartDelta(p)
      \/ \E k \in Key, K \in SUBSET Key : Removed(k, K)
      \/ \E K \in SUBSET Key : LetGo(K)
      \/ \E r \in Reader : Commit(r)
      \/ \E r \in Reader : End(r)
  BY Kinds DEF Ingest, BeginRead, Query, Capture, vars, content, marks
<1> QED BY <1>1, <1>2, <1>3, <1>4, <1>5, <1>6, <1>7, <1>8

\* What the steps of a read do to the reads.
ReadEffect(r) ==
    /\ \A o \in Reader : o # r => reads'[o] = reads[o]
    /\ BeginRead(r) => reads'[r].pc = "open" /\ reads'[r].ticket = issued + 1
    /\ Query(r) => /\ reads[r].pc = "open" /\ reads'[r].pc = "queried"
                   /\ reads'[r].seen = hist /\ reads'[r].ticket = reads[r].ticket
    /\ Capture(r) => /\ reads[r].pc = "queried" /\ reads'[r].pc = "composed"
                     /\ reads'[r].plan = Plan(r) /\ reads'[r].ticket = reads[r].ticket
    /\ Commit(r) => /\ reads[r].pc = "composed" /\ reads'[r].pc = "committed"
                    /\ reads'[r].ticket = reads[r].ticket
    /\ End(r) => reads'[r].pc = "closed"

LEMMA ReadEffects ==
    ASSUME Typed, NEW r \in Reader, BeginRead(r) \/ Query(r) \/ Capture(r) \/ Commit(r) \/ End(r)
    PROVE  ReadEffect(r)
<1>0. reads \in [Reader -> ReadOf(issued)] /\ reads[r] \in ReadOf(issued)
  BY DEF Typed, ReadsTyped
<1>1. \A o \in Reader : o # r => reads'[o] = reads[o]
  BY <1>0 DEF BeginRead, Query, Capture, Commit, End
<1>2. BeginRead(r) => reads'[r].pc = "open" /\ reads'[r].ticket = issued + 1
  BY <1>0 DEF BeginRead, ReadOf
<1>3. Query(r) => /\ reads[r].pc = "open" /\ reads'[r].pc = "queried"
                  /\ reads'[r].seen = hist /\ reads'[r].ticket = reads[r].ticket
  BY <1>0 DEF Query, ReadOf
<1>4. Capture(r) => /\ reads[r].pc = "queried" /\ reads'[r].pc = "composed"
                    /\ reads'[r].plan = Plan(r) /\ reads'[r].ticket = reads[r].ticket
  BY <1>0 DEF Capture, ReadOf
<1>5. Commit(r) => /\ reads[r].pc = "composed" /\ reads'[r].pc = "committed"
                   /\ reads'[r].ticket = reads[r].ticket
  BY <1>0 DEF Commit, ReadOf
<1>6. End(r) => reads'[r].pc = "closed"
  BY <1>0 DEF End, Closed
<1> QED BY <1>1, <1>2, <1>3, <1>4, <1>5, <1>6 DEF ReadEffect

\* Commits and ends of reads leave the rows; a commit only forgets more.
LEMMA ReadsLeaveRows ==
    ASSUME Typed, NEW r \in Reader, BeginRead(r) \/ Query(r) \/ Capture(r) \/ Commit(r) \/ End(r)
    PROVE  UNCHANGED <<live, hist, removedAt>> /\ forgotten \subseteq forgotten'
BY DEF BeginRead, Query, Capture, Commit, End

LEMMA LaggingStep ==
    ASSUME Typed, ~Returns, Rows, Lagging, [Next]_vars
    PROVE  Lagging'
<1> SUFFICES ASSUME NEW k \in Key, k \notin forgotten' \/ live'[k] > 0
             PROVE  /\ hist'[k] <= live'[k]
                    /\ \A r \in Reader : reads'[r].pc = "queried" => reads'[r].seen[k] <= hist'[k]
  BY DEF Lagging
<1>0. /\ live[k] \in Nat /\ hist[k] \in Nat /\ held[k] \in Nat
      /\ \A r \in Reader : reads[r].seen[k] \in Nat
  BY TopType DEF Typed, RowsTyped, ReadsTyped, ReadOf
<1>1. k \notin forgotten \/ live[k] > 0 =>
        /\ hist[k] <= live[k]
        /\ \A r \in Reader : reads[r].pc = "queried" => reads[r].seen[k] <= hist[k]
  BY DEF Lagging
<1>2. CASE UNCHANGED <<hist, reads>>
  <2>1. ASSUME NEW j \in Key, NEW m \in Message, NEW n \in 1..Top, NEW E \in SUBSET Key, Upserted(j, m, n, E)
        PROVE  live[k] <= live'[k] /\ (k \notin forgotten \/ live[k] > 0)
    <3>1. UpsertEffect(j, m, n, E)
      BY <2>1, UpsertEffects
    <3> QED BY <1>0, <3>1 DEF UpsertEffect
  <2>2. ASSUME NEW p \in Part, PartDelta(p)
        PROVE  live[k] <= live'[k] /\ (k \notin forgotten \/ live[k] > 0)
    <3>1. DeltaEffect(p)
      BY <2>2, DeltaEffects
    <3> QED BY <1>0, <3>1 DEF DeltaEffect
  <2>3. ASSUME NEW j \in Key, NEW K \in SUBSET Key, Removed(j, K)
        PROVE  live[k] <= live'[k] /\ (k \notin forgotten \/ live[k] > 0)
    <3>1. RemoveEffect(j, K)
      BY <2>3, RemoveEffects
    <3> QED BY <1>0, <3>1 DEF RemoveEffect
  <2>4. CASE UNCHANGED live /\ forgotten \subseteq forgotten'
    BY <1>0, <1>1, <1>2, <2>4
  <2>5. \/ UNCHANGED live /\ forgotten \subseteq forgotten'
        \/ \E j \in Key, m \in Message, n \in 1..Top, E \in SUBSET Key : Upserted(j, m, n, E)
        \/ \E p \in Part : PartDelta(p)
        \/ \E j \in Key, K \in SUBSET Key : Removed(j, K)
    BY Kinds, ReadsLeaveRows DEF LetGo, Ingest, vars
  <2>6. CASE live[k] <= live'[k] /\ (k \notin forgotten \/ live[k] > 0)
    <3>1. live'[k] \in Nat
      BY TypedStep, TopType DEF Typed, RowsTyped
    <3> QED BY <1>0, <1>1, <1>2, <2>6, <3>1
  <2> QED BY <2>1, <2>2, <2>3, <2>4, <2>5, <2>6
<1>3. CASE \E j \in Key : Ingest(j)
  <2>1. /\ UNCHANGED <<live, reads, forgotten>>
        /\ hist'[k] = live[k] \/ hist'[k] = hist[k]
    BY <1>3 DEF Ingest, Typed, RowsTyped
  <2> QED BY <1>0, <1>1, <2>1
<1>4. CASE \E r \in Reader : BeginRead(r) \/ Query(r) \/ Capture(r) \/ Commit(r) \/ End(r)
  <2>1. PICK r \in Reader : BeginRead(r) \/ Query(r) \/ Capture(r) \/ Commit(r) \/ End(r)
    BY <1>4
  <2>2. ReadEffect(r) /\ UNCHANGED <<live, hist>> /\ forgotten \subseteq forgotten'
    BY <2>1, ReadEffects, ReadsLeaveRows
  <2>3. ASSUME NEW o \in Reader, reads'[o].pc = "queried"
        PROVE  reads'[o].seen[k] <= hist[k]
    <3>1. CASE o # r
      BY <1>1, <2>2, <2>3, <3>1 DEF ReadEffect
    <3>2. CASE o = r
      BY <1>0, <2>1, <2>2, <2>3, <3>2 DEF ReadEffect
    <3> QED BY <3>1, <3>2
  <2> QED BY <1>1, <2>2, <2>3
<1> QED BY <1>2, <1>3, <1>4, Kinds DEF Upserted, PartDelta, Event, Removed, LetGo, vars

LEMMA TombsStep ==
    ASSUME Typed, ~Returns, Rows, Tombs, [Next]_vars
    PROVE  Tombs'
<1> SUFFICES ASSUME NEW r \in Reader, NEW k \in Key,
                    reads'[r].pc # "closed", live'[k] = 0, reads'[r].ticket <= removedAt'[k]
             PROVE  \E j \in Covering(k) :
                       j \in removed' /\ (cleared'[j] = 0 \/ reads'[r].ticket <= cleared'[j])
  BY DEF Tombs, Covering
<1>0. /\ issued \in Nat /\ reads[r].ticket \in 0..issued /\ removedAt[k] \in 0..issued
      /\ \A j \in Key : cleared[j] \in 0..issued
      /\ Covering(k) \subseteq Key
  BY KeyFacts DEF Typed, CountsTyped, MarksTyped, ReadsTyped, ReadOf, Covering
<1>1. ASSUME reads[r].pc # "closed", live[k] = 0, reads[r].ticket <= removedAt[k]
      PROVE  \E j \in Covering(k) :
                /\ j \in removed /\ live[j] = 0 /\ j \in forgotten
                /\ cleared[j] = 0 \/ reads[r].ticket <= cleared[j]
  BY <1>1 DEF Tombs, Rows
<1>2. ASSUME NEW i \in Key, NEW m \in Message, NEW n \in 1..Top, NEW E \in SUBSET Key, Upserted(i, m, n, E)
      PROVE  \E j \in Covering(k) :
                j \in removed' /\ (cleared'[j] = 0 \/ reads'[r].ticket <= cleared'[j])
  <2>1. UpsertEffect(i, m, n, E)
    BY <1>2, UpsertEffects
  <2>2. live[k] = 0 /\ UNCHANGED <<reads, removedAt>>
    BY <2>1 DEF UpsertEffect
  <2>3. PICK j \in Covering(k) : /\ j \in removed /\ live[j] = 0 /\ j \in forgotten
                                 /\ cleared[j] = 0 \/ reads[r].ticket <= cleared[j]
    BY <1>1, <2>2
  <2>4. j \notin {i, m}
    BY <2>1, <2>3 DEF UpsertEffect
  <2>5. j \in removed' /\ cleared'[j] = cleared[j]
    BY <1>0, <2>1, <2>3, <2>4 DEF UpsertEffect
  <2> QED BY <2>2, <2>3, <2>5
<1>3. ASSUME NEW p \in Part, PartDelta(p)
      PROVE  \E j \in Covering(k) :
                j \in removed' /\ (cleared'[j] = 0 \/ reads'[r].ticket <= cleared'[j])
  <2>1. DeltaEffect(p)
    BY <1>3, DeltaEffects
  <2>2. live[k] = 0 /\ UNCHANGED <<reads, removedAt>>
    BY <2>1 DEF DeltaEffect
  <2>3. PICK j \in Covering(k) : /\ j \in removed /\ live[j] = 0
                                 /\ cleared[j] = 0 \/ reads[r].ticket <= cleared[j]
    BY <1>1, <2>2
  <2>4. j \in removed' /\ cleared'[j] = cleared[j]
    BY <1>0, <2>1, <2>3 DEF DeltaEffect
  <2> QED BY <2>2, <2>3, <2>4
<1>4. ASSUME NEW i \in Key, NEW K \in SUBSET Key, Removed(i, K)
      PROVE  \E j \in Covering(k) :
                j \in removed' /\ (cleared'[j] = 0 \/ reads'[r].ticket <= cleared'[j])
  <2>1. RemoveEffect(i, K)
    BY <1>4, RemoveEffects
  <2>2. CASE k \in K
    BY <2>1, <2>2 DEF RemoveEffect
  <2>3. CASE k \notin K
    <3>1. live[k] = 0 /\ reads' = reads /\ removedAt'[k] = removedAt[k]
      BY <2>1, <2>3 DEF RemoveEffect
    <3>2. PICK j \in Covering(k) : j \in removed /\ (cleared[j] = 0 \/ reads[r].ticket <= cleared[j])
      BY <1>1, <3>1
    <3>3. j \in removed' /\ (cleared'[j] = cleared[j] \/ cleared'[j] = 0)
      BY <1>0, <2>1, <3>2 DEF RemoveEffect
    <3> QED BY <3>1, <3>2, <3>3
  <2> QED BY <2>2, <2>3
<1>5. CASE UNCHANGED <<live, marks, reads, removedAt>>
  BY <1>1, <1>5 DEF marks
<1>6. CASE \E o \in Reader : BeginRead(o) \/ Query(o) \/ Capture(o) \/ Commit(o) \/ End(o)
  <2>1. PICK o \in Reader : BeginRead(o) \/ Query(o) \/ Capture(o) \/ Commit(o) \/ End(o)
    BY <1>6
  <2>2. ReadEffect(o) /\ UNCHANGED <<live, removedAt>>
    BY <2>1, ReadEffects, ReadsLeaveRows
  <2>3. reads[r].pc # "closed" /\ reads'[r].ticket = reads[r].ticket
    <3>1. CASE r # o
      BY <2>2, <3>1 DEF ReadEffect
    <3>2. CASE r = o
      BY <1>0, <2>1, <2>2, <3>2 DEF ReadEffect
    <3> QED BY <3>1, <3>2
  <2>4. PICK j \in Covering(k) : j \in removed /\ (cleared[j] = 0 \/ reads[r].ticket <= cleared[j])
    BY <1>1, <2>2, <2>3
  <2>5. j \in removed' /\ (cleared'[j] = 0 \/ reads[r].ticket <= cleared'[j])
    <3>1. CASE BeginRead(o) \/ Query(o) \/ Capture(o)
      BY <2>4, <3>1 DEF BeginRead, Query, Capture, marks
    <3>2. CASE Commit(o)
      BY <1>0, <2>4, <3>2 DEF Commit
    <3>3. CASE End(o)
      BY <1>0, <2>4, <3>3, PurgeKeeps
    <3> QED BY <2>1, <3>1, <3>2, <3>3
  <2> QED BY <2>3, <2>4, <2>5
<1> QED BY <1>2, <1>3, <1>4, <1>5, <1>6, Kinds DEF Ingest, LetGo, vars, marks, content

\* How a step treats an entry that is not forgotten.
Touched(k) ==
    /\ confirmed'[k] = 0 /\ rev'[k] = rev[k] + 1
    /\ held[k] > 0 => held'[k] > 0
    /\ live'[k] = live[k] \/ held'[k] > 0
    /\ UNCHANGED <<hist, reads, issued>>

Untouched(k) ==
    live'[k] = live[k] /\ held'[k] = held[k] /\ confirmed'[k] = confirmed[k] /\ rev'[k] = rev[k]

LEMMA Forgets ==
    ASSUME Typed, ~Returns, [Next]_vars
    PROVE  forgotten \subseteq forgotten'
<1>1. ASSUME NEW i \in Key, NEW m \in Message, NEW n \in 1..Top, NEW E \in SUBSET Key, Upserted(i, m, n, E)
      PROVE  forgotten \subseteq forgotten'
  BY <1>1, UpsertEffects DEF UpsertEffect
<1> QED BY <1>1, Kinds, ReadsLeaveRows DEF PartDelta, Removed, LetGo, Ingest, vars

LEMMA EntryStep ==
    ASSUME Typed, ~Returns, Rows, [Next]_vars, NEW k \in Key, k \notin forgotten'
    PROVE  \/ Touched(k) \/ Untouched(k)
           \/ \E r \in Reader : Commit(r) /\ held'[k] = held[k]
           \/ \E r \in Reader : End(r)
<1>0. live[k] \in Nat /\ held[k] \in Nat /\ k \notin forgotten
  BY Forgets, TopType DEF Typed, RowsTyped
<1>1. ASSUME NEW i \in Key, NEW m \in Message, NEW n \in 1..Top, NEW E \in SUBSET Key, Upserted(i, m, n, E)
      PROVE  Touched(k) \/ Untouched(k)
  <2>1. UpsertEffect(i, m, n, E)
    BY <1>1, UpsertEffects
  <2>2. k # i => held'[k] = held[k] /\ live'[k] = live[k]
    BY <1>0, <2>1 DEF UpsertEffect
  <2>3. CASE k \in {i, m}
    BY <2>1, <2>2, <2>3 DEF UpsertEffect, Touched
  <2>4. CASE k \notin {i, m}
    BY <2>1, <2>2, <2>4 DEF UpsertEffect, Untouched
  <2> QED BY <2>3, <2>4
<1>2. ASSUME NEW p \in Part, PartDelta(p)
      PROVE  Touched(k) \/ Untouched(k)
  <2>1. DeltaEffect(p)
    BY <1>2, DeltaEffects
  <2>2. CASE k = p
    <3>1. held'[k] > 0
      BY <1>0, <2>1, <2>2 DEF DeltaEffect
    <3> QED BY <2>1, <2>2, <3>1 DEF DeltaEffect, Touched
  <2>3. CASE k # p
    BY <2>1, <2>3 DEF DeltaEffect, Untouched
  <2> QED BY <2>2, <2>3
<1>3. ASSUME NEW i \in Key, NEW K \in SUBSET Key, Removed(i, K)
      PROVE  Untouched(k)
  <2>1. RemoveEffect(i, K)
    BY <1>3, RemoveEffects
  <2> QED BY <2>1 DEF RemoveEffect, Untouched
<1>4. ASSUME NEW K \in SUBSET Key, LetGo(K)
      PROVE  Untouched(k)
  BY <1>0, <1>4 DEF LetGo, marks, Cleanse, Holding, Untouched
<1>5. ASSUME NEW r \in Reader, Commit(r)
      PROVE  held'[k] = held[k]
  <2>1. PICK gone \in SUBSET Key :
          held' = Cleanse(held, gone) /\ forgotten' = forgotten \cup (gone \cap Holding(held))
    BY <1>5, CommitShape
  <2> QED BY <1>0, <2>1 DEF Cleanse, Holding
<1>6. CASE UNCHANGED <<live, held, confirmed, rev>>
  BY <1>6 DEF Untouched
<1> QED BY <1>1, <1>2, <1>3, <1>4, <1>5, <1>6, Kinds
    DEF Ingest, BeginRead, Query, Capture, vars, content, marks

\* A read is in the same state as before unless it took the step itself.
LEMMA ReadKept ==
    ASSUME Typed, [Next]_vars, NEW r \in Reader
    PROVE  \/ reads'[r] = reads[r]
           \/ BeginRead(r) \/ Query(r) \/ Capture(r) \/ Commit(r) \/ End(r)
<1>1. CASE UNCHANGED reads
  BY <1>1
<1>2. CASE \E o \in Reader : BeginRead(o) \/ Query(o) \/ Capture(o) \/ Commit(o) \/ End(o)
  BY <1>2, ReadEffects DEF ReadEffect
<1> QED BY <1>1, <1>2, Kinds DEF Upserted, PartDelta, Event, Removed, LetGo, Ingest, vars

\* What history has of an entry it keeps, while the stream leaves it alone.
LEMMA StoredStays ==
    ASSUME Typed, Rows, Lagging, [Next]_vars, NEW k \in Key, live'[k] = live[k], ~Behind(hist, k)
    PROVE  ~Behind(hist, k)'
<1>a. hist \in [Key -> 0..Top] /\ live \in [Key -> 0..Top]
  BY DEF Typed, RowsTyped
<1>b. \A j \in Key : live[j] \in Nat /\ hist[j] \in Nat
  BY <1>a, TopType
<1>c. k \in Part => MessageOf[k] \in Message /\ MessageOf[k] \in Key
  BY KeyFacts
<1>0. /\ \A j \in Key : live[j] \in Nat /\ hist[j] \in Nat
      /\ hist \in [Key -> 0..Top]
      /\ k \in Part => MessageOf[k] \in Message /\ MessageOf[k] \in Key
  BY <1>a, <1>b, <1>c
<1>1. CASE UNCHANGED hist
  BY <1>1 DEF Behind
<1>2. CASE \E j \in Key : Ingest(j)
  <2>1. PICK j \in Key : hist' = [hist EXCEPT ![j] = live[j]] /\ live' = live
    BY <1>2 DEF Ingest
  <2>2. CASE hist[k] >= live[k]
    BY <1>0, <2>1, <2>2 DEF Behind
  <2>3. CASE k \in Part /\ hist[MessageOf[k]] = 2 /\ live[k] > 0
    <3>1. live[MessageOf[k]] = 2
      BY <1>0, <2>3 DEF Rows, Lagging
    <3> QED BY <1>0, <2>1, <2>3, <3>1 DEF Behind
  <2>4. CASE live[k] = 0
    BY <1>0, <2>1, <2>4 DEF Behind
  <2> QED BY <1>0, <2>2, <2>3, <2>4 DEF Behind
<1> QED BY <1>1, <1>2, Kinds
    DEF Upserted, PartDelta, Event, Removed, LetGo, BeginRead, Query, Capture, Commit, End, vars

\* What a read decides to confirm is stored, and was not when it began.
LEMMA CaptureDecides ==
    ASSUME Typed, Rows, Lagging, Kept, NEW r \in Reader, reads[r].pc = "queried",
           NEW k \in Plan(r).confirmed
    PROVE  /\ k \in Key /\ held[k] > 0 /\ ~Behind(hist, k)
           /\ confirmed[k] = 0 \/ reads[r].ticket <= confirmed[k]
<1>1. k \in Captured(r)
  BY DEF Plan, Attached
<1>2. /\ k \in Key /\ held[k] > 0
      /\ confirmed[k] = 0 \/ reads[r].ticket <= confirmed[k]
  BY <1>1, KeyFacts DEF Captured, Holding, Typed, MarksTyped, CountsTyped, ReadsTyped, ReadOf
<1>3. /\ \A j \in Key : live[j] \in Nat /\ hist[j] \in Nat /\ held[j] \in Nat /\ reads[r].seen[j] \in Nat
  BY TopType DEF Typed, RowsTyped, ReadsTyped, ReadOf
<1>4. k \notin forgotten /\ held[k] = live[k] /\ reads[r].seen[k] <= hist[k]
  BY <1>2, <1>3 DEF Rows, Lagging
<1>5. CASE k \in Part
  <2>1. StoredPart(r, k)
    BY <1>5, KeyFacts DEF Plan
  <2>2. CASE confirmed[k] # 0
    BY <1>2, <2>2 DEF Kept
  <2>3. CASE reads[r].seen[MessageOf[k]] = 2
    <3>1. MessageOf[k] \in Message /\ MessageOf[k] \in Key /\ live[MessageOf[k]] > 0
      BY <1>2, <1>4, <1>5, KeyFacts DEF Rows
    <3>2. /\ reads[r].seen[MessageOf[k]] <= hist[MessageOf[k]]
          /\ hist[MessageOf[k]] <= live[MessageOf[k]] /\ live[MessageOf[k]] <= 2
      BY <3>1 DEF Rows, Lagging
    <3>3. hist[MessageOf[k]] = 2
      BY <1>3, <2>3, <3>1, <3>2
    <3> QED BY <1>2, <1>5, <3>3 DEF Behind
  <2>4. CASE reads[r].seen[k] >= held[k]
    BY <1>2, <1>3, <1>4, <2>4 DEF Behind
  <2> QED BY <2>1, <2>2, <2>3, <2>4 DEF StoredPart
<1>6. CASE k \in Message
  <2>1. reads[r].seen[k] >= held[k]
    BY <1>6, KeyFacts DEF Plan, StoredMessage, Attached
  <2> QED BY <1>2, <1>3, <1>4, <2>1 DEF Behind
<1> QED BY <1>2, <1>5, <1>6, KeyFacts

LEMMA DecidedStep ==
    ASSUME Typed, ~Returns, Rows, Lagging, Kept, Decided, [Next]_vars
    PROVE  Decided'
<1> SUFFICES ASSUME NEW r \in Reader, NEW k \in Key,
                    reads'[r].pc = "composed", k \in reads'[r].plan.confirmed, k \notin forgotten'
             PROVE  /\ held'[k] > 0 /\ rev'[k] >= reads'[r].plan.rev[k]
                    /\ confirmed'[k] = 0 \/ reads'[r].ticket <= confirmed'[k]
                    /\ rev'[k] = reads'[r].plan.rev[k] => ~Behind(hist, k)'
  BY DEF Decided
<1>0. /\ rev[k] \in Nat /\ issued \in Nat /\ reads[r].ticket \in 0..issued /\ reads[r].plan.rev[k] \in Nat
      /\ k \notin forgotten
  BY KeyFacts, Forgets DEF Typed, MarksTyped, CountsTyped, ReadsTyped, ReadOf, Plans
<1>1. CASE reads'[r] = reads[r]
  <2>1. /\ held[k] > 0 /\ rev[k] >= reads[r].plan.rev[k]
        /\ confirmed[k] = 0 \/ reads[r].ticket <= confirmed[k]
        /\ rev[k] = reads[r].plan.rev[k] => ~Behind(hist, k)
    BY <1>0, <1>1 DEF Decided
  <2>2. CASE Touched(k)
    BY <1>0, <1>1, <2>1, <2>2 DEF Touched
  <2>3. CASE Untouched(k)
    BY <1>1, <2>1, <2>3, StoredStays DEF Untouched
  <2>4. ASSUME NEW o \in Reader, Commit(o), held'[k] = held[k]
        PROVE  /\ held'[k] > 0 /\ rev'[k] >= reads'[r].plan.rev[k]
               /\ confirmed'[k] = 0 \/ reads'[r].ticket <= confirmed'[k]
               /\ rev'[k] = reads'[r].plan.rev[k] => ~Behind(hist, k)'
    <3>1. /\ rev' = rev /\ live' = live /\ hist' = hist
          /\ confirmed'[k] = confirmed[k] \/ confirmed'[k] = issued
      BY <2>4 DEF Commit
    <3> QED BY <1>0, <1>1, <2>1, <2>4, <3>1 DEF Behind
  <2>5. ASSUME NEW o \in Reader, End(o)
        PROVE  /\ held'[k] > 0 /\ rev'[k] >= reads'[r].plan.rev[k]
               /\ confirmed'[k] = 0 \/ reads'[r].ticket <= confirmed'[k]
               /\ rev'[k] = reads'[r].plan.rev[k] => ~Behind(hist, k)'
    <3>1. held'[k] = held[k] /\ confirmed'[k] = confirmed[k]
      BY <1>1, <2>1, <2>5, PurgeKeeps
    <3>2. rev'[k] = rev[k] /\ live' = live /\ hist' = hist
      BY <2>1, <2>5, <3>1, PurgeKeeps DEF End
    <3> QED BY <1>1, <2>1, <3>1, <3>2 DEF Behind
  <2> QED BY <2>2, <2>3, <2>4, <2>5, EntryStep
<1>2. CASE Capture(r)
  <2>1. /\ reads[r].pc = "queried" /\ reads'[r].plan = Plan(r) /\ reads'[r].ticket = reads[r].ticket
    BY <1>2, ReadEffects DEF ReadEffect
  <2>2. /\ held[k] > 0 /\ ~Behind(hist, k)
        /\ confirmed[k] = 0 \/ reads[r].ticket <= confirmed[k]
    BY <2>1, CaptureDecides
  <2>3. UNCHANGED <<live, hist, held, confirmed, rev>> /\ Plan(r).rev = rev
    BY <1>2 DEF Capture, content, marks, Plan
  <2> QED BY <1>0, <2>1, <2>2, <2>3 DEF Behind
<1> QED BY <1>1, <1>2, ReadKept, ReadEffects DEF ReadEffect

\* A commit newly confirms what was decided, and that is stored.
LEMMA CommitConfirms ==
    ASSUME Typed, Decided, NEW o \in Reader, Commit(o), NEW k \in Key, k \notin forgotten
    PROVE  /\ UNCHANGED <<live, hist, rev, issued>>
           /\ confirmed'[k] = confirmed[k] \/ confirmed'[k] = issued
           /\ confirmed'[k] # confirmed[k] => confirmed[k] = 0 /\ ~Behind(hist, k)
<1>1. UNCHANGED <<live, hist, rev, issued>> /\ reads[o].pc = "composed"
  BY DEF Commit
<1>2. confirmed'[k] = IF confirmed[k] = 0 /\ k \in reads[o].plan.confirmed /\ Same(o, k)
                      THEN issued ELSE confirmed[k]
  BY DEF Commit
<1>3. CASE confirmed[k] = 0 /\ k \in reads[o].plan.confirmed /\ Same(o, k)
  BY <1>1, <1>2, <1>3 DEF Decided, Same
<1>4. CASE ~(confirmed[k] = 0 /\ k \in reads[o].plan.confirmed /\ Same(o, k))
  BY <1>1, <1>2, <1>4
<1> QED BY <1>3, <1>4

\* For an entry k that is not forgotten.
LEMMA KeptByHistory ==
    ASSUME Typed, ~Returns, Rows, Lagging, Kept, Decided, [Next]_vars,
           NEW k \in Key, k \notin forgotten'
    PROVE  /\ held'[k] > 0 /\ confirmed'[k] # 0 => ~Behind(hist, k)'
           /\ Remembered(k)' /\ Behind(hist, k)' => held'[k] > 0 /\ confirmed'[k] = 0
<1>1. k \notin forgotten /\ (Remembered(k)' => Remembered(k))
  BY Forgets DEF Remembered
<1>2. /\ held[k] > 0 /\ confirmed[k] # 0 => ~Behind(hist, k)
      /\ Remembered(k) /\ Behind(hist, k) => held[k] > 0 /\ confirmed[k] = 0
  BY DEF Kept
<1>3. CASE Touched(k)
  <2>1. live'[k] = live[k] => (Behind(hist, k)' <=> Behind(hist, k))
    BY <1>3 DEF Touched, Behind
  <2> QED BY <1>1, <1>2, <1>3, <2>1 DEF Touched
<1>4. CASE Untouched(k)
  <2>1. Behind(hist, k)' => Behind(hist, k)
    BY <1>4, StoredStays DEF Untouched
  <2>2. held[k] > 0 /\ confirmed[k] # 0 => ~Behind(hist, k)'
    BY <1>2, <2>1
  <2> QED BY <1>1, <1>2, <1>4, <2>1, <2>2 DEF Untouched
<1>5. ASSUME NEW o \in Reader, Commit(o), held'[k] = held[k]
      PROVE  /\ held'[k] > 0 /\ confirmed'[k] # 0 => ~Behind(hist, k)'
             /\ Remembered(k)' /\ Behind(hist, k)' => held'[k] > 0 /\ confirmed'[k] = 0
  <2>1. /\ UNCHANGED <<live, hist>>
        /\ confirmed'[k] # confirmed[k] => confirmed[k] = 0 /\ ~Behind(hist, k)
    BY <1>1, <1>5, CommitConfirms
  <2>2. Behind(hist, k)' <=> Behind(hist, k)
    BY <2>1 DEF Behind
  <2> QED BY <1>1, <1>2, <1>5, <2>1, <2>2
<1>6. ASSUME NEW o \in Reader, End(o)
      PROVE  /\ held'[k] > 0 /\ confirmed'[k] # 0 => ~Behind(hist, k)'
             /\ Remembered(k)' /\ Behind(hist, k)' => held'[k] > 0 /\ confirmed'[k] = 0
  <2>1. /\ held'[k] = held[k] \/ (held'[k] = 0 /\ confirmed[k] # 0)
        /\ confirmed'[k] = confirmed[k] \/ confirmed'[k] = 0
    BY <1>6, PurgeKeeps
  <2>2. Behind(hist, k)' <=> Behind(hist, k)
    BY <1>6 DEF End, Behind
  <2>3. ~(0 > 0)
    OBVIOUS
  <2> QED BY <1>1, <1>2, <2>1, <2>2, <2>3
<1> QED BY <1>3, <1>4, <1>5, <1>6, EntryStep

LEMMA KeptForReads ==
    ASSUME Typed, ~Returns, Rows, Lagging, Kept, Decided, [Next]_vars,
           NEW k \in Key, k \notin forgotten',
           NEW r \in Reader, reads'[r].pc = "queried", Remembered(k)', Behind(reads[r].seen, k)'
    PROVE  held'[k] > 0 /\ (confirmed'[k] = 0 \/ reads'[r].ticket <= confirmed'[k])
<1>1. k \notin forgotten /\ Remembered(k) /\ issued \in Nat /\ reads[r].ticket <= issued
  BY Forgets, KeyFacts DEF Remembered, Typed, CountsTyped, ReadsTyped, ReadOf
<1>2. CASE reads'[r] = reads[r]
  <2>1. live'[k] = live[k] =>
          held[k] > 0 /\ (confirmed[k] = 0 \/ reads[r].ticket <= confirmed[k])
    BY <1>1, <1>2 DEF Kept, Composing, Behind
  <2>2. CASE Touched(k)
    BY <2>1, <2>2 DEF Touched
  <2>3. CASE Untouched(k)
    BY <1>2, <2>1, <2>3 DEF Untouched
  <2>4. ASSUME NEW o \in Reader, Commit(o), held'[k] = held[k]
        PROVE  held'[k] > 0 /\ (confirmed'[k] = 0 \/ reads'[r].ticket <= confirmed'[k])
    BY <1>1, <1>2, <2>1, <2>4, CommitConfirms
  <2>5. ASSUME NEW o \in Reader, End(o)
        PROVE  held'[k] > 0 /\ (confirmed'[k] = 0 \/ reads'[r].ticket <= confirmed'[k])
    <3>1. live' = live
      BY <2>5 DEF End
    <3>2. held'[k] = held[k] /\ confirmed'[k] = confirmed[k]
      BY <2>1, <2>5, <3>1, <1>2, PurgeKeeps
    <3> QED BY <1>2, <2>1, <3>1, <3>2
  <2> QED BY <2>2, <2>3, <2>4, <2>5, EntryStep
<1>3. CASE Query(r)
  <2>1. reads'[r].seen = hist /\ hist' = hist
    BY <1>3, ReadEffects DEF ReadEffect, Query
  <2>2. Behind(hist, k)'
    BY <2>1 DEF Behind
  <2> QED BY <2>2, KeptByHistory
<1> QED BY <1>2, <1>3, ReadKept, ReadEffects DEF ReadEffect

LEMMA KeptStep ==
    ASSUME Typed, ~Returns, Rows, Lagging, Kept, Decided, [Next]_vars
    PROVE  Kept'
<1>1. ASSUME NEW k \in Key, k \in forgotten'
      PROVE  held'[k] = 0 /\ ~Remembered(k)'
  BY <1>1, RowsStep DEF Rows, Remembered
<1>2. \A k \in Key : held'[k] > 0 /\ confirmed'[k] # 0 => ~Behind(hist, k)'
  <2>1. ~(0 > 0)
    OBVIOUS
  <2> QED BY <1>1, <2>1, KeptByHistory
<1>3. \A k \in Key : Remembered(k)' /\ Behind(hist, k)' => held'[k] > 0 /\ confirmed'[k] = 0
  BY <1>1, KeptByHistory
<1>4. \A k \in Key : \A r \in Reader :
        reads'[r].pc = "queried" /\ Remembered(k)' /\ Behind(reads[r].seen, k)' =>
            held'[k] > 0 /\ (confirmed'[k] = 0 \/ reads'[r].ticket <= confirmed'[k])
  BY <1>1, KeptForReads
<1> QED BY <1>2, <1>3, <1>4 DEF Kept, Composing

-----------------------------------------------------------------------------
(* What the ledger has confirmed goes with the last open read, whether or  *)
(* not entries it forgot are streamed again.                               *)

Unconfirmed == (\A k \in Key : cleared[k] # 0 => k \in removed) /\ NothingConfirmedIsKept

LEMMA ChangedClears ==
    ASSUME Typed, Unconfirmed, NEW K \in SUBSET Key, NEW T \in SUBSET Key, Changed(K, T), reads' = reads
    PROVE  Unconfirmed'
<1>1. \A k \in Key : /\ confirmed'[k] = confirmed[k] \/ confirmed'[k] = 0
                     /\ cleared'[k] = IF k \in K THEN 0 ELSE cleared[k]
                     /\ k \in removed /\ k \notin K => k \in removed'
  BY DEF Changed, Cleanse
<1> QED BY <1>1 DEF Unconfirmed, NothingConfirmedIsKept

LEMMA EndUnconfirmed ==
    ASSUME Typed, Unconfirmed, NEW r \in Reader, End(r)
    PROVE  Unconfirmed'
<1> DEFINE oldest == OldestOpen(r)
<1>1. /\ issued \in Nat /\ oldest \in 0..issued + 1
      /\ (\A o \in Reader \ {r} : reads[o].pc = "closed") => oldest = issued + 1
  BY OldestOfOpen, KeyFacts DEF Typed, CountsTyped
<1>2. Purge(oldest) /\ reads' = [reads EXCEPT ![r] = Closed]
  BY DEF End
<1> HIDE DEF oldest
<1>3. \A k \in Key :
        /\ confirmed'[k] = IF confirmed[k] # 0 /\ confirmed[k] < oldest THEN 0 ELSE confirmed[k]
        /\ cleared'[k] = IF k \in removed /\ cleared[k] # 0 /\ cleared[k] < oldest THEN 0 ELSE cleared[k]
        /\ k \in removed' <=> k \in removed /\ ~(cleared[k] # 0 /\ cleared[k] < oldest)
  BY <1>2 DEF Purge, Cleanse
<1>4. \A k \in Key : cleared'[k] # 0 => k \in removed'
  BY <1>3 DEF Unconfirmed
<1>5. ASSUME \A o \in Reader : reads'[o].pc = "closed"
      PROVE  \A k \in Key : confirmed'[k] = 0 /\ cleared'[k] = 0
  <2>1. oldest = issued + 1
    <3>1. \A o \in Reader \ {r} : reads[o] = reads'[o]
      BY <1>2 DEF Typed, ReadsTyped
    <3> QED BY <1>1, <1>5, <3>1
  <2>2. \A k \in Key : confirmed[k] < oldest /\ cleared[k] < oldest
    BY <1>1, <2>1 DEF Typed, MarksTyped
  <2> QED BY <1>3, <2>2 DEF Unconfirmed
<1> QED BY <1>4, <1>5 DEF Unconfirmed, NothingConfirmedIsKept

LEMMA UnconfirmedStep ==
    ASSUME Typed, Unconfirmed, [Next]_vars
    PROVE  Unconfirmed'
<1>1. CASE UNCHANGED <<marks, reads>>
  BY <1>1 DEF marks, Unconfirmed, NothingConfirmedIsKept
<1>2. ASSUME NEW k \in Key, NEW m \in Message, NEW n \in 1..Top, NEW E \in SUBSET Key, Upserted(k, m, n, E)
      PROVE  Unconfirmed'
  BY <1>2, ChangedClears, KeyFacts DEF Upserted
<1>3. ASSUME NEW p \in Part, PartDelta(p) PROVE Unconfirmed'
  BY <1>3, ChangedClears, KeyFacts DEF PartDelta, Event
<1>4. ASSUME NEW k \in Key, NEW K \in SUBSET Key, Removed(k, K) PROVE Unconfirmed'
  BY <1>4, ChangedClears DEF Removed
<1>5. ASSUME NEW r \in Reader, BeginRead(r) \/ Query(r) \/ Capture(r) \/ Commit(r)
      PROVE  Unconfirmed'
  <2>1. reads'[r].pc # "closed"
    BY <1>5, ReadEffects DEF ReadEffect
  <2>2. removed' = removed /\ \A k \in Key : cleared'[k] # 0 => cleared[k] # 0 \/ k \in removed
    BY <1>5 DEF BeginRead, Query, Capture, Commit, marks
  <2> QED BY <2>1, <2>2 DEF Unconfirmed, NothingConfirmedIsKept
<1> QED BY <1>1, <1>2, <1>3, <1>4, <1>5, EndUnconfirmed, Kinds DEF LetGo, Ingest, vars, content

LEMMA InitTyped == Init => Typed
<1> SUFFICES ASSUME Init PROVE Typed
  OBVIOUS
<1>1. RowsTyped
  BY TopType DEF Init, RowsTyped, NoRows
<1>2. MarksTyped /\ SetsTyped /\ CountsTyped
  BY KeyFacts DEF Init, MarksTyped, SetsTyped, CountsTyped, NoRows
<1>3. ReadsTyped
  BY TopType DEF Init, ReadsTyped, ReadOf, Closed, NoPlan, Plans, NoRows
<1> QED BY <1>1, <1>2, <1>3 DEF Typed

-----------------------------------------------------------------------------
(* What the invariant says of the reads.                                   *)

LEMMA NextIInv == IInv /\ [Next]_vars => IInv'
<1>1. Returns' = Returns
  OBVIOUS
<1> QED BY <1>1, TypedStep, RowsStep, LaggingStep, TombsStep, KeptStep, DecidedStep DEF IInv

LEMMA InitIInv == Init /\ ~Returns => IInv
<1> SUFFICES ASSUME Init, ~Returns PROVE IInv
  OBVIOUS
<1>1. \A r \in Reader : reads[r].pc = "closed"
  BY DEF Init, Closed
<1>2. /\ \A k \in Key : live[k] = 0 /\ hist[k] = 0 /\ held[k] = 0
      /\ forgotten = {} /\ removed = {}
  BY DEF Init, NoRows
<1>3. Rows
  BY <1>2, KeyFacts DEF Rows
<1>4. Lagging /\ Tombs /\ Decided
  BY <1>1, <1>2 DEF Lagging, Tombs, Decided
<1>5. Kept
  BY <1>1, <1>2 DEF Kept, Composing, Behind
<1> QED BY InitTyped, <1>3, <1>4, <1>5 DEF IInv

\* The values an open read compares.
LEMMA ReadValues ==
    ASSUME IInv, NEW r \in Reader, NEW k \in Key
    PROVE  /\ live[k] \in Nat /\ hist[k] \in Nat /\ held[k] \in Nat /\ reads[r].seen[k] \in Nat
           /\ confirmed[k] \in Nat /\ cleared[k] \in Nat /\ removedAt[k] \in Nat /\ reads[r].ticket \in Nat
           /\ k \in removed => k \in forgotten
           /\ held[k] > 0 => held[k] = live[k]
BY TopType, KeyFacts DEF IInv, Rows, Typed, RowsTyped, MarksTyped, CountsTyped, ReadsTyped, ReadOf

\* An entry a read does not take from the ledger is in the history it queried.
LEMMA NotCaptured ==
    ASSUME IInv, NEW r \in Composing, NEW k \in Key, Remembered(k), k \notin Captured(r)
    PROVE  ~Behind(reads[r].seen, k)
<1>1. ~(held[k] > 0 /\ (confirmed[k] = 0 \/ reads[r].ticket <= confirmed[k]))
  BY ReadValues DEF Captured, Holding, Composing
<1> QED BY <1>1 DEF IInv, Kept

LEMMA InvariantKeepsDelivered == IInv => ReadsKeepDelivered
<1> SUFFICES ASSUME IInv, NEW r \in Composing
             PROVE  /\ \A m \in Message \ (forgotten \cup Dropped(r)) : ShownMessage(r, m) >= live[m]
                    /\ \A p \in Part \ (forgotten \cup Groups(forgotten \cap Message) \cup PartsOf(Dropped(r))) :
                          ShownPart(r, p) >= live[p] \/ reads[r].seen[MessageOf[p]] = 2
  BY DEF ReadsKeepDelivered
<1>1. ASSUME NEW m \in Message, m \notin forgotten, m \notin Dropped(r)
      PROVE  ShownMessage(r, m) >= live[m]
  <2>1. m \in Key /\ m \notin Part
    BY KeyFacts
  <2>2. m \notin Filtered(r) /\ live[m] \in Nat /\ held[m] \in Nat /\ reads[r].seen[m] \in Nat
    BY <1>1, <2>1, ReadValues DEF Filtered, Composing
  <2>3. CASE m \in Captured(r)
    <3>1. held[m] = live[m]
      BY <2>1, <2>3, ReadValues DEF Captured, Holding, Composing
    <3> QED BY <1>1, <2>2, <2>3, <3>1 DEF ShownMessage, Larger
  <2>4. CASE m \notin Captured(r)
    <3>1. reads[r].seen[m] >= live[m]
      BY <1>1, <2>1, <2>2, <2>4, NotCaptured DEF Remembered, Behind
    <3> QED BY <2>2, <2>4, <3>1 DEF ShownMessage
  <2> QED BY <2>3, <2>4
<1>2. ASSUME NEW p \in Part, p \notin forgotten, MessageOf[p] \notin forgotten, MessageOf[p] \notin Dropped(r)
      PROVE  ShownPart(r, p) >= live[p] \/ reads[r].seen[MessageOf[p]] = 2
  <2>1. p \in Key /\ MessageOf[p] \in Message /\ MessageOf[p] \in Key /\ Remembered(p)
    BY <1>2, KeyFacts DEF Remembered
  <2>2. /\ p \notin Filtered(r) /\ MessageOf[p] \notin Filtered(r)
        /\ live[p] \in Nat /\ held[p] \in Nat /\ reads[r].seen[p] \in Nat /\ live[MessageOf[p]] \in Nat
    BY <1>2, <2>1, ReadValues DEF Filtered, Composing
  <2>3. CASE p \in Captured(r)
    <3>1. held[p] > 0 /\ held[p] = live[p]
      BY <2>1, <2>3, ReadValues DEF Captured, Holding, Composing
    <3>2. live[MessageOf[p]] > 0
      BY <3>1 DEF IInv, Rows
    <3>3. ShownMessage(r, MessageOf[p]) >= live[MessageOf[p]]
      BY <1>1, <1>2, <2>1
    <3>4. ShownMessage(r, MessageOf[p]) > 0
      <4>1. ShownMessage(r, MessageOf[p]) \in Nat
        BY <2>1, ReadValues DEF ShownMessage, Larger, Composing
      <4> QED BY <2>2, <3>2, <3>3, <4>1
    <3> QED BY <2>2, <2>3, <3>1, <3>4 DEF ShownPart, Larger
  <2>4. CASE p \notin Captured(r)
    <3>1. reads[r].seen[p] >= live[p] \/ reads[r].seen[MessageOf[p]] = 2
      BY <2>1, <2>2, <2>4, NotCaptured DEF Behind
    <3> QED BY <2>2, <2>4, <3>1 DEF ShownPart
  <2> QED BY <2>3, <2>4
<1>3. ASSUME NEW p \in Part, p \notin Groups(forgotten \cap Message), p \notin PartsOf(Dropped(r))
      PROVE  MessageOf[p] \notin forgotten /\ MessageOf[p] \notin Dropped(r)
  BY <1>3, KeyFacts DEF Groups, PartsOf
<1> QED BY <1>1, <1>2, <1>3

LEMMA InvariantKeepsRemoved == IInv => RemovedDuringReadStaysGone
<1> SUFFICES ASSUME IInv, NEW r \in Composing, NEW k \in Key, live[k] = 0, removedAt[k] >= reads[r].ticket
             PROVE  Shown(r, k) = 0
  BY DEF RemovedDuringReadStaysGone
<1>1. k \notin Captured(r)
  BY ReadValues DEF Captured, Holding, Composing
<1>2. PICK j \in Covering(k) : j \in removed /\ (cleared[j] = 0 \/ reads[r].ticket <= cleared[j])
  BY ReadValues DEF IInv, Tombs, Composing
<1>3. j \in Filtered(r)
  BY <1>2 DEF Filtered
<1>4. CASE k \in Message
  BY <1>1, <1>3, <1>4, KeyFacts DEF Covering, Shown, ShownMessage
<1>5. CASE k \in Part
  BY <1>1, <1>3, <1>5, KeyFacts DEF Covering, Shown, ShownPart
<1> QED BY <1>4, <1>5, KeyFacts

LEMMA InvariantConfirms ==
    ASSUME IInv, [Next]_vars, NEW r \in Reader, NEW p \in Part,
           reads[r].pc = "composed", reads'[r].pc = "committed",
           held[p] > 0, confirmed[p] = 0, confirmed'[p] # 0
    PROVE  hist[p] >= live[p] \/ hist[MessageOf[p]] = 2
<1>1. Commit(r)
  BY ReadKept, ReadEffects DEF ReadEffect, IInv
<1>2. p \in Key /\ p \notin forgotten /\ live[p] \in Nat /\ hist[p] \in Nat
  BY KeyFacts, ReadValues DEF IInv, Rows
<1>3. ~Behind(hist, p)
  BY <1>1, <1>2, CommitConfirms DEF IInv
<1> QED BY <1>2, <1>3 DEF Behind

-----------------------------------------------------------------------------
(* The theorems.                                                           *)

\* Every variable keeps its type and its bounds: no read, eviction or removal
\* leaves the ledger with a ticket that was never issued.
THEOREM LedgerTypes == Spec => []TypeOK
BY InitTyped, TypedStep, TypedImpliesTypeOK, PTL DEF Spec

\* While no read is open the ledger keeps no entry that history confirmed and
\* no tombstone it cleared, in whatever order reads began, composed and ended.
THEOREM LedgerUnconfirmed == Spec => []NothingConfirmedIsKept
<1>1. Init => Unconfirmed
  BY DEF Init, Unconfirmed, NothingConfirmedIsKept, NoRows
<1>2. Typed /\ Unconfirmed /\ [Next]_vars => (Typed /\ Unconfirmed)'
  BY TypedStep, UnconfirmedStep
<1>3. Unconfirmed => NothingConfirmedIsKept
  BY DEF Unconfirmed
<1> QED BY InitTyped, <1>1, <1>2, <1>3, PTL DEF Spec

\* The invariant holds for a ledger whose forgotten entries stay forgotten.
LEMMA LedgerInvariant == Spec /\ ~Returns => []IInv
BY InitIInv, NextIInv, PTL DEF Spec

\* A read shows everything the stream delivered up to the moment it composes,
\* from the ledger or from the history it queried, although an earlier read may
\* have confirmed the entry and a later one let it go meanwhile.
THEOREM LedgerKeepsDelivered == Spec /\ ~Returns => []ReadsKeepDelivered
BY LedgerInvariant, InvariantKeepsDelivered, PTL

\* A row the stream removed after a read began does not come back in that read:
\* a tombstone outlives every read older than the removal.
THEOREM LedgerKeepsRemoved == Spec /\ ~Returns => []RemovedDuringReadStaysGone
BY LedgerInvariant, InvariantKeepsRemoved, PTL

\* A part a read confirms is stored in full, or its message is complete in
\* history, when the confirmation is applied, however old the capture is.
THEOREM LedgerConfirms == Spec /\ ~Returns => ConfirmsWhatItSaw
<1>1. IInv /\ [Next]_vars =>
        [\A r \in Reader : \A p \in Part :
           /\ reads[r].pc = "composed" /\ reads'[r].pc = "committed"
           /\ held[p] > 0 /\ confirmed[p] = 0 /\ confirmed'[p] # 0
           => hist[p] >= live[p] \/ hist[MessageOf[p]] = 2]_vars
  BY InvariantConfirms
<1> QED BY <1>1, LedgerInvariant, PTL DEF Spec, ConfirmsWhatItSaw

=============================================================================
