----------------------------- MODULE EventLedger -----------------------------
(***************************************************************************)
(* The ledger of one conversation's event stream (internal/convstream):    *)
(* what the stream delivered and stored history has not confirmed yet.     *)
(* History is ingested behind the stream, row by row, so a conversation    *)
(* read queries history and lays the ledger over it.  The reads also       *)
(* decide what the ledger may let go of: an entry one read found stored is *)
(* kept for reads that began earlier and may have queried before that.     *)
(*                                                                         *)
(* Each action is one critical section of ledger.mu.  A row's content is a *)
(* number that grows: the length of a part's streamed fields, or 1 for a   *)
(* message and 2 for one that records how it ended.  Left out: pages other *)
(* than the newest, the wall-clock expiry and the log of the subscribers.  *)
(***************************************************************************)
EXTENDS Integers, FiniteSets

CONSTANTS
    Message,        \* in the order of TimeCreated
    Part,
    MessageOf,      \* the message a part belongs to
    Reader,         \* conversation reads that may be open at one time
    MaxParts,       \* maxLedgerParts
    MaxMessages,    \* maxLedgerMessages
    MaxLength,      \* bound: the content of a part
    MaxEvents,      \* bound: content events of the stream
    MaxReads,       \* bound: read tickets
    Returns         \* entries the ledger forgot may be streamed again

Key == Message \cup Part

ASSUME LedgerAssumption ==
    /\ Message \subseteq Nat /\ Message \cap Part = {}
    /\ IsFiniteSet(Message) /\ IsFiniteSet(Part)
    /\ MessageOf \in [Part -> Message]
    /\ {MaxParts, MaxMessages, MaxLength, MaxEvents, MaxReads} \subseteq Nat
    /\ Returns \in BOOLEAN

VARIABLES
    live,       \* the rows as the stream last told them; 0 is no row
    hist,       \* the rows stored history holds
    held,       \* the ledger's content
    settled,    \* messages whose turn ended
    confirmed,  \* the last ticket issued when a read first stored the entry; 0 is none
    removed,    \* tombstones
    cleared,    \* their tickets; 0 while history still holds the row
    rev,        \* changes per entry
    issued,     \* the last ticket
    reads,      \* the reads in progress
    forgotten,  \* entries given up by a bound, a rewrite or a removal
    removedAt,  \* the last ticket issued when the stream removed a row
    events      \* content events so far

content == <<held, settled>>
marks   == <<confirmed, removed, cleared, rev>>
vars    == <<live, hist, content, marks, issued, reads, forgotten, removedAt, events>>

NoRows   == [k \in Key |-> 0]
PartsOf(M) == {p \in Part : MessageOf[p] \in M}
Groups(M)  == M \cup PartsOf(M)
Holding(h) == {k \in Key : h[k] > 0}
Cleanse(f, K) == [k \in Key |-> IF k \in K THEN 0 ELSE f[k]]

NoPlan == [confirmed |-> {}, dropped |-> {}, cleared |-> {}, orphans |-> {}, rev |-> NoRows]
Closed == [pc |-> "closed", ticket |-> 0, seen |-> NoRows, plan |-> NoPlan]

Init ==
    /\ live = NoRows /\ hist = NoRows /\ held = NoRows /\ settled = {}
    /\ confirmed = NoRows /\ removed = {} /\ cleared = NoRows /\ rev = NoRows
    /\ issued = 0 /\ reads = [r \in Reader |-> Closed]
    /\ forgotten = {} /\ removedAt = NoRows /\ events = 0

-----------------------------------------------------------------------------
(* Events of the stream: ledger.apply.                                     *)

Event == events < MaxEvents /\ events' = events + 1 /\ UNCHANGED <<hist, issued, reads>>

\* ledger.changed for the entries K, then ledger.tomb for those of T.
Changed(K, T) ==
    /\ confirmed' = Cleanse(confirmed, K)
    /\ removed' = (removed \ K) \cup T
    /\ cleared' = Cleanse(cleared, K)
    /\ rev' = [k \in Key |-> IF k \in K THEN rev[k] + 1 ELSE rev[k]]

\* The choices of max out of the entries H, where only those of C may go.
Surplus(H, C, max) ==
    LET over == Cardinality(H) - max
    IN {E \in SUBSET C : Cardinality(E) = IF over < 0 THEN 0
                                          ELSE IF over < Cardinality(C) THEN over ELSE Cardinality(C)}

\* evictCountsLocked on content h whose ended messages are S: settled entries
\* beyond the counts go (the code takes the oldest first).
EvictedParts(h, S)    == Surplus(Holding(h) \cap Part, Holding(h) \cap PartsOf(S), MaxParts)
EvictedMessages(h, S) == Surplus(Holding(h) \cap Message, Holding(h) \cap S, MaxMessages)
EvictCounts(h, S) ==
    {E \cup Groups(F) : E \in EvictedParts(h, S), F \in EvictedMessages(h, S)}

Upsert(k, n, m) ==
    /\ live' = [live EXCEPT ![k] = n]
    /\ Changed({k, m}, {})
    /\ \E E \in EvictCounts([held EXCEPT ![k] = n], settled \ {m}) :
          /\ held' = Cleanse([held EXCEPT ![k] = n], E)
          /\ settled' = settled \ ({m} \cup E)
          /\ forgotten' = (forgotten \ {k}) \cup (E \cap Holding(held))
    /\ UNCHANGED removedAt

PartUpserted(p) ==
    /\ Event /\ live[MessageOf[p]] > 0 /\ (Returns \/ p \notin forgotten)
    /\ \E n \in 1..MaxLength : n >= live[p] /\ Upsert(p, n, MessageOf[p])

MessageUpserted(m) ==
    /\ Event /\ (Returns \/ m \notin forgotten)
    /\ \E n \in {1, 2} : n >= live[m] /\ Upsert(m, n, m)

\* A delta continues a part of a running turn; one that does not connect to
\* the content held is refused, but counts as a change.
PartDelta(p) ==
    /\ Event /\ live[p] \in 1..MaxLength - 1 /\ MessageOf[p] \notin settled
    /\ held[p] > 0 \/ p \in forgotten
    /\ live' = [live EXCEPT ![p] = @ + 1]
    /\ held' = [held EXCEPT ![p] = IF @ > 0 /\ @ = live[p] THEN @ + 1 ELSE @]
    /\ Changed({p}, {})
    /\ UNCHANGED <<settled, forgotten, removedAt>>

RemovesRows(K) ==
    /\ live' = Cleanse(live, K) /\ held' = Cleanse(held, K)
    /\ removedAt' = [k \in Key |-> IF k \in K THEN issued ELSE removedAt[k]]

PartRemoved(p) ==
    /\ Event /\ live[p] > 0
    /\ RemovesRows({p}) /\ forgotten' = forgotten \cup {p}
    /\ Changed({p}, {p})
    /\ UNCHANGED settled

MessageRemoved(m) ==
    /\ Event /\ live[m] > 0
    /\ RemovesRows(Groups({m}))
    /\ settled' = settled \ {m}
    /\ Changed({m}, {m})
    /\ forgotten' = forgotten \cup Groups({m})

\* "A rewrite is authoritative for ended turns; a running turn continues."
HistoryRewritten ==
    /\ Event /\ settled # {}
    /\ held' = Cleanse(held, Groups(settled)) /\ settled' = {}
    /\ forgotten' = forgotten \cup (Groups(settled) \cap Holding(held))
    /\ UNCHANGED <<live, marks, removedAt>>

-----------------------------------------------------------------------------

\* The turn ended, or nobody streams the session any more.
Settle ==
    /\ settled' = settled \cup {m \in Message : Groups({m}) \cap Holding(held) # {}}
    /\ settled' # settled
    /\ UNCHANGED <<live, hist, held, marks, issued, reads, forgotten, removedAt, events>>

\* Hub.budgetLocked: ended groups, and under pressure running ones, go.
Evict(m) ==
    /\ Groups({m}) \cap Holding(held) # {}
    /\ held' = Cleanse(held, Groups({m})) /\ settled' = settled \ {m}
    /\ forgotten' = forgotten \cup (Groups({m}) \cap Holding(held))
    /\ UNCHANGED <<live, hist, marks, issued, reads, removedAt, events>>

\* Ingestion stores a row as it is by now, in any order.
Ingest(k) ==
    /\ hist[k] # live[k] /\ hist' = [hist EXCEPT ![k] = live[k]]
    /\ UNCHANGED <<live, content, marks, issued, reads, forgotten, removedAt, events>>

-----------------------------------------------------------------------------
(* Reads: BeginRead, the query, Compose.                                   *)

\* Mutation of BeginRead: the ticket counter is not moved on.
BeginReadUncounted(r) ==
    /\ reads[r].pc = "closed" /\ issued < MaxReads
    /\ reads' = [reads EXCEPT ![r].pc = "open", ![r].ticket = issued + 1]
    /\ UNCHANGED <<live, hist, content, marks, issued, forgotten, removedAt, events>>

BeginRead(r) ==
    /\ reads[r].pc = "closed" /\ issued < MaxReads
    /\ issued' = issued + 1
    /\ reads' = [reads EXCEPT ![r].pc = "open", ![r].ticket = issued + 1]
    /\ UNCHANGED <<live, hist, content, marks, forgotten, removedAt, events>>

Query(r) ==
    /\ reads[r].pc = "open"
    /\ reads' = [reads EXCEPT ![r].pc = "queried", ![r].seen = hist]
    /\ UNCHANGED <<live, hist, content, marks, issued, forgotten, removedAt, events>>

\* What ledger.capture copies for a read: entries confirmed before the read
\* began are history's, tombstones cleared before it do not filter its rows.
Captured(r) ==
    {k \in Holding(held) : confirmed[k] = 0 \/ confirmed[k] >= reads[r].ticket}

\* Mutation of Filtered: a read's own ticket counts as later.
FilteredBefore(r) ==
    {k \in removed : cleared[k] = 0 \/ reads[r].ticket < cleared[k]}

Filtered(r) ==
    {k \in removed : cleared[k] = 0 \/ reads[r].ticket <= cleared[k]}

\* Messages history seems to have moved past without.
Dropped(r) ==
    LET seen == reads[r].seen
    IN {m \in Captured(r) \cap Message \cap settled :
          /\ seen[m] = 0
          /\ \E n \in Message \ Captured(r) : n > m /\ seen[n] > 0}

Attached(r) ==      \* captured parts with a message on either side
    {p \in Captured(r) \cap Part :
        /\ MessageOf[p] \notin Dropped(r)
        /\ MessageOf[p] \in Captured(r) \/ reads[r].seen[MessageOf[p]] > 0
           \/ MessageOf[p] \notin settled}

\* Mutation of StoredPart: any stored row of the part will do.
StoredPartAtAll(r, p) ==
    /\ MessageOf[p] \in settled
    /\ confirmed[p] # 0 \/ reads[r].seen[MessageOf[p]] = 2 \/ reads[r].seen[p] > 0

StoredPart(r, p) ==
    /\ MessageOf[p] \in settled
    /\ \/ confirmed[p] # 0
       \/ reads[r].seen[MessageOf[p]] = 2
       \/ reads[r].seen[p] >= held[p]

StoredMessage(r, m) ==
    /\ m \in settled /\ reads[r].seen[m] >= held[m]
    /\ \A p \in Attached(r) : MessageOf[p] = m => StoredPart(r, p)

\* ledgerView.decide.
Plan(r) ==
    [confirmed |-> {p \in Attached(r) : StoredPart(r, p)}
                   \cup {m \in Captured(r) \cap Message : StoredMessage(r, m)},
     dropped   |-> Dropped(r),
     cleared   |-> {k \in removed : reads[r].seen[k] = 0},
     orphans   |-> {p \in Captured(r) \cap Part : MessageOf[p] \notin Dropped(r)} \ Attached(r),
     rev       |-> rev]

Capture(r) ==
    /\ reads[r].pc = "queried"
    /\ reads' = [reads EXCEPT ![r] = [@ EXCEPT !.pc = "composed", !.seen = NoRows, !.plan = Plan(r)]]
    /\ UNCHANGED <<live, hist, content, marks, issued, forgotten, removedAt, events>>

\* Mutation of Same: whatever happened since the capture.
SameRegardless(r, k) == k \in Key

\* The decisions apply to entries the read saw unchanged.
Same(r, k) == rev[k] = reads[r].plan.rev[k]

Commit(r) ==
    /\ reads[r].pc = "composed"
    /\ LET plan == reads[r].plan
           drop == {m \in plan.dropped : Same(r, m) /\ m \in settled}
           gone == Groups(drop) \cup {p \in plan.orphans : Same(r, p)}
       IN /\ held' = Cleanse(held, gone) /\ settled' = settled \ drop
          /\ forgotten' = forgotten \cup (gone \cap Holding(held))
          /\ confirmed' = [k \in Key |-> IF confirmed[k] = 0 /\ k \in plan.confirmed /\ Same(r, k)
                                         THEN issued ELSE confirmed[k]]
          /\ cleared' = [k \in Key |-> IF k \in removed /\ cleared[k] = 0 /\ k \in plan.cleared /\ Same(r, k)
                                       THEN issued ELSE cleared[k]]
    /\ reads' = [reads EXCEPT ![r] = [@ EXCEPT !.pc = "committed", !.plan = NoPlan]]
    /\ UNCHANGED <<live, hist, removed, rev, issued, removedAt, events>>

\* purgeLocked: what no open read predates goes, and the revision of whatever
\* the ledger no longer names.
Purge(oldest) ==
    LET stored == {k \in Key : confirmed[k] # 0 /\ confirmed[k] < oldest}
        over   == {k \in removed : cleared[k] # 0 /\ cleared[k] < oldest}
        kept   == Holding(held) \ stored
        named  == kept \cup {MessageOf[p] : p \in kept \cap Part} \cup (removed \ over)
    IN /\ held' = Cleanse(held, stored) /\ settled' = settled \ stored
       /\ confirmed' = Cleanse(confirmed, stored)
       /\ removed' = removed \ over /\ cleared' = Cleanse(cleared, over)
       /\ rev' = Cleanse(rev, Key \ named)

\* Mutation of OldestOpen: with no read open, the last ticket counts as one.
OldestOpenOrLast(r) ==
    LET still == {reads[o].ticket : o \in {s \in Reader \ {r} : reads[s].pc # "closed"}}
    IN CHOOSE t \in still \cup {issued} : \A u \in still : t <= u

\* oldestOpenLocked once r has ended.
OldestOpen(r) ==
    LET still == {reads[o].ticket : o \in {s \in Reader \ {r} : reads[s].pc # "closed"}}
    IN CHOOSE t \in still \cup {issued + 1} : \A u \in still : t <= u

\* The end of a read, which without Compose is one that was abandoned.
End(r) ==
    /\ reads[r].pc \in {"open", "committed"}
    /\ reads' = [reads EXCEPT ![r] = Closed]
    /\ Purge(OldestOpen(r))
    /\ UNCHANGED <<live, hist, issued, forgotten, removedAt, events>>

Next ==
    \/ \E p \in Part : PartUpserted(p) \/ PartDelta(p) \/ PartRemoved(p)
    \/ \E m \in Message : MessageUpserted(m) \/ MessageRemoved(m) \/ Evict(m)
    \/ HistoryRewritten \/ Settle
    \/ \E k \in Key : Ingest(k)
    \/ \E r \in Reader : BeginRead(r) \/ Query(r) \/ Capture(r) \/ Commit(r) \/ End(r)

Spec == Init /\ [][Next]_vars

-----------------------------------------------------------------------------
(* What a read about to capture shows: ledgerView.overlay.                 *)

Larger(x, y) == IF x > y THEN x ELSE y
Composing == {r \in Reader : reads[r].pc = "queried"}

ShownMessage(r, m) ==
    LET stored == IF m \in Filtered(r) THEN 0 ELSE reads[r].seen[m]
    IN IF m \in Captured(r) \ Dropped(r) THEN Larger(stored, held[m]) ELSE stored

ShownPart(r, p) ==
    LET stored == IF {p, MessageOf[p]} \cap Filtered(r) # {} THEN 0 ELSE reads[r].seen[p]
    IN IF p \in Captured(r) /\ ShownMessage(r, MessageOf[p]) > 0
       THEN Larger(stored, held[p]) ELSE stored

Shown(r, k) == IF k \in Message THEN ShownMessage(r, k) ELSE ShownPart(r, k)

\* The type of every variable.
TypeOK ==
    /\ {live, hist, held, confirmed, cleared, rev, removedAt} \subseteq [Key -> Nat]
    /\ \A k \in Key : live[k] <= Larger(MaxLength, 2) /\ held[k] <= Larger(MaxLength, 2)
    /\ settled \subseteq Message
    /\ removed \subseteq Key /\ forgotten \subseteq Key
    /\ issued \in 0..MaxReads /\ events \in 0..MaxEvents
    /\ \A k \in Key : confirmed[k] <= issued /\ cleared[k] <= issued /\ removedAt[k] <= issued
    /\ \A r \in Reader :
          /\ reads[r].pc \in {"closed", "open", "queried", "composed", "committed"}
          /\ reads[r].ticket \in 0..issued

\* A read shows all the stream delivered up to the moment it composes, however
\* far ingestion lags and whatever older and newer reads confirmed meanwhile.
\* (A completed stored message owns its parts even when it keeps less of them.)
ReadsKeepDelivered ==
    \A r \in Composing :
       /\ \A m \in Message \ (forgotten \cup Dropped(r)) : ShownMessage(r, m) >= live[m]
       /\ \A p \in Part \ (forgotten \cup Groups(forgotten \cap Message) \cup PartsOf(Dropped(r))) :
             ShownPart(r, p) >= live[p] \/ reads[r].seen[MessageOf[p]] = 2

\* A read that began before the stream removed a row does not bring it back,
\* though the history it queried, or the ledger it captured, still held it, and
\* though a read of its own time has cleared the tombstone since.
RemovedDuringReadStaysGone ==
    \A r \in Composing : \A k \in Key :
        live[k] = 0 /\ removedAt[k] >= reads[r].ticket => Shown(r, k) = 0

\* "removed tombstones entries the stream removed, so a read of history that
\* still holds them cannot restore them" (ledger.go:43).  It fails: a read that
\* queried before the row was stored takes its absence for the removal.
RemovedStaysGone ==
    \A r \in Composing : \A k \in Key : live[k] = 0 => Shown(r, k) = 0

\* While no read is open the ledger keeps nothing that history confirmed, so
\* that what it holds is bounded by what ingestion owes.
NothingConfirmedIsKept ==
    (\A r \in Reader : reads[r].pc = "closed") =>
        \A k \in Key : confirmed[k] = 0 /\ cleared[k] = 0

\* "so a read composed from an older capture cannot confirm newer content":
\* what a read decided about an entry holds for the entry it is applied to.
ConfirmsWhatItSaw ==
    [][\A r \in Reader : \A p \in Part :
         /\ reads[r].pc = "composed" /\ reads'[r].pc = "committed"
         /\ held[p] > 0 /\ confirmed[p] = 0 /\ confirmed'[p] # 0
         => hist[p] >= live[p] \/ hist[MessageOf[p]] = 2]_vars

=============================================================================
