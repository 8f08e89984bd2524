-------------------------- MODULE KeyedWorkerProofs --------------------------
(***************************************************************************)
(* What internal/worker promises, for any number of items, keys, Drains    *)
(* and Closes.  The queue is a subsequence of what was admitted, so that a *)
(* scan that skips items keeps the order of a key; the idle channel is     *)
(* closed exactly while nothing is outstanding, so that a Drain may trust  *)
(* the channel it found, and a stop is only given when nothing is left.    *)
(***************************************************************************)
EXTENDS KeyedWorker, FiniteSetTheorems, WellFoundedInduction, TLAPS

Busy   == {i \in Item : handler[i] = "running"}
Caller == Drainer \cup Closer
Pcs    == {"ready", "closing", "waiting", "joining", "returned", "gave up"}

\* What outstanding counts.
Counted == IsFiniteSet(Busy) /\ outstanding = Len(queue) + Cardinality(Busy)

\* A running item holds its key, and holds it alone.
KeysHeld ==
    /\ \A i \in Busy : KeyOf[i] \in active
    /\ \A i, j \in Busy : KeyOf[i] = KeyOf[j] => i = j

\* What was admitted is queued, in the same order, until a handler has it.
QueueOrder ==
    /\ \A i \in Item : enqueue[i] = "ready" => handler[i] = "none"
    /\ \A p \in DOMAIN admitted : enqueue[admitted[p]] # "ready"
    /\ \A p, q \in DOMAIN admitted : admitted[p] = admitted[q] => p = q
    /\ \A p \in DOMAIN admitted :
          handler[admitted[p]] = "none" => \E n \in DOMAIN queue : queue[n] = admitted[p]
    /\ \A n \in DOMAIN queue :
          /\ handler[queue[n]] = "none"
          /\ \E p \in DOMAIN admitted : admitted[p] = queue[n]
    /\ \A m, n \in DOMAIN queue, p, q \in DOMAIN admitted :
          m < n /\ admitted[p] = queue[m] /\ admitted[q] = queue[n] => p < q

\* Only the newest idle channel can be open, and it is while work is outstanding.
IdleChannels ==
    /\ idleClosed \subseteq 0..idle
    /\ idle \in idleClosed <=> outstanding = 0
    /\ \A c \in Caller :
          /\ caller[c].idle <= idle /\ caller[c].upto <= Len(admitted)
          /\ caller[c].pc \in {"joining", "returned"} => caller[c].idle \in idleClosed
          /\ caller[c].pc \in {"waiting", "joining", "returned"} /\ caller[c].idle \in idleClosed
             => \A p \in 1..caller[c].upto : Finished(admitted[p])

\* Once Close has refused new items its Drain waits for the last channel.
Closing ==
    /\ \A c \in Closer :
          /\ caller[c].pc # "ready" => closed
          /\ caller[c].pc \in {"waiting", "joining", "returned"} => caller[c].idle = idle
          /\ caller[c].pc = "returned" => dispatcher = "gone"
    /\ stopped => closed /\ outstanding = 0
    /\ dispatcher = "gone" => stopped

IInv ==
    /\ TypeOK /\ Counted /\ KeysHeld /\ QueueOrder /\ IdleChannels /\ Closing
    /\ SerialInOrder /\ NoLostWakeup

-----------------------------------------------------------------------------
(* Facts about sequences and counts.                                       *)

\* A set of numbers has a least one: a scan that finds a free item finds a first.
LEMMA Smallest ==
    ASSUME NEW S, S \subseteq Nat, S # {}
    PROVE  \E x \in S : \A y \in S : x <= y
<1> DEFINE R == OpToRel(<, Nat)
<1>1. IsWellFoundedOn(R, Nat)
  BY NatLessThanWellFounded
<1> HIDE DEF R
<1>2. PICK x \in S : \A y \in S : ~ (<<y, x>> \in R)
  BY <1>1, WFMin
<1>3. ASSUME NEW y \in S PROVE x <= y
  <2>1. y < x => <<y, x>> \in R
    BY DEF R, OpToRel
  <2>2. x \in Nat /\ y \in Nat
    OBVIOUS
  <2> QED BY <1>2, <2>1, <2>2
<1> QED BY <1>3

\* What taking an item out of the middle of the queue leaves.
LEMMA Removal ==
    ASSUME NEW s \in Seq(Item), NEW n \in DOMAIN s
    PROVE  /\ RemoveAt(s, n) \in Seq(Item)
           /\ Len(RemoveAt(s, n)) = Len(s) - 1
           /\ \A m \in DOMAIN RemoveAt(s, n) :
                 RemoveAt(s, n)[m] = IF m < n THEN s[m] ELSE s[m + 1]
<1> DEFINE a == SubSeq(s, 1, n - 1)
           b == SubSeq(s, n + 1, Len(s))
<1>1. n \in 1..Len(s) /\ Len(s) \in Nat
  OBVIOUS
<1>2. a \in Seq(Item) /\ Len(a) = n - 1 /\ \A i \in 1..(n - 1) : a[i] = s[i]
  BY <1>1
<1>3. /\ b \in Seq(Item) /\ Len(b) = Len(s) - n
      /\ \A i \in 1..(Len(s) - n) : b[i] = s[i + n]
  BY <1>1
<1> HIDE DEF a, b
<1>4. /\ a \o b \in Seq(Item) /\ Len(a \o b) = Len(s) - 1
      /\ \A i \in 1..(Len(s) - 1) : (a \o b)[i] = IF i < n THEN s[i] ELSE s[i + 1]
  BY <1>1, <1>2, <1>3
<1>5. RemoveAt(s, n) = a \o b
  BY DEF RemoveAt, a, b
<1>6. DOMAIN RemoveAt(s, n) = 1..(Len(s) - 1)
  BY <1>1, <1>4, <1>5
<1> QED BY <1>4, <1>5, <1>6

\* What adding an item at the end of a sequence leaves of it.
LEMMA Extension ==
    ASSUME NEW s \in Seq(Item), NEW i \in Item
    PROVE  /\ Append(s, i) \in Seq(Item) /\ Len(Append(s, i)) = Len(s) + 1
           /\ DOMAIN s = 1..Len(s) /\ DOMAIN Append(s, i) = 1..(Len(s) + 1)
           /\ \A m \in DOMAIN s : Append(s, i)[m] = s[m]
           /\ Append(s, i)[Len(s) + 1] = i
OBVIOUS

\* The entries of the queue and of the history are items.
LEMMA Elements ==
    ASSUME TypeOK
    PROVE  /\ queue \in Seq(Item) /\ Len(queue) \in Nat /\ DOMAIN queue = 1..Len(queue)
           /\ \A n \in DOMAIN queue : queue[n] \in Item
           /\ admitted \in Seq(Item) /\ Len(admitted) \in Nat
           /\ DOMAIN admitted = 1..Len(admitted)
           /\ \A p \in DOMAIN admitted : admitted[p] \in Item
<1>1. queue \in Seq(Item) /\ admitted \in Seq(Item)
  BY DEF TypeOK
<1> QED BY <1>1

\* The counter is zero exactly when every admitted item is finished.
LEMMA NothingLeft ==
    ASSUME TypeOK, Counted, QueueOrder, outstanding = 0
    PROVE  /\ queue = <<>> /\ Busy = {}
           /\ \A p \in DOMAIN admitted : Finished(admitted[p])
<1>1. IsFiniteSet(Busy) /\ outstanding = Len(queue) + Cardinality(Busy)
  BY DEF Counted
<1>2. Cardinality(Busy) \in Nat
  BY <1>1, FS_CardinalityType
<1>3. Len(queue) = 0 /\ Cardinality(Busy) = 0
  BY <1>1, <1>2, Elements
<1>4. Busy = {}
  BY <1>1, <1>3, FS_EmptySet
<1>5. queue = <<>>
  BY <1>3, Elements
<1>6. ASSUME NEW p \in DOMAIN admitted PROVE Finished(admitted[p])
  <2>1. admitted[p] \in Item
    BY Elements
  <2>2. handler[admitted[p]] # "none"
    BY <1>5 DEF QueueOrder
  <2>3. handler[admitted[p]] # "running"
    BY <1>4, <2>1 DEF Busy
  <2> QED BY <2>1, <2>2, <2>3 DEF TypeOK, Finished
<1> QED BY <1>4, <1>5, <1>6

\* One handler less.
LEMMA OneLess ==
    ASSUME TypeOK, Counted, NEW i \in Item, handler[i] = "running"
    PROVE  /\ IsFiniteSet(Busy \ {i}) /\ Cardinality(Busy \ {i}) = Cardinality(Busy) - 1
           /\ outstanding - 1 \in Nat
<1>1. i \in Busy
  BY DEF Busy
<1>2. IsFiniteSet(Busy) /\ outstanding = Len(queue) + Cardinality(Busy)
  BY DEF Counted
<1>3. IsFiniteSet(Busy \ {i}) /\ Cardinality(Busy \ {i}) = Cardinality(Busy) - 1
  BY <1>1, <1>2, FS_RemoveElement
<1>4. Cardinality(Busy \ {i}) \in Nat /\ Cardinality(Busy) \in Nat
  BY <1>2, <1>3, FS_CardinalityType
<1> QED BY <1>2, <1>3, <1>4, Elements

-----------------------------------------------------------------------------
(* Types.                                                                  *)

\* Every step of Enqueue, run, handleOne, Drain and Close keeps the types; the
\* counter does not go below zero.
LEMMA TypeStep ==
    ASSUME TypeOK, Counted, [Next]_vars
    PROVE  TypeOK'
<1> USE DEF mutexed, channels
<1>1. ASSUME NEW i \in Item, Refuse(i) \/ EnqueuePoke(i) \/ FinishPoke(i) PROVE TypeOK'
  BY <1>1 DEF TypeOK, Refuse, EnqueuePoke, FinishPoke
<1>2. ASSUME NEW i \in Item, Admit(i) PROVE TypeOK'
  <2>1. queue' \in Seq(Item) /\ admitted' \in Seq(Item)
    BY <1>2, Extension DEF TypeOK, Admit
  <2>2. outstanding' \in Nat /\ idle' \in Nat
    <3>1. outstanding \in Nat /\ idle \in Nat
      BY DEF TypeOK
    <3>2. /\ outstanding' = outstanding + 1
          /\ idle' = IF outstanding = 0 THEN idle + 1 ELSE idle
      BY <1>2 DEF Admit
    <3> QED BY <3>1, <3>2
  <2>3. enqueue' \in [Item -> {"ready", "poke", "done"}]
    BY <1>2 DEF TypeOK, Admit
  <2>4. UNCHANGED <<active, closed, channels, dispatcher, handler, caller>>
    BY <1>2 DEF Admit
  <2> QED BY <2>1, <2>2, <2>3, <2>4 DEF TypeOK
<1>3. ASSUME NEW i \in Item, Finish(i) PROVE TypeOK'
  <2>1. outstanding' \in Nat
    BY <1>3, OneLess DEF Finish
  <2> QED BY <1>3, <2>1 DEF TypeOK, Finish
<1>4. CASE Wake \/ Leave \/ ScanEnds
  BY <1>4 DEF TypeOK, Wake, Leave, ScanEnds
<1>5. CASE Dispatch
  <2>1. PICK n \in DOMAIN queue :
          /\ queue' = RemoveAt(queue, n)
          /\ active' = active \cup {KeyOf[queue[n]]}
          /\ handler' = [handler EXCEPT ![queue[n]] = "running"]
    BY <1>5 DEF Dispatch
  <2>2. queue[n] \in Item
    BY Elements
  <2>3. queue' \in Seq(Item)
    BY <2>1, Removal DEF TypeOK
  <2>4. active' \subseteq Key
    BY <2>1, <2>2, WorkerAssumption DEF TypeOK
  <2> QED BY <1>5, <2>1, <2>2, <2>3, <2>4 DEF TypeOK, Dispatch
<1>6. ASSUME NEW c \in Caller, BeginClose(c) \/ BeginDrain(c) \/ Drained(c) \/ GiveUp(c) \/ Join(c)
      PROVE  TypeOK'
  <2>1. /\ caller \in [Caller -> [pc : Pcs, idle : Nat, upto : Nat]]
        /\ idle \in Nat /\ Len(admitted) \in Nat
    BY Elements DEF TypeOK, Caller, Pcs
  <2>2. caller' \in [Caller -> [pc : Pcs, idle : Nat, upto : Nat]]
    <3> USE <2>1 DEF Pcs
    <3>1. CASE BeginDrain(c)
      <4> DEFINE new == [pc |-> "waiting", idle |-> idle, upto |-> Len(admitted)]
      <4>1. new \in [pc : Pcs, idle : Nat, upto : Nat]
        OBVIOUS
      <4>2. caller' = [caller EXCEPT ![c] = new]
        BY <3>1 DEF BeginDrain
      <4> HIDE DEF new
      <4> QED BY <4>1, <4>2
    <3>2. CASE BeginClose(c) \/ Drained(c) \/ GiveUp(c) \/ Join(c)
      <4>1. PICK pc \in Pcs : caller' = [caller EXCEPT ![c].pc = pc]
        BY <3>2 DEF BeginClose, Drained, GiveUp, Join, Step
      <4> QED BY <4>1
    <3> QED BY <1>6, <3>1, <3>2
  <2>3. /\ closed' \in BOOLEAN /\ stopped' \in BOOLEAN
        /\ UNCHANGED <<queue, active, outstanding, idle, idleClosed, wake, dispatcher,
                       enqueue, handler, admitted>>
    BY <1>6 DEF TypeOK, BeginClose, BeginDrain, Drained, GiveUp, Join
  <2> QED BY <2>2, <2>3 DEF TypeOK, Caller, Pcs
<1>7. CASE UNCHANGED vars
  BY <1>7 DEF TypeOK, vars
<1> QED BY <1>1, <1>2, <1>3, <1>4, <1>5, <1>6, <1>7 DEF Next, Caller

-----------------------------------------------------------------------------
(* Counts, keys and the order of the queue.                                *)

\* What one dispatch does to the queue and the handlers.
LEMMA Dispatched ==
    ASSUME TypeOK, QueueOrder, Dispatch
    PROVE  \E n \in DOMAIN queue :
              /\ IsNext(n) /\ queue[n] \in Item /\ handler[queue[n]] = "none"
              /\ handler' = [handler EXCEPT ![queue[n]] = "running"]
              /\ active' = active \cup {KeyOf[queue[n]]}
              /\ queue' \in Seq(Item) /\ Len(queue') = Len(queue) - 1
              /\ DOMAIN queue' = 1..(Len(queue) - 1)
              /\ \A m \in DOMAIN queue' : queue'[m] = IF m < n THEN queue[m] ELSE queue[m + 1]
<1>1. PICK n \in DOMAIN queue :
        /\ IsNext(n) /\ queue' = RemoveAt(queue, n)
        /\ active' = active \cup {KeyOf[queue[n]]}
        /\ handler' = [handler EXCEPT ![queue[n]] = "running"]
  BY DEF Dispatch
<1>2. queue[n] \in Item /\ queue \in Seq(Item)
  BY Elements
<1>3. handler[queue[n]] = "none"
  BY DEF QueueOrder
<1>4. /\ queue' \in Seq(Item) /\ Len(queue') = Len(queue) - 1
      /\ \A m \in DOMAIN queue' : queue'[m] = IF m < n THEN queue[m] ELSE queue[m + 1]
  BY <1>1, <1>2, Removal
<1>5. DOMAIN queue' = 1..(Len(queue) - 1)
  BY <1>4
<1> QED BY <1>1, <1>2, <1>3, <1>4, <1>5

\* Enqueue, the scan and handleOne keep the counter balanced.
LEMMA CountedStep ==
    ASSUME TypeOK, Counted, QueueOrder, [Next]_vars
    PROVE  Counted'
<1>1. IsFiniteSet(Busy) /\ outstanding = Len(queue) + Cardinality(Busy)
  BY DEF Counted
<1>2. Cardinality(Busy) \in Nat
  BY <1>1, FS_CardinalityType
<1>3. handler \in [Item -> {"none", "running", "poke", "done"}]
  BY DEF TypeOK
<1>4. ASSUME UNCHANGED <<queue, outstanding, handler>> PROVE Counted'
  BY <1>1, <1>4 DEF Counted, Busy
<1>5. ASSUME NEW i \in Item, Admit(i) PROVE Counted'
  <2>1. Busy' = Busy
    BY <1>5 DEF Admit, Busy
  <2>2. Len(queue') = Len(queue) + 1 /\ outstanding' = outstanding + 1
    BY <1>5, Elements, Extension DEF Admit
  <2> QED BY <1>1, <1>2, <2>1, <2>2, Elements DEF Counted
<1>6. ASSUME NEW i \in Item, Finish(i) PROVE Counted'
  <2>1. Busy' = Busy \ {i}
    BY <1>3, <1>6 DEF Finish, Busy
  <2>2. queue' = queue /\ outstanding' = outstanding - 1
    BY <1>6 DEF Finish
  <2>3. IsFiniteSet(Busy \ {i}) /\ Cardinality(Busy \ {i}) = Cardinality(Busy) - 1
    BY <1>6, OneLess DEF Finish
  <2> QED BY <1>1, <1>2, <2>1, <2>2, <2>3, Elements DEF Counted
<1>7. ASSUME NEW i \in Item, FinishPoke(i) PROVE Counted'
  <2>1. Busy' = Busy
    BY <1>3, <1>7 DEF FinishPoke, Busy
  <2> QED BY <1>1, <1>7, <2>1 DEF Counted, FinishPoke, mutexed
<1>8. CASE Dispatch
  <2>1. PICK n \in DOMAIN queue :
          /\ queue[n] \in Item /\ handler[queue[n]] = "none"
          /\ handler' = [handler EXCEPT ![queue[n]] = "running"]
          /\ Len(queue') = Len(queue) - 1
    BY <1>8, Dispatched
  <2>2. Busy' = Busy \cup {queue[n]} /\ queue[n] \notin Busy
    BY <1>3, <2>1 DEF Busy
  <2>3. IsFiniteSet(Busy') /\ Cardinality(Busy') = Cardinality(Busy) + 1
    BY <1>1, <2>2, FS_AddElement
  <2>4. outstanding' = outstanding
    BY <1>8 DEF Dispatch
  <2> QED BY <1>1, <1>2, <2>1, <2>3, <2>4, Elements DEF Counted
<1>9. ASSUME NEW i \in Item, Refuse(i) \/ EnqueuePoke(i) PROVE Counted'
  BY <1>4, <1>9 DEF Refuse, EnqueuePoke, mutexed
<1>10. CASE Wake \/ Leave \/ ScanEnds
  BY <1>4, <1>10 DEF Wake, Leave, ScanEnds, mutexed
<1>11. ASSUME NEW c \in Drainer \cup Closer,
              BeginClose(c) \/ BeginDrain(c) \/ Drained(c) \/ GiveUp(c) \/ Join(c)
       PROVE  Counted'
  BY <1>4, <1>11 DEF BeginClose, BeginDrain, Drained, GiveUp, Join, mutexed
<1>12. CASE UNCHANGED vars
  BY <1>4, <1>12 DEF vars, mutexed
<1> QED BY <1>5, <1>6, <1>7, <1>8, <1>9, <1>10, <1>11, <1>12 DEF Next

\* A key is taken by the scan and given back by handleOne with its item.
LEMMA KeysStep ==
    ASSUME TypeOK, KeysHeld, QueueOrder, [Next]_vars
    PROVE  KeysHeld'
<1>1. handler \in [Item -> {"none", "running", "poke", "done"}]
  BY DEF TypeOK
<1>2. ASSUME UNCHANGED <<active, handler>> PROVE KeysHeld'
  BY <1>2 DEF KeysHeld, Busy
<1>3. ASSUME NEW i \in Item, Admit(i) PROVE KeysHeld'
  BY <1>2, <1>3 DEF Admit
<1>4. ASSUME NEW i \in Item, Finish(i) PROVE KeysHeld'
  <2>1. Busy' = Busy \ {i} /\ i \in Busy
    BY <1>1, <1>4 DEF Finish, Busy
  <2>2. active' = active \ {KeyOf[i]}
    BY <1>4 DEF Finish
  <2> QED BY <2>1, <2>2 DEF KeysHeld
<1>5. ASSUME NEW i \in Item, FinishPoke(i) PROVE KeysHeld'
  <2>1. Busy' = Busy
    BY <1>1, <1>5 DEF FinishPoke, Busy
  <2> QED BY <1>5, <2>1 DEF KeysHeld, FinishPoke, mutexed
<1>6. CASE Dispatch
  <2>1. PICK n \in DOMAIN queue :
          /\ IsNext(n) /\ queue[n] \in Item
          /\ handler' = [handler EXCEPT ![queue[n]] = "running"]
          /\ active' = active \cup {KeyOf[queue[n]]}
    BY <1>6, Dispatched
  <2>2. Busy' = Busy \cup {queue[n]}
    BY <1>1, <2>1 DEF Busy
  <2>3. KeyOf[queue[n]] \notin active
    BY <2>1 DEF IsNext, Free
  <2> QED BY <2>1, <2>2, <2>3 DEF KeysHeld
<1>7. ASSUME NEW i \in Item, Refuse(i) \/ EnqueuePoke(i) PROVE KeysHeld'
  BY <1>2, <1>7 DEF Refuse, EnqueuePoke, mutexed
<1>8. CASE Wake \/ Leave \/ ScanEnds
  BY <1>2, <1>8 DEF Wake, Leave, ScanEnds, mutexed
<1>9. ASSUME NEW c \in Drainer \cup Closer,
             BeginClose(c) \/ BeginDrain(c) \/ Drained(c) \/ GiveUp(c) \/ Join(c)
      PROVE  KeysHeld'
  BY <1>2, <1>9 DEF BeginClose, BeginDrain, Drained, GiveUp, Join, mutexed
<1>10. CASE UNCHANGED vars
  BY <1>2, <1>10 DEF vars, mutexed
<1> QED BY <1>3, <1>4, <1>5, <1>6, <1>7, <1>8, <1>9, <1>10 DEF Next

\* Enqueue appends: the new item is the last one of the queue and of the history.
LEMMA AdmitOrder ==
    ASSUME TypeOK, QueueOrder, NEW i \in Item, Admit(i)
    PROVE  QueueOrder'
<1> DEFINE A == Len(admitted) + 1
           L == Len(queue) + 1
<1>1. /\ DOMAIN queue' = DOMAIN queue \cup {L} /\ L \notin DOMAIN queue
      /\ \A n \in DOMAIN queue : queue'[n] = queue[n] /\ n < L
      /\ queue'[L] = i
  BY Elements, Extension DEF Admit
<1>2. /\ DOMAIN admitted' = DOMAIN admitted \cup {A} /\ A \notin DOMAIN admitted
      /\ \A p \in DOMAIN admitted : admitted'[p] = admitted[p] /\ p < A
      /\ admitted'[A] = i
  BY Elements, Extension DEF Admit
<1>3. /\ enqueue[i] = "ready" /\ enqueue' = [enqueue EXCEPT ![i] = "poke"]
      /\ handler' = handler /\ handler[i] = "none"
  BY DEF Admit, QueueOrder
<1>4. /\ \A p \in DOMAIN admitted : admitted[p] \in Item /\ admitted[p] # i
      /\ \A n \in DOMAIN queue : queue[n] \in Item /\ queue[n] # i
  BY <1>3, Elements DEF QueueOrder
<1>5. enqueue \in [Item -> {"ready", "poke", "done"}]
  BY DEF TypeOK
<1>6. DOMAIN queue' \subseteq Nat /\ DOMAIN admitted' \subseteq Nat /\ A \in Nat /\ L \in Nat
  BY <1>1, <1>2, Elements
<1> HIDE DEF A, L
<1>7. \A j \in Item : enqueue'[j] = "ready" => handler'[j] = "none"
  BY <1>3, <1>5 DEF QueueOrder
<1>8. \A p \in DOMAIN admitted' : enqueue'[admitted'[p]] # "ready"
  BY <1>2, <1>3, <1>4, <1>5 DEF QueueOrder
<1>9. \A p, q \in DOMAIN admitted' : admitted'[p] = admitted'[q] => p = q
  BY <1>2, <1>4 DEF QueueOrder
<1>10. \A p \in DOMAIN admitted' :
          handler'[admitted'[p]] = "none" => \E n \in DOMAIN queue' : queue'[n] = admitted'[p]
  BY <1>1, <1>2, <1>3 DEF QueueOrder
<1>11. \A n \in DOMAIN queue' :
          /\ handler'[queue'[n]] = "none"
          /\ \E p \in DOMAIN admitted' : admitted'[p] = queue'[n]
  BY <1>1, <1>2, <1>3 DEF QueueOrder
<1>12. ASSUME NEW m \in DOMAIN queue', NEW n \in DOMAIN queue',
              NEW p \in DOMAIN admitted', NEW q \in DOMAIN admitted',
              m < n, admitted'[p] = queue'[m], admitted'[q] = queue'[n]
       PROVE  p < q
  <2>1. m \in DOMAIN queue
    BY <1>1, <1>6, <1>12
  <2>2. p \in DOMAIN admitted
    BY <1>1, <1>2, <1>4, <1>12, <2>1
  <2>3. CASE n = L
    <3>1. q = A
      BY <1>1, <1>2, <1>4, <1>12, <2>3
    <3> QED BY <1>2, <2>2, <3>1
  <2>4. CASE n # L
    <3>1. n \in DOMAIN queue
      BY <1>1, <2>4
    <3>2. q \in DOMAIN admitted
      BY <1>1, <1>2, <1>4, <1>12, <3>1
    <3>3. admitted[p] = queue[m] /\ admitted[q] = queue[n]
      BY <1>1, <1>2, <1>12, <2>1, <2>2, <3>1, <3>2
    <3> QED BY <1>12, <2>1, <2>2, <3>1, <3>2, <3>3 DEF QueueOrder
  <2> QED BY <2>3, <2>4
<1> QED BY <1>7, <1>8, <1>9, <1>10, <1>11, <1>12 DEF QueueOrder

\* The scan takes an item out of the middle: the others keep their order.
LEMMA DispatchOrder ==
    ASSUME TypeOK, QueueOrder, Dispatch
    PROVE  QueueOrder'
<1>1. PICK n \in DOMAIN queue :
        /\ queue[n] \in Item
        /\ handler' = [handler EXCEPT ![queue[n]] = "running"]
        /\ DOMAIN queue' = 1..(Len(queue) - 1)
        /\ \A m \in DOMAIN queue' : queue'[m] = IF m < n THEN queue[m] ELSE queue[m + 1]
  BY Dispatched
<1>2. UNCHANGED <<enqueue, admitted>> /\ handler \in [Item -> {"none", "running", "poke", "done"}]
  BY DEF Dispatch, TypeOK
<1> DEFINE old(m) == IF m < n THEN m ELSE m + 1
<1>3. ASSUME NEW m \in DOMAIN queue'
      PROVE  old(m) \in DOMAIN queue /\ old(m) # n /\ queue'[m] = queue[old(m)]
  BY <1>1, Elements
<1>4. ASSUME NEW k \in DOMAIN queue, k # n
      PROVE  \E m \in DOMAIN queue' : queue'[m] = queue[k]
  <2>1. CASE k < n
    <3>1. k \in DOMAIN queue'
      BY <1>1, <2>1, Elements
    <3> QED BY <1>1, <2>1, <3>1
  <2>2. CASE ~(k < n)
    <3>1. k - 1 \in DOMAIN queue' /\ ~(k - 1 < n) /\ (k - 1) + 1 = k
      BY <1>1, <1>4, <2>2, Elements
    <3> QED BY <1>1, <3>1
  <2> QED BY <2>1, <2>2
<1>5. ASSUME NEW k \in DOMAIN queue, queue[k] = queue[n] PROVE k = n
  <2>1. PICK p \in DOMAIN admitted : admitted[p] = queue[n]
    BY DEF QueueOrder
  <2>2. k < n => p < p
    BY <1>5, <2>1 DEF QueueOrder
  <2>3. n < k => p < p
    BY <1>5, <2>1 DEF QueueOrder
  <2> QED BY <2>1, <2>2, <2>3, Elements
<1>6. \A m, k \in DOMAIN queue' : m < k => old(m) < old(k)
  BY <1>1, Elements
<1>7. \A i \in Item : enqueue'[i] = "ready" => handler'[i] = "none"
  BY <1>1, <1>2, Dispatched DEF QueueOrder
<1>8. /\ \A p \in DOMAIN admitted' : enqueue'[admitted'[p]] # "ready"
      /\ \A p, q \in DOMAIN admitted' : admitted'[p] = admitted'[q] => p = q
  BY <1>2 DEF QueueOrder
<1>9. ASSUME NEW p \in DOMAIN admitted', handler'[admitted'[p]] = "none"
      PROVE  \E m \in DOMAIN queue' : queue'[m] = admitted'[p]
  <2>1. admitted[p] \in Item /\ admitted[p] # queue[n] /\ handler[admitted[p]] = "none"
    BY <1>1, <1>2, <1>9, Elements
  <2>2. PICK k \in DOMAIN queue : queue[k] = admitted[p]
    BY <1>2, <2>1 DEF QueueOrder
  <2> QED BY <1>2, <1>4, <2>1, <2>2
<1>10. ASSUME NEW m \in DOMAIN queue'
       PROVE  /\ handler'[queue'[m]] = "none"
              /\ \E p \in DOMAIN admitted' : admitted'[p] = queue'[m]
  <2>1. queue[old(m)] \in Item /\ queue[old(m)] # queue[n]
    BY <1>3, <1>5, Elements
  <2> QED BY <1>1, <1>2, <1>3, <2>1 DEF QueueOrder
<1>11. ASSUME NEW m \in DOMAIN queue', NEW k \in DOMAIN queue',
              NEW p \in DOMAIN admitted', NEW q \in DOMAIN admitted',
              m < k, admitted'[p] = queue'[m], admitted'[q] = queue'[k]
       PROVE  p < q
  <2>1. old(m) < old(k) /\ admitted[p] = queue[old(m)] /\ admitted[q] = queue[old(k)]
    BY <1>2, <1>3, <1>6, <1>11
  <2> QED BY <1>2, <1>3, <2>1 DEF QueueOrder
<1> QED BY <1>7, <1>8, <1>9, <1>10, <1>11 DEF QueueOrder

\* No step of the worker reorders the queue or loses an item that was not started.
LEMMA OrderStep ==
    ASSUME TypeOK, QueueOrder, [Next]_vars
    PROVE  QueueOrder'
<1>1. /\ enqueue \in [Item -> {"ready", "poke", "done"}]
      /\ handler \in [Item -> {"none", "running", "poke", "done"}]
      /\ \A n \in DOMAIN queue : queue[n] \in Item
      /\ \A p \in DOMAIN admitted : admitted[p] \in Item
  BY Elements DEF TypeOK
<1>2. ASSUME UNCHANGED <<queue, admitted>>,
             \A i \in Item : /\ enqueue'[i] = "ready" => enqueue[i] = "ready"
                             /\ handler'[i] = "none" <=> handler[i] = "none"
      PROVE  QueueOrder'
  <2>1. \A i \in Item : enqueue'[i] = "ready" => handler'[i] = "none"
    BY <1>2 DEF QueueOrder
  <2>2. \A p \in DOMAIN admitted : enqueue'[admitted[p]] # "ready"
    BY <1>1, <1>2 DEF QueueOrder
  <2>3. \A p \in DOMAIN admitted :
           handler'[admitted[p]] = "none" => \E n \in DOMAIN queue : queue[n] = admitted[p]
    BY <1>1, <1>2 DEF QueueOrder
  <2>4. \A n \in DOMAIN queue : handler'[queue[n]] = "none"
    BY <1>1, <1>2 DEF QueueOrder
  <2> QED BY <1>2, <2>1, <2>2, <2>3, <2>4 DEF QueueOrder
<1>3. ASSUME NEW i \in Item, Refuse(i) \/ EnqueuePoke(i) PROVE QueueOrder'
  BY <1>1, <1>2, <1>3 DEF Refuse, EnqueuePoke, mutexed
<1>4. ASSUME NEW i \in Item, Finish(i) \/ FinishPoke(i) PROVE QueueOrder'
  <2>1. UNCHANGED <<queue, enqueue, admitted>>
    BY <1>4 DEF Finish, FinishPoke, mutexed
  <2>2. \A j \in Item : handler'[j] = "none" <=> handler[j] = "none"
    BY <1>1, <1>4 DEF Finish, FinishPoke
  <2> QED BY <1>2, <2>1, <2>2
<1>5. CASE Wake \/ Leave \/ ScanEnds
  BY <1>2, <1>5 DEF Wake, Leave, ScanEnds, mutexed
<1>6. ASSUME NEW c \in Drainer \cup Closer,
             BeginClose(c) \/ BeginDrain(c) \/ Drained(c) \/ GiveUp(c) \/ Join(c)
      PROVE  QueueOrder'
  BY <1>2, <1>6 DEF BeginClose, BeginDrain, Drained, GiveUp, Join, mutexed
<1>7. CASE UNCHANGED vars
  BY <1>2, <1>7 DEF vars, mutexed
<1> QED BY <1>3, <1>4, <1>5, <1>6, <1>7, AdmitOrder, DispatchOrder DEF Next

-----------------------------------------------------------------------------
(* One key at a time, in order.                                            *)

\* The scan starts the first queued item of a key that nobody holds.
LEMMA SerialDispatch ==
    ASSUME TypeOK, KeysHeld, QueueOrder, SerialInOrder, Dispatch
    PROVE  SerialInOrder'
<1>1. PICK n \in DOMAIN queue :
        /\ IsNext(n) /\ queue[n] \in Item
        /\ handler' = [handler EXCEPT ![queue[n]] = "running"]
  BY Dispatched
<1>2. /\ admitted' = admitted /\ handler \in [Item -> {"none", "running", "poke", "done"}]
      /\ handler[queue[n]] = "none"
  BY DEF Dispatch, TypeOK, QueueOrder
<1>3. \A i \in Item : Finished(i) => Finished(i)'
  BY <1>1, <1>2 DEF Finished
<1>4. ASSUME NEW p \in DOMAIN admitted, NEW q \in DOMAIN admitted, p < q,
             KeyOf[admitted[p]] = KeyOf[admitted[q]], handler'[admitted[q]] # "none"
      PROVE  Finished(admitted[p])'
  <2>1. admitted[p] \in Item /\ admitted[q] \in Item
    BY Elements
  <2>2. CASE handler[admitted[q]] # "none"
    BY <1>2, <1>3, <1>4, <2>1, <2>2 DEF SerialInOrder
  <2>3. CASE handler[admitted[q]] = "none"
    <3>1. admitted[q] = queue[n]
      BY <1>1, <1>2, <1>4, <2>1, <2>3
    <3>2. KeyOf[admitted[p]] \notin active
      BY <1>1, <1>4, <3>1 DEF IsNext, Free
    <3>3. handler[admitted[p]] # "running"
      BY <2>1, <3>2 DEF KeysHeld, Busy
    <3>4. ASSUME handler[admitted[p]] = "none" PROVE FALSE
      <4>1. PICK m \in DOMAIN queue : queue[m] = admitted[p]
        BY <3>4 DEF QueueOrder
      <4>2. ~(n < m)
        <5>1. n < m => q < p
          BY <3>1, <4>1 DEF QueueOrder
        <5> QED BY <1>4, <5>1, Elements
      <4>3. m # n
        BY <1>4, <3>1, <4>1, Elements DEF QueueOrder
      <4>4. m \in 1..(n - 1)
        BY <4>2, <4>3, Elements
      <4>5. ~Free(m)
        BY <1>1, <4>4 DEF IsNext
      <4> QED BY <3>2, <4>1, <4>5 DEF Free
    <3>5. Finished(admitted[p])
      BY <1>2, <2>1, <3>3, <3>4 DEF Finished
    <3> QED BY <1>2, <1>3, <2>1, <3>5
  <2> QED BY <2>2, <2>3
<1> QED BY <1>2, <1>4 DEF SerialInOrder

\* No step starts an item while an earlier one of its key is not handled.
LEMMA SerialStep ==
    ASSUME TypeOK, KeysHeld, QueueOrder, SerialInOrder, [Next]_vars
    PROVE  SerialInOrder'
<1>1. /\ handler \in [Item -> {"none", "running", "poke", "done"}]
      /\ \A p \in DOMAIN admitted : admitted[p] \in Item
  BY Elements DEF TypeOK
<1>2. ASSUME UNCHANGED admitted,
             \A i \in Item : /\ handler'[i] # "none" => handler[i] # "none"
                             /\ Finished(i) => Finished(i)'
      PROVE  SerialInOrder'
  <2>1. ASSUME NEW p \in DOMAIN admitted, NEW q \in DOMAIN admitted, p < q,
               KeyOf[admitted[p]] = KeyOf[admitted[q]], handler'[admitted[q]] # "none"
        PROVE  Finished(admitted[p])'
    <3>1. Finished(admitted[p])
      BY <1>1, <1>2, <2>1 DEF SerialInOrder
    <3> QED BY <1>1, <1>2, <3>1 DEF Finished
  <2> QED BY <1>2, <2>1 DEF SerialInOrder
<1>3. ASSUME NEW i \in Item, Admit(i) PROVE SerialInOrder'
  <2>1. /\ admitted' = Append(admitted, i) /\ handler' = handler /\ handler[i] = "none"
    BY <1>3 DEF Admit, QueueOrder
  <2>2. ASSUME NEW p \in DOMAIN admitted', NEW q \in DOMAIN admitted', p < q,
               KeyOf[admitted'[p]] = KeyOf[admitted'[q]], handler[admitted'[q]] # "none"
        PROVE  Finished(admitted'[p])
    <3>1. q \in DOMAIN admitted /\ admitted'[q] = admitted[q]
      BY <2>1, <2>2, Elements, Extension
    <3>2. p \in DOMAIN admitted /\ admitted'[p] = admitted[p]
      BY <2>1, <2>2, <3>1, Elements, Extension
    <3> QED BY <2>2, <3>1, <3>2 DEF SerialInOrder
  <2> QED BY <2>1, <2>2 DEF SerialInOrder, Finished
<1>4. ASSUME NEW i \in Item, Finish(i) \/ FinishPoke(i) PROVE SerialInOrder'
  <2>1. UNCHANGED admitted
    BY <1>4 DEF Finish, FinishPoke
  <2>2. \A j \in Item : /\ handler'[j] # "none" => handler[j] # "none"
                        /\ Finished(j) => Finished(j)'
    BY <1>1, <1>4 DEF Finish, FinishPoke, Finished
  <2> QED BY <1>2, <2>1, <2>2
<1>5. ASSUME UNCHANGED <<admitted, handler>> PROVE SerialInOrder'
  BY <1>2, <1>5 DEF Finished
<1>6. ASSUME NEW i \in Item, Refuse(i) \/ EnqueuePoke(i) PROVE SerialInOrder'
  BY <1>5, <1>6 DEF Refuse, EnqueuePoke
<1>7. CASE Wake \/ Leave \/ ScanEnds
  BY <1>5, <1>7 DEF Wake, Leave, ScanEnds
<1>8. ASSUME NEW c \in Drainer \cup Closer,
             BeginClose(c) \/ BeginDrain(c) \/ Drained(c) \/ GiveUp(c) \/ Join(c)
      PROVE  SerialInOrder'
  BY <1>5, <1>8 DEF BeginClose, BeginDrain, Drained, GiveUp, Join
<1>9. CASE UNCHANGED vars
  BY <1>5, <1>9 DEF vars
<1> QED BY <1>3, <1>4, <1>6, <1>7, <1>8, <1>9, SerialDispatch DEF Next

-----------------------------------------------------------------------------
(* The idle channels, Drain and Close.                                     *)

\* After a step as before it, a zero counter means that everything is handled.
LEMMA NothingLeftAfter ==
    TypeOK' /\ Counted' /\ QueueOrder' /\ outstanding' = 0
    => (\A p \in DOMAIN admitted : Finished(admitted[p]))'
<1>1. TypeOK /\ Counted /\ QueueOrder /\ outstanding = 0
      => \A p \in DOMAIN admitted : Finished(admitted[p])
  BY NothingLeft
<1>2. (TypeOK /\ Counted /\ QueueOrder /\ outstanding = 0
       => \A p \in DOMAIN admitted : Finished(admitted[p]))'
  BY <1>1, PTL
<1> QED BY <1>2

\* The channel a caller found is closed only after what it waits for is handled,
\* whatever channels are made and closed in between.
LEMMA ChannelsStep ==
    ASSUME TypeOK, Counted, QueueOrder, IdleChannels, Closing, [Next]_vars,
           TypeOK', Counted', QueueOrder'
    PROVE  IdleChannels'
<1>1. /\ handler \in [Item -> {"none", "running", "poke", "done"}]
      /\ \A p \in DOMAIN admitted : admitted[p] \in Item
      /\ Len(admitted) \in Nat /\ DOMAIN admitted = 1..Len(admitted)
      /\ caller \in [Caller -> [pc : Pcs, idle : Nat, upto : Nat]]
      /\ idle \in Nat /\ outstanding \in Nat /\ idleClosed \subseteq Nat
  BY Elements DEF TypeOK, Caller, Pcs
<1>2. ASSUME UNCHANGED <<idleClosed, idle, outstanding, caller, admitted>>,
             \A i \in Item : Finished(i) => Finished(i)'
      PROVE  IdleChannels'
  <2>1. ASSUME NEW c \in Caller,
               caller[c].pc \in {"waiting", "joining", "returned"}, caller[c].idle \in idleClosed,
               NEW p \in 1..caller[c].upto
        PROVE  Finished(admitted[p])'
    <3>1. admitted[p] \in Item
      BY <1>1 DEF IdleChannels
    <3> QED BY <1>2, <2>1, <3>1 DEF IdleChannels
  <2> QED BY <1>2, <2>1 DEF IdleChannels
<1>3. ASSUME UNCHANGED <<idleClosed, idle, outstanding, caller, admitted, handler>>
      PROVE  IdleChannels'
  BY <1>2, <1>3 DEF Finished
<1>4. ASSUME NEW i \in Item, Admit(i) PROVE IdleChannels'
  <2>1. /\ idle' = IF outstanding = 0 THEN idle + 1 ELSE idle
        /\ outstanding' = outstanding + 1
        /\ UNCHANGED <<idleClosed, caller, handler>>
    BY <1>4 DEF Admit, channels
  <2>2. /\ Len(admitted') = Len(admitted) + 1
        /\ \A p \in DOMAIN admitted : admitted'[p] = admitted[p]
    BY <1>4, Elements, Extension DEF Admit
  <2>3. idleClosed' \subseteq 0..idle' /\ (idle' \in idleClosed' <=> outstanding' = 0)
    BY <1>1, <2>1 DEF IdleChannels
  <2>4. ASSUME NEW c \in Caller
        PROVE  /\ caller'[c].idle <= idle' /\ caller'[c].upto <= Len(admitted')
               /\ caller'[c].pc \in {"joining", "returned"} => caller'[c].idle \in idleClosed'
    BY <1>1, <2>1, <2>2 DEF IdleChannels
  <2>5. ASSUME NEW c \in Caller, caller[c].pc \in {"waiting", "joining", "returned"},
               caller[c].idle \in idleClosed, NEW p \in 1..caller[c].upto
        PROVE  Finished(admitted[p])'
    <3>1. p \in DOMAIN admitted
      BY <1>1 DEF IdleChannels
    <3>2. Finished(admitted[p])
      BY <2>5 DEF IdleChannels
    <3> QED BY <2>1, <2>2, <3>1, <3>2 DEF Finished
  <2> QED BY <2>1, <2>3, <2>4, <2>5 DEF IdleChannels
<1>5. ASSUME NEW i \in Item, Finish(i) PROVE IdleChannels'
  <2>1. /\ outstanding' = outstanding - 1 /\ UNCHANGED <<idle, caller, admitted>>
        /\ idleClosed' = IF outstanding = 1 THEN idleClosed \cup {idle} ELSE idleClosed
        /\ \A j \in Item : Finished(j) => Finished(j)'
    BY <1>1, <1>5 DEF Finish, Finished
  <2>2. outstanding # 0
    <3>1. handler[i] = "running"
      BY <1>5 DEF Finish
    <3>2. outstanding - 1 \in Nat
      BY <3>1, OneLess
    <3> QED BY <3>2
  <2>3. idleClosed' \subseteq 0..idle' /\ (idle' \in idleClosed' <=> outstanding' = 0)
    BY <1>1, <2>1, <2>2 DEF IdleChannels
  <2>4. ASSUME NEW c \in Caller, caller[c].pc \in {"waiting", "joining", "returned"},
               caller[c].idle \in idleClosed', NEW p \in 1..caller[c].upto
        PROVE  Finished(admitted[p])'
    <3>1. p \in DOMAIN admitted
      BY <1>1 DEF IdleChannels
    <3>2. CASE caller[c].idle \in idleClosed
      BY <1>1, <2>1, <2>4, <3>1, <3>2 DEF IdleChannels
    <3>3. CASE outstanding = 1
      <4>1. outstanding' = 0
        BY <2>1, <3>3
      <4> QED BY <2>1, <3>1, <4>1, NothingLeftAfter
    <3> QED BY <2>1, <2>4, <3>2, <3>3
  <2> QED BY <2>1, <2>3, <2>4 DEF IdleChannels
<1>6. ASSUME NEW i \in Item, FinishPoke(i) PROVE IdleChannels'
  <2>1. /\ UNCHANGED <<idleClosed, idle, outstanding, caller, admitted>>
        /\ \A j \in Item : Finished(j) => Finished(j)'
    BY <1>1, <1>6 DEF FinishPoke, Finished, mutexed
  <2> QED BY <1>2, <2>1
<1>7. CASE Dispatch
  <2>1. PICK n \in DOMAIN queue :
          /\ queue[n] \in Item /\ handler[queue[n]] = "none"
          /\ handler' = [handler EXCEPT ![queue[n]] = "running"]
    BY <1>7, Dispatched
  <2>2. /\ UNCHANGED <<idleClosed, idle, outstanding, caller, admitted>>
        /\ \A j \in Item : Finished(j) => Finished(j)'
    BY <1>1, <1>7, <2>1 DEF Dispatch, Finished, channels
  <2> QED BY <1>2, <2>2
<1>8. ASSUME NEW i \in Item, Refuse(i) \/ EnqueuePoke(i) PROVE IdleChannels'
  BY <1>3, <1>8 DEF Refuse, EnqueuePoke, mutexed, channels
<1>9. CASE Wake \/ Leave \/ ScanEnds
  BY <1>3, <1>9 DEF Wake, Leave, ScanEnds, mutexed, channels
<1>10. ASSUME NEW c \in Caller,
              BeginClose(c) \/ BeginDrain(c) \/ Drained(c) \/ GiveUp(c) \/ Join(c)
       PROVE  IdleChannels'
  <2>1. UNCHANGED <<idleClosed, idle, outstanding, admitted, handler>>
    BY <1>10 DEF BeginClose, BeginDrain, Drained, GiveUp, Join, mutexed, channels
  <2>2. \A d \in Caller : d # c => caller'[d] = caller[d]
    BY <1>1, <1>10 DEF BeginClose, BeginDrain, Drained, GiveUp, Join, Step
  <2>3. CASE BeginDrain(c)
    <3>1. /\ caller'[c].idle = idle /\ caller'[c].upto = Len(admitted)
          /\ caller'[c].pc = "waiting"
      BY <1>1, <2>3 DEF BeginDrain
    <3>2. idle \in idleClosed => \A p \in 1..Len(admitted) : Finished(admitted[p])
      BY <1>1, NothingLeft DEF IdleChannels
    <3> QED BY <1>1, <2>1, <2>2, <3>1, <3>2 DEF IdleChannels, Finished
  <2>4. CASE BeginClose(c) \/ Drained(c) \/ GiveUp(c) \/ Join(c)
    <3>1. caller'[c].idle = caller[c].idle /\ caller'[c].upto = caller[c].upto
      <4>1. PICK pc \in Pcs : caller' = [caller EXCEPT ![c].pc = pc]
        BY <2>4 DEF BeginClose, Drained, GiveUp, Join, Step, Pcs
      <4> QED BY <1>1, <4>1
    <3>2. /\ caller'[c].pc \in {"joining", "returned"} => caller[c].idle \in idleClosed
          /\ caller'[c].pc \in {"waiting", "joining", "returned"} =>
                caller[c].pc \in {"waiting", "joining", "returned"}
      BY <1>1, <2>4 DEF BeginClose, Drained, GiveUp, Join, Step, IdleChannels
    <3> QED BY <2>1, <2>2, <3>1, <3>2 DEF IdleChannels, Finished
  <2> QED BY <1>10, <2>3, <2>4
<1>11. CASE UNCHANGED vars
  BY <1>3, <1>11 DEF vars, mutexed, channels
<1> QED BY <1>4, <1>5, <1>6, <1>7, <1>8, <1>9, <1>10, <1>11 DEF Next, Caller

\* A stop is given only by a Close that refused new items before it drained: its
\* channel stays the last one, and nothing is outstanding when it is closed.
LEMMA ClosingStep ==
    ASSUME TypeOK, Counted, IdleChannels, Closing, [Next]_vars
    PROVE  Closing'
<1>1. caller \in [Caller -> [pc : Pcs, idle : Nat, upto : Nat]]
  BY DEF TypeOK, Caller, Pcs
<1>2. ASSUME UNCHANGED <<closed, idle, outstanding, stopped, caller, dispatcher>>
      PROVE  Closing'
  BY <1>2 DEF Closing
<1>3. ASSUME NEW i \in Item, Admit(i) PROVE Closing'
  BY <1>3 DEF Closing, Admit, channels
<1>4. ASSUME NEW i \in Item, Finish(i) PROVE Closing'
  <2>1. ~stopped
    <3>1. handler[i] = "running"
      BY <1>4 DEF Finish
    <3>2. outstanding - 1 \in Nat
      BY <3>1, OneLess
    <3> QED BY <3>2 DEF Closing
  <2> QED BY <1>4, <2>1 DEF Closing, Finish
<1>5. ASSUME NEW i \in Item, Refuse(i) \/ EnqueuePoke(i) \/ FinishPoke(i) PROVE Closing'
  BY <1>2, <1>5 DEF Refuse, EnqueuePoke, FinishPoke, mutexed, channels
<1>6. CASE Dispatch
  BY <1>2, <1>6 DEF Dispatch, channels
<1>7. CASE Wake \/ ScanEnds
  BY <1>7 DEF Closing, Wake, ScanEnds, mutexed, channels
<1>8. CASE Leave
  BY <1>8 DEF Closing, Leave, mutexed, channels
<1>9. ASSUME NEW c \in Caller,
             BeginClose(c) \/ BeginDrain(c) \/ Drained(c) \/ GiveUp(c) \/ Join(c)
      PROVE  Closing'
  <2>1. /\ UNCHANGED <<idle, outstanding, dispatcher>>
        /\ \A d \in Caller : d # c => caller'[d] = caller[d]
    BY <1>1, <1>9 DEF BeginClose, BeginDrain, Drained, GiveUp, Join, Step, mutexed, channels
  <2>2. Closer \subseteq Caller
    BY DEF Caller
  <2>3. CASE BeginClose(c)
    <3>1. caller'[c].pc = "closing" /\ closed' /\ stopped' = stopped
      BY <1>1, <2>3 DEF BeginClose, Step, channels
    <3> QED BY <2>1, <2>2, <3>1 DEF Closing
  <2>4. CASE BeginDrain(c)
    <3>1. /\ caller'[c].pc = "waiting" /\ caller'[c].idle = idle
          /\ UNCHANGED <<closed, stopped>>
          /\ c \in Closer => caller[c].pc # "ready"
      BY <1>1, <2>4 DEF BeginDrain, mutexed, channels
    <3> QED BY <2>1, <2>2, <3>1 DEF Closing
  <2>5. CASE Drained(c)
    <3>1. /\ caller[c].pc = "waiting" /\ caller[c].idle \in idleClosed /\ closed' = closed
          /\ IF c \in Closer THEN Step(c, "joining") /\ stopped' = TRUE
                             ELSE Step(c, "returned") /\ UNCHANGED stopped
      BY <2>5 DEF Drained, mutexed
    <3>2. CASE c \in Closer
      <4>1. /\ caller'[c].pc = "joining" /\ caller'[c].idle = caller[c].idle
            /\ stopped' = TRUE
        BY <1>1, <3>1, <3>2 DEF Step
      <4>2. closed /\ outstanding = 0 /\ caller[c].idle = idle
        BY <3>1, <3>2 DEF Closing, IdleChannels
      <4> QED BY <2>1, <2>2, <3>1, <4>1, <4>2 DEF Closing
    <3>3. CASE c \notin Closer
      BY <2>1, <2>2, <3>1, <3>3 DEF Closing
    <3> QED BY <3>2, <3>3
  <2>6. CASE GiveUp(c)
    <3>1. c \notin Closer /\ UNCHANGED <<closed, stopped>>
      BY <2>6, WorkerAssumption DEF GiveUp, mutexed, channels
    <3> QED BY <2>1, <2>2, <3>1 DEF Closing
  <2>7. CASE Join(c)
    <3>1. /\ caller'[c].pc = "returned" /\ caller'[c].idle = caller[c].idle
          /\ caller[c].pc = "joining" /\ dispatcher = "gone" /\ UNCHANGED <<closed, stopped>>
      BY <1>1, <2>7 DEF Join, Step, mutexed, channels
    <3> QED BY <2>1, <2>2, <3>1 DEF Closing
  <2> QED BY <1>9, <2>3, <2>4, <2>5, <2>6, <2>7
<1>10. CASE UNCHANGED vars
  BY <1>2, <1>10 DEF vars, mutexed, channels
<1> QED BY <1>3, <1>4, <1>5, <1>6, <1>7, <1>8, <1>9, <1>10 DEF Next, Caller

-----------------------------------------------------------------------------
(* Wake-ups.                                                               *)

\* A scan that ends has found every queued item's key taken.
LEMMA ScanFindsFirst ==
    ASSUME TypeOK, ~\E n \in DOMAIN queue : IsNext(n)
    PROVE  ~\E n \in DOMAIN queue : Free(n)
<1> DEFINE S == {n \in DOMAIN queue : Free(n)}
<1>1. SUFFICES ASSUME S # {} PROVE FALSE
  OBVIOUS
<1>2. S \subseteq Nat
  BY Elements
<1> HIDE DEF S
<1>3. PICK x \in S : \A y \in S : x <= y
  BY <1>1, <1>2, Smallest
<1>4. x \in DOMAIN queue /\ Free(x)
  BY DEF S
<1>5. ASSUME NEW p \in 1..(x - 1) PROVE ~Free(p)
  <2>1. p \in DOMAIN queue /\ ~(x <= p)
    BY <1>4, Elements
  <2> QED BY <1>3, <2>1 DEF S
<1> QED BY <1>4, <1>5 DEF IsNext

\* Whoever makes an item startable owes a token, and the dispatcher only sleeps
\* after a scan that found nothing to start.
LEMMA WakeupStep ==
    ASSUME TypeOK, Counted, QueueOrder, Closing, NoLostWakeup, [Next]_vars
    PROVE  NoLostWakeup'
<1>1. /\ enqueue \in [Item -> {"ready", "poke", "done"}]
      /\ handler \in [Item -> {"none", "running", "poke", "done"}]
      /\ dispatcher \in {"waiting", "scanning", "gone"}
  BY DEF TypeOK
<1>2. ASSUME UNCHANGED <<queue, active, wake, dispatcher, enqueue, handler>>
      PROVE  NoLostWakeup'
  BY <1>2 DEF NoLostWakeup, Free
<1>3. ASSUME NEW i \in Item, Refuse(i) PROVE NoLostWakeup'
  <2>1. /\ UNCHANGED <<queue, active, wake, dispatcher, handler>>
        /\ \A j \in Item : enqueue[j] = "poke" => enqueue'[j] = "poke"
    BY <1>1, <1>3 DEF Refuse, mutexed, channels
  <2> QED BY <2>1 DEF NoLostWakeup, Free
<1>4. ASSUME NEW i \in Item, Admit(i) PROVE NoLostWakeup'
  <2>1. dispatcher' = dispatcher /\ enqueue'[i] = "poke" /\ dispatcher # "gone"
    BY <1>1, <1>4 DEF Admit, Closing
  <2> QED BY <1>1, <2>1 DEF NoLostWakeup
<1>5. ASSUME NEW i \in Item, EnqueuePoke(i) \/ FinishPoke(i) PROVE NoLostWakeup'
  BY <1>5 DEF NoLostWakeup, Free, EnqueuePoke, FinishPoke, mutexed
<1>6. ASSUME NEW i \in Item, Finish(i) PROVE NoLostWakeup'
  <2>1. dispatcher' = dispatcher /\ handler'[i] = "poke" /\ handler[i] = "running"
    BY <1>1, <1>6 DEF Finish
  <2>2. dispatcher # "gone"
    <3>1. outstanding - 1 \in Nat
      BY <2>1, OneLess
    <3> QED BY <3>1 DEF Closing
  <2> QED BY <1>1, <2>1, <2>2 DEF NoLostWakeup
<1>7. CASE Wake \/ Dispatch
  BY <1>7 DEF NoLostWakeup, Wake, Dispatch
<1>8. CASE Leave
  <2>1. queue = <<>>
    BY <1>8, NothingLeft DEF Leave, Closing
  <2>2. queue' = queue
    BY <1>8 DEF Leave, mutexed
  <2> QED BY <2>1, <2>2 DEF NoLostWakeup
<1>9. CASE ScanEnds
  BY <1>9, ScanFindsFirst DEF NoLostWakeup, ScanEnds, mutexed, Free
<1>10. ASSUME NEW c \in Drainer \cup Closer,
              BeginClose(c) \/ BeginDrain(c) \/ Drained(c) \/ GiveUp(c) \/ Join(c)
       PROVE  NoLostWakeup'
  BY <1>2, <1>10 DEF BeginClose, BeginDrain, Drained, GiveUp, Join, mutexed, channels
<1>11. CASE UNCHANGED vars
  BY <1>2, <1>11 DEF vars, mutexed, channels
<1> QED BY <1>3, <1>4, <1>5, <1>6, <1>7, <1>8, <1>9, <1>10, <1>11 DEF Next

-----------------------------------------------------------------------------
(* The invariant, and what it gives.                                       *)

\* A new worker: nothing was admitted, and channel 0, which was never made,
\* counts as closed.
LEMMA InitIInv == Init => IInv
<1> SUFFICES ASSUME Init PROVE IInv
  OBVIOUS
<1> USE DEF Init
<1>1. TypeOK
  <2> DEFINE new == [pc |-> "ready", idle |-> 0, upto |-> 0]
  <2>1. new \in [pc : Pcs, idle : Nat, upto : Nat]
    BY DEF Pcs
  <2>2. caller = [c \in Caller |-> new]
    BY DEF Caller
  <2> HIDE DEF new
  <2>3. caller \in [Caller -> [pc : Pcs, idle : Nat, upto : Nat]]
    BY <2>1, <2>2
  <2>4. <<>> \in Seq(Item)
    OBVIOUS
  <2>5. queue \in Seq(Item) /\ admitted \in Seq(Item)
    BY <2>4
  <2>6. /\ enqueue \in [Item -> {"ready", "poke", "done"}]
        /\ handler \in [Item -> {"none", "running", "poke", "done"}]
    OBVIOUS
  <2>7. /\ active \subseteq Key /\ outstanding \in Nat /\ idle \in Nat /\ idleClosed \subseteq Nat
        /\ dispatcher \in {"waiting", "scanning", "gone"}
    OBVIOUS
  <2>8. closed \in BOOLEAN /\ wake \in BOOLEAN /\ stopped \in BOOLEAN
    BY Zenon
  <2> HIDE DEF Init
  <2> QED BY <2>3, <2>5, <2>6, <2>7, <2>8 DEF TypeOK, Caller, Pcs
<1>2. Counted
  <2>1. Busy = {}
    BY DEF Busy
  <2> QED BY <2>1, FS_EmptySet DEF Counted
<1>3. KeysHeld
  BY DEF KeysHeld, Busy
<1>4. QueueOrder
  BY DEF QueueOrder
<1>5. IdleChannels
  BY DEF IdleChannels, Caller
<1>6. Closing
  BY DEF Closing
<1>7. SerialInOrder /\ NoLostWakeup
  BY DEF SerialInOrder, NoLostWakeup
<1> QED BY <1>1, <1>2, <1>3, <1>4, <1>5, <1>6, <1>7 DEF IInv

\* Every step of the worker keeps the invariant.
LEMMA NextIInv == IInv /\ [Next]_vars => IInv'
<1> SUFFICES ASSUME IInv, [Next]_vars PROVE IInv'
  OBVIOUS
<1>1. /\ TypeOK /\ Counted /\ KeysHeld /\ QueueOrder /\ IdleChannels /\ Closing
      /\ SerialInOrder /\ NoLostWakeup
  BY DEF IInv
<1>2. TypeOK' /\ Counted' /\ QueueOrder' /\ KeysHeld'
  BY <1>1, TypeStep, CountedStep, OrderStep, KeysStep
<1>3. IdleChannels' /\ Closing'
  BY <1>1, <1>2, ChannelsStep, ClosingStep
<1>4. SerialInOrder' /\ NoLostWakeup'
  BY <1>1, SerialStep, WakeupStep
<1> QED BY <1>2, <1>3, <1>4 DEF IInv

\* What a caller that returned may conclude from its channel.
LEMMA ReturnedMeansHandled == IInv => DrainWaits /\ CloseFinishesAll
<1> SUFFICES ASSUME IInv PROVE DrainWaits /\ CloseFinishesAll
  OBVIOUS
<1>1. TypeOK /\ Counted /\ QueueOrder /\ IdleChannels /\ Closing
  BY DEF IInv
<1>2. DrainWaits
  BY <1>1 DEF DrainWaits, IdleChannels, Caller
<1>3. ASSUME NEW c \in Closer, caller[c].pc = "returned"
      PROVE  dispatcher = "gone" /\ \A p \in DOMAIN admitted : Finished(admitted[p])
  <2>1. dispatcher = "gone" /\ outstanding = 0
    BY <1>1, <1>3 DEF Closing
  <2> QED BY <1>1, <2>1, NothingLeft
<1> QED BY <1>2, <1>3 DEF CloseFinishesAll

\* The invariant of the worker, for every set of items, keys, Drains and Closes.
THEOREM WorkerInvariant == Spec => []IInv
<1> QED BY InitIInv, NextIInv, PTL DEF Spec

\* Every variable of the worker keeps its type; the outstanding counter stays a
\* natural number.
THEOREM TypeCorrect == Spec => []TypeOK
<1>1. IInv => TypeOK
  BY DEF IInv
<1> QED BY <1>1, WorkerInvariant, PTL

\* However the scan skips items and handlers finish, the items of one key are
\* handled one at a time in the order Enqueue admitted them.
THEOREM SerialCorrect == Spec => []SerialInOrder
<1>1. IInv => SerialInOrder
  BY DEF IInv
<1> QED BY <1>1, WorkerInvariant, PTL

\* Tokens sent outside the mutex, into a channel that drops all but one, never
\* leave the dispatcher asleep on an item it could start.
THEOREM WakeupsKept == Spec => []NoLostWakeup
<1>1. IInv => NoLostWakeup
  BY DEF IInv
<1> QED BY <1>1, WorkerInvariant, PTL

\* A Drain that returns nil saw everything admitted before it handled, whatever
\* channels were made and closed meanwhile.
THEOREM DrainCorrect == Spec => []DrainWaits
<1>1. IInv => DrainWaits
  BY ReturnedMeansHandled
<1> QED BY <1>1, WorkerInvariant, PTL

\* A Close that returns leaves no dispatcher and no admitted item behind, with
\* any number of other Closes and Drains under way.
THEOREM CloseCorrect == Spec => []CloseFinishesAll
<1>1. IInv => CloseFinishesAll
  BY ReturnedMeansHandled
<1> QED BY <1>1, WorkerInvariant, PTL

=============================================================================
