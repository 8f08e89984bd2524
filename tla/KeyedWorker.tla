----------------------------- MODULE KeyedWorker -----------------------------
(***************************************************************************)
(* internal/worker: a dispatcher goroutine hands queued items to handler   *)
(* goroutines, one at a time per key and in the order they were admitted.  *)
(* Enqueue and a finished handler wake the dispatcher through a channel of *)
(* capacity one, after they gave up the mutex.  The idle channel is made   *)
(* when the first item arrives and closed when the last one is finished;   *)
(* Drain waits for the channel it found, Close also stops the dispatcher.  *)
(***************************************************************************)
EXTENDS Naturals, Sequences, SequencesExt

CONSTANTS
    Item,       \* the items, each enqueued by a goroutine of its own
    Key,
    KeyOf,      \* the key of an item
    Drainer,    \* goroutines that call Drain
    Closer      \* goroutines that call Close

ASSUME WorkerAssumption ==
    /\ KeyOf \in [Item -> Key]
    /\ Drainer \cap Closer = {}

VARIABLES
    (* under the mutex *)
    queue,      \* admitted items that were not dispatched yet
    active,     \* keys with a handler
    outstanding,
    idle,       \* the idle channel; each one made has the next number
    closed,
    (* channels *)
    idleClosed, \* the idle channels that are closed
    wake,       \* is a token in the wake channel
    stopped,
    (* goroutines *)
    dispatcher, \* "waiting" for a token, "scanning" the queue, or "gone"
    enqueue,    \* enqueue[i]: "ready", "poke" while it owes a token, "done"
    handler,    \* handler[i]: "none", "running", "poke", "done"
    caller,     \* caller[c]: its step, its channel, what was admitted before it
    admitted    \* history: the items in the order they were admitted

mutexed  == <<queue, active, outstanding, idle, closed>>
channels == <<idleClosed, wake, stopped>>
vars     == <<mutexed, channels, dispatcher, enqueue, handler, caller, admitted>>

Init ==
    /\ queue = <<>> /\ active = {} /\ outstanding = 0 /\ idle = 0 /\ closed = FALSE
    /\ idleClosed = {0} /\ wake = FALSE /\ stopped = FALSE
    /\ dispatcher = "waiting"
    /\ enqueue = [i \in Item |-> "ready"]
    /\ handler = [i \in Item |-> "none"]
    /\ caller = [c \in Drainer \cup Closer |-> [pc |-> "ready", idle |-> 0, upto |-> 0]]
    /\ admitted = <<>>

-----------------------------------------------------------------------------
(* Enqueue, in two steps: under the mutex, then the token.                 *)

Refuse(i) ==
    /\ enqueue[i] = "ready" /\ closed
    /\ enqueue' = [enqueue EXCEPT ![i] = "done"]
    /\ UNCHANGED <<mutexed, channels, dispatcher, handler, caller, admitted>>

\* Mutations of Admit: busy periods are counted, not items; the idle channel of
\* the last busy period is kept.
AdmitCountedOnce(i) ==
    /\ enqueue[i] = "ready" /\ ~closed
    /\ enqueue' = [enqueue EXCEPT ![i] = "poke"]
    /\ queue' = Append(queue, i)
    /\ outstanding' = 1
    /\ idle' = IF outstanding = 0 THEN idle + 1 ELSE idle
    /\ admitted' = Append(admitted, i)
    /\ UNCHANGED <<active, closed, channels, dispatcher, handler, caller>>

AdmitKeepingIdle(i) ==
    /\ enqueue[i] = "ready" /\ ~closed
    /\ enqueue' = [enqueue EXCEPT ![i] = "poke"]
    /\ queue' = Append(queue, i)
    /\ outstanding' = outstanding + 1
    /\ admitted' = Append(admitted, i)
    /\ UNCHANGED <<active, idle, closed, channels, dispatcher, handler, caller>>

Admit(i) ==
    /\ enqueue[i] = "ready" /\ ~closed
    /\ enqueue' = [enqueue EXCEPT ![i] = "poke"]
    /\ queue' = Append(queue, i)
    /\ outstanding' = outstanding + 1
    /\ idle' = IF outstanding = 0 THEN idle + 1 ELSE idle
    /\ admitted' = Append(admitted, i)
    /\ UNCHANGED <<active, closed, channels, dispatcher, handler, caller>>

EnqueuePoke(i) ==
    /\ enqueue[i] = "poke"
    /\ enqueue' = [enqueue EXCEPT ![i] = "done"]
    /\ wake' = TRUE
    /\ UNCHANGED <<mutexed, idleClosed, stopped, dispatcher, handler, caller, admitted>>

-----------------------------------------------------------------------------
(* run: a select between stop and wake, then a scan under the mutex.       *)

Wake ==
    /\ dispatcher = "waiting" /\ wake
    /\ wake' = FALSE
    /\ dispatcher' = "scanning"
    /\ UNCHANGED <<mutexed, idleClosed, stopped, enqueue, handler, caller, admitted>>

Leave ==
    /\ dispatcher = "waiting" /\ stopped
    /\ dispatcher' = "gone"
    /\ UNCHANGED <<mutexed, channels, enqueue, handler, caller, admitted>>

Free(n) == KeyOf[queue[n]] \notin active

\* Mutation of IsNext: the last such item.
IsNextFromTheBack(n) == Free(n) /\ \A p \in (n + 1)..Len(queue) : ~Free(p)

\* The first item whose key has no handler.
IsNext(n) == Free(n) /\ \A p \in 1..(n - 1) : ~Free(p)

Dispatch ==
    /\ dispatcher = "scanning"
    /\ \E n \in DOMAIN queue :
          /\ IsNext(n)
          /\ queue' = RemoveAt(queue, n)
          /\ active' = active \cup {KeyOf[queue[n]]}
          /\ handler' = [handler EXCEPT ![queue[n]] = "running"]
    /\ UNCHANGED <<outstanding, idle, closed, channels, dispatcher, enqueue, caller, admitted>>

ScanEnds ==
    /\ dispatcher = "scanning"
    /\ ~\E n \in DOMAIN queue : IsNext(n)
    /\ dispatcher' = "waiting"
    /\ UNCHANGED <<mutexed, channels, enqueue, handler, caller, admitted>>

-----------------------------------------------------------------------------
(* handleOne, once handle returned: under the mutex, then the token.       *)

Finish(i) ==
    /\ handler[i] = "running"
    /\ handler' = [handler EXCEPT ![i] = "poke"]
    /\ active' = active \ {KeyOf[i]}
    /\ outstanding' = outstanding - 1
    /\ idleClosed' = IF outstanding = 1 THEN idleClosed \cup {idle} ELSE idleClosed
    /\ UNCHANGED <<queue, idle, closed, wake, stopped, dispatcher, enqueue, caller, admitted>>

\* Mutation of FinishPoke: the handler does not wake the dispatcher.
FinishSilently(i) ==
    /\ handler[i] = "poke"
    /\ handler' = [handler EXCEPT ![i] = "done"]
    /\ UNCHANGED <<mutexed, channels, dispatcher, enqueue, caller, admitted>>

FinishPoke(i) ==
    /\ handler[i] = "poke"
    /\ handler' = [handler EXCEPT ![i] = "done"]
    /\ wake' = TRUE
    /\ UNCHANGED <<mutexed, idleClosed, stopped, dispatcher, enqueue, caller, admitted>>

-----------------------------------------------------------------------------
(* Drain, and Close around it.                                             *)

Step(c, pc) == caller' = [caller EXCEPT ![c].pc = pc]

BeginClose(c) ==
    /\ c \in Closer /\ caller[c].pc = "ready"
    /\ closed' = TRUE
    /\ Step(c, "closing")
    /\ UNCHANGED <<queue, active, outstanding, idle, channels, dispatcher, enqueue,
                   handler, admitted>>

BeginDrain(c) ==
    /\ caller[c].pc = IF c \in Closer THEN "closing" ELSE "ready"
    /\ caller' = [caller EXCEPT ![c] =
                    [pc |-> "waiting", idle |-> idle, upto |-> Len(admitted)]]
    /\ UNCHANGED <<mutexed, channels, dispatcher, enqueue, handler, admitted>>

Drained(c) ==
    /\ caller[c].pc = "waiting" /\ caller[c].idle \in idleClosed
    /\ IF c \in Closer THEN Step(c, "joining") /\ stopped' = TRUE
                       ELSE Step(c, "returned") /\ UNCHANGED stopped
    /\ UNCHANGED <<mutexed, idleClosed, wake, dispatcher, enqueue, handler, admitted>>

\* The context of a Drain ends first.
GiveUp(c) ==
    /\ c \in Drainer /\ caller[c].pc = "waiting"
    /\ Step(c, "gave up")
    /\ UNCHANGED <<mutexed, channels, dispatcher, enqueue, handler, admitted>>

Join(c) ==
    /\ caller[c].pc = "joining" /\ dispatcher = "gone"
    /\ Step(c, "returned")
    /\ UNCHANGED <<mutexed, channels, dispatcher, enqueue, handler, admitted>>

-----------------------------------------------------------------------------

Next ==
    \/ \E i \in Item :
          Refuse(i) \/ Admit(i) \/ EnqueuePoke(i) \/ Finish(i) \/ FinishPoke(i)
    \/ Wake \/ Leave \/ Dispatch \/ ScanEnds
    \/ \E c \in Drainer \cup Closer :
          BeginClose(c) \/ BeginDrain(c) \/ Drained(c) \/ GiveUp(c) \/ Join(c)

Spec == Init /\ [][Next]_vars

\* Goroutines under way keep going and handlers return; nobody has to call.
Fairness ==
    /\ WF_vars(Wake) /\ WF_vars(Leave) /\ WF_vars(Dispatch) /\ WF_vars(ScanEnds)
    /\ \A i \in Item :
          WF_vars(EnqueuePoke(i)) /\ WF_vars(Finish(i)) /\ WF_vars(FinishPoke(i))
    /\ \A c \in Closer :
          WF_vars(BeginDrain(c)) /\ WF_vars(Drained(c)) /\ WF_vars(Join(c))

FairSpec == Spec /\ Fairness

-----------------------------------------------------------------------------
(* Properties.                                                             *)

Finished(i) == handler[i] \in {"poke", "done"}

TypeOK ==
    /\ queue \in Seq(Item) /\ active \subseteq Key
    /\ outstanding \in Nat /\ idle \in Nat /\ closed \in BOOLEAN
    /\ idleClosed \subseteq Nat /\ wake \in BOOLEAN /\ stopped \in BOOLEAN
    /\ dispatcher \in {"waiting", "scanning", "gone"}
    /\ enqueue \in [Item -> {"ready", "poke", "done"}]
    /\ handler \in [Item -> {"none", "running", "poke", "done"}]
    /\ caller \in [Drainer \cup Closer ->
          [pc : {"ready", "closing", "waiting", "joining", "returned", "gave up"},
           idle : Nat, upto : Nat]]
    /\ admitted \in Seq(Item)

\* Work of one key is handled one item at a time, in the order of admission,
\* although the scan skips items and several handlers finish in any order.
SerialInOrder ==
    \A p, q \in DOMAIN admitted :
        /\ p < q
        /\ KeyOf[admitted[p]] = KeyOf[admitted[q]]
        /\ handler[admitted[q]] # "none"
        => Finished(admitted[p])

\* The tokens are sent outside the mutex and a full channel drops them, yet
\* the dispatcher never sleeps on an item it could start.
NoLostWakeup ==
    (\E n \in DOMAIN queue : Free(n)) /\ dispatcher # "scanning" =>
        /\ dispatcher = "waiting"
        /\ wake \/ \E i \in Item : enqueue[i] = "poke" \/ handler[i] = "poke"

\* Drain returns nil only once everything admitted before it is handled, though
\* the idle channel it waits for may long be replaced.
DrainWaits ==
    \A c \in Drainer \cup Closer :
        caller[c].pc \in {"joining", "returned"} =>
            \A p \in 1..caller[c].upto : Finished(admitted[p])

\* When Close returns the dispatcher is gone and no admitted item is left.
CloseFinishesAll ==
    \A c \in Closer :
        caller[c].pc = "returned" =>
            dispatcher = "gone" /\ \A p \in DOMAIN admitted : Finished(admitted[p])

\* Whatever is admitted is handled, and Close returns.
AdmittedAreHandled == \A i \in Item : enqueue[i] = "poke" ~> Finished(i)

CloseReturns == \A c \in Closer : caller[c].pc = "closing" ~> caller[c].pc = "returned"

=============================================================================
