--------------------------- MODULE FollowUpQueue ---------------------------
(***************************************************************************)
(* The follow-up queue: prompts a user defers until the running turn of a  *)
(* session is over.  internal/queuesvc decides when a held prompt is sent, *)
(* internal/state/queued_message.go keeps the rows in SQLite.              *)
(*                                                                         *)
(* Four kinds of goroutine drain a session: the request that enqueued its  *)
(* first message, the idle-edge worker (Flush), the once-a-minute Sweep,   *)
(* and the setup worker of a draft session (TryFlush).  Each holds the     *)
(* session's lock from its first read to its receipt; Remove, Move and the *)
(* archive handler take no lock.  The rows survive a crash, the locks,     *)
(* guards and pending idle edges do not.                                   *)
(***************************************************************************)
EXTENDS Integers, FiniteSets

CONSTANTS
    Session,        \* (platform, session id) pairs: a session's full identity
    Message,        \* queued_message ids, each submitted at most once
    Owner,          \* the session a message is addressed to
    None,           \* no message
    Drafts,         \* sessions whose durable setup is pending at the start
    AttemptLimit,   \* QueuedMessageAttemptLimit
    MaxFaults,      \* bound: failed or lagging reads, lost replies, failed writes, crashes
    MaxDirect,      \* bound: prompts sent past the queue
    PromptLag,      \* TRUE: an accepted prompt may reach the transcript late
    SilentTurns     \* TRUE: a turn may end without an assistant message

Kind == {"enqueue", "flush", "sweep", "setup"}

Unread == -1        \* no lifecycle read made yet

ASSUME QueueAssumption ==
    /\ Owner \in [Message -> Session]
    /\ None \notin Message
    /\ Drafts \subseteq Session
    /\ AttemptLimit \in Nat \ {0}
    /\ MaxFaults \in Nat /\ MaxDirect \in Nat
    /\ PromptLag \in BOOLEAN /\ SilentTurns \in BOOLEAN

VARIABLES
    (* state.db *)
    queued,     \* ids with a queued_message row
    pos,        \* position column
    attempts,   \* attempts column
    blocked,    \* ids whose blocked column is 1
    archived,   \* sessions with an archived_session row
    settingUp,  \* drafts whose phase is not yet "ready"
    (* process memory *)
    lock,       \* lock[s]: the kind of drain that holds it, or "free"
    call,       \* call[s][k]: where the drain of kind k of session s stands
    guard,      \* drainGuards; generation 0 is an absent entry
    nextGen,    \* nextGeneration
    armed,      \* the generation Sweep read before it asked for the lock
    todo,       \* sessions of Sweep's listing it has not reached yet
    edges,      \* idle edges waiting in the flush worker
    (* the agent platform *)
    turn,       \* is a turn running
    last,       \* the transcript's latest message: its age and its role
    unseen,     \* accepted prompts the transcript does not show yet
    (* history and bounds *)
    fresh,      \* ids no client has submitted yet
    dropped,    \* ids a client removed
    delivered,  \* how often the platform accepted a message
    doubts,     \* acceptances of a message of which no receipt was written
    owes,       \* a recorded follow-up with a current baseline owes a turn end
    turnSends,  \* follow-ups accepted since the running turn began
    faults, direct

durable  == <<queued, pos, attempts, blocked, archived, settingUp>>
process  == <<lock, call, guard, nextGen, armed, todo, edges>>
platform == <<turn, last, unseen>>
rows     == <<queued, pos, attempts, blocked>>
history  == <<fresh, dropped, delivered, doubts, owes, turnSends>>
vars     == <<durable, process, platform, history, faults, direct>>

NoGuard == [gen |-> 0, seen |-> 0]
At(pc, head, seen) == [pc |-> pc, head |-> head, seen |-> seen]
Out     == At("out", None, Unread)

Init ==
    /\ queued = {} /\ blocked = {} /\ archived = {}
    /\ pos = [m \in Message |-> 0] /\ attempts = [m \in Message |-> 0]
    /\ settingUp = Drafts
    /\ lock = [s \in Session |-> "free"]
    /\ call = [s \in Session |-> [k \in Kind |-> Out]]
    /\ guard = [s \in Session |-> NoGuard]
    /\ nextGen = 0
    /\ armed = [s \in Session |-> 0]
    /\ todo = {}
    /\ edges = [s \in Session |-> 0]
    /\ turn = [s \in Session |-> FALSE]
    /\ last = [s \in Session |-> [age |-> 0, role |-> "user"]]
    /\ unseen = [s \in Session |-> 0]
    /\ fresh = Message /\ dropped = {}
    /\ delivered = [m \in Message |-> 0] /\ doubts = [m \in Message |-> 0]
    /\ owes = [s \in Session |-> FALSE]
    /\ turnSends = [s \in Session |-> 0]
    /\ faults = 0 /\ direct = 0

-----------------------------------------------------------------------------
(* Queries over the rows.                                                  *)

Rows(s) == {m \in queued : Owner[m] = s}

Drainable(s) == Rows(s) \ blocked

\* Mutation of IsHead: the query forgets "blocked = 0".
IsHeadOfAllRows(s, m) ==
    /\ m \in Rows(s)
    /\ \A n \in Rows(s) : pos[m] <= pos[n]

\* HeadQueuedMessage: the lowest position among the rows that are not blocked.
IsHead(s, m) ==
    /\ m \in Drainable(s)
    /\ \A n \in Drainable(s) : pos[m] <= pos[n]

\* COALESCE(MAX(position), 0) + 1: above every row, one above some row if any.
IsTail(s, p) ==
    /\ p \in Nat
    /\ \A m \in Rows(s) : pos[m] < p
    /\ IF Rows(s) = {} THEN p = 1 ELSE \E m \in Rows(s) : p = pos[m] + 1

-----------------------------------------------------------------------------
(* What a lifecycle read can answer.  "running" is settled from the live   *)
(* turn state when that was observed and inferred from the latest message  *)
(* otherwise, so until an assistant message answers the prompt a running   *)
(* turn may read as idle.  The unreliable answers draw on MaxFaults.       *)

Answer(s, r) ==
    [ok |-> TRUE, age |-> last[s].age, running |-> r,
     completed |-> ~r /\ (last[s].role # "user" \/ last[s].age = 0)]

TrueReads(s) ==
    {Answer(s, r) : r \in IF ~turn[s] THEN {FALSE}
                          ELSE IF last[s].role = "answering" THEN {TRUE} ELSE BOOLEAN}

BadReads(s) ==
    {Answer(s, TRUE), [ok |-> FALSE, age |-> 0, running |-> FALSE, completed |-> FALSE]}

Fault == faults < MaxFaults /\ faults' = faults + 1

\* LatestMessageState, made by a drain of session s.
Read(s, r) ==
    \/ r \in TrueReads(s) /\ UNCHANGED faults
    \/ r \in BadReads(s) \ TrueReads(s) /\ Fault

\* The platform starts or joins a turn with a prompt.
Prompt(s) ==
    /\ turn' = [turn EXCEPT ![s] = TRUE]
    /\ \/ /\ last' = [last EXCEPT ![s] = [age |-> @.age + 1, role |-> "user"]]
          /\ UNCHANGED unseen
       \/ /\ PromptLag
          /\ unseen' = [unseen EXCEPT ![s] = @ + 1]
          /\ UNCHANGED last

-----------------------------------------------------------------------------
(* Taking and leaving the session lock.                                    *)

Goto(s, k, c) == call' = [call EXCEPT ![s][k] = c]

\* Mutation of Acquire: the drain does not wait for the lock.
AcquireAnyway(s, k, seen) ==
    /\ lock' = [lock EXCEPT ![s] = k]
    /\ Goto(s, k, At("locked", None, seen))

Acquire(s, k, seen) ==
    /\ lock[s] = "free"
    /\ lock' = [lock EXCEPT ![s] = k]
    /\ Goto(s, k, At("locked", None, seen))

Release(s, k) ==
    /\ lock' = [lock EXCEPT ![s] = "free"]
    /\ Goto(s, k, Out)

\* The next step of a drain that keeps the lock.
Advance(s, k, pc) ==
    /\ Goto(s, k, At(pc, call[s][k].head, call[s][k].seen))
    /\ UNCHANGED lock

-----------------------------------------------------------------------------
(* Enqueue appends a row.  Only the first row of an unguarded session may  *)
(* be drained on the spot, and only when the caller did not force a hold.  *)

Insert(m) ==
    /\ m \in fresh
    /\ fresh' = fresh \ {m}
    /\ queued' = queued \cup {m}
    /\ \E p \in 1..(Cardinality(Message) + 1) :
          IsTail(Owner[m], p) /\ pos' = [pos EXCEPT ![m] = p]

EnqueueHeld(m) ==
    /\ lock[Owner[m]] = "free"
    /\ Insert(m)
    /\ UNCHANGED <<attempts, blocked, archived, settingUp, process, platform,
                   dropped, delivered, doubts, owes, turnSends, faults, direct>>

EnqueueAndDrain(m) ==
    LET s == Owner[m] IN
    /\ Rows(s) = {}
    /\ guard[s] = NoGuard
    /\ Insert(m)
    /\ Acquire(s, "enqueue", Unread)
    /\ UNCHANGED <<attempts, blocked, archived, settingUp, guard, nextGen, armed, todo,
                   edges, platform, dropped, delivered, doubts, owes, turnSends, faults, direct>>

-----------------------------------------------------------------------------
(* Flush runs in the worker that keeps one item per session active: an     *)
(* authoritative idle edge forgets the guard and drains without a gate.    *)

Flush(s) ==
    /\ edges[s] > 0
    /\ edges' = [edges EXCEPT ![s] = @ - 1]
    /\ guard' = [guard EXCEPT ![s] = NoGuard]
    /\ owes' = [owes EXCEPT ![s] = FALSE]
    /\ Acquire(s, "flush", Unread)
    /\ UNCHANGED <<durable, nextGen, armed, todo, platform,
                   fresh, dropped, delivered, doubts, turnSends, faults, direct>>

\* The edge of a turn a dead provider ended: the worker continues the session on
\* another model, or gives up as all are cooled down.  Held messages wait.
ContinueSession(s) ==
    /\ edges[s] > 0 /\ call[s]["flush"] = Out
    /\ direct < MaxDirect
    /\ direct' = direct + 1
    /\ edges' = [edges EXCEPT ![s] = @ - 1]
    /\ Prompt(s) \/ UNCHANGED platform
    /\ UNCHANGED <<durable, lock, call, guard, nextGen, armed, todo, history, faults>>

\* TryFlush, called once the first prompt of a draft was delivered.
TryFlush(s) ==
    /\ call[s]["setup"].pc = "due"
    /\ lock[s] = "free"
    /\ IF guard[s] = NoGuard THEN Acquire(s, "setup", Unread)
                             ELSE Release(s, "setup")
    /\ UNCHANGED <<durable, guard, nextGen, armed, todo, edges, platform,
                   history, faults, direct>>

-----------------------------------------------------------------------------
(* Sweep lists the sessions once, then visits them one after the other:    *)
(* it reads the guard, waits for the lock, and goes on only if the guard   *)
(* is still that one.  A guarded session is drained when a completed       *)
(* assistant message newer than the guard's baseline is read.              *)

Sweeping == todo # {} \/ \E s \in Session : call[s]["sweep"] # Out

SweepList ==
    /\ ~Sweeping
    /\ todo' = {s \in Session \ archived : Drainable(s) # {}}
    /\ todo' # {}
    /\ UNCHANGED <<durable, lock, call, guard, nextGen, armed, edges, platform,
                   history, faults, direct>>

SweepArm(s) ==
    /\ s \in todo
    /\ \A t \in Session : call[t]["sweep"] = Out
    /\ todo' = todo \ {s}
    /\ armed' = [armed EXCEPT ![s] = guard[s].gen]
    /\ Goto(s, "sweep", At("armed", None, Unread))
    /\ UNCHANGED <<durable, lock, guard, nextGen, edges, platform, history, faults, direct>>

\* Mutations of TurnEnded: the baseline is not compared; a guarded session is
\* left to its idle edge.
TurnEndedAnyAge(s, r) == r.ok /\ r.completed

TurnEndedUnknown(s, r) == r.ok /\ r.completed /\ r.age < 0

TurnEnded(s, r) == r.ok /\ r.completed /\ r.age > guard[s].seen

SweepSkip(s) ==
    /\ Release(s, "sweep")
    /\ UNCHANGED guard

\* Nothing but the lock holder writes guards, so the second comparison of the
\* generation always agrees with the first and is not a step of its own.
SweepLock(s) ==
    /\ call[s]["sweep"].pc = "armed"
    /\ lock[s] = "free"
    /\ armed' = [armed EXCEPT ![s] = 0]
    /\ \/ guard[s].gen # armed[s] /\ SweepSkip(s) /\ UNCHANGED faults
       \/ /\ guard[s].gen = 0 /\ armed[s] = 0
          /\ Acquire(s, "sweep", Unread)
          /\ UNCHANGED <<guard, faults>>
       \/ /\ guard[s].gen = armed[s] /\ armed[s] # 0
          /\ \E r \in TrueReads(s) \cup BadReads(s) :
                /\ Read(s, r)
                /\ IF TurnEnded(s, r)
                   THEN /\ guard' = [guard EXCEPT ![s] = NoGuard]
                        /\ Acquire(s, "sweep", r.age)
                   ELSE SweepSkip(s)
    /\ UNCHANGED <<durable, nextGen, todo, edges, platform, history, direct>>

\* DELETE FROM queued_message: with the row go its columns.
Delete(m) ==
    /\ queued' = queued \ {m}
    /\ blocked' = blocked \ {m}
    /\ pos' = [pos EXCEPT ![m] = 0]
    /\ attempts' = [attempts EXCEPT ![m] = 0]

-----------------------------------------------------------------------------
(* drainHead, under the lock: gate, head, status, send, receipt.           *)

\* The setup gate holds the queue, there is nothing to drain, or reading the
\* head failed.
DrainNothing(s, k) ==
    /\ call[s][k].pc = "locked"
    /\ \/ (s \in settingUp \/ Drainable(s) = {}) /\ UNCHANGED faults
       \/ s \notin settingUp /\ Fault
    /\ Release(s, k)
    /\ UNCHANGED <<durable, guard, nextGen, armed, todo, edges, platform,
                   history, direct>>

\* Reads the head, and the lifecycle unless Sweep passes on its own read.  One
\* step for both: what a client does to the rows between the two reads commutes
\* with what the platform does there.
DrainRead(s, k) ==
    /\ call[s][k].pc = "locked"
    /\ s \notin settingUp
    /\ \E m \in Message :
          /\ IsHead(s, m)
          /\ \/ /\ call[s][k].seen # Unread
                /\ Goto(s, k, At("send", m, call[s][k].seen))
                /\ UNCHANGED <<lock, faults>>
             \/ /\ call[s][k].seen = Unread
                /\ \E r \in TrueReads(s) \cup BadReads(s) :
                      /\ Read(s, r)
                      /\ IF k # "flush" /\ (~r.ok \/ r.running)
                         THEN Release(s, k)
                         ELSE Goto(s, k, At("send", m, r.age)) /\ UNCHANGED lock
    /\ UNCHANGED <<durable, guard, nextGen, armed, todo, edges, platform, history, direct>>

\* PrepareSend was cancelled, or the platform's own queue must drain first
\* (ErrDeferred): either draws on MaxFaults, so that it does not last forever.
SendDeferred(s, k) ==
    /\ call[s][k].pc = "send"
    /\ Fault
    /\ Release(s, k)
    /\ UNCHANGED <<durable, guard, nextGen, armed, todo, edges, platform, history, direct>>

SendRefused(s, k) ==
    /\ call[s][k].pc = "send"
    /\ Advance(s, k, "failed")
    /\ UNCHANGED <<durable, guard, nextGen, armed, todo, edges, platform,
                   history, faults, direct>>

\* Mutation of SendAccepted: the lock is given back before the receipt.
SendAcceptedUnlocking(s, k) ==
    /\ call[s][k].pc = "send"
    /\ Goto(s, k, At("receipt", call[s][k].head, call[s][k].seen))
    /\ lock' = [lock EXCEPT ![s] = "free"]
    /\ Prompt(s)
    /\ delivered' = [delivered EXCEPT ![call[s][k].head] = @ + 1]
    /\ owes' = [owes EXCEPT ![s] = call[s][k].seen = last[s].age]
    /\ turnSends' = [turnSends EXCEPT ![s] = @ + 1]
    /\ UNCHANGED <<durable, guard, nextGen, armed, todo, edges,
                   fresh, dropped, doubts, faults, direct>>

SendAccepted(s, k) ==
    /\ call[s][k].pc = "send"
    /\ Advance(s, k, "receipt")
    /\ Prompt(s)
    /\ delivered' = [delivered EXCEPT ![call[s][k].head] = @ + 1]
    /\ owes' = [owes EXCEPT ![s] = call[s][k].seen = last[s].age]
    /\ turnSends' = [turnSends EXCEPT ![s] = @ + 1]
    /\ UNCHANGED <<durable, guard, nextGen, armed, todo, edges,
                   fresh, dropped, doubts, faults, direct>>

\* The platform took the prompt but its reply was lost: an error like any other.
SendReplyLost(s, k) ==
    /\ call[s][k].pc = "send"
    /\ Fault
    /\ Advance(s, k, "failed")
    /\ Prompt(s)
    /\ delivered' = [delivered EXCEPT ![call[s][k].head] = @ + 1]
    /\ doubts' = [doubts EXCEPT ![call[s][k].head] = @ + 1]
    /\ turnSends' = [turnSends EXCEPT ![s] = @ + 1]
    /\ UNCHANGED <<durable, guard, nextGen, armed, todo, edges,
                   fresh, dropped, owes, direct>>

\* Mutations of RecordFailure: a row removed meanwhile is set aside, for its
\* missing count reads as the limit; a message that reached its limit is given up.
RecordFailureBlindly(s, k) ==
    LET m == call[s][k].head IN
    /\ call[s][k].pc = "failed"
    /\ attempts' = [attempts EXCEPT ![m] = @ + 1]
    /\ blocked' = IF m \in queued /\ attempts[m] + 1 < AttemptLimit THEN blocked ELSE blocked \cup {m}
    /\ Release(s, k)
    /\ UNCHANGED <<queued, pos, archived, settingUp, guard, nextGen, armed, todo, edges,
                   platform, history, faults, direct>>

RecordFailureOrGiveUp(s, k) ==
    LET m == call[s][k].head IN
    /\ call[s][k].pc = "failed"
    /\ IF attempts[m] + 1 >= AttemptLimit
       THEN Delete(m)
       ELSE attempts' = [attempts EXCEPT ![m] = @ + 1] /\ UNCHANGED <<queued, pos, blocked>>
    /\ Release(s, k)
    /\ UNCHANGED <<archived, settingUp, guard, nextGen, armed, todo, edges,
                   platform, history, faults, direct>>

\* RecordQueuedMessageFailure; a row removed meanwhile is left alone.
RecordFailure(s, k) ==
    LET m == call[s][k].head IN
    /\ call[s][k].pc = "failed"
    /\ IF m \in queued
       THEN /\ attempts' = [attempts EXCEPT ![m] = @ + 1]
            /\ blocked' = IF attempts[m] + 1 >= AttemptLimit
                          THEN blocked \cup {m} ELSE blocked \ {m}
       ELSE UNCHANGED <<attempts, blocked>>
    /\ Release(s, k)
    /\ UNCHANGED <<queued, pos, archived, settingUp, guard, nextGen, armed, todo, edges,
                   platform, history, faults, direct>>

FailureUnrecorded(s, k) ==
    /\ call[s][k].pc = "failed"
    /\ Fault
    /\ Release(s, k)
    /\ UNCHANGED <<durable, guard, nextGen, armed, todo, edges, platform, history, direct>>

\* DeleteQueuedMessage, then markDrained.
Receipt(s, k) ==
    /\ call[s][k].pc = "receipt"
    /\ Delete(call[s][k].head)
    /\ guard' = [guard EXCEPT ![s] = [gen |-> nextGen + 1, seen |-> call[s][k].seen]]
    /\ nextGen' = nextGen + 1
    /\ Release(s, k)
    /\ UNCHANGED <<archived, settingUp, armed, todo, edges, platform,
                   history, faults, direct>>

\* The row stays and the guard is not taken.
ReceiptFailed(s, k) ==
    /\ call[s][k].pc = "receipt"
    /\ Fault
    /\ doubts' = [doubts EXCEPT ![call[s][k].head] = @ + 1]
    /\ owes' = [owes EXCEPT ![s] = FALSE]
    /\ Release(s, k)
    /\ UNCHANGED <<durable, guard, nextGen, armed, todo, edges, platform,
                   fresh, dropped, delivered, turnSends, direct>>

Drain(s, k) ==
    \/ DrainNothing(s, k) \/ DrainRead(s, k)
    \/ SendDeferred(s, k) \/ SendRefused(s, k) \/ SendAccepted(s, k) \/ SendReplyLost(s, k)
    \/ RecordFailure(s, k) \/ FailureUnrecorded(s, k)
    \/ Receipt(s, k) \/ ReceiptFailed(s, k)

-----------------------------------------------------------------------------
(* Clients, which take no lock.                                            *)

Remove(m) ==
    /\ m \in queued
    /\ Delete(m)
    /\ dropped' = dropped \cup {m}
    /\ UNCHANGED <<archived, settingUp, process, platform,
                   fresh, delivered, doubts, owes, turnSends, faults, direct>>

\* Mutation of Move: the neighbour's row is not written.
MoveOneRow(m, n) ==
    /\ m \in queued /\ n \in Rows(Owner[m])
    /\ pos[m] < pos[n]
    /\ ~\E o \in Rows(Owner[m]) : pos[m] < pos[o] /\ pos[o] < pos[n]
    /\ pos' = [pos EXCEPT ![m] = pos[n]]
    /\ UNCHANGED <<queued, attempts, blocked, archived, settingUp, process, platform,
                   history, faults, direct>>

\* MoveQueuedMessage swaps two neighbours of one session in a transaction.
Move(m, n) ==
    /\ m \in queued /\ n \in Rows(Owner[m])
    /\ pos[m] < pos[n]
    /\ ~\E o \in Rows(Owner[m]) : pos[m] < pos[o] /\ pos[o] < pos[n]
    /\ pos' = [pos EXCEPT ![m] = pos[n], ![n] = pos[m]]
    /\ UNCHANGED <<queued, attempts, blocked, archived, settingUp, process, platform,
                   history, faults, direct>>

SetArchived(s) ==
    /\ archived' = IF s \in archived THEN archived \ {s} ELSE archived \cup {s}
    /\ UNCHANGED <<rows, settingUp, process, platform, history, faults, direct>>

\* The draft worker delivers the first prompt.  A retry after a restart does it
\* again, when no record of the first delivery was found.
DeliverFirst(s) ==
    /\ s \in settingUp
    /\ call[s]["setup"] = Out
    /\ Prompt(s)
    /\ Goto(s, "setup", At("delivered", None, Unread))
    /\ UNCHANGED <<durable, lock, guard, nextGen, armed, todo, edges,
                   history, faults, direct>>

\* Phase "ready" is written, then TryFlush is due.
FinishSetup(s) ==
    /\ call[s]["setup"].pc = "delivered"
    /\ settingUp' = settingUp \ {s}
    /\ Goto(s, "setup", At("due", None, Unread))
    /\ UNCHANGED <<rows, archived, lock, guard, nextGen, armed, todo, edges, platform,
                   history, faults, direct>>

-----------------------------------------------------------------------------
(* The platform, and the user's prompts that bypass the queue.             *)

DirectSend(s) ==
    /\ s \notin settingUp
    /\ direct < MaxDirect
    /\ direct' = direct + 1
    /\ Prompt(s)
    /\ UNCHANGED <<durable, process, history, faults>>

ShowPrompt(s) ==
    /\ unseen[s] > 0
    /\ unseen' = [unseen EXCEPT ![s] = @ - 1]
    /\ last' = [last EXCEPT ![s] = [age |-> @.age + 1, role |-> "user"]]
    /\ UNCHANGED <<durable, process, turn, history, faults, direct>>

StartAnswer(s) ==
    /\ turn[s] /\ unseen[s] = 0 /\ last[s].role = "user"
    /\ last' = [last EXCEPT ![s] = [age |-> @.age + 1, role |-> "answering"]]
    /\ UNCHANGED <<durable, process, turn, unseen, history, faults, direct>>

\* A turn ends; its session.idle edge reaches the flush worker or is missed.
EndTurn(s) ==
    /\ turn[s] /\ unseen[s] = 0
    /\ last[s].role = "answering" \/ SilentTurns
    /\ turn' = [turn EXCEPT ![s] = FALSE]
    /\ last' = [last EXCEPT ![s] =
          [age |-> @.age, role |-> IF @.role = "answering" THEN "answered" ELSE @.role]]
    /\ owes' = [owes EXCEPT ![s] = FALSE]
    /\ turnSends' = [turnSends EXCEPT ![s] = 0]
    /\ edges' \in {edges, [edges EXCEPT ![s] = @ + 1]}
    /\ UNCHANGED <<durable, lock, call, guard, nextGen, armed, todo, unseen,
                   fresh, dropped, delivered, doubts, faults, direct>>

\* The ocman process dies and starts again: only state.db remains.  Setup whose
\* first prompt was recorded as delivered is "ready" now, any other interrupted.
Crash ==
    /\ Fault
    /\ lock' = [s \in Session |-> "free"]
    /\ call' = [s \in Session |-> [k \in Kind |-> Out]]
    /\ guard' = [s \in Session |-> NoGuard]
    /\ nextGen' = 0
    /\ armed' = [s \in Session |-> 0]
    /\ todo' = {}
    /\ edges' = [s \in Session |-> 0]
    /\ doubts' = [m \in Message |->
          IF \E s \in Session, k \in Kind :
                call[s][k].pc = "receipt" /\ call[s][k].head = m
          THEN doubts[m] + 1 ELSE doubts[m]]
    /\ owes' = [s \in Session |-> FALSE]
    /\ \E ready \in SUBSET {s \in Session : call[s]["setup"].pc = "delivered"} :
          settingUp' = settingUp \ ready
    /\ UNCHANGED <<rows, archived, platform, fresh, dropped, delivered, turnSends, direct>>

-----------------------------------------------------------------------------

Next ==
    \/ \E m \in Message : EnqueueHeld(m) \/ EnqueueAndDrain(m) \/ Remove(m)
    \/ \E m, n \in Message : Move(m, n)
    \/ \E s \in Session :
          \/ Flush(s) \/ TryFlush(s) \/ SweepArm(s) \/ SweepLock(s)
          \/ SetArchived(s) \/ DeliverFirst(s) \/ FinishSetup(s) \/ ContinueSession(s)
          \/ DirectSend(s) \/ ShowPrompt(s) \/ StartAnswer(s) \/ EndTurn(s)
    \/ \E s \in Session, k \in Kind : Drain(s, k)
    \/ SweepList
    \/ Crash

Spec == Init /\ [][Next]_vars

\* The ticker keeps sweeping, a goroutine under way keeps going, and the
\* platform answers and ends its turns.  Clients, setups and faults owe nothing.
Fairness ==
    /\ WF_vars(SweepList)
    /\ \A s \in Session :
          /\ WF_vars(SweepArm(s)) /\ SF_vars(SweepLock(s))
          /\ WF_vars(Flush(s)) /\ WF_vars(TryFlush(s))
          /\ WF_vars(ShowPrompt(s)) /\ WF_vars(StartAnswer(s)) /\ WF_vars(EndTurn(s))
          /\ \A k \in Kind : WF_vars(Drain(s, k))

FairSpec == Spec /\ Fairness

-----------------------------------------------------------------------------
(* Properties.                                                             *)

Idle    == [pc : {"out", "delivered", "due", "armed", "locked"},
            head : {None}, seen : Nat \cup {Unread}]
Sending == [pc : {"send", "receipt", "failed"}, head : Message, seen : Nat]

\* A drain that reached its send knows what it sends and what it read.
TypeOK ==
    /\ queued \subseteq Message /\ blocked \subseteq queued
    /\ pos \in [Message -> Nat] /\ attempts \in [Message -> Nat]
    /\ archived \subseteq Session /\ settingUp \subseteq Drafts
    /\ lock \in [Session -> Kind \cup {"free"}]
    /\ call \in [Session -> [Kind -> Idle \cup Sending]]
    /\ guard \in [Session -> [gen : Nat, seen : Nat]]
    /\ nextGen \in Nat /\ armed \in [Session -> Nat]
    /\ todo \subseteq Session /\ edges \in [Session -> Nat]
    /\ turn \in [Session -> BOOLEAN] /\ owes \in [Session -> BOOLEAN]
    /\ last \in [Session -> [age : Nat, role : {"user", "answering", "answered"}]]
    /\ unseen \in [Session -> Nat]
    /\ fresh \subseteq Message /\ dropped \subseteq Message
    /\ delivered \in [Message -> Nat] /\ doubts \in [Message -> Nat]
    /\ turnSends \in [Session -> Nat]
    /\ faults \in Nat /\ direct \in Nat

\* Drains of one session never overlap, so a message is accepted once, and
\* once more for every acceptance whose receipt was never written: a lost
\* reply, a failed delete, or a crash between the send and the delete.
AtMostOnceUnlessInDoubt ==
    \A m \in Message : delivered[m] <= doubts[m] + 1

\* A submitted message leaves the queue only by being accepted or removed:
\* no failure path, move, blocking or restart loses it.
NoLostFollowUp ==
    \A m \in Message \ (fresh \cup queued \cup dropped) : delivered[m] > 0

\* EnqueueMessage's MAX + 1 and MoveQueuedMessage's swap never give two rows
\* of a session one position, so the head of a queue is always unique.
PositionsDistinct ==
    \A m, n \in queued :
        Owner[m] = Owner[n] /\ pos[m] = pos[n] => m = n

\* Failures are only counted by the drain that holds the lock, so a row is set
\* aside exactly at its limit, never counted past it, and never being sent.
BlockedAtLimit ==
    /\ \A m \in queued : /\ attempts[m] <= AttemptLimit
                         /\ m \in blocked <=> attempts[m] = AttemptLimit
    /\ \A s \in Session, k \in Kind :
          call[s][k].pc \in {"send", "receipt", "failed"} => call[s][k].head \notin blocked

\* The drain guard: no drain sends while the turn of the last recorded follow-up
\* is running and no idle edge came since, however late that prompt shows in the
\* transcript.  (Its baseline must be the message that was the latest when it was
\* accepted: a failed read before a Flush, or a turn that completes between the
\* read and the send, leaves an older one.)
GuardedDrains ==
    \A s \in Session, k \in Kind :
        call[s][k].pc = "send" => ~owes[s]

\* What the queue promises, and that it keeps it: a message is "dropped" once a
\* client removed its row, "sent" once a receipt did.
Delivery == INSTANCE FollowUpDelivery WITH
    phase <- [m \in Message |-> IF m \in fresh THEN "new"
                               ELSE IF m \in queued THEN "held"
                               ELSE IF m \in dropped THEN "dropped" ELSE "sent"],
    copies <- delivered, lost <- doubts

KeepsPromise == Delivery!Spec

\* Sweep is the safety net: whatever edges are missed, a held message of a
\* session that stays unarchived is sent, set aside or removed.
HeldMessagesDrain ==
    \A m \in Message :
        m \in queued ~> m \notin queued \ blocked \/ Owner[m] \in archived

(* The inductive invariant behind the safety properties.                   *)

Holding == {"locked", "send", "receipt", "failed"}
Engaged == {"send", "receipt", "failed"}

LockHeld ==
    \A s \in Session, k \in Kind : call[s][k].pc \in Holding => lock[s] = k

\* The message under way is a row that may be sent, or one removed meanwhile.
HeadsHeld ==
    \A s \in Session, k \in Kind :
        call[s][k].pc \in Engaged =>
            LET m == call[s][k].head IN
            Owner[m] = s /\ m \in (queued \ blocked) \cup dropped

\* The setup gate: nothing is sent before the first prompt of a draft.
FirstPromptFirst ==
    \A s \in settingUp, k \in Kind : call[s][k].pc \notin Engaged

FailuresCounted ==
    \A m \in Message :
        IF m \in queued
        THEN attempts[m] <= AttemptLimit /\ (m \in blocked <=> attempts[m] = AttemptLimit)
        ELSE attempts[m] = 0

StagesApart == fresh \cap (queued \cup dropped) = {} /\ queued \cap dropped = {}

Awaits(m) ==
    \E s \in Session, k \in Kind : call[s][k].pc = "receipt" /\ call[s][k].head = m

\* Exactly the acceptances that await a receipt, or got one, are beyond doubt.
Ledger ==
    /\ \A m \in Message :
          /\ m \in fresh => delivered[m] = 0 /\ doubts[m] = 0
          /\ m \in queued /\ ~Awaits(m) => delivered[m] = doubts[m]
          /\ m \in dropped => delivered[m] \in {doubts[m], doubts[m] + 1}
          /\ m \notin fresh \cup queued \cup dropped => delivered[m] = doubts[m] + 1
    /\ \A s \in Session, k \in Kind :
          LET m == call[s][k].head IN
          /\ call[s][k].pc = "receipt" => delivered[m] = doubts[m] + 1
          /\ call[s][k].pc \in {"send", "failed"} => delivered[m] = doubts[m]

\* The lock makes a drain the only one that touches its message, so the ledger
\* of accepted and recorded sends stays balanced through every interleaving.
OneDrainPerMessage ==
    /\ LockHeld /\ HeadsHeld /\ FirstPromptFirst
    /\ FailuresCounted /\ StagesApart /\ Ledger

\* While a recorded follow-up owes a turn end, its guard (or the receipt about
\* to write it) covers whatever completed message the transcript shows.
Covers(s, baseline) == last[s].role = "answered" => last[s].age <= baseline

GuardCovers ==
    \A s \in Session : owes[s] =>
        /\ turn[s]
        /\ \A k \in Kind : call[s][k].pc \notin {"locked", "send", "failed"}
        /\ \A k \in Kind : call[s][k].pc = "receipt" => Covers(s, call[s][k].seen)
        /\ \/ \E k \in Kind : call[s][k].pc = "receipt"
           \/ guard[s].gen > 0 /\ Covers(s, guard[s].seen)

(* What the documents of the repository say, and the code does not do: a   *)
(* run of its own refutes it.                                              *)

\* docs/other/architecture.md: queuesvc "drains one held message per turn".
OneHeldMessagePerTurn == \A s \in Session : turnSends[s] <= 1

=============================================================================
