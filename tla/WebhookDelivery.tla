-------------------------- MODULE WebhookDelivery --------------------------
(***************************************************************************)
(* Encrypted webhooks: a relay keeps the deliveries of an inbox as         *)
(* ciphertext (internal/relay); the machine that owns the inbox polls      *)
(* them, decrypts and logs each, starts the subscribed routines, and       *)
(* acknowledges it (internal/webhook, internal/routines).                  *)
(*                                                                         *)
(* One poller serves an inbox.  Each of its actions is one request to the  *)
(* relay, one transaction of state.db or one call of the agent platform.   *)
(* Meanwhile providers deliver, the relay expires deliveries, the tick of  *)
(* the routine service settles runs and users edit routines.  The rows and *)
(* the relay's objects survive a crash of the owner; where the poll and    *)
(* its dispatch stand does not.                                            *)
(*                                                                         *)
(* Left out: registration, secrets, quotas, revocation and expiry of the   *)
(* inbox, edits of subscriptions, launch projects, redelivery by hand, the *)
(* history cleanup, schedules, and what a successful run does at its end.  *)
(***************************************************************************)
EXTENDS Integers, FiniteSetsExt

CONSTANTS
    Delivery,       \* ids the relay gives out, in their order
    Routine,        \* subscribed routines, in the order of their subscriptions
    Wants,          \* the routines whose predicates a delivery matches
    Lane,           \* the session a routine continues, or New
    New,            \* a routine that creates a session for each run
    Edited,         \* routines users enable, disable and delete
    PageSize,       \* inboxPageSize
    MaxAttempts,    \* webhookMaxAttempts
    MaxFaults       \* bound: crashes, lost requests and replies, failed writes

Pairs == Delivery \X Routine

ASSUME WebhookAssumption ==
    /\ Delivery \subseteq Nat \ {0} /\ IsFiniteSet(Delivery)
    /\ Routine \subseteq Nat /\ IsFiniteSet(Routine)
    /\ Wants \in [Delivery -> SUBSET Routine]
    /\ DOMAIN Lane = Routine /\ Edited \subseteq Routine
    /\ {PageSize, MaxAttempts} \subseteq Nat \ {0}
    /\ MaxFaults \in Nat

VARIABLES
    (* the relay *)
    pending,    \* deliveries it holds
    ingested,   \* deliveries a provider handed in
    (* state.db of the owner *)
    row,        \* webhook_delivery; "failed" has an empty item_id
    attempts,
    dispatch,   \* webhook_dispatch
    run,        \* routine_run of the occurrence; "claimed" has no session yet,
                \* "ended" is success or interrupted
    routine,
    (* the agent platform *)
    prompted,   \* how often it accepted the prompt of a run
    (* the poller *)
    proc,       \* where it stands: the delivery and the subscriptions to visit
    poll,       \* the poll under way
    (* history and bounds *)
    acked,      \* deliveries an acknowledgement removed
    astray,     \* pairs settled before their prompt, or whose result was lost
    faults

relay  == <<pending, ingested>>
log    == <<row, attempts>>
runs   == <<dispatch, run, prompted>>
vars   == <<relay, log, runs, routine, proc, poll, acked, astray, faults>>

None == 0
Idle == [pc |-> "idle", d |-> None, todo |-> {}, err |-> FALSE]
NoPoll == [after |-> None, through |-> None, left |-> {}, full |-> FALSE, owed |-> {}]

Init ==
    /\ pending = {} /\ ingested = {}
    /\ row = [d \in Delivery |-> "none"] /\ attempts = [d \in Delivery |-> 0]
    /\ dispatch = [c \in Pairs |-> "none"] /\ run = [c \in Pairs |-> "none"]
    /\ prompted = [c \in Pairs |-> 0]
    /\ routine = [r \in Routine |-> "enabled"]
    /\ proc = Idle /\ poll = NoPoll
    /\ acked = {} /\ astray = {} /\ faults = 0

Fault == faults < MaxFaults /\ faults' = faults + 1

\* A step that may fail: the disjunct it guards is the failure.
Sound == UNCHANGED faults

-----------------------------------------------------------------------------
(* The relay.                                                              *)

\* handleIngestInbox: the ciphertext is stored before the provider is answered.
Ingest(d) ==
    /\ d \notin ingested
    /\ ingested' = ingested \cup {d} /\ pending' = pending \cup {d}
    /\ UNCHANGED <<log, runs, routine, proc, poll, acked, astray, faults>>

\* sweepInbox: the retention of the delivery is over.
Expire(d) ==
    /\ d \in pending /\ pending' = pending \ {d}
    /\ UNCHANGED <<ingested, log, runs, routine, proc, poll, acked, astray, faults>>

-----------------------------------------------------------------------------
(* The poll.                                                               *)

At(pc) == proc.pc = pc
Goto(pc) == proc' = [proc EXCEPT !.pc = pc]
EndPoll == proc' = Idle /\ poll' = NoPoll
EndDelivery == proc' = [Idle EXCEPT !.pc = "take"]

\* The next tick of the poller, which loads the inbox and its key again.
BeginPoll ==
    /\ At("idle") /\ Goto("list")
    /\ UNCHANGED <<relay, log, runs, routine, poll, acked, astray, faults>>

\* The first PageSize of the deliveries ids.
FirstPage(ids) == {d \in ids : Cardinality({e \in ids : e <= d}) <= PageSize}

\* Mutation of Page: the next page starts at a delivery counted from the end.
PageOfTheLast(ids, first, through) ==
    LET page == {d \in ids : Cardinality({e \in ids : e >= d}) <= PageSize}
    IN [poll EXCEPT !.left = page, !.full = Cardinality(page) = PageSize, !.through = through,
                    !.after = IF page = {} THEN @ ELSE Max(page),
                    !.owed = IF first THEN pending ELSE @]

Page(ids, first, through) ==
    LET page == FirstPage(ids)
    IN [poll EXCEPT !.left = page, !.full = Cardinality(page) = PageSize, !.through = through,
                    !.after = IF page = {} THEN @ ELSE Max(page),
                    !.owed = IF first THEN pending ELSE @]

\* handleListInboxDeliveries: the first page fixes the last id of the poll;
\* a full page comes with a cursor.
ListPage ==
    /\ At("list")
    /\ LET first   == poll.after = None
           through == IF first THEN Max(pending \cup {None}) ELSE poll.through
           ids     == {d \in pending : poll.after < d /\ d <= through}
       IN poll' = Page(ids, first, through)
    /\ Goto("take") /\ Sound
    /\ UNCHANGED <<relay, log, runs, routine, acked, astray>>

ListFails ==
    /\ At("list") /\ Fault /\ EndPoll
    /\ UNCHANGED <<relay, log, runs, routine, acked, astray>>

PageDone ==
    /\ At("take") /\ poll.left = {}
    /\ IF poll.full THEN Goto("list") /\ UNCHANGED poll ELSE EndPoll
    /\ UNCHANGED <<relay, log, runs, routine, acked, astray, faults>>

\* Mutation of GivenUp: one attempt too many.
GivenUpLate(d) == attempts[d] > MaxAttempts

\* WebhookDeliveryRetryAllowed lets a given up delivery be.
GivenUp(d) == attempts[d] >= MaxAttempts

Reached(d) ==
    /\ At("take") /\ poll.left # {} /\ d = Min(poll.left)
    /\ poll' = [poll EXCEPT !.left = @ \ {d}, !.owed = @ \ {d}]

\* A delivery that failed is tried again once its next_retry_at has passed.
Skip(d) ==
    /\ Reached(d) /\ attempts[d] > 0
    /\ UNCHANGED <<relay, log, runs, routine, proc, acked, astray, faults>>

\* The delivery left the relay, is encrypted for a key the owner does not hold
\* (any more, or yet: a rotation reaches relay and owner one after the other),
\* or a call fails.
Unread(d) ==
    /\ Reached(d) /\ ~GivenUp(d)
    /\ proc' = [Idle EXCEPT !.pc = "record", !.d = d]
    /\ UNCHANGED <<relay, log, runs, routine, acked, astray, faults>>

\* FetchInboxDelivery, DecryptInboxEnvelope and AcceptWebhookDelivery.  For a
\* delivery with a failed row the last returns without committing.
Accept(d) ==
    /\ Reached(d) /\ ~GivenUp(d) /\ d \in pending
    /\ row' = [row EXCEPT ![d] = IF @ = "none" THEN "accepted" ELSE @]
    /\ proc' = [Idle EXCEPT !.pc = "visit", !.d = d, !.todo = Routine]
    /\ UNCHANGED <<relay, attempts, runs, routine, acked, astray, faults>>

-----------------------------------------------------------------------------
(* Dispatch: the subscriptions in order.                                   *)

Sub  == Min(proc.todo)
Pair == <<proc.d, Sub>>
Onward == proc' = [proc EXCEPT !.pc = "visit", !.todo = @ \ {Sub}, !.err = FALSE]
\* Dispatch returns an error.
Abort == proc' = [Idle EXCEPT !.pc = "record", !.d = proc.d]
Put(c, s) == dispatch' = [dispatch EXCEPT ![c] = s]

\* RecordWebhookIgnored keeps a result the pair already has.
Ignore ==
    /\ At("visit") /\ proc.todo # {}
    /\ Sub \notin Wants[proc.d] \/ routine[Sub] = "disabled"
    /\ Put(Pair, IF dispatch[Pair] = "none" THEN "ignored" ELSE dispatch[Pair])
    /\ Onward
    /\ UNCHANGED <<relay, log, run, prompted, routine, poll, acked, astray, faults>>

SkipDeleted ==
    /\ At("visit") /\ proc.todo # {}
    /\ Sub \in Wants[proc.d] /\ routine[Sub] = "deleted"
    /\ Onward
    /\ UNCHANGED <<relay, log, runs, routine, poll, acked, astray, faults>>

Match ==
    /\ At("visit") /\ proc.todo # {}
    /\ Sub \in Wants[proc.d] /\ routine[Sub] = "enabled"
    /\ Goto("claim")
    /\ UNCHANGED <<relay, log, runs, routine, poll, acked, astray, faults>>

\* A read or write of the dispatch fails.
Interrupt ==
    /\ At("visit") \/ At("claim")
    /\ Fault /\ Abort
    /\ UNCHANGED <<relay, log, runs, routine, poll, acked, astray>>

\* ClaimWebhookDispatch: one dispatcher per pair, again after a failure.
Claim ==
    /\ At("claim")
    /\ IF dispatch[Pair] \in {"none", "failure"}
       THEN Put(Pair, "queued") /\ Goto("start")
       ELSE Onward /\ UNCHANGED dispatch
    /\ UNCHANGED <<relay, log, run, prompted, routine, poll, acked, astray, faults>>

Running == {"claimed", "linked"}

\* The unique indexes of running runs that continue a session.
Busy(c) ==
    /\ Lane[c[2]] # New
    /\ \E other \in Pairs : run[other] \in Running /\ Lane[other[2]] = Lane[c[2]]

Finishing(err) == proc' = [proc EXCEPT !.pc = "finish", !.err = err]

\* Mutation of Claimable: an occurrence that failed is run again.
ClaimableAfterFailure(c) == run[c] \in {"none", "failure"}

\* The occurrence has no run yet: the unique key of routine_run.
Claimable(c) == run[c] = "none"

\* RunWebhook up to ClaimRoutineRun, which returns the run an earlier attempt
\* made for the occurrence.
StartRun ==
    /\ At("start")
    /\ LET c == Pair
       IN \/ /\ routine[c[2]] # "enabled" \/ (Claimable(c) /\ Busy(c))
             /\ Finishing(TRUE) /\ UNCHANGED run
          \/ /\ routine[c[2]] = "enabled" /\ ~Claimable(c)
             /\ Finishing(FALSE) /\ UNCHANGED run
          \/ /\ routine[c[2]] = "enabled" /\ Claimable(c) /\ ~Busy(c)
             /\ run' = [run EXCEPT ![c] = "claimed"] /\ Goto("link")
    /\ UNCHANGED <<relay, log, dispatch, prompted, routine, poll, acked, astray, faults>>

\* The session is created or found, and linked; or the launch fails.
LinkRun ==
    /\ At("link")
    /\ \/ run' = [run EXCEPT ![Pair] = "linked"] /\ Goto("send")
       \/ Goto("fail") /\ UNCHANGED run
    /\ UNCHANGED <<relay, log, dispatch, prompted, routine, poll, acked, astray, faults>>

SendPrompt ==
    /\ At("send")
    /\ \/ /\ prompted' = [prompted EXCEPT ![Pair] = @ + 1]
          /\ \/ Finishing(FALSE) /\ Sound
             \/ Goto("fail") /\ Fault            \* its reply is lost
       \/ Goto("fail") /\ Sound /\ UNCHANGED prompted
    /\ UNCHANGED <<relay, log, dispatch, run, routine, poll, acked, astray>>

\* failDispatch: FinishRoutineRun leaves a run alone that is settled already.
FailRun ==
    /\ At("fail")
    /\ \/ /\ run' = [run EXCEPT ![Pair] = IF @ \in Running THEN "failure" ELSE @]
          /\ Finishing(FALSE) /\ Sound /\ UNCHANGED astray
       \/ /\ Fault /\ Finishing(TRUE)
          /\ astray' = astray \cup {Pair} /\ UNCHANGED run
    /\ UNCHANGED <<relay, log, dispatch, prompted, routine, poll, acked>>

\* Mutation of Outcome: a failed run comes back without an error.
OutcomeOfTheCall == IF proc.err THEN "failure" ELSE "terminal"

Outcome == IF proc.err \/ run[Pair] = "failure" THEN "failure" ELSE "terminal"

\* Mutation of Finish: the result of a routine without a run is not recorded.
FinishRuns ==
    /\ At("finish") /\ Onward
    /\ Put(Pair, IF dispatch[Pair] = "queued" /\ run[Pair] # "none"
                    THEN Outcome ELSE dispatch[Pair])
    /\ UNCHANGED <<relay, log, run, prompted, routine, poll, acked, astray, faults>>

\* FinishWebhookDispatch settles what is still queued.
Finish ==
    /\ At("finish") /\ Onward
    /\ Put(Pair, IF dispatch[Pair] = "queued" THEN Outcome ELSE dispatch[Pair])
    /\ UNCHANGED <<relay, log, run, prompted, routine, poll, acked, astray, faults>>

\* The write fails: ignored for a failure, an error of Dispatch otherwise.
FinishFails ==
    /\ At("finish") /\ Fault
    /\ IF Outcome = "failure" THEN Onward ELSE Abort
    /\ astray' = astray \cup {Pair}
    /\ UNCHANGED <<relay, log, runs, routine, poll, acked>>

Dispatched ==
    /\ At("visit") /\ proc.todo = {}
    /\ Goto("ack")
    /\ UNCHANGED <<relay, log, runs, routine, poll, acked, astray, faults>>

Dispatch ==
    \/ Ignore \/ SkipDeleted \/ Match \/ Interrupt \/ Claim
    \/ StartRun \/ LinkRun \/ SendPrompt \/ FailRun
    \/ Finish \/ FinishFails \/ Dispatched

-----------------------------------------------------------------------------
(* The end of a delivery.                                                  *)

\* AcknowledgeInboxDelivery; the request or its reply may be lost.
Acknowledge ==
    /\ At("ack")
    /\ \/ /\ pending' = pending \ {proc.d}
          /\ acked' = acked \cup {proc.d}
          /\ \/ EndDelivery /\ Sound
             \/ Abort /\ Fault
       \/ Abort /\ Fault /\ UNCHANGED <<pending, acked>>
    /\ UNCHANGED <<ingested, log, runs, routine, poll, astray>>

\* Mutation of CountAttempt: a delivery keeps the attempts of its first failure.
CountAttemptOnce(d) == attempts' = [attempts EXCEPT ![d] = 1]

CountAttempt(d) == attempts' = [attempts EXCEPT ![d] = @ + 1]

\* RecordWebhookDeliveryError; when it fails as well, the poll ends.
RecordError ==
    /\ At("record")
    /\ \/ LET d == proc.d
          IN /\ row' = [row EXCEPT ![d] = IF @ = "none" THEN "failed" ELSE @]
             /\ CountAttempt(d)
             /\ EndDelivery /\ Sound /\ UNCHANGED poll
       \/ Fault /\ EndPoll /\ UNCHANGED log
    /\ UNCHANGED <<relay, runs, routine, acked, astray>>

-----------------------------------------------------------------------------
(* The routine service and its users.                                      *)

\* settleRunning: the session of a linked run has no turn under way.  That of
\* an unprompted run is empty or shows an earlier turn.
SettleRun(c) ==
    /\ run[c] = "linked"
    /\ \E s \in {"ended", "failure"} :
          /\ s = "failure" => prompted[c] > 0 \/ Lane[c[2]] # New
          /\ run' = [run EXCEPT ![c] = s]
    /\ astray' = IF prompted[c] = 0 THEN astray \cup {c} ELSE astray
    /\ UNCHANGED <<relay, log, dispatch, prompted, routine, proc, poll, acked, faults>>

\* UpdateRoutine with another enabled flag.
ToggleRoutine(r) ==
    /\ routine[r] # "deleted"
    /\ routine' = [routine EXCEPT ![r] = IF @ = "enabled" THEN "disabled" ELSE "enabled"]
    /\ UNCHANGED <<relay, log, runs, proc, poll, acked, astray, faults>>

\* SoftDeleteRoutine cancels what is queued for the routine.
DeleteRoutine(r) ==
    /\ routine[r] # "deleted" /\ routine' = [routine EXCEPT ![r] = "deleted"]
    /\ dispatch' = [c \in Pairs |-> IF c[2] = r /\ dispatch[c] = "queued"
                                    THEN "cancelled" ELSE dispatch[c]]
    /\ UNCHANGED <<relay, log, run, prompted, proc, poll, acked, astray, faults>>

\* The owner dies and restarts: Recover settles runs without a session, and
\* the next tick the others.
Crash ==
    /\ Fault
    /\ EndPoll
    /\ run' = [c \in Pairs |-> IF run[c] = "claimed" THEN "ended" ELSE run[c]]
    /\ astray' = astray \cup {c \in Pairs : dispatch[c] = "queued" \/ run[c] = "claimed"}
    /\ UNCHANGED <<relay, log, dispatch, prompted, routine, acked>>

-----------------------------------------------------------------------------
Poller ==
    \/ BeginPoll \/ ListPage \/ ListFails \/ PageDone
    \/ \E d \in Delivery : Skip(d) \/ Unread(d) \/ Accept(d)
    \/ Dispatch \/ Acknowledge \/ RecordError

Environment ==
    \/ \E d \in Delivery : Ingest(d) \/ Expire(d)
    \/ \E c \in Pairs : SettleRun(c)
    \/ \E r \in Edited : ToggleRoutine(r) \/ DeleteRoutine(r)
    \/ Crash

Next == Poller \/ Environment

Spec == Init /\ [][Next]_vars

\* The poller's goroutine runs, and a retry delay passes between two of the
\* polls that reach a delivery; nobody else owes anything.
Fairness ==
    /\ WF_vars(Poller)
    /\ \A d \in Delivery : SF_vars(Unread(d) \/ Accept(d))

FairSpec == Spec /\ Fairness
-----------------------------------------------------------------------------
(* Properties.                                                             *)

Pcs == {"idle", "list", "take", "ack", "record",
        "visit", "claim", "start", "link", "send", "fail", "finish"}

\* Every row and process is in one of its states, and the attempts of a
\* delivery never pass webhookMaxAttempts, whatever fails.
TypeOK ==
    /\ pending \subseteq Delivery /\ acked \subseteq Delivery
    /\ ingested \subseteq Delivery
    /\ row \in [Delivery -> {"none", "failed", "accepted"}] /\ attempts \in [Delivery -> 0..MaxAttempts]
    /\ dispatch \in [Pairs -> {"none", "queued", "terminal", "failure", "ignored", "cancelled"}]
    /\ run \in [Pairs -> {"none", "claimed", "linked", "ended", "failure"}]
    /\ prompted \in [Pairs -> Nat] /\ astray \subseteq Pairs /\ faults \in 0..MaxFaults
    /\ routine \in [Routine -> {"enabled", "disabled", "deleted"}]
    /\ proc \in [pc : Pcs, d : Delivery \cup {None}, todo : SUBSET Routine, err : BOOLEAN]
    /\ poll \in [after : Delivery \cup {None}, through : Delivery \cup {None},
                 left : SUBSET Delivery, full : BOOLEAN, owed : SUBSET Delivery]

\* A delivery prompts a routine at most once, through lost acknowledgements,
\* retries, lost replies of the platform and crashes (the claim and the unique
\* occurrence of its run, webhook.go:84 and routine_runs.go:58).
PromptedOnce == \A c \in Pairs : prompted[c] <= 1

\* The relay lets go of a delivery when each subscriber it matches has a
\* result: only a crash or a failed write between claim and result leaves a
\* claim open (Dispatch promises to record the outcome of every claim).
AcknowledgedIsSettled ==
    \A c \in Pairs :
        c[1] \in acked /\ c[2] \in Wants[c[1]] =>
            \/ dispatch[c] \in {"terminal", "failure", "ignored", "cancelled"}
            \/ dispatch[c] = "none" /\ routine[c[2]] = "deleted"
            \/ c \in astray

\* The log shows a run as started only for a prompt the platform accepted,
\* unless the run was settled between its link and its prompt or its failure
\* could not be written (a failed launch comes back as a run, not an error).
TerminalWasPrompted ==
    \A c \in Pairs : dispatch[c] = "terminal" => prompted[c] = 1 \/ c \in astray

\* Pages cut by id miss nothing of what was pending at the first page, while
\* the relay gains and loses deliveries between pages.
PollMissesNone ==
    At("take") /\ poll.left = {} =>
        \A d \in poll.owed \cap pending : poll.full /\ poll.after < d /\ d <= poll.through

\* Each delivery leaves the relay or is given up after webhookMaxAttempts: one
\* that cannot be read or dispatched never blocks another (Poll's comment).
DeliveriesLeave ==
    \A d \in Delivery : d \in pending ~> d \notin pending \/ attempts[d] = MaxAttempts

\* docs/features/webhooks.md: the owner acknowledges a delivery only after
\* local acceptance, which is what marks its row with an item id.
AcknowledgedIsAccepted == \A d \in acked : row[d] = "accepted"

=============================================================================
