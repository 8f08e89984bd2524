------------------------ MODULE WebhookDeliveryProofs ------------------------
(***************************************************************************)
(* What a webhook may rely on, for any number of deliveries, routines,     *)
(* attempts and faults: no routine is prompted twice for a delivery, the   *)
(* log does not show a run as started that was not, and the relay lets go  *)
(* only of what has a result.                                              *)
(***************************************************************************)
EXTENDS WebhookDelivery, FiniteSetTheorems, WellFoundedInduction, TLAPS

\* The steps of a pair whose claim is in hand.
Dispatching == {"start", "link", "send", "fail", "finish"}
\* The steps of a delivery in hand; its attempt still counts at "record".
Working == Dispatching \cup {"visit", "claim", "ack", "record"}

\* A delivery in hand has an attempt left, and a pair in hand is one.
InHand ==
    /\ proc.pc \in Working => proc.d \in Delivery /\ attempts[proc.d] < MaxAttempts
    /\ proc.pc \in Dispatching \cup {"claim"} => proc.todo # {}
    /\ proc.pc = "ack" => proc.todo = {}

\* Before its prompt is sent the run in hand exists and was never prompted.
RunInHand ==
    \A c \in Pairs : c = Pair =>
        /\ proc.pc \in {"link", "send"} => prompted[c] = 0
        /\ proc.pc \in {"link", "send", "fail"} => run[c] # "none"
        /\ proc.pc = "finish" /\ ~proc.err => run[c] # "none"

\* Prompts belong to runs; a run that goes on or ended without a prompt is in
\* hand, was lost by a fault or the tick, or its dispatch was cancelled.
RunsPrompted ==
    \A c \in Pairs :
        /\ run[c] = "none" => prompted[c] = 0
        /\ run[c] = "ended" => prompted[c] > 0 \/ c \in astray
        /\ run[c] \in Running =>
              \/ prompted[c] > 0 \/ c \in astray \/ dispatch[c] = "cancelled"
              \/ proc.pc \in {"link", "send", "fail"} /\ c = Pair

\* A claim is open only while it is in hand, or by a fault.
ClaimsInHand ==
    \A c \in Pairs :
        /\ dispatch[c] = "queued" => c \in astray \/ (proc.pc \in Dispatching /\ c = Pair)
        /\ proc.pc \in Dispatching /\ c = Pair => dispatch[c] \in {"queued", "cancelled"}

RunsKept == RunInHand /\ RunsPrompted /\ ClaimsInHand /\ PromptedOnce /\ TerminalWasPrompted

Settled(c) ==
    \/ dispatch[c] \in {"terminal", "failure", "ignored", "cancelled"}
    \/ dispatch[c] = "none" /\ routine[c[2]] = "deleted"
    \/ c \in astray

\* What the owner acknowledged stays away from the relay.
Gone == acked \subseteq ingested /\ pending \subseteq ingested /\ acked \cap pending = {}

\* The subscriptions of the delivery in hand that were visited are settled.
Visiting == Dispatching \cup {"visit", "claim", "ack"}
VisitedSettled ==
    proc.pc \in Visiting =>
        /\ proc.d \in ingested \ acked
        /\ \A r \in Routine \ proc.todo : r \in Wants[proc.d] => Settled(<<proc.d, r>>)

\* What was pending at the first page is on the page in hand, was reached, or
\* lies beyond the cursor of a page that was full.
PollCovers ==
    /\ poll.owed \subseteq ingested
    /\ proc.pc \in {"idle", "list"} => poll.left = {}
    /\ \A d \in poll.owed \cap pending :
          d \in poll.left \/ (poll.full /\ poll.after < d /\ d <= poll.through)

IInv ==
    /\ TypeOK /\ InHand /\ RunsKept /\ Gone /\ VisitedSettled /\ AcknowledgedIsSettled
    /\ PollCovers

-----------------------------------------------------------------------------
(* Least and greatest elements.                                            *)

LEMMA Least ==
    ASSUME NEW S, S \subseteq Nat, S # {}
    PROVE  \E x \in S : \A y \in S : x =< y
<1> DEFINE R == OpToRel(<, Nat)
<1>1. IsWellFoundedOn(R, Nat)
  BY NatLessThanWellFounded
<1> HIDE DEF R
<1>2. PICK x \in S : \A y \in S : ~ (<<y, x>> \in R)
  BY <1>1, WFMin
<1>3. \A y \in S : x =< y
  <2> TAKE y \in S
  <2>1. y < x => <<y, x>> \in R
    BY DEF R, OpToRel
  <2> QED BY <1>2, <2>1
<1> QED BY <1>3

LEMMA LeastIn ==
    ASSUME NEW S, S \subseteq Nat, S # {}
    PROVE  Min(S) \in S
BY Least DEF Min

\* A smallest set without a greatest element would lose one of its elements.
LEMMA GreatestIn ==
    ASSUME NEW S, S \subseteq Nat, IsFiniteSet(S), S # {}
    PROVE  Max(S) \in S /\ \A y \in S : Max(S) >= y
<1> DEFINE Topless(T) == T # {} /\ ~ \E x \in T : \A y \in T : x >= y
           Sizes == {n \in Nat : \E T \in SUBSET S : Topless(T) /\ Cardinality(T) = n}
<1>1. ASSUME Sizes # {} PROVE FALSE
  <2>1. PICK n \in Sizes : \A m \in Sizes : n =< m
    <3> Sizes \subseteq Nat
      OBVIOUS
    <3> HIDE DEF Sizes
    <3> QED BY <1>1, Least
  <2>2. PICK T \in SUBSET S : Topless(T) /\ Cardinality(T) = n
    OBVIOUS
  <2>3. PICK x \in T : TRUE
    BY <2>2
  <2>4. IsFiniteSet(T)
    BY FS_Subset
  <2>5. /\ IsFiniteSet(T \ {x}) /\ Cardinality(T) \in Nat
        /\ Cardinality(T \ {x}) = Cardinality(T) - 1 /\ Cardinality(T \ {x}) \in Nat
    BY <2>3, <2>4, FS_RemoveElement, FS_CardinalityType
  <2>6. Topless(T \ {x})
    <3>1. T \ {x} # {}
      <4> SUFFICES ASSUME T = {x} PROVE FALSE
        BY <2>3
      <4> QED BY <2>2
    <3>2. ASSUME NEW y \in T \ {x}, \A z \in T \ {x} : y >= z
          PROVE  FALSE
      <4>1. x \in Nat /\ y \in Nat
        BY <2>2, <2>3
      <4>2. CASE y >= x
        BY <2>2, <3>2, <4>2
      <4>3. CASE x > y
        <5>1. \A z \in T : x >= z
          <6> TAKE z \in T
          <6>1. z \in Nat
            BY <2>2
          <6>2. CASE z = x
            BY <4>1, <6>2
          <6>3. CASE z # x
            BY <3>2, <4>1, <4>3, <6>1, <6>3
          <6> QED BY <6>2, <6>3
        <5> QED BY <2>2, <2>3, <5>1
      <4> QED BY <4>1, <4>2, <4>3
    <3> QED BY <3>1, <3>2
  <2>7. Cardinality(T \ {x}) \in Sizes
    BY <2>5, <2>6
  <2>8. n \in Nat /\ n =< n - 1
    <3>1. Cardinality(T \ {x}) = n - 1
      BY <2>2, <2>5
    <3> HIDE DEF Sizes, Topless
    <3> QED BY <2>1, <2>2, <2>5, <2>7, <3>1
  <2> QED BY <2>8
<1>2. ~ Topless(S)
  <2>1. Cardinality(S) \in Nat
    BY FS_CardinalityType
  <2> QED BY <1>1, <2>1
<1> QED BY <1>2 DEF Max

-----------------------------------------------------------------------------
(* Types, and what is in hand.                                             *)

\* The subscription in hand is one of those left to visit.
LEMMA SubInHand ==
    ASSUME TypeOK, InHand,
           proc.pc \in Dispatching \cup {"claim"} \/ (At("visit") /\ proc.todo # {})
    PROVE  /\ proc.d \in Delivery /\ Sub \in proc.todo /\ Sub \in Routine
           /\ Pair \in Pairs /\ Pair[1] = proc.d /\ Pair[2] = Sub
<1>1. proc.todo \subseteq Routine /\ proc.todo # {} /\ proc.d \in Delivery
  BY DEF TypeOK, InHand, At, Working
<1>2. Sub \in proc.todo
  BY <1>1, LeastIn, WebhookAssumption DEF Sub
<1> QED BY <1>1, <1>2 DEF Pair, Pairs

\* The poll stays within the deliveries the relay listed.
LEMMA PollType ==
    ASSUME TypeOK, ListPage
    PROVE  poll' \in [after : Delivery \cup {None}, through : Delivery \cup {None},
                      left : SUBSET Delivery, full : BOOLEAN, owed : SUBSET Delivery]
<1> DEFINE first   == poll.after = None
           through == IF first THEN Max(pending \cup {None}) ELSE poll.through
           ids     == {d \in pending : poll.after < d /\ d <= through}
           page    == FirstPage(ids)
<1>1. /\ pending \subseteq Delivery /\ Delivery \subseteq Nat /\ IsFiniteSet(Delivery)
      /\ None \in Nat
      /\ poll \in [after : Delivery \cup {None}, through : Delivery \cup {None},
                   left : SUBSET Delivery, full : BOOLEAN, owed : SUBSET Delivery]
  BY WebhookAssumption DEF TypeOK, None
<1>2. through \in Delivery \cup {None}
  <2>1. /\ pending \cup {None} \subseteq Nat /\ pending \cup {None} # {}
        /\ IsFiniteSet(pending \cup {None})
    BY <1>1, FS_Subset, FS_AddElement
  <2>2. Max(pending \cup {None}) \in pending \cup {None}
    BY <2>1, GreatestIn
  <2> QED BY <1>1, <2>2
<1>3. page \subseteq Delivery /\ (page # {} => Max(page) \in Delivery)
  <2>1. page \subseteq Delivery
    BY <1>1 DEF FirstPage
  <2>2. page \subseteq Nat /\ IsFiniteSet(page)
    BY <1>1, <2>1, FS_Subset
  <2> QED BY <2>1, <2>2, GreatestIn
<1>4. poll' = [poll EXCEPT !.left = page, !.full = Cardinality(page) = PageSize,
                           !.through = through,
                           !.after = IF page = {} THEN @ ELSE Max(page),
                           !.owed = IF first THEN pending ELSE @]
  BY DEF ListPage, Page
<1> HIDE DEF first, through, ids, page
<1> QED BY <1>1, <1>2, <1>3, <1>4

\* The parts of the type invariant.
RelayTyped == pending \subseteq Delivery /\ acked \subseteq Delivery /\ ingested \subseteq Delivery
LogTyped ==
    /\ row \in [Delivery -> {"none", "failed", "accepted"}]
    /\ attempts \in [Delivery -> 0..MaxAttempts]
ClaimsTyped ==
    dispatch \in [Pairs -> {"none", "queued", "terminal", "failure", "ignored", "cancelled"}]
RunsTyped ==
    /\ run \in [Pairs -> {"none", "claimed", "linked", "ended", "failure"}]
    /\ prompted \in [Pairs -> Nat] /\ astray \subseteq Pairs
RoutinesTyped == routine \in [Routine -> {"enabled", "disabled", "deleted"}]
ProcTyped == proc \in [pc : Pcs, d : Delivery \cup {None}, todo : SUBSET Routine, err : BOOLEAN]
PollTyped ==
    poll \in [after : Delivery \cup {None}, through : Delivery \cup {None},
              left : SUBSET Delivery, full : BOOLEAN, owed : SUBSET Delivery]

LEMMA Parts ==
    /\ TypeOK <=> /\ RelayTyped /\ LogTyped /\ ClaimsTyped /\ RunsTyped /\ RoutinesTyped
                  /\ ProcTyped /\ PollTyped /\ faults \in 0..MaxFaults
    /\ TypeOK' <=> /\ RelayTyped' /\ LogTyped' /\ ClaimsTyped' /\ RunsTyped' /\ RoutinesTyped'
                   /\ ProcTyped' /\ PollTyped' /\ faults' \in 0..MaxFaults
BY DEF TypeOK, RelayTyped, LogTyped, ClaimsTyped, RunsTyped, RoutinesTyped, ProcTyped, PollTyped

\* A lemma for each part: the steps that change it.
LEMMA FaultsStep ==
    ASSUME TypeOK, [Next]_vars
    PROVE  faults' \in 0..MaxFaults
<1>1. faults' = faults \/ Fault
  BY DEF Next, Poller, Environment, Dispatch, vars, BeginPoll, ListPage, ListFails, PageDone, Skip,
         Unread, Accept, Ignore, SkipDeleted, Match, Interrupt, Claim, StartRun, LinkRun, SendPrompt,
         FailRun, Finish, FinishFails, Dispatched, Acknowledge, RecordError, Ingest, Expire,
         SettleRun, ToggleRoutine, DeleteRoutine, Crash, Sound
<1>2. faults \in 0..MaxFaults /\ MaxFaults \in Nat
  BY WebhookAssumption DEF TypeOK
<1> QED BY <1>1, <1>2 DEF Fault

LEMMA RelayStep ==
    ASSUME TypeOK, InHand, [Next]_vars
    PROVE  RelayTyped'
<1>0. RelayTyped
  BY Parts
<1>1. \/ UNCHANGED <<pending, ingested, acked>> \/ Acknowledge
      \/ \E d \in Delivery : Ingest(d) \/ Expire(d)
  BY DEF Next, Poller, Environment, Dispatch, vars, relay, BeginPoll, ListPage, ListFails, PageDone, Skip,
         Unread, Accept, Ignore, SkipDeleted, Match, Interrupt, Claim, StartRun, LinkRun, SendPrompt,
         FailRun, Finish, FinishFails, Dispatched, RecordError,
         SettleRun, ToggleRoutine, DeleteRoutine, Crash
<1>2. CASE Acknowledge
  <2>1. proc.d \in Delivery
    BY <1>2 DEF InHand, Working, Acknowledge, At
  <2> QED BY <1>0, <1>2, <2>1 DEF Acknowledge, RelayTyped
<1> QED BY <1>0, <1>1, <1>2 DEF Ingest, Expire, RelayTyped

LEMMA LogStep ==
    ASSUME TypeOK, InHand, [Next]_vars
    PROVE  LogTyped'
<1>0. LogTyped /\ MaxAttempts \in Nat
  BY Parts, WebhookAssumption
<1>1. UNCHANGED log \/ RecordError \/ \E d \in Delivery : Accept(d)
  BY DEF Next, Poller, Environment, Dispatch, vars, BeginPoll, ListPage, ListFails, PageDone, Skip,
         Unread, Ignore, SkipDeleted, Match, Interrupt, Claim, StartRun, LinkRun, SendPrompt,
         FailRun, Finish, FinishFails, Dispatched, Acknowledge, Ingest, Expire,
         SettleRun, ToggleRoutine, DeleteRoutine, Crash
<1>2. CASE RecordError
  <2>1. proc.d \in Delivery /\ attempts[proc.d] < MaxAttempts
    BY <1>2 DEF InHand, Working, RecordError, At
  <2>2. CASE UNCHANGED log
    BY <1>0, <2>2 DEF LogTyped, log
  <2>3. CASE /\ row' = [row EXCEPT ![proc.d] = IF @ = "none" THEN "failed" ELSE @]
             /\ CountAttempt(proc.d)
    <3>1. attempts[proc.d] + 1 \in 0..MaxAttempts
      BY <1>0, <2>1 DEF LogTyped
    <3> QED BY <1>0, <2>1, <2>3, <3>1 DEF LogTyped, CountAttempt
  <2> QED BY <1>2, <2>2, <2>3 DEF RecordError
<1>3. CASE \E d \in Delivery : Accept(d)
  BY <1>0, <1>3 DEF Accept, LogTyped
<1> QED BY <1>0, <1>1, <1>2, <1>3 DEF LogTyped, log

LEMMA ClaimsStep ==
    ASSUME TypeOK, [Next]_vars
    PROVE  ClaimsTyped'
<1>0. ClaimsTyped
  BY Parts
<1>1. dispatch' = dispatch \/ Ignore \/ Claim \/ Finish \/ \E r \in Edited : DeleteRoutine(r)
  BY DEF Next, Poller, Environment, Dispatch, vars, runs, BeginPoll, ListPage, ListFails, PageDone, Skip,
         Unread, Accept, SkipDeleted, Match, Interrupt, StartRun, LinkRun, SendPrompt,
         FailRun, FinishFails, Dispatched, Acknowledge, RecordError, Ingest, Expire,
         SettleRun, ToggleRoutine, Crash
<1>2. CASE Ignore \/ Claim \/ Finish
  BY <1>0, <1>2 DEF Ignore, Claim, Finish, Put, Outcome, ClaimsTyped
<1>3. CASE \E r \in Edited : DeleteRoutine(r)
  BY <1>0, <1>3 DEF DeleteRoutine, ClaimsTyped
<1> QED BY <1>0, <1>1, <1>2, <1>3 DEF ClaimsTyped

LEMMA RunsStep ==
    ASSUME TypeOK, InHand, [Next]_vars
    PROVE  RunsTyped'
<1>0. RunsTyped
  BY Parts
<1>1. \/ UNCHANGED <<run, prompted, astray>>
      \/ StartRun \/ LinkRun \/ SendPrompt \/ FailRun \/ FinishFails
      \/ Crash \/ \E c \in Pairs : SettleRun(c)
  BY DEF Next, Poller, Environment, Dispatch, vars, runs, BeginPoll, ListPage, ListFails, PageDone, Skip,
         Unread, Accept, Ignore, SkipDeleted, Match, Interrupt, Claim, Finish,
         Dispatched, Acknowledge, RecordError, Ingest, Expire, ToggleRoutine, DeleteRoutine
<1>2. CASE StartRun \/ LinkRun
  BY <1>0, <1>2 DEF StartRun, LinkRun, RunsTyped
<1>3. CASE SendPrompt
  <2>1. Pair \in Pairs
    BY <1>3, SubInHand DEF SendPrompt, At, Dispatching
  <2>2. prompted[Pair] + 1 \in Nat
    BY <1>0, <2>1 DEF RunsTyped
  <2> QED BY <1>0, <1>3, <2>2 DEF SendPrompt, RunsTyped
<1>4. CASE FailRun
  BY <1>0, <1>4, SubInHand DEF FailRun, RunsTyped, Running, At, Dispatching
<1>5. CASE FinishFails
  BY <1>0, <1>5, SubInHand DEF FinishFails, RunsTyped, At, Dispatching, runs
<1>6. CASE Crash
  BY <1>0, <1>6 DEF Crash, RunsTyped
<1>7. CASE \E c \in Pairs : SettleRun(c)
  BY <1>0, <1>7 DEF SettleRun, RunsTyped
<1> QED BY <1>0, <1>1, <1>2, <1>3, <1>4, <1>5, <1>6, <1>7 DEF RunsTyped

LEMMA RoutinesStep ==
    ASSUME TypeOK, [Next]_vars
    PROVE  RoutinesTyped'
<1>0. RoutinesTyped
  BY Parts
<1>1. routine' = routine \/ \E r \in Edited : ToggleRoutine(r) \/ DeleteRoutine(r)
  BY DEF Next, Poller, Environment, Dispatch, vars, BeginPoll, ListPage, ListFails, PageDone, Skip,
         Unread, Accept, Ignore, SkipDeleted, Match, Interrupt, Claim, StartRun, LinkRun, SendPrompt,
         FailRun, Finish, FinishFails, Dispatched, Acknowledge, RecordError, Ingest, Expire,
         SettleRun, Crash
<1> QED BY <1>0, <1>1 DEF ToggleRoutine, DeleteRoutine, RoutinesTyped

LEMMA PollStep ==
    ASSUME TypeOK, [Next]_vars
    PROVE  PollTyped'
<1>0. PollTyped
  BY Parts
<1>1. poll' = poll \/ EndPoll \/ ListPage \/ \E d \in Delivery : Reached(d)
  BY DEF Next, Poller, Environment, Dispatch, vars, BeginPoll, ListFails, PageDone, Skip,
         Unread, Accept, Ignore, SkipDeleted, Match, Interrupt, Claim, StartRun, LinkRun, SendPrompt,
         FailRun, Finish, FinishFails, Dispatched, Acknowledge, RecordError, Ingest, Expire,
         SettleRun, ToggleRoutine, DeleteRoutine, Crash
<1>2. CASE EndPoll
  BY <1>2 DEF EndPoll, NoPoll, PollTyped
<1>3. CASE ListPage
  BY <1>3, PollType DEF PollTyped
<1>4. CASE \E d \in Delivery : Reached(d)
  BY <1>0, <1>4 DEF Reached, PollTyped
<1> QED BY <1>0, <1>1, <1>2, <1>3, <1>4 DEF PollTyped

LEMMA ProcStep ==
    ASSUME TypeOK, InHand, [Next]_vars
    PROVE  ProcTyped'
<1>0. ProcTyped
  BY Parts
<1> USE DEF ProcTyped, Pcs
<1>1. CASE proc' = proc
  BY <1>0, <1>1
<1>2. CASE \E pc \in Pcs : Goto(pc)
  BY <1>0, <1>2 DEF Goto
<1>3. CASE EndPoll \/ EndDelivery \/ Abort
  <2>1. CASE EndPoll
    BY <2>1 DEF EndPoll, Idle, None
  <2>2. CASE EndDelivery
    BY <2>2 DEF EndDelivery, Idle, None
  <2>3. CASE Abort
    BY <1>0, <2>3 DEF Abort, Idle, None
  <2> QED BY <1>3, <2>1, <2>2, <2>3
<1>4. CASE Onward
  BY <1>0, <1>4 DEF Onward
<1>5. CASE \E err \in BOOLEAN : Finishing(err)
  BY <1>0, <1>5 DEF Finishing
<1>6. CASE \E d \in Delivery : Unread(d) \/ Accept(d)
  BY <1>0, <1>6 DEF Unread, Accept, Idle, None
<1> HIDE DEF ProcTyped, Pcs
<1>7. CASE Poller
  <2>1. CASE BeginPoll \/ ListPage \/ ListFails \/ PageDone \/ Acknowledge \/ RecordError
    BY <2>1, <1>1, <1>2, <1>3 DEF BeginPoll, ListPage, ListFails, PageDone, Acknowledge, RecordError, Pcs
  <2>2. CASE \E d \in Delivery : Skip(d)
    BY <2>2, <1>1 DEF Skip
  <2>3. CASE Dispatch
    BY <2>3, <1>1, <1>2, <1>3, <1>4, <1>5
    DEF Dispatch, Ignore, SkipDeleted, Match, Interrupt, Claim, StartRun, LinkRun, SendPrompt,
        FailRun, Finish, FinishFails, Dispatched, Pcs
  <2> QED BY <1>6, <1>7, <2>1, <2>2, <2>3 DEF Poller
<1>8. CASE Environment \/ UNCHANGED vars
  BY <1>8, <1>1, <1>3 DEF Environment, vars, Ingest, Expire, SettleRun, ToggleRoutine, DeleteRoutine, Crash
<1> QED BY <1>7, <1>8 DEF Next

LEMMA TypeStep == TypeOK /\ InHand /\ [Next]_vars => TypeOK'
BY Parts, FaultsStep, RelayStep, LogStep, ClaimsStep, RunsStep, RoutinesStep, PollStep, ProcStep

\* An attempt is counted only at the end of a delivery, and a delivery is taken
\* in hand only while one is left.
LEMMA HandStep ==
    ASSUME TypeOK, InHand, [Next]_vars
    PROVE  InHand'
<1>0. ProcTyped /\ LogTyped
  BY Parts
<1> USE DEF Working, Dispatching, At
<1>1. CASE RecordError \/ BeginPoll \/ ListPage \/ ListFails \/ PageDone \/ Crash
  <2>1. proc'.pc \in {"idle", "take", "list"}
    BY <1>0, <1>1 DEF RecordError, BeginPoll, ListPage, ListFails, PageDone, Crash, EndPoll,
                      EndDelivery, Goto, Idle, ProcTyped
  <2> QED BY <2>1 DEF InHand
<1>2. CASE \E d \in Delivery : Unread(d) \/ Accept(d)
  <2>1. PICK d \in Delivery : Unread(d) \/ Accept(d)
    BY <1>2
  <2>2. attempts' = attempts /\ attempts[d] < MaxAttempts
    BY <1>0, <2>1, WebhookAssumption DEF Unread, Accept, GivenUp, LogTyped, log
  <2>3. proc'.d = d /\ proc'.pc \in {"record", "visit"}
    BY <2>1 DEF Unread, Accept, Idle
  <2> QED BY <2>2, <2>3 DEF InHand
<1>3. CASE Dispatch \/ Acknowledge
  <2>1. attempts' = attempts
    BY <1>3 DEF Dispatch, Ignore, SkipDeleted, Match, Interrupt, Claim, StartRun, LinkRun, SendPrompt,
                FailRun, Finish, FinishFails, Dispatched, Acknowledge, log
  <2>2. proc.d \in Delivery /\ attempts[proc.d] < MaxAttempts
    BY <1>3 DEF InHand, Dispatch, Ignore, SkipDeleted, Match, Interrupt, Claim, StartRun, LinkRun, SendPrompt,
                FailRun, Finish, FinishFails, Dispatched, Acknowledge
  <2>3. CASE EndDelivery
    BY <2>3 DEF EndDelivery, Idle, InHand
  <2>4. CASE Abort
    BY <2>1, <2>2, <2>4 DEF Abort, Idle, InHand
  <2>5. CASE Onward
    <3>1. proc'.pc = "visit" /\ proc'.d = proc.d
      BY <1>0, <2>5 DEF Onward, ProcTyped
    <3> QED BY <2>1, <2>2, <3>1 DEF InHand
  <2>6. ASSUME proc'.todo = proc.todo, proc'.d = proc.d,
               \/ proc'.pc = "ack" /\ proc.todo = {}
               \/ proc'.pc \in Dispatching \cup {"claim"} /\ proc.todo # {}
        PROVE  InHand'
    BY <2>1, <2>2, <2>6 DEF InHand
  <2>7. CASE Dispatched \/ Match
    <3>1. /\ proc'.todo = proc.todo /\ proc'.d = proc.d
          /\ \/ proc'.pc = "ack" /\ proc.todo = {}
             \/ proc'.pc = "claim" /\ proc.todo # {}
      BY <1>0, <2>7 DEF Dispatched, Match, Goto, ProcTyped
    <3> QED BY <2>6, <3>1
  <2>8. CASE /\ Claim \/ StartRun \/ LinkRun \/ SendPrompt \/ FailRun
             /\ ~Onward
    <3>1. /\ proc'.todo = proc.todo /\ proc'.d = proc.d
          /\ proc'.pc \in Dispatching /\ proc.todo # {}
      BY <1>0, <2>8 DEF Claim, StartRun, LinkRun, SendPrompt, FailRun, Goto, Finishing, ProcTyped, InHand
    <3> QED BY <2>6, <3>1
  <2> QED BY <1>3, <2>3, <2>4, <2>5, <2>7, <2>8
      DEF Dispatch, Ignore, SkipDeleted, Interrupt, Finish, FinishFails, Acknowledge
<1>4. CASE UNCHANGED <<proc, attempts>>
  BY <1>4 DEF InHand
<1>5. \/ RecordError \/ BeginPoll \/ ListPage \/ ListFails \/ PageDone \/ Crash
      \/ (\E d \in Delivery : Unread(d) \/ Accept(d)) \/ Dispatch \/ Acknowledge
      \/ UNCHANGED <<proc, attempts>>
  BY DEF Next, Poller, Environment, vars, log, Skip, Ingest, Expire, SettleRun, ToggleRoutine, DeleteRoutine
<1> QED BY <1>1, <1>2, <1>3, <1>4, <1>5

-----------------------------------------------------------------------------
(* Claims, runs and prompts.                                               *)

\* The pair in hand stays the same while the subscription does.
LEMMA SamePair ==
    ASSUME proc'.d = proc.d, proc'.todo = proc.todo
    PROVE  Pair' = Pair
BY DEF Pair, Sub

\* Steps without a part in claims and runs happen with none in hand, or leave
\* the one in hand as it is.
LEMMA Bystanders ==
    ASSUME TypeOK, [Next]_vars,
           ~ (Ignore \/ Claim \/ StartRun \/ LinkRun \/ SendPrompt \/ FailRun \/ Finish \/ FinishFails),
           ~ (Crash \/ (\E c \in Pairs : SettleRun(c)) \/ (\E r \in Edited : DeleteRoutine(r)))
    PROVE  /\ UNCHANGED <<run, prompted, dispatch, astray>>
           /\ \/ UNCHANGED proc
              \/ proc.pc \notin Dispatching /\ proc'.pc \notin Dispatching
<1>1. ProcTyped
  BY Parts
<1>2. CASE \/ \E d \in Delivery : Ingest(d) \/ Expire(d) \/ Skip(d)
           \/ (\E r \in Edited : ToggleRoutine(r)) \/ UNCHANGED vars
  BY <1>2 DEF Ingest, Expire, Skip, ToggleRoutine, vars, runs
<1>3. CASE \/ BeginPoll \/ ListPage \/ ListFails \/ PageDone \/ SkipDeleted \/ Match \/ Interrupt
           \/ Dispatched \/ Acknowledge \/ RecordError
           \/ \E d \in Delivery : Unread(d) \/ Accept(d)
  <2>1. UNCHANGED <<run, prompted, dispatch, astray>>
    BY <1>3 DEF BeginPoll, ListPage, ListFails, PageDone, SkipDeleted, Match, Interrupt, Dispatched,
                Acknowledge, RecordError, Unread, Accept, runs
  <2>2. proc.pc \notin Dispatching
    BY <1>3 DEF BeginPoll, ListPage, ListFails, PageDone, SkipDeleted, Match, Interrupt, Dispatched,
                Acknowledge, RecordError, Unread, Accept, Reached, At, Dispatching
  <2>3. \/ EndPoll \/ EndDelivery \/ Abort \/ Onward
        \/ \E pc \in {"list", "take", "claim", "ack"} : Goto(pc)
        \/ \E d \in Delivery : Unread(d) \/ Accept(d)
    BY <1>3 DEF BeginPoll, ListPage, ListFails, PageDone, SkipDeleted, Match, Interrupt, Dispatched,
                Acknowledge, RecordError
  <2>4. ASSUME EndPoll \/ EndDelivery \/ Abort
        PROVE  proc'.pc \notin Dispatching
    <3>1. CASE EndPoll
      BY <3>1 DEF EndPoll, Idle, Dispatching
    <3>2. CASE EndDelivery
      BY <3>2 DEF EndDelivery, Idle, Dispatching
    <3>3. CASE Abort
      BY <3>3 DEF Abort, Idle, Dispatching
    <3> QED BY <2>4, <3>1, <3>2, <3>3
  <2>5. ASSUME NEW d \in Delivery, Unread(d) \/ Accept(d)
        PROVE  proc'.pc \notin Dispatching
    BY <2>5 DEF Unread, Accept, Idle, Dispatching
  <2>6. ASSUME Onward \/ \E pc \in {"list", "take", "claim", "ack"} : Goto(pc)
        PROVE  proc'.pc \notin Dispatching
    BY <1>1, <2>6 DEF Onward, Goto, ProcTyped, Dispatching
  <2> QED BY <2>1, <2>2, <2>3, <2>4, <2>5, <2>6
<1> QED BY <1>2, <1>3 DEF Next, Poller, Environment, Dispatch

LEMMA RunsKeptStep ==
    ASSUME TypeOK, InHand, RunsKept, [Next]_vars
    PROVE  RunsKept'
<1>0. ProcTyped /\ ClaimsTyped /\ RunsTyped
  BY Parts
<1> USE DEF RunsKept, RunInHand, RunsPrompted, ClaimsInHand, PromptedOnce, TerminalWasPrompted,
        Dispatching, At, Running
<1>1. CASE ~ \/ Ignore \/ Claim \/ StartRun \/ LinkRun \/ SendPrompt \/ FailRun \/ Finish \/ FinishFails
             \/ Crash \/ (\E c \in Pairs : SettleRun(c)) \/ (\E r \in Edited : DeleteRoutine(r))
  <2>1. CASE UNCHANGED proc
    BY <1>1, <2>1, Bystanders, SamePair
  <2>2. CASE proc.pc \notin Dispatching /\ proc'.pc \notin Dispatching
    BY <1>1, <2>2, Bystanders
  <2> QED BY <1>1, <2>1, <2>2, Bystanders
<1>2. CASE Ignore
  <2>1. proc.pc = "visit" /\ proc'.pc = "visit"
    BY <1>0, <1>2 DEF Ignore, Onward, ProcTyped
  <2> QED BY <1>0, <1>2, <2>1 DEF Ignore, Put, ClaimsTyped
<1>3. CASE Claim
  <2>1. CASE Onward /\ UNCHANGED dispatch
    <3>1. proc.pc = "claim" /\ proc'.pc = "visit"
      BY <1>0, <1>3, <2>1 DEF Claim, Onward, ProcTyped
    <3> QED BY <1>3, <2>1, <3>1 DEF Claim
  <2>2. CASE Put(Pair, "queued") /\ Goto("start")
    <3>1. proc.pc = "claim" /\ proc'.pc = "start" /\ Pair' = Pair
      BY <1>0, <1>3, <2>2, SamePair DEF Claim, Goto, ProcTyped
    <3> QED BY <1>0, <1>3, <2>2, <3>1 DEF Claim, Put, ClaimsTyped
  <2> QED BY <1>3, <2>1, <2>2 DEF Claim
<1>4. CASE StartRun
  <2>1. proc.pc = "start" /\ Pair' = Pair /\ proc'.pc \in {"link", "finish"}
    BY <1>0, <1>4, SamePair DEF StartRun, Finishing, Goto, ProcTyped
  <2>2. CASE run' = run /\ proc'.pc = "finish" /\ (proc'.err \/ run[Pair] # "none")
    BY <1>4, <2>1, <2>2 DEF StartRun
  <2>3. CASE run[Pair] = "none" /\ run' = [run EXCEPT ![Pair] = "claimed"] /\ proc'.pc = "link"
    BY <1>0, <1>4, <2>1, <2>3 DEF StartRun, RunsTyped
  <2> QED BY <1>0, <1>4, <2>2, <2>3 DEF StartRun, Finishing, Goto, Claimable, ProcTyped
<1>5. CASE LinkRun
  <2>1. proc.pc = "link" /\ Pair' = Pair
    BY <1>0, <1>5, SamePair DEF LinkRun, Goto, ProcTyped
  <2>2. \/ run' = [run EXCEPT ![Pair] = "linked"] /\ proc'.pc = "send"
        \/ run' = run /\ proc'.pc = "fail"
    BY <1>0, <1>5 DEF LinkRun, Goto, ProcTyped
  <2> QED BY <1>0, <1>5, <2>1, <2>2 DEF LinkRun, RunsTyped
<1>6. CASE SendPrompt
  <2>1. proc.pc = "send" /\ Pair' = Pair /\ proc'.pc \in {"finish", "fail"}
    BY <1>0, <1>6, SamePair DEF SendPrompt, Goto, Finishing, ProcTyped
  <2>2. CASE prompted' = prompted /\ proc'.pc = "fail"
    BY <1>0, <1>6, <2>1, <2>2 DEF SendPrompt
  <2>3. CASE prompted' = [prompted EXCEPT ![Pair] = @ + 1]
    <3>1. Pair \in Pairs
      BY <1>6, SubInHand DEF SendPrompt
    <3>2. prompted[Pair] = 0 /\ run[Pair] # "none"
      BY <2>1, <3>1
    <3>3. \A c \in Pairs : prompted'[c] = IF c = Pair THEN 1 ELSE prompted[c]
      BY <1>0, <2>3, <3>2 DEF RunsTyped
    <3> QED BY <1>6, <2>1, <3>1, <3>2, <3>3 DEF SendPrompt
  <2> QED BY <1>0, <1>6, <2>2, <2>3 DEF SendPrompt, Goto, ProcTyped
<1>7. CASE FailRun
  <2>1. proc.pc = "fail" /\ Pair' = Pair /\ proc'.pc = "finish"
    BY <1>0, <1>7, SamePair DEF FailRun, Finishing, ProcTyped
  <2>2. CASE /\ run' = [run EXCEPT ![Pair] = IF @ \in Running THEN "failure" ELSE @]
             /\ UNCHANGED astray
    <3>1. \A c \in Pairs : run'[c] = IF c = Pair /\ run[c] \in Running THEN "failure" ELSE run[c]
      BY <1>0, <2>2 DEF RunsTyped
    <3>2. UNCHANGED <<prompted, dispatch, astray>> /\ run[Pair] # "none" /\ Pair \in Pairs
      BY <1>7, <2>1, <2>2, SubInHand DEF FailRun
    <3> QED BY <2>1, <3>1, <3>2
  <2>3. CASE astray' = astray \cup {Pair} /\ run' = run /\ proc'.err
    BY <1>7, <2>1, <2>3 DEF FailRun
  <2> QED BY <1>0, <1>7, <2>2, <2>3 DEF FailRun, Finishing, ProcTyped
<1>8. CASE Finish
  <2>1. proc.pc = "finish" /\ proc'.pc = "visit"
    BY <1>0, <1>8 DEF Finish, Onward, ProcTyped
  <2>2. \A c \in Pairs : dispatch'[c] = IF c = Pair /\ dispatch[c] = "queued" THEN Outcome ELSE dispatch[c]
    BY <1>0, <1>8 DEF Finish, Put, ClaimsTyped
  <2>3. Pair \in Pairs
    BY <1>8, SubInHand DEF Finish
  <2>4. Outcome = "terminal" /\ dispatch[Pair] = "queued" => prompted[Pair] = 1 \/ Pair \in astray
    <3> SUFFICES ASSUME Outcome = "terminal", dispatch[Pair] = "queued", Pair \notin astray
                 PROVE  prompted[Pair] = 1
      OBVIOUS
    <3>1. run[Pair] \in {"claimed", "linked", "ended"}
      BY <1>0, <2>1, <2>3 DEF Outcome, RunsTyped
    <3>2. prompted[Pair] \in Nat /\ prompted[Pair] > 0 /\ prompted[Pair] <= 1
      BY <1>0, <2>1, <2>3, <3>1 DEF RunsTyped
    <3> QED BY <3>2
  <2> QED BY <1>8, <2>1, <2>2, <2>3, <2>4 DEF Finish, Outcome
<1>9. CASE FinishFails
  <2>1. proc.pc = "finish" /\ proc'.pc \in {"visit", "record"}
    BY <1>0, <1>9 DEF FinishFails, Onward, Abort, Idle, ProcTyped
  <2> QED BY <1>9, <2>1 DEF FinishFails, runs
<1>10. CASE Crash
  <2>1. proc'.pc = "idle"
    BY <1>10 DEF Crash, EndPoll, Idle
  <2>2. \A c \in Pairs : run'[c] = IF run[c] = "claimed" THEN "ended" ELSE run[c]
    BY <1>10 DEF Crash
  <2> QED BY <1>10, <2>1, <2>2 DEF Crash
<1>11. CASE \E c \in Pairs : SettleRun(c)
  <2>1. PICK c \in Pairs : SettleRun(c)
    BY <1>11
  <2>2. PICK s \in {"ended", "failure"} : run' = [run EXCEPT ![c] = s]
    BY <2>1 DEF SettleRun
  <2>3. Pair' = Pair
    BY <2>1, SamePair DEF SettleRun
  <2>4. prompted[c] \in Nat
    BY <1>0 DEF RunsTyped
  <2> QED BY <1>0, <2>1, <2>2, <2>3, <2>4 DEF SettleRun, RunsTyped
<1>12. CASE \E r \in Edited : DeleteRoutine(r)
  <2>1. PICK r \in Edited : DeleteRoutine(r)
    BY <1>12
  <2>2. Pair' = Pair
    BY <2>1, SamePair DEF DeleteRoutine
  <2>3. \A c \in Pairs : dispatch'[c] = IF c[2] = r /\ dispatch[c] = "queued" THEN "cancelled" ELSE dispatch[c]
    BY <2>1 DEF DeleteRoutine
  <2> QED BY <2>1, <2>2, <2>3 DEF DeleteRoutine
<1> QED BY <1>1, <1>2, <1>3, <1>4, <1>5, <1>6, <1>7, <1>8, <1>9, <1>10, <1>11, <1>12

-----------------------------------------------------------------------------
(* Results.                                                                *)

\* A result is lost only to a new claim of its pair.
LEMMA SettledStays ==
    ASSUME TypeOK, InHand, [Next]_vars, NEW c \in Pairs, Settled(c), ~ (Claim /\ c = Pair)
    PROVE  Settled(c)'
<1>0. ClaimsTyped /\ RoutinesTyped /\ c[2] \in Routine
  BY Parts DEF Pairs
<1>1. astray \subseteq astray'
  BY DEF Next, Poller, Environment, Dispatch, vars, runs, BeginPoll, ListPage, ListFails, PageDone, Skip,
         Unread, Accept, Ignore, SkipDeleted, Match, Interrupt, Claim, StartRun, LinkRun, SendPrompt,
         FailRun, Finish, FinishFails, Dispatched, Acknowledge, RecordError, Ingest, Expire,
         SettleRun, ToggleRoutine, DeleteRoutine, Crash
<1>2. CASE UNCHANGED <<dispatch, routine>>
  BY <1>1, <1>2 DEF Settled
<1>3. CASE Ignore \/ Claim \/ Finish
  <2>1. routine' = routine
    BY <1>3 DEF Ignore, Claim, Finish
  <2>2. CASE c = Pair
    BY <1>0, <1>1, <1>3, <2>1, <2>2 DEF Ignore, Finish, Put, Outcome, Settled, ClaimsTyped
  <2>3. CASE c # Pair
    BY <1>0, <1>1, <1>3, <2>1, <2>3 DEF Ignore, Claim, Finish, Put, Settled, ClaimsTyped
  <2> QED BY <2>2, <2>3
<1>4. CASE \E r \in Edited : ToggleRoutine(r) \/ DeleteRoutine(r)
  <2>1. routine[c[2]] = "deleted" => routine'[c[2]] = "deleted"
    BY <1>0, <1>4 DEF ToggleRoutine, DeleteRoutine, RoutinesTyped
  <2>2. dispatch'[c] = dispatch[c] \/ (dispatch[c] = "queued" /\ dispatch'[c] = "cancelled")
    BY <1>4 DEF ToggleRoutine, DeleteRoutine, runs
  <2> QED BY <1>1, <2>1, <2>2 DEF Settled
<1>5. \/ UNCHANGED <<dispatch, routine>> \/ Ignore \/ Claim \/ Finish
      \/ \E r \in Edited : ToggleRoutine(r) \/ DeleteRoutine(r)
  BY DEF Next, Poller, Environment, Dispatch, vars, runs, BeginPoll, ListPage, ListFails, PageDone, Skip,
         Unread, Accept, SkipDeleted, Match, Interrupt, StartRun, LinkRun, SendPrompt,
         FailRun, FinishFails, Dispatched, Acknowledge, RecordError, Ingest, Expire, SettleRun, Crash
<1> QED BY <1>2, <1>3, <1>4, <1>5

\* The steps that are done with a subscription.
Visit ==
    \/ Ignore \/ SkipDeleted \/ (Claim /\ UNCHANGED dispatch) \/ Finish
    \/ (FinishFails /\ Onward)

\* They leave its pair settled.
LEMMA VisitSettles ==
    ASSUME TypeOK, InHand, RunsKept, Visit, NEW c \in Pairs, c = Pair
    PROVE  Settled(c)'
<1>0. ClaimsTyped /\ RoutinesTyped
  BY Parts
<1>1. dispatch[c] = "queued" => c \in astray \/ proc.pc \in Dispatching
  BY DEF RunsKept, ClaimsInHand
<1>2. CASE Ignore
  BY <1>0, <1>1, <1>2 DEF Ignore, Put, Settled, ClaimsTyped, Dispatching, At
<1>3. CASE SkipDeleted
  <2>1. c[2] = Sub
    BY DEF Pair
  <2> QED BY <1>0, <1>1, <1>3, <2>1 DEF SkipDeleted, runs, Settled, ClaimsTyped, Dispatching, At
<1>4. CASE Claim /\ UNCHANGED dispatch
  <2>1. proc.pc = "claim" /\ dispatch[c] \notin {"none", "failure"}
    BY <1>0, <1>4 DEF Claim, Put, At, ClaimsTyped
  <2> QED BY <1>0, <1>1, <1>4, <2>1 DEF Claim, Settled, ClaimsTyped, Dispatching
<1>5. CASE Finish
  <2>1. proc.pc = "finish" /\ dispatch[c] \in {"queued", "cancelled"}
    BY <1>5 DEF Finish, At, RunsKept, ClaimsInHand, Dispatching
  <2> QED BY <1>0, <1>5, <2>1 DEF Finish, Put, Outcome, Settled, ClaimsTyped
<1>6. CASE FinishFails
  BY <1>6 DEF FinishFails, Settled
<1> QED BY <1>2, <1>3, <1>4, <1>5, <1>6 DEF Visit

\* How a delivery is in hand after a step.
LEMMA Visits ==
    ASSUME TypeOK, InHand, [Next]_vars
    PROVE  \/ proc'.pc \notin Visiting
           \/ \E d \in Delivery : Accept(d)
           \/ Visit /\ Onward /\ proc.pc \in Visiting /\ acked' = acked
           \/ /\ proc'.d = proc.d /\ proc'.todo = proc.todo
              /\ proc.pc \in Visiting /\ acked' = acked
<1>0. ProcTyped
  BY Parts
<1> USE DEF Visiting, Dispatching, At
<1>1. CASE \/ RecordError \/ BeginPoll \/ ListPage \/ ListFails \/ PageDone \/ Acknowledge \/ Interrupt
           \/ Crash
  <2>1. \/ EndPoll \/ EndDelivery \/ Abort \/ \E pc \in {"list", "take"} : Goto(pc)
    BY <1>1 DEF RecordError, BeginPoll, ListPage, ListFails, PageDone, Acknowledge, Interrupt, Crash
  <2>2. CASE EndPoll
    BY <2>2 DEF EndPoll, Idle
  <2>3. CASE EndDelivery
    BY <2>3 DEF EndDelivery, Idle
  <2>4. CASE Abort
    BY <2>4 DEF Abort, Idle
  <2>5. CASE \E pc \in {"list", "take"} : Goto(pc)
    BY <1>0, <2>5 DEF Goto, ProcTyped
  <2> QED BY <2>1, <2>2, <2>3, <2>4, <2>5
<1>2. CASE \E d \in Delivery : Unread(d)
  BY <1>2 DEF Unread, Idle
<1>3. CASE Ignore \/ SkipDeleted \/ Finish
  BY <1>3 DEF Ignore, SkipDeleted, Finish, Visit
<1>4. CASE Match \/ Dispatched \/ StartRun \/ LinkRun \/ SendPrompt \/ FailRun
  BY <1>0, <1>4 DEF Match, Dispatched, StartRun, LinkRun, SendPrompt, FailRun, Goto, Finishing, ProcTyped
<1>5. CASE Claim
  BY <1>0, <1>5 DEF Claim, Goto, ProcTyped, Visit
<1>6. CASE FinishFails
  <2>1. CASE Onward
    BY <1>6, <2>1 DEF FinishFails, Visit
  <2>2. CASE Abort
    BY <2>2 DEF Abort, Idle
  <2> QED BY <1>6, <2>1, <2>2 DEF FinishFails
<1>7. CASE UNCHANGED <<proc, acked>>
  BY <1>7
<1> QED BY <1>1, <1>2, <1>3, <1>4, <1>5, <1>6, <1>7
    DEF Next, Poller, Environment, Dispatch, vars, Skip, Ingest, Expire, SettleRun, ToggleRoutine, DeleteRoutine

LEMMA GoneStep ==
    ASSUME TypeOK, Gone, VisitedSettled, [Next]_vars
    PROVE  Gone' /\ acked \subseteq acked' /\ ingested \subseteq ingested'
<1>1. CASE UNCHANGED <<pending, ingested, acked>>
  BY <1>1 DEF Gone
<1>2. CASE Acknowledge
  <2>1. proc.d \in ingested
    BY <1>2 DEF Acknowledge, At, VisitedSettled, Visiting
  <2> QED BY <1>2, <2>1 DEF Acknowledge, Gone
<1>3. CASE \E d \in Delivery : Ingest(d) \/ Expire(d)
  BY <1>3 DEF Ingest, Expire, Gone
<1> QED BY <1>1, <1>2, <1>3
    DEF Next, Poller, Environment, Dispatch, vars, relay, BeginPoll, ListPage, ListFails, PageDone, Skip,
        Unread, Accept, Ignore, SkipDeleted, Match, Interrupt, Claim, StartRun, LinkRun, SendPrompt,
        FailRun, Finish, FinishFails, Dispatched, RecordError, SettleRun, ToggleRoutine, DeleteRoutine, Crash

LEMMA VisitedStep ==
    ASSUME TypeOK, InHand, RunsKept, Gone, VisitedSettled, [Next]_vars
    PROVE  VisitedSettled'
<1>0. ProcTyped
  BY Parts
<1>1. CASE proc'.pc \notin Visiting
  BY <1>1 DEF VisitedSettled
<1>2. CASE \E d \in Delivery : Accept(d)
  BY <1>2 DEF Accept, Idle, VisitedSettled, Gone, relay
<1>3. CASE Visit /\ Onward /\ proc.pc \in Visiting /\ acked' = acked
  <2>1. proc'.d = proc.d /\ proc'.todo = proc.todo \ {Sub} /\ proc.d \in ingested' \ acked'
    BY <1>0, <1>3, GoneStep DEF Onward, ProcTyped, VisitedSettled
  <2>2. Pair = <<proc.d, Sub>> /\ Pair \in Pairs /\ Sub \in proc.todo
    <3>1. proc.pc \in Dispatching \cup {"claim"} \/ (At("visit") /\ proc.todo # {})
      BY <1>3 DEF Visit, Ignore, SkipDeleted, Claim, Finish, FinishFails, At, Dispatching
    <3> QED BY <3>1, SubInHand DEF Pair
  <2>3. ASSUME NEW r \in Routine \ proc'.todo, r \in Wants[proc.d]
        PROVE  Settled(<<proc.d, r>>)'
    <3> DEFINE c == <<proc.d, r>>
    <3> SUFFICES ASSUME NEW e \in Pairs, e = c PROVE Settled(e)'
      BY <2>1, <2>2 DEF Pairs
    <3>1. CASE r = Sub
      BY <1>3, <2>2, <3>1, VisitSettles
    <3>2. CASE r # Sub
      <4>1. Settled(e) /\ e # Pair
        BY <1>3, <2>1, <2>2, <2>3, <3>2 DEF VisitedSettled
      <4> QED BY <4>1, SettledStays
    <3> QED BY <3>1, <3>2
  <2> QED BY <2>1, <2>3 DEF VisitedSettled
<1>4. CASE /\ proc'.d = proc.d /\ proc'.todo = proc.todo
           /\ proc.pc \in Visiting /\ acked' = acked
  <2>1. ASSUME NEW r \in Routine \ proc.todo, r \in Wants[proc.d]
        PROVE  Settled(<<proc.d, r>>)'
    <3> SUFFICES ASSUME NEW e \in Pairs, e = <<proc.d, r>> PROVE Settled(e)'
      BY <1>4 DEF Pairs, InHand, Visiting, Working
    <3>1. Settled(e)
      BY <1>4, <2>1 DEF VisitedSettled
    <3>2. ~ (Claim /\ e = Pair)
      BY <2>1, SubInHand DEF Claim, At, Pair
    <3> QED BY <3>1, <3>2, SettledStays
  <2> QED BY <1>4, <2>1, GoneStep DEF VisitedSettled
<1> QED BY <1>1, <1>2, <1>3, <1>4, Visits

LEMMA AcknowledgedStep ==
    ASSUME TypeOK, InHand, Gone, VisitedSettled, AcknowledgedIsSettled, [Next]_vars
    PROVE  AcknowledgedIsSettled'
<1> SUFFICES ASSUME NEW c \in Pairs, c[1] \in acked', c[2] \in Wants[c[1]]
             PROVE  Settled(c)'
  BY DEF AcknowledgedIsSettled, Settled
<1>1. CASE c[1] \in acked
  <2>1. Settled(c)
    BY <1>1 DEF AcknowledgedIsSettled, Settled
  <2>2. ~ (Claim /\ c = Pair)
    BY <1>1 DEF Claim, At, Pair, VisitedSettled, Visiting
  <2> QED BY <2>1, <2>2, SettledStays
<1>2. CASE c[1] \notin acked
  <2>1. Acknowledge /\ c[1] = proc.d
    BY <1>2 DEF Next, Poller, Environment, Dispatch, vars, BeginPoll, ListPage, ListFails, PageDone, Skip,
         Unread, Accept, Ignore, SkipDeleted, Match, Interrupt, Claim, StartRun, LinkRun, SendPrompt,
         FailRun, Finish, FinishFails, Dispatched, Acknowledge, RecordError, Ingest, Expire,
         SettleRun, ToggleRoutine, DeleteRoutine, Crash
  <2>2. proc.pc = "ack" /\ proc.todo = {} /\ c = <<proc.d, c[2]>> /\ c[2] \in Routine
    BY <2>1 DEF Acknowledge, At, InHand, Pairs
  <2>3. Settled(<<proc.d, c[2]>>)
    BY <2>1, <2>2 DEF VisitedSettled, Visiting
  <2>4. ~ Claim
    BY <2>2 DEF Claim, At
  <2> QED BY <2>2, <2>3, <2>4, SettledStays
<1> QED BY <1>1, <1>2

-----------------------------------------------------------------------------
(* Pages.                                                                  *)

\* What a page leaves out is beyond it, and the page is full.
LEMMA PageCuts ==
    ASSUME NEW ids, ids \subseteq Delivery, NEW d \in ids, d \notin FirstPage(ids)
    PROVE  /\ FirstPage(ids) # {} /\ Cardinality(FirstPage(ids)) = PageSize
           /\ Max(FirstPage(ids)) < d
<1> DEFINE page == FirstPage(ids)
           UpTo(x) == {e \in ids : e <= x}
<1>0. PageSize \in Nat /\ PageSize >= 1 /\ ids \subseteq Nat /\ IsFiniteSet(ids)
  <2>1. PageSize \in Nat \ {0}
    BY WebhookAssumption
  <2>2. ids \subseteq Nat
    BY WebhookAssumption
  <2>3. IsFiniteSet(ids)
    BY WebhookAssumption, FS_Subset
  <2> QED BY <2>1, <2>2, <2>3
<1>1. \A S \in SUBSET ids : IsFiniteSet(S) /\ Cardinality(S) \in Nat
  BY <1>0, FS_Subset, FS_CardinalityType
<1>2. page \subseteq ids /\ \A x \in ids : x \in page <=> Cardinality(UpTo(x)) <= PageSize
  BY DEF FirstPage
<1> HIDE DEF page
<1>3. ASSUME NEW x \in ids, NEW y \in ids, x <= y PROVE Cardinality(UpTo(x)) <= Cardinality(UpTo(y))
  <2>1. UpTo(x) \subseteq UpTo(y)
    <3> SUFFICES ASSUME NEW e \in ids, e <= x PROVE e <= y
      OBVIOUS
    <3>1. e \in Nat /\ x \in Nat /\ y \in Nat
      BY <1>0
    <3> QED BY <1>3, <3>1
  <2>2. UpTo(y) \subseteq ids
    OBVIOUS
  <2> QED BY <1>1, <2>1, <2>2, FS_Subset
<1>4. \A x \in page, y \in ids \ page : x < y
  <2> TAKE x \in page, y \in ids \ page
  <2>1. x \in Nat /\ y \in Nat /\ x \in ids
    BY <1>0, <1>2
  <2>2. ~(y <= x)
    <3> SUFFICES ASSUME y <= x PROVE FALSE
      OBVIOUS
    <3>1. Cardinality(UpTo(y)) <= Cardinality(UpTo(x))
      BY <1>3, <2>1
    <3>2. Cardinality(UpTo(x)) <= PageSize /\ ~(Cardinality(UpTo(y)) <= PageSize)
      BY <1>2, <2>1
    <3>3. Cardinality(UpTo(x)) \in Nat /\ Cardinality(UpTo(y)) \in Nat
      BY <1>1
    <3> HIDE DEF UpTo
    <3> QED BY <1>0, <3>1, <3>2, <3>3
  <2> QED BY <2>1, <2>2
<1>5. d \in ids \ page
  BY DEF page
<1>6. PICK x \in ids \ page : \A y \in ids \ page : x <= y
  <2>1. ids \ page \subseteq Nat /\ ids \ page # {}
    BY <1>0, <1>5
  <2> QED BY <2>1, Least
<1>7. UpTo(x) = page \cup {x}
  <2>1. ASSUME NEW e \in ids, e <= x PROVE e \in page \cup {x}
    <3>1. e \in Nat /\ x \in Nat
      BY <1>0
    <3>2. CASE e \notin page
      <4>1. x <= e
        BY <1>6, <3>2
      <4> QED BY <2>1, <3>1, <4>1
    <3> QED BY <3>2
  <2>2. ASSUME NEW e \in page PROVE e \in ids /\ e <= x
    <3>1. e \in Nat /\ x \in Nat /\ e < x /\ e \in ids
      BY <1>0, <1>2, <1>4
    <3> QED BY <3>1
  <2>3. x <= x
    BY <1>0
  <2> QED BY <2>1, <2>2, <2>3
<1>8. Cardinality(page) \in Nat /\ Cardinality(UpTo(x)) = Cardinality(page) + 1
  <2>1. IsFiniteSet(page) /\ x \notin page /\ Cardinality(page) \in Nat
    BY <1>1, <1>2
  <2>2. Cardinality(page \cup {x}) = Cardinality(page) + 1
    BY <2>1, FS_AddElement
  <2> HIDE DEF UpTo
  <2> QED BY <1>7, <2>1, <2>2
<1>9. Cardinality(page) >= PageSize
  <2>1. ~(Cardinality(UpTo(x)) <= PageSize)
    BY <1>2
  <2> HIDE DEF UpTo
  <2> QED BY <1>0, <1>8, <2>1
<1>10. page # {}
  <2>1. page = {} => Cardinality(page) = 0
    BY FS_EmptySet
  <2> QED BY <1>0, <1>9, <2>1
<1>11. Max(page) \in page /\ \A y \in page : Max(page) >= y
  <2>1. page \subseteq Nat /\ IsFiniteSet(page)
    BY <1>0, <1>1, <1>2
  <2> QED BY <1>10, <2>1, GreatestIn
<1>12. Cardinality(page) <= PageSize
  <2>1. page \subseteq UpTo(Max(page))
    <3> SUFFICES ASSUME NEW e \in page PROVE e \in ids /\ e <= Max(page)
      OBVIOUS
    <3>1. e \in ids /\ e \in Nat /\ Max(page) \in Nat /\ Max(page) >= e
      BY <1>0, <1>2, <1>11
    <3> QED BY <3>1
  <2>2. /\ IsFiniteSet(UpTo(Max(page))) /\ Cardinality(UpTo(Max(page))) \in Nat
        /\ Cardinality(UpTo(Max(page))) <= PageSize
    BY <1>1, <1>2, <1>11
  <2>3. Cardinality(page) <= Cardinality(UpTo(Max(page)))
    BY <2>1, <2>2, FS_Subset
  <2> HIDE DEF UpTo
  <2> QED BY <1>0, <1>8, <2>2, <2>3
<1>13. Cardinality(page) = PageSize
  BY <1>0, <1>8, <1>9, <1>12
<1>14. Max(page) < d
  BY <1>4, <1>5, <1>11
<1> QED BY <1>10, <1>13, <1>14 DEF page

\* A page of the list keeps what is owed in reach, whatever was gained or lost.
LEMMA ListCovers ==
    ASSUME TypeOK, Gone, PollCovers, ListPage
    PROVE  PollCovers'
<1> DEFINE first   == poll.after = None
           through == IF first THEN Max(pending \cup {None}) ELSE poll.through
           ids     == {d \in pending : poll.after < d /\ d <= through}
           page    == FirstPage(ids)
<1>1. /\ pending \subseteq Delivery /\ Delivery \subseteq Nat /\ IsFiniteSet(Delivery)
      /\ \A d \in Delivery : None < d
      /\ poll \in [after : Delivery \cup {None}, through : Delivery \cup {None},
                   left : SUBSET Delivery, full : BOOLEAN, owed : SUBSET Delivery]
  BY WebhookAssumption DEF TypeOK, None
<1>2. poll' = [poll EXCEPT !.left = page, !.full = Cardinality(page) = PageSize,
                           !.through = through,
                           !.after = IF page = {} THEN @ ELSE Max(page),
                           !.owed = IF first THEN pending ELSE @]
  BY DEF ListPage, Page
<1>3. /\ proc.pc = "list" /\ proc'.pc = "take" /\ UNCHANGED <<pending, ingested>>
  BY DEF ListPage, At, Goto, relay, TypeOK
<1>4. ASSUME NEW d \in pending, first PROVE poll.after < d /\ d <= through
  <2>1. pending \cup {None} \subseteq Nat /\ pending \cup {None} # {}
    BY <1>1 DEF None
  <2>2. IsFiniteSet(pending)
    BY <1>1, FS_Subset
  <2>3. IsFiniteSet(pending \cup {None})
    BY <2>2, FS_AddElement
  <2>4. Max(pending \cup {None}) \in Nat /\ Max(pending \cup {None}) >= d /\ d \in Nat
    BY <1>1, <2>1, <2>3, GreatestIn
  <2>5. poll.after < d
    BY <1>1, <1>4
  <2> QED BY <1>4, <2>4, <2>5
<1>5. \A d \in poll'.owed \cap pending : d \in ids
  <2> SUFFICES ASSUME NEW d \in pending, d \in poll'.owed PROVE d \in ids
    OBVIOUS
  <2>1. CASE first
    BY <1>4, <2>1
  <2>2. CASE ~first
    <3>1. d \in poll.owed
      BY <1>1, <1>2, <2>2
    <3>2. poll.left = {}
      BY <1>3 DEF PollCovers
    <3>3. poll.after < d /\ d <= poll.through
      BY <3>1, <3>2 DEF PollCovers
    <3> QED BY <2>2, <3>3
  <2> QED BY <2>1, <2>2
<1>6. poll'.owed \subseteq ingested
  <2>1. poll'.owed \in {poll.owed, pending}
    BY <1>1, <1>2
  <2> QED BY <2>1 DEF Gone, PollCovers
<1>7. ids \subseteq Delivery
  BY <1>1
<1> HIDE DEF first, through, ids
<1>8. ASSUME NEW d \in poll'.owed \cap pending, d \notin poll'.left
      PROVE  poll'.full /\ poll'.after < d /\ d <= poll'.through
  <2>1. d \in ids /\ d \notin page
    BY <1>1, <1>2, <1>5, <1>8
  <2>2. page # {} /\ Cardinality(page) = PageSize /\ Max(page) < d
    BY <1>7, <2>1, PageCuts
  <2>3. d <= through
    BY <2>1 DEF ids
  <2> HIDE DEF page
  <2> QED BY <1>1, <1>2, <2>2, <2>3
<1> QED BY <1>3, <1>6, <1>8 DEF PollCovers

\* What a step does to the poll and to where the poller stands in it.
LEMMA PollSteps ==
    ASSUME TypeOK, [Next]_vars
    PROVE  \/ ListPage \/ EndPoll
           \/ \E d \in Delivery : Reached(d) /\ proc'.pc \notin {"idle", "list"}
           \/ poll' = poll /\ proc.pc = "idle"
           \/ poll' = poll /\ poll.left = {}
           \/ poll' = poll /\ (proc' = proc \/ proc'.pc \notin {"idle", "list"})
<1>0. ProcTyped
  BY Parts
<1> USE DEF At
<1>1. CASE BeginPoll \/ PageDone
  BY <1>1 DEF BeginPoll, PageDone
<1>2. CASE ListFails \/ Crash
  BY <1>2 DEF ListFails, Crash
<1>3. CASE \E d \in Delivery : Skip(d) \/ Unread(d) \/ Accept(d)
  <2>1. PICK d \in Delivery : Skip(d) \/ Unread(d) \/ Accept(d)
    BY <1>3
  <2>2. Reached(d)
    BY <2>1 DEF Skip, Unread, Accept
  <2>3. CASE Skip(d)
    BY <2>2, <2>3 DEF Skip, Reached
  <2>4. CASE Unread(d) \/ Accept(d)
    BY <2>2, <2>4 DEF Unread, Accept, Idle
  <2> QED BY <2>1, <2>3, <2>4
<1>4. CASE Dispatch \/ Acknowledge \/ RecordError
  <2>1. \/ EndPoll
        \/ /\ poll' = poll
           /\ \/ EndDelivery \/ Abort \/ Onward \/ \E err \in BOOLEAN : Finishing(err)
              \/ \E pc \in {"claim", "start", "link", "send", "fail", "ack"} : Goto(pc)
    BY <1>4 DEF Dispatch, Ignore, SkipDeleted, Match, Interrupt, Claim, StartRun, LinkRun, SendPrompt,
         FailRun, Finish, FinishFails, Dispatched, Acknowledge, RecordError
  <2>2. ASSUME EndDelivery \/ Abort
        PROVE  proc'.pc \notin {"idle", "list"}
    <3>1. CASE EndDelivery
      BY <3>1 DEF EndDelivery, Idle
    <3>2. CASE Abort
      BY <3>2 DEF Abort, Idle
    <3> QED BY <2>2, <3>1, <3>2
  <2>3. ASSUME Onward \/ \E err \in BOOLEAN : Finishing(err)
        PROVE  proc'.pc \notin {"idle", "list"}
    BY <1>0, <2>3 DEF Onward, Finishing, ProcTyped
  <2>4. ASSUME \E pc \in {"claim", "start", "link", "send", "fail", "ack"} : Goto(pc)
        PROVE  proc'.pc \notin {"idle", "list"}
    BY <1>0, <2>4 DEF Goto, ProcTyped
  <2> QED BY <2>1, <2>2, <2>3, <2>4
<1>5. CASE UNCHANGED <<proc, poll>>
  BY <1>5
<1> QED BY <1>1, <1>2, <1>3, <1>4, <1>5
    DEF Next, Poller, Environment, vars, Ingest, Expire, SettleRun, ToggleRoutine, DeleteRoutine

\* The relay gains no delivery that the poll could owe.
LEMMA OwesNoMore ==
    ASSUME TypeOK, [Next]_vars
    PROVE  pending' \cap ingested \subseteq pending
<1>1. \/ pending' = pending \/ Acknowledge
      \/ \E d \in Delivery : Ingest(d) \/ Expire(d)
  BY DEF Next, Poller, Environment, Dispatch, vars, relay, BeginPoll, ListPage, ListFails, PageDone, Skip,
         Unread, Accept, Ignore, SkipDeleted, Match, Interrupt, Claim, StartRun, LinkRun, SendPrompt,
         FailRun, Finish, FinishFails, Dispatched, RecordError,
         SettleRun, ToggleRoutine, DeleteRoutine, Crash
<1> QED BY <1>1 DEF Acknowledge, Ingest, Expire

LEMMA CoversStep ==
    ASSUME TypeOK, Gone, VisitedSettled, PollCovers, [Next]_vars
    PROVE  PollCovers'
<1>1. PollTyped /\ ingested \subseteq ingested' /\ pending' \cap ingested \subseteq pending
  BY Parts, GoneStep, OwesNoMore
<1>2. CASE ListPage
  BY <1>2, ListCovers
<1>3. CASE EndPoll
  BY <1>3 DEF EndPoll, NoPoll, PollCovers
<1>4. CASE \E d \in Delivery : Reached(d) /\ proc'.pc \notin {"idle", "list"}
  <2>1. PICK d \in Delivery : Reached(d) /\ proc'.pc \notin {"idle", "list"}
    BY <1>4
  <2>2. /\ poll'.left = poll.left \ {d} /\ poll'.owed = poll.owed \ {d}
        /\ poll'.full = poll.full /\ poll'.after = poll.after /\ poll'.through = poll.through
    BY <1>1, <2>1 DEF Reached, PollTyped
  <2> QED BY <1>1, <2>1, <2>2 DEF PollCovers
<1>5. CASE /\ poll' = poll
           /\ \/ proc.pc = "idle" \/ poll.left = {} \/ proc' = proc
              \/ proc'.pc \notin {"idle", "list"}
  BY <1>1, <1>5 DEF PollCovers
<1> QED BY <1>2, <1>3, <1>4, <1>5, PollSteps

-----------------------------------------------------------------------------
(* The theorems.                                                           *)

LEMMA InitIInv == Init => IInv
<1> SUFFICES ASSUME Init PROVE IInv
  OBVIOUS
<1>1. proc.pc = "idle"
  BY DEF Init, Idle
<1>2. TypeOK
  BY WebhookAssumption DEF Init, TypeOK, Idle, NoPoll, None, Pcs
<1>3. \A c \in Pairs : dispatch[c] = "none" /\ run[c] = "none" /\ prompted[c] = 0
  BY DEF Init
<1>4. RunsKept
  BY <1>1, <1>3 DEF RunsKept, RunInHand, RunsPrompted, ClaimsInHand, PromptedOnce, TerminalWasPrompted,
                    Dispatching, Running
<1>5. PollCovers
  BY DEF Init, Idle, NoPoll, PollCovers
<1> QED BY <1>1, <1>2, <1>4, <1>5
    DEF IInv, InHand, Gone, VisitedSettled, AcknowledgedIsSettled, Working, Visiting, Dispatching, Init

LEMMA NextIInv == IInv /\ [Next]_vars => IInv'
BY TypeStep, HandStep, RunsKeptStep, GoneStep, VisitedStep, AcknowledgedStep, CoversStep DEF IInv

\* The invariant the others follow from: what the poller has in hand explains
\* every open claim and every run that was not prompted yet.
THEOREM WebhookInvariant == Spec => []IInv
BY InitIInv, NextIInv, PTL DEF Spec

\* Rows, runs and the process of the poller stay in their states, and no
\* delivery is tried more than webhookMaxAttempts times.
THEOREM WebhookTypes == Spec => []TypeOK
<1>1. IInv => TypeOK
  BY DEF IInv
<1> QED BY <1>1, WebhookInvariant, PTL

\* However often a delivery is retried, dispatched again or cut off by a
\* crash, the platform accepts one prompt for each routine at most.
THEOREM WebhookPromptsOnce == Spec => []PromptedOnce
<1>1. IInv => PromptedOnce
  BY DEF IInv, RunsKept
<1> QED BY <1>1, WebhookInvariant, PTL

\* A dispatch that the log shows as started was prompted, unless its run was
\* settled before its prompt or its failure could not be written.
THEOREM WebhookTerminal == Spec => []TerminalWasPrompted
<1>1. IInv => TerminalWasPrompted
  BY DEF IInv, RunsKept
<1> QED BY <1>1, WebhookInvariant, PTL

\* The owner acknowledges a delivery only once every routine it matches has a
\* result, or lost it to a crash or a failed write.
THEOREM WebhookSettlesFirst == Spec => []AcknowledgedIsSettled
<1>1. IInv => AcknowledgedIsSettled
  BY DEF IInv
<1> QED BY <1>1, WebhookInvariant, PTL

\* A poll whose page is used up has reached everything that was pending at its
\* first page, or goes on with a cursor that lies before it.
THEOREM WebhookPollMissesNone == Spec => []PollMissesNone
<1>1. IInv => PollMissesNone
  BY DEF IInv, PollCovers, PollMissesNone
<1> QED BY <1>1, WebhookInvariant, PTL

=============================================================================
