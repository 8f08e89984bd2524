----------------------------- MODULE FactoryProofs -----------------------------
(***************************************************************************)
(* What the transactions of the Factory keep, for any Epics, Issues and    *)
(* Attempts, any capacity and retry budget and any number of faults:       *)
(* nobody loses work or shares it, one Attempt writes in an Epic, and a    *)
(* session that yielded is quiet.                                          *)
(***************************************************************************)
EXTENDS Factory, FiniteSetTheorems, WellFoundedInduction, TLAPS

-----------------------------------------------------------------------------
(* Types.                                                                  *)

RowsTyped ==
    /\ epicStatus \in [Epic -> {"open", "paused", "closed"}]
    /\ status \in [Issue -> {"open", "in_progress", "retry_wait", "deferred"} \cup Closed]
    /\ retries \in [Issue -> 0..RetryBudget + 1]
    /\ reason \in [Issue -> Message \cup {""}]
    /\ phase \in [Attempt -> Live \cup Closed \cup {"none"}]
    /\ work \in [Attempt -> Issue \cup {None}]

GatesTyped ==
    /\ recovery \in [Attempt -> Paused \cup {"none", "resume_pending"}]
    /\ authority \in [Attempt -> {"none", "open", "pending"}]
    /\ project \in [Attempt -> {"none", "open", "reject_pending"}]
    /\ marked \in [Attempt -> BOOLEAN]

PlatformTyped ==
    /\ session \in [Attempt -> {"none", "idle", "busy", "gone"}]
    /\ told \in [Attempt -> 0..1]

\* What the steps of a pass visit and hold.
PassesOf(pcs, L, C) == [pc : pcs, left : SUBSET L, kept : SUBSET Attempt, cur : C]
Launching == {"launch", "activate", "prompt", "answer"}
PassTyped ==
    disp \in PassesOf({"start", "idle", "reconcile", "watch", "resume"}, Attempt, Attempt \cup {None})
             \cup PassesOf({"probe"}, Attempt, Attempt)
             \cup PassesOf({"handoff"}, Issue, {None})
             \cup PassesOf({"claim"}, Issue, Issue)
             \cup PassesOf(Launching, Issue, Attempt)

OthersTyped ==
    /\ finishing \in Attempt \cup {None}
    /\ rec \in [pc : {"free", "deliver", "complete", "stop"}, of : Attempt \cup {None}]
    /\ rec.pc # "free" => rec.of # None
    /\ stopping \in Epic \cup {NoEpic}
    /\ blocked \subseteq Attempt
    /\ faults \in 0..MaxFaults

Typed == RowsTyped /\ GatesTyped /\ PlatformTyped /\ PassTyped /\ OthersTyped

-----------------------------------------------------------------------------
(* The invariant.                                                          *)

\* An Issue in progress has one live Attempt, a live Attempt such an Issue.
Worked ==
    /\ \A a \in LiveAttempts : work[a] \in Issue /\ status[work[a]] = "in_progress"
    /\ \A a, b \in LiveAttempts : work[a] = work[b] => a = b
    /\ \A i \in Issue : status[i] = "in_progress" => \E a \in LiveAttempts : work[a] = i

\* What is not closed may still fail once.
Budgeted == \A i \in Issue : status[i] \notin Closed => retries[i] <= RetryBudget

\* Of the live Attempts of an Epic at most one has not yielded.
OneOwner ==
    \A a, b \in LiveAttempts :
        EpicOf[work[a]] = EpicOf[work[b]] /\ ~Yielded(a) /\ ~Yielded(b) => a = b

\* A gate is raised on a session that runs or was prompted, and one for
\* recovery excludes one for a project.
Untouched == \A a \in Attempt : phase[a] = "none" =>
                recovery[a] = "none" /\ project[a] = "none" /\ session[a] # "busy"
OneGate   == \A a \in Attempt : project[a] # "none" => recovery[a] = "none"

\* The Attempt a pass is about to prompt has no gate and runs no turn.
Fresh ==
    disp.pc \in {"launch", "activate", "prompt"} =>
        /\ phase[disp.cur] # "none" /\ session[disp.cur] # "busy"
        /\ recovery[disp.cur] = "none" /\ project[disp.cur] = "none"

\* Between the transactions of a resume nobody else decides its gate.
Resuming ==
    /\ rec.pc \in {"deliver", "complete"} => recovery[rec.of] = "resume_pending"
    /\ stopping # NoEpic => rec.pc = "free"

\* A session stopped for a handoff stays quiet while its Attempt is paused.
Stopped == \A a \in Attempt :
              recovery[a] \in Paused /\ (marked[a] \/ a \in blocked) => session[a] # "busy"

Quieted == Untouched /\ OneGate /\ Fresh /\ Resuming /\ Stopped

IInv ==
    /\ Typed /\ Worked /\ Budgeted /\ ClosedEpicIdle
    /\ OneOwner /\ StoppingUngated /\ Quieted

-----------------------------------------------------------------------------
(* Sets and constants.                                                     *)

LEMMA Least == ASSUME NEW S, S \subseteq Nat, S # {} PROVE \E x \in S : \A y \in S : x <= y
<1> DEFINE R == OpToRel(<, Nat)
<1>1. IsWellFoundedOn(R, Nat)
  BY NatLessThanWellFounded
<1> HIDE DEF R
<1>2. PICK x \in S : \A y \in S : ~ (<<y, x>> \in R)
  BY <1>1, WFMin
<1>3. \A y \in S : x <= y
  <2> TAKE y \in S
  <2>1. y < x => <<y, x>> \in R
    BY DEF R, OpToRel
  <2> QED BY <1>2, <2>1
<1> QED BY <1>3

\* A visit takes one of the listed Attempts or Issues.
LEMMA FirstIn == ASSUME NEW S, S \subseteq Nat, S # {} PROVE First(S) \in S
BY Least DEF First

LEMMA Constants ==
    /\ Attempt \subseteq Nat /\ Issue \subseteq Nat /\ None \notin Attempt /\ None \notin Issue
    /\ \A i \in Issue : EpicOf[i] \in Epic
    /\ RetryBudget \in Nat /\ RetryBudget >= 1 /\ MaxFaults \in Nat /\ Capacity \in Nat /\ NoEpic \notin Epic
BY FactoryAssumption DEF Attempt, None

\* The sets of words.
LEMMA Words ==
    /\ Live = {"prepared", "active", "stopping"} /\ Closed = {"succeeded", "failed", "cancelled"}
    /\ Paused = {"open", "queued"}
    /\ Message = {"branch", "launch", "restart", "gone", "activation", "prompt", "handoff", "rejected"}
    /\ Interruption = {"restart", "gone"}
BY DEF Live, Closed, Paused, Message, LaunchFailure, Interruption

\* The Attempts a pass visits and has in hand.
LEMMA PassFacts ==
    ASSUME PassTyped
    PROVE  /\ disp.pc \in {"start", "reconcile", "probe", "watch", "resume"} => disp.left \subseteq Attempt
           /\ disp.pc \in {"handoff", "claim"} \cup Launching => disp.left \subseteq Issue
           /\ disp.pc \in {"probe"} \cup Launching => disp.cur \in Attempt
           /\ disp.pc = "claim" => disp.cur \in Issue
           /\ disp.kept \subseteq Attempt
           /\ disp.pc \in {"start", "reconcile", "probe", "watch", "resume"} /\ disp.left # {} =>
                 First(disp.left) \in Attempt /\ First(disp.left) \in disp.left
           /\ disp.pc = "handoff" /\ disp.left # {} => First(disp.left) \in Issue
<1>1. /\ disp.pc \in {"start", "reconcile", "probe", "watch", "resume"} => disp.left \subseteq Attempt
      /\ disp.pc \in {"handoff", "claim"} \cup Launching => disp.left \subseteq Issue
      /\ disp.pc \in {"probe"} \cup Launching => disp.cur \in Attempt
      /\ disp.pc = "claim" => disp.cur \in Issue
      /\ disp.kept \subseteq Attempt
  BY DEF PassTyped, PassesOf, Launching
<1> QED BY <1>1, FirstIn, Constants

-----------------------------------------------------------------------------
(* What a step does to the rows.                                           *)

\* The live Attempt a ends as p and its Issue becomes s.
Ended(a, p, s, n) ==
    /\ phase[a] \in Live /\ p \in Closed
    /\ s \in {"open", "retry_wait", "deferred"} \cup Closed
    /\ s \notin Closed => n <= RetryBudget
    /\ phase' = [phase EXCEPT ![a] = p]
    /\ status' = [status EXCEPT ![work[a]] = s]
    /\ retries' = [retries EXCEPT ![work[a]] = n]
    /\ reason' \in [Issue -> Message \cup {""}]
    /\ UNCHANGED <<epicStatus, work>>

\* The live Attempt a is activated or hands its work over.
Progressed(a, p) ==
    /\ phase[a] \in Live /\ p \in {"active", "stopping"}
    /\ p = "stopping" => ~Gated(a)
    /\ phase' = [phase EXCEPT ![a] = p]
    /\ UNCHANGED <<epicStatus, status, retries, reason, work, gates>>

\* Issues without an Attempt become open.
Reopened(I) ==
    /\ \A i \in I : status[i] \notin {"in_progress", "succeeded"} /\ epicStatus[EpicOf[i]] # "closed"
    /\ status' = [i \in Issue |-> IF i \in I THEN "open" ELSE status[i]]
    /\ retries' \in [Issue -> 0..RetryBudget + 1] /\ reason' \in [Issue -> Message \cup {""}]
    /\ \A i \in Issue : IF i \in I THEN retries'[i] <= RetryBudget ELSE retries'[i] = retries[i]
    /\ UNCHANGED <<epicStatus, phase, work>>

\* The Issue i is claimed with the new Attempt a.
Claimed(a, i) ==
    /\ phase[a] = "none" /\ Claimable(i)
    /\ status' = [status EXCEPT ![i] = "in_progress"]
    /\ phase' = [phase EXCEPT ![a] = "prepared"]
    /\ work' = [work EXCEPT ![a] = i]
    /\ UNCHANGED <<epicStatus, retries, reason, gates>>

EpicSet(e, s) ==
    /\ epicStatus[e] # "closed" /\ s \in {"open", "paused", "closed"}
    /\ s = "closed" => \A i \in Issue : EpicOf[i] = e => status[i] = "succeeded"
    /\ epicStatus' = [epicStatus EXCEPT ![e] = s]
    /\ UNCHANGED <<status, retries, reason, phase, work>>

EpicStopped(e) ==
    /\ epicStatus' = [epicStatus EXCEPT ![e] = "closed"]
    /\ phase' = [a \in Attempt |-> IF a \in Of(e) THEN "cancelled" ELSE phase[a]]
    /\ status' = [i \in Issue |-> IF EpicOf[i] = e /\ status[i] \notin Closed
                                  THEN "cancelled" ELSE status[i]]
    /\ reason' \in [Issue -> Message \cup {""}]
    /\ UNCHANGED <<retries, work>>

\* A failure ends a live Attempt; a late one changes nothing.
LEMMA FailKind ==
    ASSUME RowsTyped, Worked, Budgeted, NEW a \in Attempt, NEW msg \in Message, Fail(a, msg)
    PROVE  UNCHANGED rows
           \/ \E s \in {"retry_wait", "failed"}, n \in 0..RetryBudget + 1 : Ended(a, "failed", s, n)
<1> DEFINE i == work[a]
           spent == IF msg \notin Interruption /\ retries[i] > 0 /\ reason[i] = msg
                    THEN RetryBudget ELSE retries[i]
           s == IF spent < RetryBudget THEN "retry_wait" ELSE "failed"
<1>1. CASE phase[a] \notin Live
  BY <1>1 DEF Fail
<1>2. CASE phase[a] \in Live
  <2>1. i \in Issue /\ status[i] = "in_progress"
    BY <1>2 DEF Worked, LiveAttempts
  <2>2. retries[i] \in Nat /\ retries[i] <= RetryBudget
    <3>1. status[i] \notin Closed
      BY <2>1, Words
    <3>2. retries[i] \in 0..RetryBudget + 1
      BY <2>1 DEF RowsTyped
    <3>3. retries[i] <= RetryBudget
      BY <2>1, <3>1 DEF Budgeted
    <3>4. retries[i] \in Nat
      BY <3>2, Constants
    <3> QED BY <3>3, <3>4
  <2>3. spent \in 0..RetryBudget /\ spent + 1 \in 0..RetryBudget + 1
    BY <2>2, Constants
  <2>4. s \in {"retry_wait", "failed"} /\ (s \notin Closed => spent + 1 <= RetryBudget)
    BY <2>3, Constants, Words
  <2>5. /\ phase' = [phase EXCEPT ![a] = "failed"]
        /\ status' = [status EXCEPT ![work[a]] = s]
        /\ retries' = [retries EXCEPT ![work[a]] = spent + 1]
        /\ reason' = [reason EXCEPT ![work[a]] = msg]
        /\ UNCHANGED <<epicStatus, work>>
    BY <1>2, <2>1 DEF Fail
  <2>6. reason' \in [Issue -> Message \cup {""}]
    BY <2>5 DEF RowsTyped
  <2> HIDE DEF spent, s
  <2>7. Ended(a, "failed", s, spent + 1)
    BY <1>2, <2>4, <2>5, <2>6, Words DEF Ended
  <2> QED BY <2>3, <2>4, <2>7
<1> QED BY <1>1, <1>2


LEMMA ClaimKind ==
    ASSUME Typed, Claim
    PROVE  UNCHANGED rows \/ \E a \in Attempt, i \in Issue : Claimed(a, i)
<1> DEFINE i == disp.cur
           a == First(Unused)
<1>1. i \in Issue
  BY PassFacts DEF Claim, Typed
<1>2. CASE Claimable(i) /\ Unused # {}
  <2>1. a \in Unused
    <3>1. Unused \subseteq Nat
      BY Constants DEF Unused
    <3> QED BY <1>2, <3>1, FirstIn
  <2>2. a \in Attempt /\ phase[a] = "none"
    BY <2>1 DEF Unused
  <2>3. Claimed(a, i)
    BY <1>2, <2>2 DEF Claim, Claimed
  <2> QED BY <1>1, <2>2, <2>3
<1>3. CASE ~(Claimable(i) /\ Unused # {})
  BY <1>3 DEF Claim
<1> QED BY <1>2, <1>3

\* The user gives an Attempt up.
LEMMA GiveUpKind ==
    ASSUME RowsTyped, Worked, Budgeted, NEW a \in Attempt, NEW kind, NEW s \in {"open", "cancelled"},
           UserGivesUp(a, kind, s)
    PROVE  \E n \in 0..RetryBudget + 1 : Ended(a, "cancelled", s, n)
<1>1. phase[a] \in Live
  BY Words DEF UserGivesUp
<1>2. work[a] \in Issue /\ status[work[a]] = "in_progress"
  BY <1>1 DEF Worked, LiveAttempts
<1>3. retries[work[a]] \in 0..RetryBudget + 1 /\ retries[work[a]] <= RetryBudget
  BY <1>2, Words DEF RowsTyped, Budgeted
<1>4. reason' \in [Issue -> Message \cup {""}] /\ retries' = [retries EXCEPT ![work[a]] = retries[work[a]]]
  BY DEF UserGivesUp, RowsTyped
<1>5. Ended(a, "cancelled", s, retries[work[a]])
  BY <1>1, <1>3, <1>4, Words DEF UserGivesUp, Ended
<1> QED BY <1>3, <1>5

LEMMA CompleteKind ==
    ASSUME Typed, Worked, Budgeted, CompleteEnd
    PROVE  UNCHANGED rows \/ \E a \in Attempt, n \in 0..RetryBudget + 1 : Ended(a, "succeeded", "succeeded", n)
<1> DEFINE a == finishing
<1>1. a \in Attempt
  BY DEF CompleteEnd, Typed, OthersTyped
<1>2. CASE phase[a] = "stopping" /\ phase' = [phase EXCEPT ![a] = "succeeded"]
           /\ status' = [status EXCEPT ![work[a]] = "succeeded"]
           /\ reason' = [reason EXCEPT ![work[a]] = ""]
           /\ UNCHANGED <<epicStatus, retries, work>>
  <2>1. phase[a] \in Live
    BY <1>2, Words
  <2>2. work[a] \in Issue
    BY <1>1, <2>1 DEF Worked, LiveAttempts
  <2>3. /\ retries[work[a]] \in 0..RetryBudget + 1 /\ retries' = [retries EXCEPT ![work[a]] = retries[work[a]]]
        /\ reason' \in [Issue -> Message \cup {""}]
    BY <1>2, <2>2 DEF Typed, RowsTyped
  <2>4. Ended(a, "succeeded", "succeeded", retries[work[a]])
    BY <1>2, <2>1, <2>3, Words DEF Ended
  <2> QED BY <1>1, <2>3, <2>4
<1> QED BY <1>2 DEF CompleteEnd

LEMMA ProjectKind ==
    ASSUME Typed, Worked, Budgeted, NEW a \in Attempt, UserApprovesProject(a) \/ DeliverRejection(a)
    PROVE  UNCHANGED rows
           \/ \E p \in Closed, s \in {"deferred", "retry_wait", "failed"}, n \in 0..RetryBudget + 1 : Ended(a, p, s, n)
<1>1. CASE phase[a] = "active"
  <2>1. phase[a] \in Live
    BY <1>1, Words
  <2>2. work[a] \in Issue /\ status[work[a]] = "in_progress"
    BY <2>1 DEF Worked, LiveAttempts
  <2>3. retries[work[a]] \in 0..RetryBudget + 1 /\ retries[work[a]] <= RetryBudget
    BY <2>2, Words DEF Typed, RowsTyped, Budgeted
  <2>4. CASE UserApprovesProject(a)
    <3>1. /\ retries' = [retries EXCEPT ![work[a]] = retries[work[a]]]
          /\ reason' \in [Issue -> Message \cup {""}]
      BY <2>4 DEF UserApprovesProject, Typed, RowsTyped
    <3>2. Ended(a, "cancelled", "deferred", retries[work[a]])
      BY <2>1, <2>3, <2>4, <3>1, Words DEF UserApprovesProject, Ended
    <3> QED BY <2>3, <3>2, Words
  <2>5. CASE DeliverRejection(a) /\ ~ UNCHANGED rows
    <3> DEFINE i == work[a]
               s == IF retries[i] < RetryBudget THEN "retry_wait" ELSE "failed"
    <3>1. /\ phase' = [phase EXCEPT ![a] = "failed"]
          /\ status' = [status EXCEPT ![i] = s]
          /\ retries' = [retries EXCEPT ![i] = retries[i] + 1]
          /\ reason' = [reason EXCEPT ![i] = "rejected"]
          /\ UNCHANGED <<epicStatus, work>>
      BY <2>2, <2>5 DEF DeliverRejection
    <3>2. /\ retries[i] + 1 \in 0..RetryBudget + 1 /\ s \in {"retry_wait", "failed"}
          /\ s \notin Closed => retries[i] + 1 <= RetryBudget
      BY <2>3, Constants, Words
    <3>3. reason' \in [Issue -> Message \cup {""}]
      BY <3>1, Words DEF Typed, RowsTyped
    <3> HIDE DEF s
    <3>4. Ended(a, "failed", s, retries[i] + 1)
      BY <2>1, <3>1, <3>2, <3>3, Words DEF Ended
    <3> QED BY <3>2, <3>4, Words
  <2> QED BY <2>4, <2>5
<1>2. CASE phase[a] # "active"
  BY <1>2 DEF UserApprovesProject, DeliverRejection
<1> QED BY <1>1, <1>2

\* Issues that wait, are deferred or closed without success become open.
LEMMA ReopenKind ==
    ASSUME Typed, Budgeted, ClosedEpicIdle,
           Wake \/ \E i \in Issue : ScopeReplanned(i) \/ ReopenIssue(i)
    PROVE  \E I \in SUBSET Issue : Reopened(I)
<1>1. /\ status \in [Issue -> {"open", "in_progress", "retry_wait", "deferred"} \cup Closed]
      /\ retries \in [Issue -> 0..RetryBudget + 1] /\ reason \in [Issue -> Message \cup {""}]
  BY DEF Typed, RowsTyped
<1>2. CASE Wake
  <2>1. PICK I \in SUBSET {i \in Issue : status[i] = "retry_wait"} :
           status' = [i \in Issue |-> IF i \in I THEN "open" ELSE status[i]]
    BY <1>2 DEF Wake
  <2>2. \A i \in I : /\ i \in Issue /\ status[i] = "retry_wait" /\ status[i] \notin Closed
                     /\ EpicOf[i] \in Epic
    BY <2>1, Words, Constants
  <2>3. \A i \in I : epicStatus[EpicOf[i]] # "closed" /\ retries[i] <= RetryBudget
    BY <2>2 DEF ClosedEpicIdle, Budgeted
  <2>4. Reopened(I)
    BY <1>1, <1>2, <2>1, <2>2, <2>3 DEF Wake, Reopened
  <2> QED BY <2>2, <2>4
<1>3. ASSUME NEW i \in Issue, ScopeReplanned(i) PROVE \E I \in SUBSET Issue : Reopened(I)
  <2>1. status[i] = "deferred" /\ retries[i] <= RetryBudget
    BY <1>3, Words DEF ScopeReplanned, Budgeted
  <2>2. Reopened({i})
    BY <1>1, <1>3, <2>1 DEF ScopeReplanned, Reopened
  <2> QED BY <2>2
<1>4. ASSUME NEW i \in Issue, ReopenIssue(i) PROVE \E I \in SUBSET Issue : Reopened(I)
  <2>1. 0 \in 0..RetryBudget + 1 /\ 0 <= RetryBudget
    BY Constants
  <2>2. Reopened({i})
    BY <1>1, <1>4, <2>1 DEF ReopenIssue, Reopened
  <2> QED BY <2>2
<1> QED BY <1>2, <1>3, <1>4

LEMMA EpicKind ==
    ASSUME Typed, (\E e \in Epic : EpicStep(e)) \/ StopEpicEnds
    PROVE  \/ \E e \in Epic, s \in {"open", "paused", "closed"} : EpicSet(e, s)
           \/ \E e \in Epic : EpicStopped(e)
<1>1. ASSUME NEW e \in Epic, EpicStep(e)
      PROVE  \E s \in {"open", "paused", "closed"} : EpicSet(e, s)
  <2>1. CASE SetEpicPaused(e)
    <3>1. \E s \in {"open", "paused"} : epicStatus' = [epicStatus EXCEPT ![e] = s]
      BY <2>1 DEF SetEpicPaused
    <3> QED BY <2>1, <3>1 DEF SetEpicPaused, EpicSet
  <2>2. CASE StopEpicBegin(e)
    BY <2>2 DEF StopEpicBegin, EpicSet
  <2>3. CASE CloseEpic(e)
    BY <2>3 DEF CloseEpic, EpicSet
  <2> QED BY <1>1, <2>1, <2>2, <2>3 DEF EpicStep
<1>2. CASE StopEpicEnds
  <2>1. stopping \in Epic
    BY <1>2 DEF StopEpicEnds, Typed, OthersTyped
  <2>2. /\ epicStatus' = [epicStatus EXCEPT ![stopping] = "closed"]
        /\ phase' = [a \in Attempt |-> IF a \in Of(stopping) THEN "cancelled" ELSE phase[a]]
        /\ status' = [i \in Issue |-> IF EpicOf[i] = stopping /\ status[i] \notin Closed
                                      THEN "cancelled" ELSE status[i]]
        /\ reason' = [i \in Issue |-> IF EpicOf[i] = stopping /\ status[i] \notin Closed
                                      THEN "" ELSE reason[i]]
        /\ UNCHANGED <<retries, work>>
    BY <1>2 DEF StopEpicEnds
  <2>3. reason' \in [Issue -> Message \cup {""}]
    BY <2>2 DEF Typed, RowsTyped
  <2>4. EpicStopped(stopping)
    BY <2>2, <2>3 DEF EpicStopped
  <2> QED BY <2>1, <2>4
<1> QED BY <1>1, <1>2


\* The steps that leave every row.
RowsKept ==
    \/ BeginPass \/ ReconcileActive \/ EndReconcile \/ Watch \/ ResumeQueued \/ ListReady \/ Handoff
    \/ EndPass \/ Started \/ Resolution \/ StopEpicFails \/ Crash
    \/ \E a \in Attempt :
          \/ AgentRequestsRecovery(a) \/ AgentRequestsProject(a) \/ AgentNeedsAuthority(a)
          \/ TurnEnds(a) \/ SessionDies(a)
          \/ UserResumes(a) \/ UserRejectsProject(a) \/ UserDecidesAuthority(a) \/ CompleteAuthority(a)

LEMMA RowsKeptUnchanged == RowsKept => UNCHANGED rows
<1>1. BeginPass \/ ReconcileActive \/ EndReconcile \/ Watch \/ ResumeQueued \/ ListReady \/ Handoff => UNCHANGED rows
  BY DEF BeginPass, ReconcileActive, EndReconcile, Watch, ResumeQueued, ListReady, Handoff
<1>2. EndPass \/ Started \/ Resolution \/ StopEpicFails \/ Crash => UNCHANGED rows
  BY DEF EndPass, Started, Resolution, Deliver, CompleteResume, StopAfter, StopEpicFails, Crash
<1>3. ASSUME NEW a \in Attempt
      PROVE  \/ AgentRequestsRecovery(a) \/ AgentRequestsProject(a) \/ AgentNeedsAuthority(a)
             \/ TurnEnds(a) \/ SessionDies(a)
             \/ UserResumes(a) \/ UserRejectsProject(a) \/ UserDecidesAuthority(a) \/ CompleteAuthority(a)
             => UNCHANGED rows
  BY DEF AgentRequestsRecovery, AgentRequestsProject, AgentNeedsAuthority, TurnEnds, SessionDies,
         UserResumes, UserRejectsProject, UserDecidesAuthority, CompleteAuthority
<1> QED BY <1>1, <1>2, <1>3 DEF RowsKept

\* The steps that may fail the Attempt in hand.
MayFail == ReconcileStopping \/ Probe \/ Launch \/ Activate \/ Prompt \/ Answer \/ StartAttempt

LEMMA MayFailKind ==
    ASSUME Typed, MayFail
    PROVE  \/ UNCHANGED rows
           \/ \E a \in Attempt, msg \in Message : Fail(a, msg)
           \/ \E a \in Attempt : Progressed(a, "active")
<1>1. CASE ReconcileStopping
  <2>1. First(disp.left) \in Attempt
    BY <1>1, PassFacts DEF ReconcileStopping, Typed
  <2> QED BY <1>1, <2>1, Words DEF ReconcileStopping
<1>2. CASE StartAttempt
  <2>1. First(disp.left) \in Attempt
    BY <1>2, PassFacts DEF StartAttempt, Typed
  <2> QED BY <1>2, <2>1, Words DEF StartAttempt
<1>3. ASSUME disp.cur \in Attempt, Probe \/ Launch \/ Prompt \/ Answer
      PROVE  UNCHANGED rows \/ \E a \in Attempt, msg \in Message : Fail(a, msg)
  BY <1>3, Words DEF Probe, Launch, Prompt, Answer, LaunchFailure
<1>4. ASSUME disp.cur \in Attempt, Activate
      PROVE  \/ \E a \in Attempt, msg \in Message : Fail(a, msg)
             \/ \E a \in Attempt : Progressed(a, "active")
  BY <1>4, Words DEF Activate, Progressed
<1>5. Probe \/ Launch \/ Activate \/ Prompt \/ Answer => disp.cur \in Attempt
  BY PassFacts DEF Probe, Launch, Activate, Prompt, Answer, Launching, Typed
<1> QED BY <1>1, <1>2, <1>3, <1>4, <1>5 DEF MayFail

\* Every step by what it does to the rows.
LEMMA Steps ==
    ASSUME [Next]_vars
    PROVE  \/ RowsKept \/ MayFail \/ Claim \/ CompleteEnd \/ Wake \/ StopEpicEnds
           \/ \E a \in Attempt : \/ CompleteBegin(a) \/ UserRetries(a) \/ UserCancels(a)
                                 \/ UserApprovesProject(a) \/ DeliverRejection(a)
           \/ \E i \in Issue : ScopeReplanned(i) \/ ReopenIssue(i)
           \/ \E e \in Epic : EpicStep(e)
           \/ UNCHANGED vars
<1>1. Dispatch => RowsKept \/ MayFail \/ Claim \/ Wake
  BY DEF Dispatch, RowsKept, MayFail
<1>2. ASSUME NEW a \in Attempt
      PROVE  AgentStep(a) => RowsKept \/ CompleteBegin(a)
  BY DEF AgentStep, RowsKept
<1>3. ASSUME NEW a \in Attempt
      PROVE  UserStep(a) => \/ RowsKept \/ UserRetries(a) \/ UserCancels(a)
                            \/ UserApprovesProject(a) \/ DeliverRejection(a)
  BY DEF UserStep, RowsKept
<1> QED BY <1>1, <1>2, <1>3 DEF Next, RowsKept

RowKind ==
    \/ UNCHANGED rows
    \/ \E a \in Attempt, p \in Closed, s \in {"open", "retry_wait", "deferred"} \cup Closed,
          n \in 0..RetryBudget + 1 : Ended(a, p, s, n)
    \/ \E a \in Attempt, p \in {"active", "stopping"} : Progressed(a, p)
    \/ \E I \in SUBSET Issue : Reopened(I)
    \/ \E a \in Attempt, i \in Issue : Claimed(a, i)
    \/ \E e \in Epic, s \in {"open", "paused", "closed"} : EpicSet(e, s)
    \/ \E e \in Epic : EpicStopped(e)

LEMMA RowKinds ==
    ASSUME Typed, Worked, Budgeted, ClosedEpicIdle, StoppingUngated, [Next]_vars
    PROVE  RowKind
<1> USE DEF RowKind
<1>1. CASE RowsKept \/ UNCHANGED vars
  BY <1>1, RowsKeptUnchanged DEF vars
<1>2. CASE MayFail
  BY <1>2, MayFailKind, FailKind, Words DEF Typed
<1>3. CASE Claim
  BY <1>3, ClaimKind
<1>4. CASE CompleteEnd
  BY <1>4, CompleteKind, Words
<1>5. CASE Wake \/ \E i \in Issue : ScopeReplanned(i) \/ ReopenIssue(i)
  BY <1>5, ReopenKind
<1>6. CASE StopEpicEnds \/ \E e \in Epic : EpicStep(e)
  BY <1>6, EpicKind
<1>7. ASSUME NEW a \in Attempt, CompleteBegin(a) PROVE RowKind
  <2>1. Progressed(a, "stopping")
    BY <1>7, Words DEF CompleteBegin, Progressed, StoppingUngated
  <2> QED BY <2>1
<1>8. ASSUME NEW a \in Attempt, UserRetries(a) \/ UserCancels(a) PROVE RowKind
  BY <1>8, GiveUpKind, Words DEF UserRetries, UserCancels, Typed
<1>9. ASSUME NEW a \in Attempt, UserApprovesProject(a) \/ DeliverRejection(a) PROVE RowKind
  BY <1>9, ProjectKind, Words
<1> QED BY <1>1, <1>2, <1>3, <1>4, <1>5, <1>6, <1>7, <1>8, <1>9, Steps


-----------------------------------------------------------------------------
(* The invariants of the rows.                                             *)

\* The live Attempts after a step of each kind.
LEMMA LiveAfter ==
    ASSUME RowsTyped
    PROVE  /\ UNCHANGED phase => LiveAttempts' = LiveAttempts
           /\ \A a \in Attempt : \A p, s, n : Ended(a, p, s, n) =>
                 a \in LiveAttempts /\ LiveAttempts' = LiveAttempts \ {a}
           /\ \A a \in Attempt : \A p : Progressed(a, p) => LiveAttempts' = LiveAttempts
           /\ \A a \in Attempt : \A i : Claimed(a, i) =>
                 a \notin LiveAttempts /\ LiveAttempts' = LiveAttempts \cup {a}
           /\ \A e : EpicStopped(e) => LiveAttempts' = LiveAttempts \ Of(e)
<1>0. phase \in [Attempt -> Live \cup Closed \cup {"none"}]
  BY DEF RowsTyped
<1>1. UNCHANGED phase => LiveAttempts' = LiveAttempts
  BY DEF LiveAttempts
<1>2. ASSUME NEW a \in Attempt, NEW p, NEW s, NEW n, Ended(a, p, s, n)
      PROVE  a \in LiveAttempts /\ LiveAttempts' = LiveAttempts \ {a}
  BY <1>0, <1>2, Words DEF Ended, LiveAttempts
<1>3. ASSUME NEW a \in Attempt, NEW p, Progressed(a, p)
      PROVE  LiveAttempts' = LiveAttempts
  BY <1>0, <1>3, Words DEF Progressed, LiveAttempts
<1>4. ASSUME NEW a \in Attempt, NEW i, Claimed(a, i)
      PROVE  a \notin LiveAttempts /\ LiveAttempts' = LiveAttempts \cup {a}
  BY <1>0, <1>4, Words DEF Claimed, LiveAttempts
<1>5. ASSUME NEW e, EpicStopped(e)
      PROVE  LiveAttempts' = LiveAttempts \ Of(e)
  BY <1>0, <1>5, Words DEF EpicStopped, LiveAttempts, Of
<1> QED BY <1>1, <1>2, <1>3, <1>4, <1>5

LEMMA WorkedStep ==
    ASSUME Typed, Worked, RowKind
    PROVE  Worked'
<1>0. /\ status \in [Issue -> {"open", "in_progress", "retry_wait", "deferred"} \cup Closed]
      /\ work \in [Attempt -> Issue \cup {None}] /\ LiveAttempts \subseteq Attempt /\ RowsTyped
  BY DEF Typed, RowsTyped, LiveAttempts
<1>1. ASSUME NEW a \in Attempt, NEW p \in Closed, NEW s \in {"open", "retry_wait", "deferred"} \cup Closed,
             NEW n \in 0..RetryBudget + 1, Ended(a, p, s, n)
      PROVE  Worked'
  <2>1. a \in LiveAttempts /\ LiveAttempts' = LiveAttempts \ {a}
    BY <1>0, <1>1, LiveAfter
  <2>2. work' = work /\ status' = [status EXCEPT ![work[a]] = s] /\ s # "in_progress"
    BY <1>1, Words DEF Ended
  <2> QED BY <1>0, <2>1, <2>2 DEF Worked
<1>2. ASSUME NEW a \in Attempt, NEW p \in {"active", "stopping"}, Progressed(a, p)
      PROVE  Worked'
  <2>1. LiveAttempts' = LiveAttempts /\ work' = work /\ status' = status
    BY <1>0, <1>2, LiveAfter DEF Progressed
  <2> QED BY <2>1 DEF Worked
<1>3. ASSUME NEW I \in SUBSET Issue, Reopened(I)
      PROVE  Worked'
  <2>1. /\ LiveAttempts' = LiveAttempts /\ work' = work
        /\ \A i \in Issue : status'[i] = "in_progress" <=> status[i] = "in_progress"
    BY <1>0, <1>3, LiveAfter DEF Reopened
  <2> QED BY <2>1 DEF Worked
<1>4. ASSUME NEW a \in Attempt, NEW i \in Issue, Claimed(a, i)
      PROVE  Worked'
  <2>1. a \notin LiveAttempts /\ LiveAttempts' = LiveAttempts \cup {a}
    BY <1>0, <1>4, LiveAfter
  <2>2. /\ work' = [work EXCEPT ![a] = i] /\ status' = [status EXCEPT ![i] = "in_progress"]
        /\ status[i] = "open"
    BY <1>4 DEF Claimed, Claimable, Ready
  <2>3. \A b \in LiveAttempts : work'[b] = work[b] /\ work[b] # i
    BY <1>0, <2>1, <2>2 DEF Worked
  <2>4. \A b \in LiveAttempts' : work'[b] \in Issue /\ status'[work'[b]] = "in_progress"
    BY <1>0, <2>1, <2>2, <2>3 DEF Worked
  <2>5. \A b, c \in LiveAttempts' : work'[b] = work'[c] => b = c
    BY <1>0, <2>1, <2>2, <2>3 DEF Worked
  <2>6. \A j \in Issue : status'[j] = "in_progress" => \E b \in LiveAttempts' : work'[b] = j
    BY <1>0, <2>1, <2>2, <2>3 DEF Worked
  <2> QED BY <2>4, <2>5, <2>6 DEF Worked
<1>5. ASSUME NEW e \in Epic, NEW s \in {"open", "paused", "closed"}, EpicSet(e, s)
      PROVE  Worked'
  <2>1. LiveAttempts' = LiveAttempts /\ work' = work /\ status' = status
    BY <1>0, <1>5, LiveAfter DEF EpicSet
  <2> QED BY <2>1 DEF Worked
<1>6. ASSUME NEW e \in Epic, EpicStopped(e)
      PROVE  Worked'
  <2>1. LiveAttempts' = LiveAttempts \ Of(e)
    BY <1>0, <1>6, LiveAfter
  <2>2. work' = work /\ \A i \in Issue : status'[i] = IF EpicOf[i] = e /\ status[i] \notin Closed
                                                     THEN "cancelled" ELSE status[i]
    BY <1>6 DEF EpicStopped
  <2>3. \A a \in LiveAttempts' : a \in LiveAttempts /\ EpicOf[work[a]] # e
    BY <2>1 DEF Of
  <2>4. \A a \in LiveAttempts' : work[a] \in Issue /\ status'[work[a]] = "in_progress"
    BY <2>2, <2>3 DEF Worked
  <2>5. ASSUME NEW i \in Issue, status'[i] = "in_progress"
        PROVE  \E a \in LiveAttempts' : work[a] = i
    <3>1. status[i] = "in_progress" /\ EpicOf[i] # e
      BY <2>2, <2>5, Words
    <3>2. PICK a \in LiveAttempts : work[a] = i
      BY <3>1 DEF Worked
    <3>3. a \in LiveAttempts'
      BY <2>1, <3>1, <3>2 DEF Of
    <3> QED BY <3>2, <3>3
  <2> QED BY <2>2, <2>3, <2>4, <2>5 DEF Worked
<1>7. CASE UNCHANGED rows
  <2>1. LiveAttempts' = LiveAttempts /\ work' = work /\ status' = status
    BY <1>0, <1>7, LiveAfter DEF rows
  <2> QED BY <2>1 DEF Worked
<1> QED BY <1>1, <1>2, <1>3, <1>4, <1>5, <1>6, <1>7 DEF RowKind

LEMMA RowsTypedStep ==
    ASSUME Typed, Worked, Budgeted, RowKind
    PROVE  RowsTyped' /\ Budgeted'
<1>0. RowsTyped /\ RetryBudget \in Nat
  BY Constants DEF Typed
<1>1. ASSUME NEW a \in Attempt, NEW p \in Closed, NEW s \in {"open", "retry_wait", "deferred"} \cup Closed,
             NEW n \in 0..RetryBudget + 1, Ended(a, p, s, n)
      PROVE  RowsTyped' /\ Budgeted'
  <2>1. RowsTyped'
    BY <1>0, <1>1 DEF Ended, RowsTyped
  <2>2. Budgeted'
    BY <1>0, <1>1 DEF Ended, RowsTyped, Budgeted
  <2> QED BY <2>1, <2>2
<1>2. ASSUME NEW a \in Attempt, NEW p \in {"active", "stopping"}, Progressed(a, p)
      PROVE  RowsTyped' /\ Budgeted'
  BY <1>0, <1>2, Words DEF Progressed, RowsTyped, Budgeted
<1>3. ASSUME NEW I \in SUBSET Issue, Reopened(I)
      PROVE  RowsTyped' /\ Budgeted'
  <2>1. RowsTyped'
    BY <1>0, <1>3 DEF Reopened, RowsTyped
  <2>2. Budgeted'
    BY <1>0, <1>3 DEF Reopened, RowsTyped, Budgeted
  <2> QED BY <2>1, <2>2
<1>4. ASSUME NEW a \in Attempt, NEW i \in Issue, Claimed(a, i)
      PROVE  RowsTyped' /\ Budgeted'
  <2>1. status[i] = "open" /\ status[i] \notin Closed
    BY <1>4, Words DEF Claimed, Claimable, Ready
  <2>2. RowsTyped'
    BY <1>0, <1>4, Words DEF Claimed, RowsTyped
  <2>3. Budgeted'
    BY <1>0, <1>4, <2>1 DEF Claimed, RowsTyped, Budgeted
  <2> QED BY <2>2, <2>3
<1>5. ASSUME NEW e \in Epic, NEW s \in {"open", "paused", "closed"}, EpicSet(e, s)
      PROVE  RowsTyped' /\ Budgeted'
  BY <1>0, <1>5 DEF EpicSet, RowsTyped, Budgeted
<1>6. ASSUME NEW e \in Epic, EpicStopped(e)
      PROVE  RowsTyped' /\ Budgeted'
  <2>1. RowsTyped'
    BY <1>0, <1>6, Words DEF EpicStopped, RowsTyped
  <2>2. Budgeted'
    BY <1>0, <1>6, Words DEF EpicStopped, Budgeted
  <2> QED BY <2>1, <2>2
<1>7. CASE UNCHANGED rows
  BY <1>0, <1>7 DEF rows, RowsTyped, Budgeted
<1> QED BY <1>1, <1>2, <1>3, <1>4, <1>5, <1>6, <1>7 DEF RowKind

LEMMA ClosedEpicStep ==
    ASSUME Typed, Worked, ClosedEpicIdle, RowKind
    PROVE  ClosedEpicIdle'
<1> SUFFICES ASSUME NEW e \in Epic, epicStatus'[e] = "closed"
             PROVE  Of(e)' = {} /\ \A i \in Issue : EpicOf[i] = e => status'[i] \in Closed
  BY DEF ClosedEpicIdle
<1>0. /\ epicStatus \in [Epic -> {"open", "paused", "closed"}]
      /\ status \in [Issue -> {"open", "in_progress", "retry_wait", "deferred"} \cup Closed]
      /\ LiveAttempts \subseteq Attempt /\ RowsTyped
      /\ work \in [Attempt -> Issue \cup {None}]
  BY DEF Typed, RowsTyped, LiveAttempts
<1>1. epicStatus[e] = "closed" =>
        /\ \A a \in LiveAttempts : EpicOf[work[a]] # e
        /\ \A i \in Issue : EpicOf[i] = e => status[i] \in Closed
  BY DEF ClosedEpicIdle, Of
<1>2. ASSUME NEW a \in Attempt, NEW p \in Closed, NEW s \in {"open", "retry_wait", "deferred"} \cup Closed,
             NEW n \in 0..RetryBudget + 1, Ended(a, p, s, n)
      PROVE  Of(e)' = {} /\ \A i \in Issue : EpicOf[i] = e => status'[i] \in Closed
  <2>1. a \in LiveAttempts /\ LiveAttempts' = LiveAttempts \ {a}
    BY <1>0, <1>2, LiveAfter
  <2>2. work' = work /\ status' = [status EXCEPT ![work[a]] = s] /\ epicStatus' = epicStatus
    BY <1>2 DEF Ended
  <2>3. EpicOf[work[a]] # e
    BY <1>1, <2>1, <2>2
  <2> QED BY <1>0, <1>1, <2>1, <2>2, <2>3 DEF Of
<1>3. ASSUME NEW a \in Attempt, NEW p \in {"active", "stopping"}, Progressed(a, p)
      PROVE  Of(e)' = {} /\ \A i \in Issue : EpicOf[i] = e => status'[i] \in Closed
  <2>1. LiveAttempts' = LiveAttempts /\ work' = work /\ status' = status /\ epicStatus' = epicStatus
    BY <1>0, <1>3, LiveAfter DEF Progressed
  <2> QED BY <1>1, <2>1 DEF Of
<1>4. ASSUME NEW I \in SUBSET Issue, Reopened(I)
      PROVE  Of(e)' = {} /\ \A i \in Issue : EpicOf[i] = e => status'[i] \in Closed
  <2>1. LiveAttempts' = LiveAttempts /\ work' = work /\ epicStatus' = epicStatus
    BY <1>0, <1>4, LiveAfter DEF Reopened
  <2>2. \A i \in Issue : EpicOf[i] = e => status'[i] = status[i]
    BY <1>0, <1>4, <2>1 DEF Reopened
  <2> QED BY <1>1, <2>1, <2>2 DEF Of
<1>5. ASSUME NEW a \in Attempt, NEW i \in Issue, Claimed(a, i)
      PROVE  Of(e)' = {} /\ \A j \in Issue : EpicOf[j] = e => status'[j] \in Closed
  <2>1. a \notin LiveAttempts /\ LiveAttempts' = LiveAttempts \cup {a}
    BY <1>0, <1>5, LiveAfter
  <2>2. /\ work' = [work EXCEPT ![a] = i] /\ status' = [status EXCEPT ![i] = "in_progress"]
        /\ epicStatus[EpicOf[i]] = "open" /\ epicStatus' = epicStatus
    BY <1>5 DEF Claimed, Claimable, Ready
  <2>3. EpicOf[i] # e
    BY <2>2
  <2> QED BY <1>0, <1>1, <2>1, <2>2, <2>3 DEF Of
<1>6. ASSUME NEW f \in Epic, NEW s \in {"open", "paused", "closed"}, EpicSet(f, s)
      PROVE  Of(e)' = {} /\ \A i \in Issue : EpicOf[i] = e => status'[i] \in Closed
  <2>1. LiveAttempts' = LiveAttempts /\ work' = work /\ status' = status
    BY <1>0, <1>6, LiveAfter DEF EpicSet
  <2>2. CASE e # f
    <3>1. epicStatus[e] = "closed"
      BY <1>0, <1>6, <2>2 DEF EpicSet
    <3> QED BY <1>1, <2>1, <3>1 DEF Of
  <2>3. CASE e = f
    <3>1. \A i \in Issue : EpicOf[i] = e => status[i] = "succeeded"
      BY <1>0, <1>6, <2>3 DEF EpicSet
    <3>2. \A a \in LiveAttempts : EpicOf[work[a]] # e
      BY <3>1 DEF Worked
    <3> QED BY <2>1, <3>1, <3>2, Words DEF Of
  <2> QED BY <2>2, <2>3
<1>7. ASSUME NEW f \in Epic, EpicStopped(f)
      PROVE  Of(e)' = {} /\ \A i \in Issue : EpicOf[i] = e => status'[i] \in Closed
  <2>1. LiveAttempts' = LiveAttempts \ Of(f) /\ work' = work
    BY <1>0, <1>7, LiveAfter DEF EpicStopped
  <2>2. \A i \in Issue : status'[i] = IF EpicOf[i] = f /\ status[i] \notin Closed
                                       THEN "cancelled" ELSE status[i]
    BY <1>7 DEF EpicStopped
  <2>3. CASE e # f
    <3>1. epicStatus[e] = "closed"
      BY <1>0, <1>7, <2>3 DEF EpicStopped
    <3> QED BY <1>1, <2>1, <2>2, <2>3, <3>1 DEF Of
  <2>4. CASE e = f
    BY <2>1, <2>2, <2>4, Words DEF Of
  <2> QED BY <2>3, <2>4
<1>8. CASE UNCHANGED rows
  <2>1. LiveAttempts' = LiveAttempts /\ work' = work /\ status' = status /\ epicStatus' = epicStatus
    BY <1>0, <1>8, LiveAfter DEF rows
  <2> QED BY <1>1, <2>1 DEF Of
<1> QED BY <1>2, <1>3, <1>4, <1>5, <1>6, <1>7, <1>8 DEF RowKind

\* A late step does not change how an Attempt ended, nor take back a success.
LEMMA OutcomesStep ==
    ASSUME Typed, Worked, RowKind
    PROVE  /\ \A a \in Attempt : phase[a] \in Closed => phase'[a] = phase[a]
           /\ \A i \in Issue : status[i] = "succeeded" => status'[i] = "succeeded"
<1>0. /\ phase \in [Attempt -> Live \cup Closed \cup {"none"}]
      /\ status \in [Issue -> {"open", "in_progress", "retry_wait", "deferred"} \cup Closed]
      /\ Live \cap Closed = {} /\ "none" \notin Closed /\ "succeeded" \in Closed
  BY Words DEF Typed, RowsTyped
<1>1. ASSUME NEW a \in Attempt, NEW p \in Closed, NEW s \in {"open", "retry_wait", "deferred"} \cup Closed,
             NEW n \in 0..RetryBudget + 1, Ended(a, p, s, n)
      PROVE  /\ \A b \in Attempt : phase[b] \in Closed => phase'[b] = phase[b]
             /\ \A i \in Issue : status[i] = "succeeded" => status'[i] = "succeeded"
  <2>1. status[work[a]] = "in_progress"
    BY <1>1 DEF Ended, Worked, LiveAttempts
  <2> QED BY <1>0, <1>1, <2>1 DEF Ended
<1>2. ASSUME NEW a \in Attempt, NEW p \in {"active", "stopping"}, Progressed(a, p)
      PROVE  /\ \A b \in Attempt : phase[b] \in Closed => phase'[b] = phase[b]
             /\ \A i \in Issue : status[i] = "succeeded" => status'[i] = "succeeded"
  BY <1>0, <1>2 DEF Progressed
<1>3. ASSUME NEW I \in SUBSET Issue, Reopened(I)
      PROVE  /\ \A b \in Attempt : phase[b] \in Closed => phase'[b] = phase[b]
             /\ \A i \in Issue : status[i] = "succeeded" => status'[i] = "succeeded"
  BY <1>0, <1>3 DEF Reopened
<1>4. ASSUME NEW a \in Attempt, NEW i \in Issue, Claimed(a, i)
      PROVE  /\ \A b \in Attempt : phase[b] \in Closed => phase'[b] = phase[b]
             /\ \A j \in Issue : status[j] = "succeeded" => status'[j] = "succeeded"
  BY <1>0, <1>4 DEF Claimed, Claimable, Ready
<1>5. ASSUME NEW e \in Epic, EpicStopped(e)
      PROVE  /\ \A b \in Attempt : phase[b] \in Closed => phase'[b] = phase[b]
             /\ \A i \in Issue : status[i] = "succeeded" => status'[i] = "succeeded"
  BY <1>0, <1>5 DEF EpicStopped, Of, LiveAttempts
<1>6. CASE UNCHANGED <<status, phase>>
  BY <1>6
<1> QED BY <1>1, <1>2, <1>3, <1>4, <1>5, <1>6 DEF RowKind, EpicSet, rows


-----------------------------------------------------------------------------
(* What a step does to the gates.                                          *)

\* A recovery gate is raised by the agent, or by the pass that finds it idle.
Raised(a) ==
    /\ CreateRecovery(a) /\ (session[a] = "busy" \/ disp.pc = "watch")
    /\ UNCHANGED <<rows, authority, project, session, rec, stopping>>

\* A running turn asks for a project or for authority.
Asked(a) ==
    /\ session[a] = "busy" /\ phase[a] = "active"
    /\ \/ /\ "project" \in Gates /\ ~Gated(a)
          /\ project' = [project EXCEPT ![a] = "open"] /\ UNCHANGED authority
       \/ /\ "authority" \in Gates /\ authority[a] = "none"
          /\ authority' = [authority EXCEPT ![a] = "open"] /\ UNCHANGED project
    /\ UNCHANGED <<rows, recovery, marked, platform, memory>>

\* The gate of a is resolved by resuming it.
Resumed(a) ==
    /\ RecoveryFree /\ recovery[a] # "none" /\ Resumable(a) /\ Resume(a)
    /\ UNCHANGED <<rows, authority, project, marked, platform, stopping, blocked>>

\* The session of a was stopped and its checkpoint is valid.
Yielding(a) ==
    /\ Handoff /\ marked' = [marked EXCEPT ![a] = TRUE]
    /\ UNCHANGED <<rows, recovery, authority, project, rec, stopping>>

\* Gates are lowered, a recovery gate that pauses only with the end of its Attempt.
Lowered ==
    /\ \A a \in Attempt :
          /\ recovery'[a] \in {recovery[a], "none"}
          /\ authority[a] = "none" => authority'[a] = "none"
          /\ project[a] = "none" => project'[a] = "none"
          /\ recovery[a] \in Paused /\ recovery'[a] = "none" => phase'[a] \notin Live
          /\ recovery[a] = "resume_pending" /\ recovery'[a] = "none" => rec'.pc \in {"free", "stop"}
    /\ GatesTyped' /\ UNCHANGED <<marked, told>>

GateKind ==
    \/ UNCHANGED gates
    \/ \E a \in Attempt : Raised(a) \/ Asked(a) \/ Resumed(a) \/ Yielding(a)
    \/ Lowered

\* The steps that leave every gate.
GatesKept ==
    \/ BeginPass \/ ReconcileStopping \/ ReconcileActive \/ Probe \/ EndReconcile \/ Wake \/ ListReady
    \/ Claim \/ Launch \/ Activate \/ Prompt \/ Answer \/ EndPass \/ StartAttempt \/ Started
    \/ Deliver \/ StopAfter \/ CompleteEnd \/ StopEpicFails \/ Crash
    \/ \E a \in Attempt : CompleteBegin(a) \/ TurnEnds(a) \/ SessionDies(a)
    \/ \E e \in Epic : EpicStep(e)
    \/ \E i \in Issue : ScopeReplanned(i) \/ ReopenIssue(i)

LEMMA GatesKeptUnchanged == GatesKept => UNCHANGED gates
<1>1. \/ BeginPass \/ ReconcileStopping \/ ReconcileActive \/ Probe \/ EndReconcile \/ Wake \/ ListReady
      \/ Claim \/ Launch \/ Activate
      => UNCHANGED gates
  BY DEF BeginPass, ReconcileStopping, ReconcileActive, Probe, EndReconcile, Wake, ListReady,
         Claim, Launch, Activate
<1>2. \/ Prompt \/ Answer \/ EndPass \/ StartAttempt \/ Started
      \/ Deliver \/ StopAfter \/ CompleteEnd \/ StopEpicFails \/ Crash
      => UNCHANGED gates
  BY DEF Prompt, Answer, EndPass, StartAttempt, Started, Deliver, StopAfter, CompleteEnd,
         StopEpicFails, Crash
<1>3. ASSUME NEW a \in Attempt
      PROVE  CompleteBegin(a) \/ TurnEnds(a) \/ SessionDies(a) => UNCHANGED gates
  BY DEF CompleteBegin, TurnEnds, SessionDies
<1>4. ASSUME NEW e \in Epic PROVE EpicStep(e) => UNCHANGED gates
  BY DEF EpicStep, SetEpicPaused, StopEpicBegin, CloseEpic
<1>5. ASSUME NEW i \in Issue PROVE ScopeReplanned(i) \/ ReopenIssue(i) => UNCHANGED gates
  BY DEF ScopeReplanned, ReopenIssue
<1> QED BY <1>1, <1>2, <1>3, <1>4, <1>5 DEF GatesKept

\* Every step by what it does to the gates.
LEMMA GateSteps ==
    ASSUME [Next]_vars
    PROVE  \/ GatesKept \/ Watch \/ ResumeQueued \/ Handoff \/ CompleteResume \/ StopEpicEnds
           \/ \E a \in Attempt :
                 \/ AgentRequestsRecovery(a) \/ AgentRequestsProject(a) \/ AgentNeedsAuthority(a)
                 \/ UserStep(a)
           \/ UNCHANGED vars
<1>1. Dispatch => GatesKept \/ Watch \/ ResumeQueued \/ Handoff
  BY DEF Dispatch, GatesKept
<1>2. Resolution => GatesKept \/ CompleteResume
  BY DEF Resolution, GatesKept
<1>3. ASSUME NEW a \in Attempt
      PROVE  AgentStep(a) => \/ GatesKept \/ AgentRequestsRecovery(a) \/ AgentRequestsProject(a)
                             \/ AgentNeedsAuthority(a)
  BY DEF AgentStep, GatesKept
<1> QED BY <1>1, <1>2, <1>3 DEF Next, GatesKept


\* Every decision that does not resume lowers gates.
LEMMA LoweredKind ==
    ASSUME Typed, Resuming,
           \/ CompleteResume \/ StopEpicEnds
           \/ \E a \in Attempt : \/ UserRetries(a) \/ UserCancels(a) \/ UserApprovesProject(a)
                                 \/ UserRejectsProject(a) \/ DeliverRejection(a)
                                 \/ UserDecidesAuthority(a) \/ CompleteAuthority(a)
    PROVE  Lowered
<1>0. /\ recovery \in [Attempt -> Paused \cup {"none", "resume_pending"}]
      /\ authority \in [Attempt -> {"none", "open", "pending"}]
      /\ project \in [Attempt -> {"none", "open", "reject_pending"}]
      /\ marked \in [Attempt -> BOOLEAN]
      /\ phase \in [Attempt -> Live \cup Closed \cup {"none"}]
      /\ "resume_pending" \notin Paused /\ "none" \notin Paused /\ "cancelled" \notin Live
  BY Words DEF Typed, GatesTyped, RowsTyped
<1>1. CASE CompleteResume
  <2>1. /\ recovery' = [recovery EXCEPT ![rec.of] = IF @ = "resume_pending" THEN "none" ELSE @]
        /\ rec' = Free /\ UNCHANGED <<authority, project, marked, told>>
    BY <1>1 DEF CompleteResume, platform
  <2>2. GatesTyped'
    BY <1>0, <2>1 DEF GatesTyped
  <2>3. \A a \in Attempt : /\ recovery'[a] \in {recovery[a], "none"}
                           /\ recovery[a] \in Paused => recovery'[a] = recovery[a]
    BY <1>0, <2>1
  <2>4. rec'.pc = "free"
    BY <2>1 DEF Free
  <2> QED BY <1>0, <2>1, <2>2, <2>3, <2>4 DEF Lowered
<1>2. CASE StopEpicEnds
  <2> DEFINE mine(a) == work[a] # None /\ EpicOf[work[a]] = stopping /\ epicStatus[stopping] # "closed"
  <2>1. /\ recovery' = [a \in Attempt |-> IF mine(a) THEN "none" ELSE recovery[a]]
        /\ authority' = [a \in Attempt |-> IF mine(a) THEN "none" ELSE authority[a]]
        /\ project' = [a \in Attempt |-> IF mine(a) THEN "none" ELSE project[a]]
        /\ phase' = [a \in Attempt |-> IF a \in Of(stopping) THEN "cancelled" ELSE phase[a]]
        /\ UNCHANGED <<marked, told, rec>>
    BY <1>2 DEF StopEpicEnds
  <2>2. rec'.pc = "free"
    BY <1>2, <2>1 DEF Resuming, StopEpicEnds
  <2>3. GatesTyped'
    BY <1>0, <2>1 DEF GatesTyped
  <2>4. \A a \in Attempt : mine(a) => phase'[a] \notin Live
    BY <1>0, <2>1 DEF Of, LiveAttempts
  <2> HIDE DEF mine
  <2>5. \A a \in Attempt : /\ recovery'[a] \in {recovery[a], "none"}
                           /\ authority[a] = "none" => authority'[a] = "none"
                           /\ project[a] = "none" => project'[a] = "none"
                           /\ recovery[a] \in Paused /\ recovery'[a] = "none" => phase'[a] \notin Live
    BY <1>0, <2>1, <2>4
  <2> QED BY <2>1, <2>2, <2>3, <2>5 DEF Lowered
<1>3. ASSUME NEW a \in Attempt, UserRetries(a) \/ UserCancels(a) PROVE Lowered
  <2>1. /\ recovery' = [recovery EXCEPT ![a] = "none"] /\ phase' = [phase EXCEPT ![a] = "cancelled"]
        /\ recovery[a] \in Paused
        /\ UNCHANGED <<authority, project, marked, told>>
    BY <1>3 DEF UserRetries, UserCancels, UserGivesUp, platform
  <2>2. GatesTyped'
    BY <1>0, <2>1 DEF GatesTyped
  <2> QED BY <1>0, <2>1, <2>2 DEF Lowered
<1>4. ASSUME NEW a \in Attempt, UserApprovesProject(a) \/ UserRejectsProject(a) \/ DeliverRejection(a)
      PROVE  Lowered
  <2>1. /\ \E s \in {"none", "reject_pending"} : project' = [project EXCEPT ![a] = s]
        /\ project[a] # "none" /\ UNCHANGED <<recovery, authority, marked, told>>
    BY <1>4 DEF UserApprovesProject, UserRejectsProject, DeliverRejection, platform
  <2>2. GatesTyped'
    BY <1>0, <2>1 DEF GatesTyped
  <2> QED BY <1>0, <2>1, <2>2 DEF Lowered
<1>5. ASSUME NEW a \in Attempt, UserDecidesAuthority(a) \/ CompleteAuthority(a)
      PROVE  Lowered
  <2>1. /\ \E s \in {"none", "pending"} : authority' = [authority EXCEPT ![a] = s]
        /\ authority[a] # "none" /\ UNCHANGED <<recovery, project, marked, told>>
    BY <1>5 DEF UserDecidesAuthority, CompleteAuthority, platform
  <2>2. GatesTyped'
    BY <1>0, <2>1 DEF GatesTyped
  <2> QED BY <1>0, <2>1, <2>2 DEF Lowered
<1> QED BY <1>1, <1>2, <1>3, <1>4, <1>5

LEMMA GateKindOfStep ==
    ASSUME Typed, Resuming, [Next]_vars
    PROVE  GateKind
<1>1. CASE GatesKept \/ UNCHANGED vars
  BY <1>1, GatesKeptUnchanged DEF vars, GateKind
<1>2. CASE Watch
  <2> DEFINE a == First(disp.left)
  <2>1. a \in Attempt
    BY <1>2, PassFacts DEF Watch, Typed
  <2>2. UNCHANGED gates \/ Raised(a)
    BY <1>2 DEF Watch, Raised, gates
  <2> QED BY <2>1, <2>2 DEF GateKind
<1>3. CASE ResumeQueued
  <2> DEFINE a == First(disp.left)
  <2>1. a \in Attempt
    BY <1>3, PassFacts DEF ResumeQueued, Typed
  <2>2. UNCHANGED gates \/ Resumed(a)
    BY <1>3 DEF ResumeQueued, Resumed, gates
  <2> QED BY <2>1, <2>2 DEF GateKind
<1>4. CASE Handoff
  <2>1. UNCHANGED <<rows, recovery, authority, project, rec, stopping>>
    BY <1>4 DEF Handoff
  <2>2. UNCHANGED marked \/ \E a \in Attempt : marked' = [marked EXCEPT ![a] = TRUE]
    BY <1>4 DEF Handoff, Of, LiveAttempts
  <2> QED BY <1>4, <2>1, <2>2 DEF Yielding, gates, GateKind
<1>5. CASE CompleteResume \/ StopEpicEnds
  BY <1>5, LoweredKind DEF GateKind
<1>6. ASSUME NEW a \in Attempt, AgentRequestsRecovery(a) PROVE GateKind
  <2>1. Raised(a)
    BY <1>6 DEF AgentRequestsRecovery, Raised
  <2> QED BY <2>1 DEF GateKind
<1>7. ASSUME NEW a \in Attempt, AgentRequestsProject(a) \/ AgentNeedsAuthority(a) PROVE GateKind
  <2>1. Asked(a)
    BY <1>7 DEF AgentRequestsProject, AgentNeedsAuthority, Asked
  <2> QED BY <2>1 DEF GateKind
<1>8. ASSUME NEW a \in Attempt, UserStep(a) PROVE GateKind
  <2>1. CASE UserResumes(a)
    <3>1. Resumed(a)
      BY <2>1 DEF UserResumes, Resumed
    <3> QED BY <3>1 DEF GateKind
  <2>2. CASE ~UserResumes(a)
    BY <1>8, <2>2, LoweredKind DEF UserStep, GateKind
  <2> QED BY <2>1, <2>2
<1>9. \/ GatesKept \/ Watch \/ ResumeQueued \/ Handoff \/ CompleteResume \/ StopEpicEnds
      \/ \E a \in Attempt :
            \/ AgentRequestsRecovery(a) \/ AgentRequestsProject(a) \/ AgentNeedsAuthority(a)
            \/ UserStep(a)
      \/ UNCHANGED vars
  BY GateSteps
<1> QED BY <1>1, <1>2, <1>3, <1>4, <1>5, <1>6, <1>7, <1>8, <1>9


LEMMA GatesTypedStep ==
    ASSUME Typed, GateKind
    PROVE  GatesTyped'
<1>0. /\ recovery \in [Attempt -> Paused \cup {"none", "resume_pending"}]
      /\ authority \in [Attempt -> {"none", "open", "pending"}]
      /\ project \in [Attempt -> {"none", "open", "reject_pending"}]
      /\ marked \in [Attempt -> BOOLEAN]
      /\ {"open", "queued"} = Paused
  BY Words DEF Typed, GatesTyped
<1>1. CASE UNCHANGED gates \/ Lowered
  BY <1>0, <1>1 DEF Lowered, gates, GatesTyped
<1>2. ASSUME NEW a \in Attempt, Raised(a) PROVE GatesTyped'
  BY <1>0, <1>2 DEF Raised, CreateRecovery, GatesTyped
<1>3. ASSUME NEW a \in Attempt, Asked(a) PROVE GatesTyped'
  BY <1>0, <1>3 DEF Asked, GatesTyped
<1>4. ASSUME NEW a \in Attempt, Resumed(a) PROVE GatesTyped'
  BY <1>0, <1>4 DEF Resumed, Resume, GatesTyped
<1>5. ASSUME NEW a \in Attempt, Yielding(a) PROVE GatesTyped'
  BY <1>0, <1>5 DEF Yielding, GatesTyped
<1> QED BY <1>1, <1>2, <1>3, <1>4, <1>5 DEF GateKind

\* A phase "none" never returns, and a completion begins without a gate.
LEMMA PhaseStep ==
    ASSUME Typed, RowKind, NEW a \in Attempt
    PROVE  /\ phase'[a] = "none" => phase[a] = "none"
           /\ phase'[a] = "stopping" => phase[a] = "stopping" \/ (~Gated(a) /\ UNCHANGED gates)
<1>0. phase \in [Attempt -> Live \cup Closed \cup {"none"}]
  BY DEF Typed, RowsTyped
<1>1. ASSUME NEW b \in Attempt, NEW p \in Closed, NEW s, NEW n, Ended(b, p, s, n)
      PROVE  phase' = [phase EXCEPT ![b] = p] /\ p \notin {"none", "stopping"}
  BY <1>1, Words DEF Ended
<1>2. ASSUME NEW b \in Attempt, NEW p \in {"active", "stopping"}, Progressed(b, p)
      PROVE  /\ phase' = [phase EXCEPT ![b] = p]
             /\ p = "stopping" => ~Gated(b) /\ UNCHANGED gates
  BY <1>2 DEF Progressed
<1>3. ASSUME NEW b \in Attempt, NEW i, Claimed(b, i)
      PROVE  phase' = [phase EXCEPT ![b] = "prepared"]
  BY <1>3 DEF Claimed
<1>4. ASSUME NEW e, EpicStopped(e)
      PROVE  \A b \in Attempt : phase'[b] \in {phase[b], "cancelled"}
  BY <1>4 DEF EpicStopped
<1>5. \/ phase' = phase
      \/ \E b \in Attempt, p \in Closed : \E s, n : Ended(b, p, s, n)
      \/ \E b \in Attempt, p \in {"active", "stopping"} : Progressed(b, p)
      \/ \E b \in Attempt : \E i : Claimed(b, i)
      \/ \E e : EpicStopped(e)
  BY DEF RowKind, rows, EpicSet, Reopened
<1>6. ASSUME NEW b \in Attempt, NEW p \in Closed \cup {"prepared", "active", "stopping"},
             phase' = [phase EXCEPT ![b] = p],
             p = "stopping" => ~Gated(b) /\ UNCHANGED gates
      PROVE  /\ phase'[a] = "none" => phase[a] = "none"
             /\ phase'[a] = "stopping" => phase[a] = "stopping" \/ (~Gated(a) /\ UNCHANGED gates)
  BY <1>0, <1>6, Words
<1> QED BY <1>1, <1>2, <1>3, <1>4, <1>5, <1>6, Words

LEMMA StoppingUngatedStep ==
    ASSUME Typed, StoppingUngated, RowKind, GateKind
    PROVE  StoppingUngated'
<1> SUFFICES ASSUME NEW a \in Attempt, phase'[a] = "stopping"
             PROVE  ~Gated(a)'
  BY DEF StoppingUngated
<1>0. /\ recovery \in [Attempt -> Paused \cup {"none", "resume_pending"}]
      /\ authority \in [Attempt -> {"none", "open", "pending"}]
      /\ project \in [Attempt -> {"none", "open", "reject_pending"}]
  BY DEF Typed, GatesTyped
<1>1. CASE UNCHANGED gates
  BY <1>1, PhaseStep DEF StoppingUngated, Gated, gates
<1>2. CASE ~ UNCHANGED gates
  <2>1. phase[a] = "stopping" /\ recovery[a] = "none" /\ authority[a] = "none" /\ project[a] = "none"
    BY <1>2, PhaseStep DEF StoppingUngated, Gated
  <2>2. ASSUME NEW b \in Attempt, Raised(b) PROVE ~Gated(a)'
    BY <1>0, <2>1, <2>2 DEF Raised, CreateRecovery, Gated
  <2>3. ASSUME NEW b \in Attempt, Asked(b) PROVE ~Gated(a)'
    BY <1>0, <2>1, <2>3 DEF Asked, Gated
  <2>4. ASSUME NEW b \in Attempt, Resumed(b) PROVE ~Gated(a)'
    BY <1>0, <2>1, <2>4 DEF Resumed, Resumable, Resume, Gated
  <2>5. ASSUME NEW b \in Attempt, Yielding(b) PROVE ~Gated(a)'
    BY <1>0, <2>1, <2>5 DEF Yielding, Gated
  <2>6. CASE Lowered
    BY <2>1, <2>6 DEF Lowered, Gated
  <2> QED BY <1>2, <2>2, <2>3, <2>4, <2>5, <2>6 DEF GateKind
<1> QED BY <1>1, <1>2

LEMMA OneGateStep ==
    ASSUME Typed, OneGate, GateKind
    PROVE  OneGate'
<1>0. /\ recovery \in [Attempt -> Paused \cup {"none", "resume_pending"}]
      /\ project \in [Attempt -> {"none", "open", "reject_pending"}]
  BY DEF Typed, GatesTyped
<1>1. CASE UNCHANGED gates
  BY <1>1 DEF OneGate, gates
<1>2. ASSUME NEW b \in Attempt, Raised(b) PROVE OneGate'
  BY <1>0, <1>2 DEF Raised, CreateRecovery, OneGate
<1>3. ASSUME NEW b \in Attempt, Asked(b) PROVE OneGate'
  BY <1>0, <1>3 DEF Asked, Gated, OneGate
<1>4. ASSUME NEW b \in Attempt, Resumed(b) PROVE OneGate'
  BY <1>0, <1>4 DEF Resumed, Resume, OneGate
<1>5. ASSUME NEW b \in Attempt, Yielding(b) PROVE OneGate'
  BY <1>5 DEF Yielding, OneGate
<1>6. CASE Lowered
  BY <1>0, <1>6 DEF Lowered, OneGate
<1> QED BY <1>1, <1>2, <1>3, <1>4, <1>5, <1>6 DEF GateKind


-----------------------------------------------------------------------------
(* What a step does to the sessions.                                       *)

\* No turn starts.
Calmer ==
    /\ session' \in [Attempt -> {"none", "idle", "busy", "gone"}]
    /\ \A a \in Attempt : session'[a] = "busy" => session[a] = "busy"

\* A prompt, a response or the feedback to a project request starts a turn.
Prompted(a) ==
    /\ session' = [session EXCEPT ![a] = "busy"]
    /\ \/ disp.pc = "prompt" /\ a = disp.cur /\ disp'.pc = "answer"
       \/ rec.pc = "deliver" /\ a = rec.of
       \/ project[a] # "none"

SessionKind == Calmer \/ \E a \in Attempt : Prompted(a)

LEMMA Quieting ==
    ASSUME PlatformTyped
    PROVE  /\ UNCHANGED session => Calmer
           /\ \A A : session' = Idled(A) => Calmer
           /\ \A a : TryStop(a) => Calmer
<1>1. UNCHANGED session => Calmer
  BY DEF Calmer, PlatformTyped
<1>2. ASSUME NEW A, session' = Idled(A) PROVE Calmer
  BY <1>2 DEF Calmer, PlatformTyped, Idled
<1> QED BY <1>1, <1>2 DEF TryStop, StopSession, StopFails

\* The steps that leave every session.
SessionsKept ==
    \/ BeginPass \/ ReconcileActive \/ Probe \/ EndReconcile \/ Watch \/ Wake \/ ResumeQueued \/ ListReady
    \/ Claim \/ EndPass \/ Started \/ CompleteResume \/ CompleteEnd
    \/ \E a \in Attempt :
          \/ AgentRequestsRecovery(a) \/ AgentRequestsProject(a) \/ AgentNeedsAuthority(a) \/ CompleteBegin(a)
          \/ UserResumes(a) \/ UserRetries(a) \/ UserCancels(a)
          \/ UserRejectsProject(a) \/ UserDecidesAuthority(a) \/ CompleteAuthority(a)
    \/ \E e \in Epic : EpicStep(e)
    \/ \E i \in Issue : ScopeReplanned(i) \/ ReopenIssue(i)

LEMMA SessionsKeptUnchanged == SessionsKept => UNCHANGED session
<1>1. \/ BeginPass \/ ReconcileActive \/ Probe \/ EndReconcile \/ Watch \/ Wake \/ ResumeQueued \/ ListReady
      => UNCHANGED session
  BY DEF BeginPass, ReconcileActive, Probe, EndReconcile, Watch, Wake, ResumeQueued, ListReady, platform
<1>2. Claim \/ EndPass \/ Started \/ CompleteResume \/ CompleteEnd => UNCHANGED session
  BY DEF Claim, EndPass, Started, CompleteResume, CompleteEnd, platform
<1>3. ASSUME NEW a \in Attempt
      PROVE  \/ AgentRequestsRecovery(a) \/ AgentRequestsProject(a) \/ AgentNeedsAuthority(a) \/ CompleteBegin(a)
             => UNCHANGED session
  BY DEF AgentRequestsRecovery, AgentRequestsProject, AgentNeedsAuthority, CompleteBegin, platform
<1>4. ASSUME NEW a \in Attempt
      PROVE  \/ UserResumes(a) \/ UserRetries(a) \/ UserCancels(a)
             \/ UserRejectsProject(a) \/ UserDecidesAuthority(a) \/ CompleteAuthority(a)
             => UNCHANGED session
  BY DEF UserResumes, UserRetries, UserCancels, UserGivesUp, UserRejectsProject, UserDecidesAuthority,
         CompleteAuthority, platform
<1>5. ASSUME NEW e \in Epic PROVE EpicStep(e) => UNCHANGED session
  BY DEF EpicStep, SetEpicPaused, StopEpicBegin, CloseEpic, platform
<1>6. ASSUME NEW i \in Issue PROVE ScopeReplanned(i) \/ ReopenIssue(i) => UNCHANGED session
  BY DEF ScopeReplanned, ReopenIssue, platform
<1> QED BY <1>1, <1>2, <1>3, <1>4, <1>5, <1>6 DEF SessionsKept

\* The steps that stop sessions or lose them.
Stopping ==
    \/ ReconcileStopping \/ Handoff \/ Launch \/ Activate \/ Answer \/ StartAttempt
    \/ StopAfter \/ StopEpicFails \/ StopEpicEnds \/ Crash
    \/ \E a \in Attempt : TurnEnds(a) \/ SessionDies(a) \/ UserApprovesProject(a)

LEMMA StoppingCalms ==
    ASSUME PlatformTyped, Stopping
    PROVE  Calmer
<1>1. CASE ReconcileStopping
  <2>1. TryStop(First(disp.left))
    BY <1>1 DEF ReconcileStopping, TryStop
  <2> QED BY <2>1, Quieting
<1>2. CASE Handoff
  <2>1. UNCHANGED session \/ \E A : session' = Idled(A)
    BY <1>2 DEF Handoff, StopFails, StopSession
  <2> QED BY <2>1, Quieting
<1>3. CASE Launch
  <2>1. UNCHANGED session \/ session' = [session EXCEPT ![disp.cur] = "idle"]
    BY <1>3 DEF Launch
  <2> QED BY <2>1 DEF PlatformTyped, Calmer
<1>4. CASE Activate \/ StopAfter
  <2>1. UNCHANGED session \/ \E a : TryStop(a)
    BY <1>4 DEF Activate, StopAfter
  <2> QED BY <2>1, Quieting
<1>5. CASE Answer
  <2>1. UNCHANGED session \/ \E A : session' = Idled(A)
    BY <1>5 DEF Answer
  <2> QED BY <2>1, Quieting
<1>6. CASE StartAttempt
  <2>1. UNCHANGED session \/ \E A : session' = Idled(A)
    BY <1>6 DEF StartAttempt, StopFails, StopSession
  <2> QED BY <2>1, Quieting
<1>7. CASE StopEpicFails \/ StopEpicEnds
  <2>1. \E A : session' = Idled(A)
    BY <1>7 DEF StopEpicFails, StopEpicEnds
  <2> QED BY <2>1, Quieting
<1>8. CASE Crash
  <2>1. UNCHANGED session \/ session' = [a \in Attempt |-> IF session[a] = "none" THEN "none" ELSE "gone"]
    BY <1>8 DEF Crash
  <2> QED BY <2>1 DEF PlatformTyped, Calmer
<1>9. ASSUME NEW a \in Attempt, TurnEnds(a) \/ SessionDies(a)
      PROVE  Calmer
  <2>1. \E s \in {"idle", "gone"} : session' = [session EXCEPT ![a] = s]
    BY <1>9 DEF TurnEnds, SessionDies
  <2> QED BY <2>1 DEF PlatformTyped, Calmer
<1>10. ASSUME NEW a \in Attempt, UserApprovesProject(a)
       PROVE  Calmer
  BY <1>10, Quieting DEF UserApprovesProject, StopSession
<1> QED BY <1>1, <1>2, <1>3, <1>4, <1>5, <1>6, <1>7, <1>8, <1>9, <1>10 DEF Stopping

LEMMA SessionKindOfStep ==
    ASSUME Typed, [Next]_vars
    PROVE  SessionKind
<1>0. PlatformTyped
  BY DEF Typed
<1>1. CASE SessionsKept \/ UNCHANGED vars
  BY <1>0, <1>1, SessionsKeptUnchanged, Quieting DEF vars, platform, SessionKind
<1>2. CASE Stopping
  BY <1>0, <1>2, StoppingCalms DEF SessionKind
<1>3. CASE Prompt
  <2>1. disp.cur \in Attempt
    BY <1>3, PassFacts DEF Prompt, Launching, Typed
  <2>2. UNCHANGED session \/ Prompted(disp.cur)
    BY <1>3, <2>1 DEF Prompt, Prompted, Typed, PassTyped, PassesOf, Launching
  <2> QED BY <1>0, <2>1, <2>2, Quieting DEF SessionKind
<1>4. CASE Deliver
  <2>1. rec.of \in Attempt
    BY <1>4 DEF Deliver, Typed, OthersTyped
  <2>2. UNCHANGED session \/ Prompted(rec.of)
    BY <1>4 DEF Deliver, Prompted, platform
  <2> QED BY <1>0, <2>1, <2>2, Quieting DEF SessionKind
<1>5. ASSUME NEW a \in Attempt, DeliverRejection(a) PROVE SessionKind
  <2>1. UNCHANGED session \/ Prompted(a)
    BY <1>5 DEF DeliverRejection, Prompted
  <2> QED BY <1>0, <2>1, Quieting DEF SessionKind
<1>6. Dispatch => SessionsKept \/ Stopping \/ Prompt
  BY DEF Dispatch, SessionsKept, Stopping
<1>7. Resolution => SessionsKept \/ Stopping \/ Deliver
  BY DEF Resolution, SessionsKept, Stopping
<1>8. ASSUME NEW a \in Attempt
      PROVE  AgentStep(a) \/ UserStep(a) => SessionsKept \/ Stopping \/ DeliverRejection(a)
  BY DEF AgentStep, UserStep, SessionsKept, Stopping
<1>9. SessionsKept \/ Stopping \/ Prompt \/ Deliver \/ (\E a \in Attempt : DeliverRejection(a)) \/ UNCHANGED vars
  BY <1>6, <1>7, <1>8 DEF Next, SessionsKept, Stopping
<1> QED BY <1>1, <1>2, <1>3, <1>4, <1>5, <1>9


\* The response counts once: only Deliver sends it, and only when it is not there.
LEMMA ToldStep ==
    ASSUME Typed, [Next]_vars
    PROVE  told' \in [Attempt -> 0..1]
<1>0. told \in [Attempt -> 0..1]
  BY DEF Typed, PlatformTyped
<1> DEFINE Good == UNCHANGED told \/ \E a \in Attempt : told' = [told EXCEPT ![a] = 0]
<1>1. \/ BeginPass \/ ReconcileStopping \/ ReconcileActive \/ Probe \/ EndReconcile \/ Wake \/ ResumeQueued
      \/ ListReady \/ Handoff \/ Claim
      => Good
  BY DEF BeginPass, ReconcileStopping, ReconcileActive, Probe, EndReconcile, Wake, ResumeQueued, ListReady,
         Handoff, Claim, platform
<1>2. \/ Launch \/ Activate \/ Prompt \/ Answer \/ EndPass \/ StartAttempt \/ Started
      \/ CompleteResume \/ StopAfter \/ CompleteEnd \/ StopEpicFails \/ StopEpicEnds \/ Crash
      => Good
  BY DEF Launch, Activate, Prompt, Answer, EndPass, StartAttempt, Started, CompleteResume, StopAfter,
         CompleteEnd, StopEpicFails, StopEpicEnds, Crash, platform
<1>3. Watch => Good
  <2>1. Watch => disp.left # {} /\ disp.pc = "watch"
    BY DEF Watch
  <2>2. Watch => First(disp.left) \in Attempt
    BY <2>1, PassFacts DEF Typed
  <2> QED BY <2>2 DEF Watch, CreateRecovery
<1>4. ASSUME NEW a \in Attempt PROVE AgentStep(a) => Good
  BY DEF AgentStep, AgentRequestsRecovery, CreateRecovery, AgentRequestsProject, AgentNeedsAuthority,
         CompleteBegin, TurnEnds, SessionDies, platform
<1>5. ASSUME NEW a \in Attempt PROVE UserStep(a) => Good
  BY DEF UserStep, UserResumes, UserRetries, UserCancels, UserGivesUp, UserApprovesProject,
         UserRejectsProject, DeliverRejection, UserDecidesAuthority, CompleteAuthority, platform
<1>6. ASSUME NEW e \in Epic PROVE EpicStep(e) => Good
  BY DEF EpicStep, SetEpicPaused, StopEpicBegin, CloseEpic, platform
<1>7. ASSUME NEW i \in Issue PROVE ScopeReplanned(i) \/ ReopenIssue(i) => Good
  BY DEF ScopeReplanned, ReopenIssue, platform
<1>8. UNCHANGED vars => Good
  BY DEF vars, platform
<1>9. Deliver => Good \/ \E a \in Attempt : told' = [told EXCEPT ![a] = 1]
  <2>1. Deliver => rec.of \in Attempt
    BY DEF Deliver, Typed, OthersTyped
  <2>2. ASSUME Deliver, ~ UNCHANGED told
        PROVE  told' = [told EXCEPT ![rec.of] = 1]
    <3>1. told[rec.of] \in 0..1
      BY <1>0, <2>1, <2>2
    <3>2. \/ ~(told[rec.of] > 0) /\ told' = [told EXCEPT ![rec.of] = told[rec.of] + 1]
          \/ told' = [told EXCEPT ![rec.of] = 1]
      BY <2>2 DEF Deliver, platform
    <3>3. told[rec.of] \in Nat /\ (~(told[rec.of] > 0) => told[rec.of] + 1 = 1)
      BY <3>1
    <3> QED BY <3>2, <3>3
  <2> QED BY <2>1, <2>2
<1>10. Dispatch \/ Resolution => Good \/ \E a \in Attempt : told' = [told EXCEPT ![a] = 1]
  BY <1>1, <1>2, <1>3, <1>9 DEF Dispatch, Resolution
<1>11. Good \/ \E a \in Attempt : told' = [told EXCEPT ![a] = 1]
  BY <1>2, <1>4, <1>5, <1>6, <1>7, <1>8, <1>10 DEF Next
<1> QED BY <1>0, <1>11

LEMMA BusyStep ==
    ASSUME Typed, SessionKind
    PROVE  /\ session' \in [Attempt -> {"none", "idle", "busy", "gone"}]
           /\ \A a \in Attempt : session'[a] = "busy" => session[a] = "busy" \/ Prompted(a)
BY DEF SessionKind, Calmer, Prompted, Typed, PlatformTyped


-----------------------------------------------------------------------------
(* What a step does to the pass and to the mutexes.                        *)

Fetching == {"launch", "activate", "prompt"}

\* The pass leaves the launch, stays in it or starts it with a new Attempt.
PassKind ==
    \/ disp'.pc \notin Fetching
    \/ disp'.pc \in Fetching /\ disp.pc \in Fetching /\ disp'.cur = disp.cur
    \/ /\ disp'.pc = "launch" /\ disp'.cur \in Attempt
       /\ phase[disp'.cur] = "none" /\ phase'[disp'.cur] # "none"
       /\ UNCHANGED <<gates, session>>

\* The steps of a pass that visit Attempts.
LEMMA VisitStep ==
    ASSUME PassTyped,
           \/ BeginPass \/ ReconcileStopping \/ ReconcileActive \/ Probe \/ EndReconcile
           \/ Watch \/ Wake \/ ResumeQueued \/ StartAttempt \/ Started \/ Crash
    PROVE  PassTyped' /\ disp'.pc \notin Fetching
<1> DEFINE P == PassesOf({"start", "idle", "reconcile", "watch", "resume"}, Attempt, Attempt \cup {None})
<1>0. P \subseteq P' /\ (disp' \in P => PassTyped' /\ disp'.pc \notin Fetching)
  BY DEF PassTyped, PassesOf, Fetching
<1>1. CASE BeginPass \/ Crash \/ Started
  <2>1. disp' \in P
    BY <1>1 DEF BeginPass, Crash, Started, Idle, Pass, PassesOf, LiveAttempts
  <2> QED BY <1>0, <2>1
<1>2. CASE ReconcileStopping
  <2>1. disp' = Pass("reconcile", disp.left \ {First(disp.left)}, disp.kept, None)
    BY <1>2 DEF ReconcileStopping, Visited
  <2>2. disp' \in P
    BY <1>2, <2>1, PassFacts DEF Pass, PassesOf, ReconcileStopping
  <2> QED BY <1>0, <2>2
<1>3. CASE ReconcileActive
  <2>1. CASE disp' = Pass("reconcile", disp.left \ {First(disp.left)}, disp.kept, None)
    <3>1. disp' \in P
      BY <1>3, <2>1, PassFacts DEF Pass, PassesOf, ReconcileActive
    <3> QED BY <1>0, <3>1
  <2>2. CASE disp' = [disp EXCEPT !.pc = "probe", !.cur = First(disp.left)]
    <3>1. First(disp.left) \in Attempt /\ disp.pc = "reconcile"
      BY <1>3, PassFacts DEF ReconcileActive
    <3>2. disp' \in PassesOf({"probe"}, Attempt, Attempt)
      BY <2>2, <3>1 DEF PassTyped, PassesOf, Launching
    <3> QED BY <3>2 DEF PassTyped, PassesOf, Fetching
  <2> QED BY <1>3, <2>1, <2>2 DEF ReconcileActive, Visited
<1>4. CASE Probe
  <2>1. \/ disp' = Pass("reconcile", disp.left \ {disp.cur}, disp.kept, None)
        \/ disp' = Pass("reconcile", disp.left \ {disp.cur}, disp.kept \cup {disp.cur}, None)
    BY <1>4 DEF Probe, Visited
  <2>2. disp' \in P
    BY <1>4, <2>1, PassFacts DEF Pass, PassesOf, Probe
  <2> QED BY <1>0, <2>2
<1>5. CASE EndReconcile \/ Watch \/ Wake
  <2>1. \/ disp' = Pass("watch", disp.kept, {}, None)
        \/ disp.pc = "watch" /\ disp' = Pass("watch", disp.left \ {First(disp.left)}, {}, None)
        \/ disp' = Pass("resume", {a \in Attempt : recovery[a] = "queued"}, {}, None)
    BY <1>5 DEF EndReconcile, Watch, Wake
  <2>2. disp' \in P
    BY <2>1, PassFacts DEF Pass, PassesOf
  <2> QED BY <1>0, <2>2
<1>6. CASE ResumeQueued
  <2>1. disp.left \subseteq Attempt /\ First(disp.left) \in Attempt
    BY <1>6, PassFacts DEF ResumeQueued
  <2>2. disp' = Pass("resume", disp.left \ {First(disp.left)}, {}, First(disp.left))
    BY <1>6 DEF ResumeQueued
  <2>3. disp' \in P
    BY <2>1, <2>2 DEF Pass, PassesOf
  <2> QED BY <1>0, <2>3
<1>7. CASE StartAttempt
  <2>1. disp.pc = "start" /\ disp' = [disp EXCEPT !.left = disp.left \ {First(disp.left)}]
    BY <1>7 DEF StartAttempt
  <2>2. disp' \in P
    BY <2>1 DEF PassTyped, PassesOf, Launching
  <2> QED BY <1>0, <2>2
<1> QED BY <1>1, <1>2, <1>3, <1>4, <1>5, <1>6, <1>7

\* The steps of a pass that offer Issues.
LEMMA OfferStep ==
    ASSUME PassTyped,
           \/ ListReady \/ Handoff \/ EndPass \/ Launch \/ Activate \/ Prompt \/ Answer
    PROVE  PassTyped' /\ (\/ disp'.pc \notin Fetching
                          \/ disp'.pc \in Fetching /\ disp.pc \in Fetching /\ disp'.cur = disp.cur)
<1> DEFINE H == PassesOf({"handoff"}, Issue, {None})
<1>0. disp' \in H => PassTyped' /\ disp'.pc \notin Fetching
  BY DEF PassTyped, PassesOf, Fetching
<1>1. CASE ListReady
  <2>1. disp' \in H
    BY <1>1 DEF ListReady, Pass, PassesOf
  <2> QED BY <1>0, <2>1
<1>2. CASE EndPass
  BY <1>2 DEF EndPass, Idle, Pass, PassTyped, PassesOf, Fetching
<1>3. CASE Handoff
  <2> DEFINE i == First(disp.left)
  <2>1. disp.left \subseteq Issue /\ i \in Issue /\ disp.pc = "handoff"
    BY <1>3, PassFacts DEF Handoff
  <2>2. \/ disp' = Pass("handoff", disp.left \ {i}, {}, None)
        \/ disp' = [disp EXCEPT !.pc = "claim", !.cur = i]
    BY <1>3 DEF Handoff, SkipIssue
  <2>3. CASE disp' = Pass("handoff", disp.left \ {i}, {}, None)
    <3>1. disp' \in H
      BY <2>1, <2>3 DEF Pass, PassesOf
    <3> QED BY <1>0, <3>1
  <2>4. CASE disp' = [disp EXCEPT !.pc = "claim", !.cur = i]
    <3>1. disp' \in PassesOf({"claim"}, Issue, Issue)
      BY <2>1, <2>4 DEF PassTyped, PassesOf, Launching
    <3> QED BY <3>1 DEF PassTyped, PassesOf, Fetching
  <2> QED BY <2>2, <2>3, <2>4
<1>4. CASE Launch \/ Activate \/ Prompt \/ Answer
  <2>1. disp.pc \in Launching /\ disp.left \subseteq Issue
    BY <1>4, PassFacts DEF Launch, Activate, Prompt, Answer, Launching
  <2>2. \/ disp' = Pass("handoff", disp.left, {}, None)
        \/ /\ disp.pc = "launch" /\ disp' = [disp EXCEPT !.pc = "activate"]
        \/ /\ disp.pc = "activate" /\ disp' = [disp EXCEPT !.pc = "prompt"]
        \/ /\ disp.pc = "prompt" /\ disp' = [disp EXCEPT !.pc = "answer"]
    BY <1>4 DEF Launch, Activate, Prompt, Answer, NextIssue
  <2>3. CASE disp' = Pass("handoff", disp.left, {}, None)
    <3>1. disp' \in H
      BY <2>1, <2>3 DEF Pass, PassesOf
    <3> QED BY <1>0, <3>1
  <2>4. CASE \E pc \in {"activate", "prompt", "answer"} :
               /\ disp' = [disp EXCEPT !.pc = pc]
               /\ pc \in Fetching => disp.pc \in Fetching
    <3>1. disp \in PassesOf(Launching, Issue, Attempt)
      BY <2>1 DEF PassTyped, PassesOf, Launching
    <3>2. /\ disp' \in PassesOf(Launching, Issue, Attempt)
          /\ disp'.cur = disp.cur /\ (disp'.pc \in Fetching => disp.pc \in Fetching)
      BY <2>4, <3>1 DEF PassesOf, Launching
    <3> QED BY <3>2 DEF PassTyped
  <2> QED BY <2>2, <2>3, <2>4 DEF Fetching
<1> QED BY <1>1, <1>2, <1>3, <1>4

LEMMA ClaimPass ==
    ASSUME Typed, Claim
    PROVE  PassTyped' /\ PassKind
<1>1. disp.pc = "claim" /\ disp.left \subseteq Issue /\ disp.cur \in Issue
  BY PassFacts DEF Claim, Typed
<1>2. CASE disp' = Pass("handoff", disp.left \ {disp.cur}, {}, None)
  <2>1. disp' \in PassesOf({"handoff"}, Issue, {None})
    BY <1>1, <1>2 DEF Pass, PassesOf
  <2> QED BY <2>1 DEF PassTyped, PassesOf, PassKind, Fetching
<1>3. CASE ~(disp' = Pass("handoff", disp.left \ {disp.cur}, {}, None))
  <2> DEFINE a == First(Unused)
  <2>1. /\ Unused # {} /\ disp' = Pass("launch", disp.left \ {disp.cur}, {}, a)
        /\ phase' = [phase EXCEPT ![a] = "prepared"] /\ UNCHANGED <<gates, platform>>
    BY <1>3 DEF Claim, SkipIssue
  <2>2. a \in Unused
    <3>1. Unused \subseteq Nat
      BY Constants DEF Unused
    <3> QED BY <2>1, <3>1, FirstIn
  <2>3. a \in Attempt /\ phase[a] = "none" /\ phase'[a] # "none"
    BY <2>1, <2>2 DEF Unused, Typed, RowsTyped
  <2>4. disp' \in PassesOf(Launching, Issue, Attempt)
    BY <1>1, <2>1, <2>3 DEF Pass, PassesOf, Launching
  <2>5. disp'.pc = "launch" /\ disp'.cur = a
    BY <2>1 DEF Pass
  <2>6. PassTyped'
    BY <2>4 DEF PassTyped
  <2>7. PassKind
    BY <2>1, <2>3, <2>5 DEF PassKind, platform
  <2> QED BY <2>6, <2>7
<1> QED BY <1>2, <1>3


\* What happens to the pass when the dispatcher does not move.
LEMMA PassStep ==
    ASSUME Typed, [Next]_vars
    PROVE  PassTyped' /\ PassKind
<1>0. PassTyped
  BY DEF Typed
<1>1. CASE UNCHANGED disp
  BY <1>0, <1>1 DEF PassTyped, PassesOf, PassKind
<1>2. CASE Dispatch \/ Crash
  <2>1. CASE Claim
    BY <2>1, ClaimPass
  <2>2. CASE \/ BeginPass \/ ReconcileStopping \/ ReconcileActive \/ Probe \/ EndReconcile
             \/ Watch \/ Wake \/ ResumeQueued \/ StartAttempt \/ Started \/ Crash
    BY <1>0, <2>2, VisitStep DEF PassKind
  <2>3. CASE ListReady \/ Handoff \/ EndPass \/ Launch \/ Activate \/ Prompt \/ Answer
    BY <1>0, <2>3, OfferStep DEF PassKind
  <2> QED BY <1>2, <2>1, <2>2, <2>3 DEF Dispatch
<1>3. Resolution \/ CompleteEnd \/ StopEpicFails \/ StopEpicEnds \/ UNCHANGED vars => UNCHANGED disp
  BY DEF Resolution, Deliver, CompleteResume, StopAfter, CompleteEnd, StopEpicFails, StopEpicEnds, vars, memory
<1>4. ASSUME NEW a \in Attempt
      PROVE  AgentStep(a) => UNCHANGED disp
  BY DEF AgentStep, AgentRequestsRecovery, AgentRequestsProject, AgentNeedsAuthority, CompleteBegin,
         TurnEnds, SessionDies, memory
<1>5. ASSUME NEW a \in Attempt
      PROVE  UserStep(a) => UNCHANGED disp
  BY DEF UserStep, UserResumes, UserRetries, UserCancels, UserGivesUp, UserApprovesProject,
         UserRejectsProject, DeliverRejection, UserDecidesAuthority, CompleteAuthority, memory
<1>6. ASSUME NEW e \in Epic PROVE EpicStep(e) => UNCHANGED disp
  BY DEF EpicStep, SetEpicPaused, StopEpicBegin, CloseEpic, memory
<1>7. ASSUME NEW i \in Issue PROVE ScopeReplanned(i) \/ ReopenIssue(i) => UNCHANGED disp
  BY DEF ScopeReplanned, ReopenIssue, memory
<1> QED BY <1>1, <1>2, <1>3, <1>4, <1>5, <1>6, <1>7 DEF Next

\* The recovery mutex and the Epic that is stopped.
MutexKind ==
    \/ UNCHANGED <<rec, stopping>>
    \/ rec' = Free /\ (UNCHANGED stopping \/ stopping' = NoEpic)
    \/ \E a \in Attempt : Resumed(a)
    \/ rec.pc = "deliver" /\ rec' = [rec EXCEPT !.pc = "complete"] /\ UNCHANGED <<gates, stopping>>
    \/ RecoveryFree /\ UNCHANGED stopping /\ \E a \in Attempt : rec' = [pc |-> "stop", of |-> a]
    \/ RecoveryFree /\ UNCHANGED rec /\ stopping' \in Epic
    \/ UNCHANGED rec /\ stopping' = NoEpic

\* The rest of the memory: what CompleteAttempt holds and the failed handoffs.
RestKind ==
    /\ finishing' \in Attempt \cup {None}
    /\ blocked' \subseteq Attempt /\ (Handoff \/ blocked' \subseteq blocked)
    /\ UNCHANGED faults \/ Fault

MemoryKept == UNCHANGED <<finishing, rec, stopping, blocked>> /\ (UNCHANGED faults \/ Fault)

LEMMA MemoryKeptBy ==
    ASSUME \/ BeginPass \/ ReconcileStopping \/ ReconcileActive \/ Probe \/ EndReconcile \/ Wake \/ ListReady
           \/ Claim \/ Launch \/ Activate \/ Prompt \/ Answer \/ EndPass \/ StartAttempt \/ Started
           \/ \E a \in Attempt :
                 \/ AgentRequestsProject(a) \/ AgentNeedsAuthority(a) \/ TurnEnds(a) \/ SessionDies(a)
                 \/ UserApprovesProject(a) \/ UserRejectsProject(a) \/ DeliverRejection(a)
                 \/ UserDecidesAuthority(a) \/ CompleteAuthority(a)
           \/ \E e \in Epic : SetEpicPaused(e) \/ CloseEpic(e)
           \/ \E i \in Issue : ScopeReplanned(i) \/ ReopenIssue(i)
           \/ UNCHANGED vars
    PROVE  MemoryKept
<1> USE DEF MemoryKept
<1>1. \/ BeginPass \/ ReconcileActive \/ Probe \/ EndReconcile \/ Wake \/ ListReady
      \/ Claim \/ Launch \/ EndPass \/ Started
      => MemoryKept
  BY DEF BeginPass, ReconcileActive, Probe, EndReconcile, Wake, ListReady, Claim, Launch, EndPass, Started
<1>2. ReconcileStopping \/ Activate \/ Prompt \/ Answer \/ StartAttempt => MemoryKept
  BY DEF ReconcileStopping, Activate, Prompt, Answer, StartAttempt, TryStop, StopSession, StopFails, CallFails
<1>3. ASSUME NEW a \in Attempt
      PROVE  AgentRequestsProject(a) \/ AgentNeedsAuthority(a) \/ TurnEnds(a) \/ SessionDies(a) => MemoryKept
  BY DEF AgentRequestsProject, AgentNeedsAuthority, TurnEnds, SessionDies, memory
<1>4. ASSUME NEW a \in Attempt
      PROVE  \/ UserApprovesProject(a) \/ UserRejectsProject(a) \/ DeliverRejection(a)
             \/ UserDecidesAuthority(a) \/ CompleteAuthority(a)
             => MemoryKept
  BY DEF UserApprovesProject, UserRejectsProject, DeliverRejection, UserDecidesAuthority, CompleteAuthority,
         StopSession, memory
<1>5. ASSUME NEW e \in Epic PROVE SetEpicPaused(e) \/ CloseEpic(e) => MemoryKept
  BY DEF SetEpicPaused, CloseEpic, memory
<1>6. ASSUME NEW i \in Issue PROVE ScopeReplanned(i) \/ ReopenIssue(i) => MemoryKept
  BY DEF ScopeReplanned, ReopenIssue, memory
<1>7. UNCHANGED vars => MemoryKept
  BY DEF vars, memory
<1> QED BY <1>1, <1>2, <1>3, <1>4, <1>5, <1>6, <1>7

LEMMA MemoryStep ==
    ASSUME Typed, [Next]_vars
    PROVE  MutexKind /\ RestKind
<1>0. finishing \in Attempt \cup {None} /\ blocked \subseteq Attempt
  BY DEF Typed, OthersTyped
<1>1. ASSUME MemoryKept PROVE MutexKind /\ RestKind
  BY <1>0, <1>1 DEF MemoryKept, MutexKind, RestKind
<1>2. ASSUME Watch \/ \E a \in Attempt : AgentRequestsRecovery(a) PROVE MutexKind /\ RestKind
  BY <1>0, <1>2 DEF Watch, AgentRequestsRecovery, CreateRecovery, MutexKind, RestKind
<1>3. ASSUME ResumeQueued PROVE MutexKind /\ RestKind
  <2> DEFINE a == First(disp.left)
  <2>1. a \in Attempt
    BY <1>3, PassFacts DEF ResumeQueued, Typed
  <2>2. Resumed(a) \/ UNCHANGED <<rec, stopping>>
    BY <1>3 DEF ResumeQueued, Resumed
  <2> QED BY <1>0, <1>3, <2>1, <2>2 DEF ResumeQueued, MutexKind, RestKind
<1>4. ASSUME Handoff PROVE MutexKind /\ RestKind
  <2>1. UNCHANGED <<rec, stopping, finishing>>
    BY <1>4 DEF Handoff
  <2>2. blocked' \subseteq Attempt
    BY <1>0, <1>4 DEF Handoff, Of, LiveAttempts
  <2>3. UNCHANGED faults \/ Fault
    BY <1>4 DEF Handoff, StopFails, StopSession, CallFails
  <2> QED BY <1>0, <1>4, <2>1, <2>2, <2>3 DEF MutexKind, RestKind
<1>5. ASSUME Deliver PROVE MutexKind /\ RestKind
  BY <1>0, <1>5 DEF Deliver, CallFails, MutexKind, RestKind
<1>6. ASSUME CompleteResume \/ StopAfter PROVE MutexKind /\ RestKind
  BY <1>0, <1>6 DEF CompleteResume, StopAfter, TryStop, StopSession, StopFails, CallFails, MutexKind, RestKind
<1>7. ASSUME CompleteEnd \/ \E a \in Attempt : CompleteBegin(a) PROVE MutexKind /\ RestKind
  BY <1>0, <1>7 DEF CompleteEnd, CompleteBegin, MutexKind, RestKind
<1>8. ASSUME StopEpicFails \/ StopEpicEnds \/ Crash PROVE MutexKind /\ RestKind
  BY <1>0, <1>8 DEF StopEpicFails, StopEpicEnds, Crash, CallFails, MutexKind, RestKind
<1>9. ASSUME NEW a \in Attempt, UserResumes(a) PROVE MutexKind /\ RestKind
  <2>1. Resumed(a)
    BY <1>9 DEF UserResumes, Resumed
  <2> QED BY <1>0, <1>9, <2>1 DEF UserResumes, MutexKind, RestKind
<1>10. ASSUME NEW a \in Attempt, UserRetries(a) \/ UserCancels(a) PROVE MutexKind /\ RestKind
  BY <1>0, <1>10 DEF UserRetries, UserCancels, UserGivesUp, MutexKind, RestKind
<1>11. ASSUME NEW e \in Epic, StopEpicBegin(e) PROVE MutexKind /\ RestKind
  BY <1>0, <1>11 DEF StopEpicBegin, MutexKind, RestKind
<1>12. CASE Dispatch \/ Resolution
  BY <1>1, <1>2, <1>3, <1>4, <1>5, <1>6, <1>12, MemoryKeptBy DEF Dispatch, Resolution
<1>13. ASSUME NEW a \in Attempt, AgentStep(a) PROVE MutexKind /\ RestKind
  BY <1>1, <1>2, <1>7, <1>13, MemoryKeptBy DEF AgentStep
<1>14. ASSUME NEW a \in Attempt, UserStep(a) PROVE MutexKind /\ RestKind
  BY <1>1, <1>9, <1>10, <1>14, MemoryKeptBy DEF UserStep
<1>15. CASE (\E e \in Epic : EpicStep(e)) \/ (\E i \in Issue : ScopeReplanned(i) \/ ReopenIssue(i)) \/ UNCHANGED vars
  BY <1>1, <1>11, <1>15, MemoryKeptBy DEF EpicStep
<1> QED BY <1>7, <1>8, <1>12, <1>13, <1>14, <1>15 DEF Next

LEMMA OthersTypedStep ==
    ASSUME Typed, MutexKind, RestKind
    PROVE  OthersTyped'
<1>0. /\ rec \in [pc : {"free", "deliver", "complete", "stop"}, of : Attempt \cup {None}]
      /\ rec.pc # "free" => rec.of # None
      /\ stopping \in Epic \cup {NoEpic} /\ faults \in 0..MaxFaults
      /\ None \notin Attempt
  BY Constants DEF Typed, OthersTyped
<1>1. rec' \in [pc : {"free", "deliver", "complete", "stop"}, of : Attempt \cup {None}]
      /\ (rec'.pc # "free" => rec'.of # None)
  BY <1>0 DEF MutexKind, Resumed, Resume, Free
<1>2. stopping' \in Epic \cup {NoEpic}
  BY <1>0 DEF MutexKind, Resumed
<1>3. faults' \in 0..MaxFaults
  BY <1>0, Constants DEF RestKind, Fault
<1> QED BY <1>1, <1>2, <1>3 DEF RestKind, OthersTyped


-----------------------------------------------------------------------------
(* The invariants of the gates.                                            *)

LEMMA ResumingStep ==
    ASSUME Typed, Resuming, GateKind, MutexKind
    PROVE  Resuming'
<1>0. /\ recovery \in [Attempt -> Paused \cup {"none", "resume_pending"}]
      /\ rec \in [pc : {"free", "deliver", "complete", "stop"}, of : Attempt \cup {None}]
      /\ rec.pc # "free" => rec.of \in Attempt
      /\ "resume_pending" \notin Paused /\ NoEpic \notin Epic
  BY Words, Constants DEF Typed, GatesTyped, OthersTyped
<1>1. stopping' # NoEpic => rec'.pc = "free"
  BY <1>0 DEF Resuming, MutexKind, Resumed, RecoveryFree, Free
<1>2. ASSUME UNCHANGED rec, rec.pc \in {"deliver", "complete"}
      PROVE  recovery'[rec.of] = "resume_pending"
  <2> DEFINE a == rec.of
  <2>1. a \in Attempt /\ recovery[a] = "resume_pending"
    BY <1>0, <1>2 DEF Resuming
  <2>2. ASSUME NEW b \in Attempt, Raised(b) PROVE recovery'[a] = "resume_pending"
    BY <1>0, <2>1, <2>2 DEF Raised, CreateRecovery
  <2>3. ASSUME NEW b \in Attempt, Asked(b) \/ Yielding(b) PROVE recovery'[a] = "resume_pending"
    BY <2>1, <2>3 DEF Asked, Yielding
  <2>4. ASSUME NEW b \in Attempt, Resumed(b) PROVE recovery'[a] = "resume_pending"
    BY <1>2, <2>4 DEF Resumed, RecoveryFree
  <2>5. CASE Lowered
    <3>1. rec'.pc \notin {"free", "stop"}
      BY <1>2
    <3> QED BY <2>1, <2>5, <3>1 DEF Lowered
  <2>6. CASE UNCHANGED gates
    BY <2>1, <2>6 DEF gates
  <2> QED BY <2>2, <2>3, <2>4, <2>5, <2>6 DEF GateKind
<1>3. ASSUME NEW a \in Attempt, Resumed(a), rec'.pc \in {"deliver", "complete"}
      PROVE  recovery'[rec'.of] = "resume_pending"
  BY <1>0, <1>3 DEF Resumed, Resume, RecoveryFree
<1>4. ASSUME rec.pc = "deliver", rec' = [rec EXCEPT !.pc = "complete"], UNCHANGED gates
      PROVE  recovery'[rec'.of] = "resume_pending"
  BY <1>0, <1>4 DEF Resuming, gates
<1>5. ASSUME rec'.pc \in {"deliver", "complete"}
      PROVE  recovery'[rec'.of] = "resume_pending"
  <2>1. \/ UNCHANGED rec
        \/ \E a \in Attempt : Resumed(a)
        \/ rec.pc = "deliver" /\ rec' = [rec EXCEPT !.pc = "complete"] /\ UNCHANGED gates
    BY <1>5 DEF MutexKind, Free
  <2> QED BY <1>2, <1>3, <1>4, <1>5, <2>1
<1> QED BY <1>1, <1>5 DEF Resuming

\* A gate that was not there is raised where a turn runs or the pass watches.
LEMMA RaisedWhere ==
    ASSUME Typed, GateKind, NEW a \in Attempt
    PROVE  /\ recovery[a] = "none" /\ recovery'[a] # "none" =>
                phase[a] = "active" /\ (session[a] = "busy" \/ disp.pc = "watch")
           /\ project[a] = "none" /\ project'[a] # "none" => phase[a] = "active" /\ session[a] = "busy"
<1>0. /\ recovery \in [Attempt -> Paused \cup {"none", "resume_pending"}]
      /\ project \in [Attempt -> {"none", "open", "reject_pending"}]
  BY DEF Typed, GatesTyped
<1> DEFINE Goal == /\ recovery[a] = "none" /\ recovery'[a] # "none" =>
                        phase[a] = "active" /\ (session[a] = "busy" \/ disp.pc = "watch")
                   /\ project[a] = "none" /\ project'[a] # "none" => phase[a] = "active" /\ session[a] = "busy"
<1>1. ASSUME NEW b \in Attempt, Raised(b) PROVE Goal
  BY <1>0, <1>1 DEF Raised, CreateRecovery
<1>2. ASSUME NEW b \in Attempt, Asked(b) PROVE Goal
  BY <1>0, <1>2 DEF Asked
<1>3. ASSUME NEW b \in Attempt, Resumed(b) PROVE Goal
  BY <1>0, <1>3 DEF Resumed, Resume
<1>4. ASSUME NEW b \in Attempt, Yielding(b) PROVE Goal
  BY <1>4 DEF Yielding
<1>5. CASE Lowered
  BY <1>5 DEF Lowered
<1>6. CASE UNCHANGED gates
  BY <1>6 DEF gates
<1> QED BY <1>1, <1>2, <1>3, <1>4, <1>5, <1>6 DEF GateKind

\* Who is prompted was launched, is resumed, or asked for a project.
LEMMA PromptedWho ==
    ASSUME Fresh, Resuming, OneGate, NEW a \in Attempt, Prompted(a)
    PROVE  \/ disp.pc = "prompt" /\ disp'.pc = "answer" /\ phase[a] # "none" /\ recovery[a] = "none"
           \/ recovery[a] = "resume_pending"
           \/ project[a] # "none" /\ recovery[a] = "none"
BY DEF Prompted, Fresh, Resuming, OneGate

LEMMA UntouchedStep ==
    ASSUME Typed, Quieted, RowKind, GateKind, SessionKind
    PROVE  Untouched'
<1> SUFFICES ASSUME NEW a \in Attempt, phase'[a] = "none"
             PROVE  recovery'[a] = "none" /\ project'[a] = "none" /\ session'[a] # "busy"
  BY DEF Untouched
<1>1. phase[a] = "none" /\ recovery[a] = "none" /\ project[a] = "none" /\ session[a] # "busy"
  BY PhaseStep DEF Quieted, Untouched
<1>2. recovery'[a] = "none" /\ project'[a] = "none"
  BY <1>1, RaisedWhere
<1>3. ~ Prompted(a)
  BY <1>1, PromptedWho DEF Quieted
<1> QED BY <1>1, <1>2, <1>3, BusyStep

LEMMA FreshStep ==
    ASSUME Typed, Quieted, RowKind, GateKind, SessionKind, PassKind
    PROVE  Fresh'
<1> SUFFICES ASSUME disp'.pc \in {"launch", "activate", "prompt"}
             PROVE  /\ phase'[disp'.cur] # "none" /\ session'[disp'.cur] # "busy"
                    /\ recovery'[disp'.cur] = "none" /\ project'[disp'.cur] = "none"
  BY DEF Fresh
<1>1. CASE /\ disp'.pc = "launch" /\ disp'.cur \in Attempt
           /\ phase[disp'.cur] = "none" /\ phase'[disp'.cur] # "none"
           /\ UNCHANGED <<gates, session>>
  BY <1>1 DEF gates, Quieted, Untouched
<1>2. CASE disp.pc \in Fetching /\ disp'.cur = disp.cur
  <2> DEFINE a == disp.cur
  <2>1. a \in Attempt /\ disp.pc \in {"launch", "activate", "prompt"} /\ disp.pc # "watch"
    BY <1>2, PassFacts DEF Fetching, Launching, Typed
  <2>2. phase[a] # "none" /\ session[a] # "busy" /\ recovery[a] = "none" /\ project[a] = "none"
    BY <2>1 DEF Quieted, Fresh
  <2>3. phase'[a] # "none"
    BY <2>1, <2>2, PhaseStep
  <2>4. recovery'[a] = "none" /\ project'[a] = "none"
    BY <2>1, <2>2, RaisedWhere
  <2>5. ~ Prompted(a)
    BY <2>1, <2>2, PromptedWho DEF Quieted
  <2>6. session'[a] # "busy"
    BY <2>1, <2>2, <2>5, BusyStep
  <2> QED BY <1>2, <2>3, <2>4, <2>6
<1> QED BY <1>1, <1>2 DEF PassKind, Fetching


\* Only a handoff notes that a session is stopped, and it stops it first.
LEMMA HandoffStops ==
    ASSUME Typed, Handoff, NEW a \in Attempt, marked'[a] \/ a \in blocked'
    PROVE  marked[a] \/ a \in blocked \/ session'[a] # "busy"
<1> DEFINE Goal == marked[a] \/ a \in blocked \/ session'[a] # "busy"
<1>1. marked \in [Attempt -> BOOLEAN]
  BY DEF Typed, GatesTyped
<1>2. ASSUME UNCHANGED <<marked, blocked>> PROVE Goal
  BY <1>2
<1>3. ASSUME NEW b \in Attempt, UNCHANGED marked, blocked' = blocked \cup {b},
             session' = IF b \in blocked THEN session ELSE Idled({b})
      PROVE  Goal
  BY <1>3 DEF Idled
<1>4. ASSUME NEW b \in Attempt, blocked' = blocked \ {b},
             IF b \in blocked THEN UNCHANGED <<session, faults>> ELSE StopSession(b),
             marked' = [marked EXCEPT ![b] = TRUE] \/ UNCHANGED marked
      PROVE  Goal
  BY <1>1, <1>4 DEF StopSession, Idled
<1>5. \/ UNCHANGED <<marked, blocked>>
      \/ \E b \in Attempt : /\ UNCHANGED marked /\ blocked' = blocked \cup {b}
                            /\ session' = IF b \in blocked THEN session ELSE Idled({b})
      \/ \E b \in Attempt : /\ blocked' = blocked \ {b}
                            /\ IF b \in blocked THEN UNCHANGED <<session, faults>> ELSE StopSession(b)
                            /\ marked' = [marked EXCEPT ![b] = TRUE] \/ UNCHANGED marked
  BY DEF Handoff, Of, LiveAttempts
<1> QED BY <1>2, <1>3, <1>4, <1>5

LEMMA StoppedStep ==
    ASSUME Typed, Quieted, GateKind, RestKind, SessionKind
    PROVE  Stopped'
<1> SUFFICES ASSUME NEW a \in Attempt, recovery'[a] \in Paused, marked'[a] \/ a \in blocked',
                    session'[a] = "busy"
             PROVE  FALSE
  BY DEF Stopped
<1>0. /\ recovery \in [Attempt -> Paused \cup {"none", "resume_pending"}]
      /\ marked \in [Attempt -> BOOLEAN]
      /\ "none" \notin Paused /\ "resume_pending" \notin Paused
  BY Words DEF Typed, GatesTyped
<1>1. ~(recovery[a] \in Paused /\ (marked[a] \/ a \in blocked))
  <2>1. recovery[a] \in Paused => ~ Prompted(a)
    BY <1>0, PromptedWho DEF Quieted
  <2> QED BY <2>1, BusyStep DEF Quieted, Stopped
<1>2. CASE Handoff
  <2>1. recovery' = recovery
    BY <1>2 DEF Handoff
  <2> QED BY <1>1, <1>2, <2>1, HandoffStops
<1>3. CASE ~Handoff
  <2>0. blocked' \subseteq blocked
    BY <1>3 DEF RestKind
  <2>1. ASSUME NEW b \in Attempt, Raised(b) PROVE FALSE
    BY <1>0, <1>1, <2>0, <2>1 DEF Raised, CreateRecovery
  <2>2. ASSUME NEW b \in Attempt, Asked(b) PROVE FALSE
    BY <1>1, <2>0, <2>2 DEF Asked
  <2>3. ASSUME NEW b \in Attempt, Resumed(b) PROVE FALSE
    BY <1>0, <1>1, <2>0, <2>3 DEF Resumed, Resume, Resumable
  <2>4. ASSUME NEW b \in Attempt, Yielding(b) PROVE FALSE
    BY <1>3, <2>4 DEF Yielding
  <2>5. CASE Lowered
    BY <1>0, <1>1, <2>0, <2>5 DEF Lowered
  <2>6. CASE UNCHANGED gates
    BY <1>1, <2>0, <2>6 DEF gates
  <2> QED BY <2>1, <2>2, <2>3, <2>4, <2>5, <2>6 DEF GateKind
<1> QED BY <1>2, <1>3

-----------------------------------------------------------------------------
(* Who takes a workspace, and what the others keep.                        *)

\* Attempt a takes the workspace of its Epic: it is new, or resumes.
Takes(a) == (\E i \in Issue : Claimed(a, i)) \/ (Resumed(a) /\ ~HeldByOther(a))

\* Attempt a lives on, and if it was paused it still is, with its checkpoint.
Stays(a) ==
    /\ phase[a] \in Live /\ work'[a] = work[a]
    /\ recovery[a] \in Paused => recovery'[a] \in Paused
    /\ Yielded(a) => Yielded(a)'

LEMMA RowStays ==
    ASSUME Typed, RowKind, NEW a \in Attempt, phase'[a] \in Live
    PROVE  \/ \E i \in Issue : Claimed(a, i)
           \/ /\ phase[a] \in Live /\ work'[a] = work[a]
              /\ phase[a] = "active" /\ recovery[a] # "none" => phase'[a] = "active"
<1> DEFINE Goal == \/ \E i \in Issue : Claimed(a, i)
                   \/ /\ phase[a] \in Live /\ work'[a] = work[a]
                      /\ phase[a] = "active" /\ recovery[a] # "none" => phase'[a] = "active"
<1>0. /\ phase \in [Attempt -> Live \cup Closed \cup {"none"}]
      /\ work \in [Attempt -> Issue \cup {None}]
  BY DEF Typed, RowsTyped
<1>1. ASSUME NEW b \in Attempt, NEW p \in Closed, NEW s, NEW n, Ended(b, p, s, n) PROVE Goal
  BY <1>0, <1>1, Words DEF Ended
<1>2. ASSUME NEW b \in Attempt, NEW p \in {"active", "stopping"}, Progressed(b, p) PROVE Goal
  BY <1>0, <1>2 DEF Progressed, Gated
<1>3. ASSUME NEW b \in Attempt, NEW i \in Issue, Claimed(b, i) PROVE Goal
  BY <1>0, <1>3 DEF Claimed
<1>4. ASSUME NEW e, EpicStopped(e) PROVE Goal
  BY <1>0, <1>4, Words DEF EpicStopped
<1>5. CASE UNCHANGED <<phase, work>>
  BY <1>5
<1> QED BY <1>1, <1>2, <1>3, <1>4, <1>5 DEF RowKind, rows, EpicSet, Reopened

LEMMA StaysOrTakes ==
    ASSUME Typed, RowKind, GateKind, NEW a \in Attempt, phase'[a] \in Live
    PROVE  Takes(a) \/ Stays(a)
<1>0. /\ recovery \in [Attempt -> Paused \cup {"none", "resume_pending"}]
      /\ marked \in [Attempt -> BOOLEAN]
      /\ "none" \notin Paused /\ "resume_pending" \notin Paused /\ "queued" \in Paused
  BY Words DEF Typed, GatesTyped
<1>1. CASE \E i \in Issue : Claimed(a, i)
  BY <1>1 DEF Takes
<1>2. CASE /\ phase[a] \in Live /\ work'[a] = work[a]
           /\ phase[a] = "active" /\ recovery[a] # "none" => phase'[a] = "active"
  <2> DEFINE Held == recovery[a] \in Paused => recovery'[a] \in Paused /\ (marked[a] => marked'[a])
  <2>1. ASSUME Held PROVE Stays(a)
    BY <1>0, <1>2, <2>1 DEF Stays, Yielded
  <2>2. ASSUME NEW b \in Attempt, Raised(b) PROVE Held
    BY <1>0, <2>2 DEF Raised, CreateRecovery
  <2>3. ASSUME NEW b \in Attempt, Asked(b) PROVE Held
    BY <2>3 DEF Asked
  <2>4. ASSUME NEW b \in Attempt, Resumed(b) PROVE Held \/ Takes(a)
    BY <1>0, <2>4 DEF Resumed, Resume, Takes
  <2>5. ASSUME NEW b \in Attempt, Yielding(b) PROVE Held
    BY <1>0, <2>5 DEF Yielding
  <2>6. ASSUME Lowered PROVE Held
    BY <1>0, <2>6 DEF Lowered
  <2>7. ASSUME UNCHANGED gates PROVE Held
    BY <2>7 DEF gates
  <2> QED BY <2>1, <2>2, <2>3, <2>4, <2>5, <2>6, <2>7 DEF GateKind
<1> QED BY <1>1, <1>2, RowStays

\* A step lets one Attempt take a workspace at most.
LEMMA OneTakes ==
    ASSUME Typed, NEW a \in Attempt, NEW b \in Attempt, Takes(a), Takes(b)
    PROVE  a = b
<1>0. phase \in [Attempt -> Live \cup Closed \cup {"none"}]
  BY DEF Typed, RowsTyped
<1>1. ASSUME NEW c \in Attempt, NEW i \in Issue, Claimed(c, i)
      PROVE  phase' = [phase EXCEPT ![c] = "prepared"] /\ phase[c] = "none"
  BY <1>1 DEF Claimed
<1>2. ASSUME NEW c \in Attempt, Resumed(c), ~HeldByOther(c)
      PROVE  phase' = phase /\ rec' = [pc |-> "deliver", of |-> c]
  BY <1>2 DEF Resumed, Resume, rows
<1>3. CASE (\E i \in Issue : Claimed(a, i)) /\ \E i \in Issue : Claimed(b, i)
  BY <1>0, <1>1, <1>3
<1>4. CASE Resumed(a) /\ ~HeldByOther(a) /\ Resumed(b) /\ ~HeldByOther(b)
  BY <1>2, <1>4
<1>5. ASSUME NEW c \in Attempt, NEW d \in Attempt, NEW i \in Issue, Claimed(c, i), Resumed(d), ~HeldByOther(d)
      PROVE  FALSE
  BY <1>0, <1>1, <1>2, <1>5
<1> QED BY <1>3, <1>4, <1>5 DEF Takes

LEMMA OneOwnerStep ==
    ASSUME Typed, OneOwner, RowKind, GateKind
    PROVE  OneOwner'
<1>0. /\ LiveAttempts' \subseteq Attempt /\ \A a \in LiveAttempts' : phase'[a] \in Live
      /\ work \in [Attempt -> Issue \cup {None}]
  BY DEF LiveAttempts, Typed, RowsTyped
<1>1. ASSUME NEW a \in LiveAttempts', ~ Yielded(a)', Stays(a)
      PROVE  a \in LiveAttempts /\ ~ Yielded(a) /\ work'[a] = work[a]
  BY <1>0, <1>1 DEF Stays, LiveAttempts
<1>2. ASSUME NEW a \in LiveAttempts', NEW b \in LiveAttempts', Takes(a), Stays(b), ~ Yielded(b)',
             EpicOf[work'[a]] = EpicOf[work'[b]]
      PROVE  a = b
  <2>1. b \in LiveAttempts /\ ~ Yielded(b) /\ work'[b] = work[b] /\ a \in Attempt
    BY <1>0, <1>1, <1>2
  <2>2. ASSUME NEW i \in Issue, Claimed(a, i) PROVE a = b
    <3>1. work'[a] = i /\ Owners(EpicOf[i]) = {}
      BY <1>0, <2>1, <2>2 DEF Claimed, Claimable
    <3>2. b \in Owners(EpicOf[i])
      BY <1>2, <2>1, <3>1 DEF Owners, Of
    <3> QED BY <3>1, <3>2
  <2>3. CASE Resumed(a) /\ ~HeldByOther(a)
    <3>1. work'[a] = work[a] /\ Owners(EpicOf[work[a]]) \ {a} = {}
      BY <2>3 DEF Resumed, rows, HeldByOther
    <3>2. b \in Owners(EpicOf[work[a]])
      BY <1>2, <2>1, <3>1 DEF Owners, Of
    <3> QED BY <3>1, <3>2
  <2> QED BY <1>2, <2>2, <2>3 DEF Takes
<1>3. ASSUME NEW a \in LiveAttempts', NEW b \in LiveAttempts', Stays(a), Stays(b), ~ Yielded(a)', ~ Yielded(b)',
             EpicOf[work'[a]] = EpicOf[work'[b]]
      PROVE  a = b
  BY <1>1, <1>3 DEF OneOwner
<1>4. ASSUME NEW a \in LiveAttempts', NEW b \in LiveAttempts', ~ Yielded(a)', ~ Yielded(b)',
             EpicOf[work'[a]] = EpicOf[work'[b]]
      PROVE  a = b
  <2>1. (Takes(a) \/ Stays(a)) /\ (Takes(b) \/ Stays(b))
    BY <1>0, StaysOrTakes
  <2> QED BY <1>0, <1>2, <1>3, <1>4, <2>1, OneTakes
<1> QED BY <1>4 DEF OneOwner


-----------------------------------------------------------------------------
(* The capacity, when only recovery gates are raised.                      *)

OnlyRecovery == \A a \in Attempt : authority[a] = "none" /\ project[a] = "none"

Within == OnlyRecovery /\ CapacityKept

LEMMA FiniteAttempts ==
    /\ IsFiniteSet(Attempt)
    /\ \A S \in SUBSET Attempt : IsFiniteSet(S) /\ Cardinality(S) \in Nat
<1>1. IsFiniteSet(Attempt)
  BY FS_Interval, FactoryAssumption DEF Attempt
<1>2. ASSUME NEW S \in SUBSET Attempt PROVE IsFiniteSet(S) /\ Cardinality(S) \in Nat
  BY <1>1, <1>2, FS_Subset, FS_CardinalityType
<1> QED BY <1>1, <1>2

LEMMA OnlyRecoveryStep ==
    ASSUME Typed, Gates \subseteq {"recovery"}, OnlyRecovery, GateKind
    PROVE  OnlyRecovery'
<1>1. ASSUME NEW b \in Attempt, Raised(b) PROVE OnlyRecovery'
  BY <1>1 DEF Raised, OnlyRecovery
<1>2. ASSUME NEW b \in Attempt, Asked(b) PROVE OnlyRecovery'
  BY <1>2 DEF Asked
<1>3. ASSUME NEW b \in Attempt, Resumed(b) PROVE OnlyRecovery'
  BY <1>3 DEF Resumed, OnlyRecovery
<1>4. ASSUME NEW b \in Attempt, Yielding(b) PROVE OnlyRecovery'
  BY <1>4 DEF Yielding, OnlyRecovery
<1>5. CASE Lowered
  BY <1>5 DEF Lowered, OnlyRecovery
<1>6. CASE UNCHANGED gates
  BY <1>6 DEF gates, OnlyRecovery
<1> QED BY <1>1, <1>2, <1>3, <1>4, <1>5, <1>6 DEF GateKind

LEMMA CapacityStep ==
    ASSUME Typed, OnlyRecovery, CapacityKept, RowKind, GateKind
    PROVE  CapacityKept'
<1>0. /\ LiveAttempts \subseteq Attempt /\ Occupying \subseteq Attempt /\ Occupying' \subseteq Attempt
      /\ \A a \in Occupying' : phase'[a] \in Live /\ recovery'[a] \notin Paused
  BY DEF Occupying, LiveAttempts
<1>1. /\ IsFiniteSet(Occupying) /\ Cardinality(Occupying) \in Nat /\ Cardinality(Occupying) <= Capacity
      /\ Cardinality(Occupying') \in Nat /\ Capacity \in Nat
  BY <1>0, FiniteAttempts, Constants DEF CapacityKept
<1>2. ASSUME NEW a \in Occupying', Stays(a) PROVE a \in Occupying
  BY <1>0, <1>2 DEF Stays, Occupying, LiveAttempts, OnlyRecovery
<1>3. \A a \in Occupying' : Takes(a) \/ a \in Occupying
  BY <1>0, <1>2, StaysOrTakes
<1>4. CASE \A a \in Attempt : ~ Takes(a)
  <2>1. Occupying' \subseteq Occupying
    BY <1>0, <1>3, <1>4
  <2>2. Cardinality(Occupying') <= Cardinality(Occupying)
    BY <1>1, <2>1, FS_Subset
  <2> QED BY <1>1, <2>2 DEF CapacityKept
<1>5. ASSUME NEW a \in Attempt, NEW i \in Issue, Claimed(a, i) PROVE CapacityKept'
  <2>1. Takes(a) /\ Cardinality(Occupying) < Capacity
    BY <1>5 DEF Takes, Claimed, Claimable
  <2>2. Occupying' \subseteq Occupying \cup {a}
    BY <1>0, <1>3, <2>1, OneTakes
  <2>3. /\ IsFiniteSet(Occupying \cup {a}) /\ Cardinality(Occupying \cup {a}) \in Nat
        /\ Cardinality(Occupying \cup {a}) <= Cardinality(Occupying) + 1
    <3>1. /\ IsFiniteSet(Occupying \cup {a})
          /\ Cardinality(Occupying \cup {a}) \in {Cardinality(Occupying), Cardinality(Occupying) + 1}
      BY <1>1, FS_AddElement
    <3> QED BY <1>1, <3>1
  <2>4. Cardinality(Occupying') <= Cardinality(Occupying \cup {a})
    BY <2>2, <2>3, FS_Subset
  <2>5. Cardinality(Occupying') <= Capacity
    BY <1>1, <2>1, <2>3, <2>4
  <2> QED BY <2>5 DEF CapacityKept
<1>6. ASSUME NEW a \in Attempt, Resumed(a), ~HeldByOther(a) PROVE CapacityKept'
  <2>1. Takes(a) /\ phase[a] = "active" /\ Cardinality(OccupyingWith(a)) <= Capacity
    BY <1>6 DEF Takes, Resumed, Resumable
  <2>2. a \in LiveAttempts /\ OccupyingWith(a) \subseteq Attempt
    BY <1>0, <2>1, Words DEF LiveAttempts, OccupyingWith
  <2>3. Occupying \subseteq OccupyingWith(a) /\ a \in OccupyingWith(a)
    BY <2>2 DEF Occupying, OccupyingWith
  <2>4. Occupying' \subseteq OccupyingWith(a)
    BY <1>0, <1>3, <2>1, <2>3, OneTakes
  <2>5. IsFiniteSet(OccupyingWith(a)) /\ Cardinality(OccupyingWith(a)) \in Nat
    BY <2>2, FiniteAttempts
  <2>6. Cardinality(Occupying') <= Cardinality(OccupyingWith(a))
    BY <2>4, <2>5, FS_Subset
  <2>7. Cardinality(Occupying') <= Capacity
    BY <1>1, <2>1, <2>5, <2>6
  <2> QED BY <2>7 DEF CapacityKept
<1> QED BY <1>4, <1>5, <1>6 DEF Takes


-----------------------------------------------------------------------------
(* The inductive invariant.                                                *)

LEMMA InitIInv == Init => IInv
<1> SUFFICES ASSUME Init PROVE IInv
  OBVIOUS
<1>0. RetryBudget \in Nat /\ MaxFaults \in Nat /\ 0 \in 0..RetryBudget + 1 /\ 0 \in 0..MaxFaults
      /\ NoEpic \notin Epic
  BY Constants
<1>1. RowsTyped
  BY <1>0, Words DEF Init, RowsTyped
<1>2. GatesTyped /\ PlatformTyped
  <2>1. GatesTyped
    BY DEF Init, GatesTyped
  <2>2. session \in [Attempt -> {"none", "idle", "busy", "gone"}]
    BY DEF Init
  <2>3. told \in [Attempt -> 0..1]
    <3>1. told = [a \in Attempt |-> 0]
      BY DEF Init
    <3> QED BY <3>1
  <2>4. PlatformTyped
    BY <2>2, <2>3 DEF PlatformTyped
  <2> QED BY <2>1, <2>4
<1>3. PassTyped
  BY DEF Init, Idle, Pass, PassTyped, PassesOf
<1>4. OthersTyped
  BY <1>0 DEF Init, Free, OthersTyped
<1>5. LiveAttempts = {} /\ \A e : Of(e) = {}
  BY Words DEF Init, LiveAttempts, Of
<1>6. Worked /\ OneOwner
  BY <1>5 DEF Init, Worked, OneOwner
<1>7. Budgeted /\ ClosedEpicIdle
  <2>1. Budgeted
    <3>1. retries = [i \in Issue |-> 0]
      BY DEF Init
    <3>2. 0 <= RetryBudget
      BY <1>0
    <3> QED BY <3>1, <3>2 DEF Budgeted
  <2>2. \A e \in Epic : epicStatus[e] # "closed"
    BY DEF Init
  <2>3. ClosedEpicIdle
    BY <2>2 DEF ClosedEpicIdle
  <2> QED BY <2>1, <2>3
<1>8. StoppingUngated /\ Untouched /\ OneGate /\ Stopped
  BY Words DEF Init, StoppingUngated, Untouched, OneGate, Stopped
<1>9. Fresh /\ Resuming
  BY DEF Init, Idle, Pass, Free, Fresh, Resuming
<1> QED BY <1>1, <1>2, <1>3, <1>4, <1>6, <1>7, <1>8, <1>9 DEF IInv, Typed, Quieted

\* What a step is, by what it does to each part of the state.
LEMMA StepKinds ==
    ASSUME IInv, [Next]_vars
    PROVE  /\ RowKind /\ GateKind /\ SessionKind /\ PassTyped' /\ PassKind /\ MutexKind /\ RestKind
<1>1. RowKind
  BY RowKinds DEF IInv
<1>2. GateKind
  BY GateKindOfStep DEF IInv, Quieted
<1>3. SessionKind /\ PassTyped' /\ PassKind /\ MutexKind /\ RestKind
  BY SessionKindOfStep, PassStep, MemoryStep DEF IInv
<1> QED BY <1>1, <1>2, <1>3

LEMMA NextIInv == IInv /\ [Next]_vars => IInv'
<1> SUFFICES ASSUME IInv, [Next]_vars PROVE IInv'
  OBVIOUS
<1>0. /\ Typed /\ Worked /\ Budgeted /\ ClosedEpicIdle /\ OneOwner /\ StoppingUngated
      /\ Quieted /\ OneGate /\ Resuming
  BY DEF IInv, Quieted
<1>1. RowKind /\ GateKind /\ SessionKind /\ PassTyped' /\ PassKind /\ MutexKind /\ RestKind
  BY StepKinds
<1>2. RowsTyped' /\ Budgeted'
  BY <1>0, <1>1, RowsTypedStep
<1>3. GatesTyped'
  BY <1>0, <1>1, GatesTypedStep
<1>4. PlatformTyped'
  BY <1>0, <1>1, BusyStep, ToldStep DEF PlatformTyped
<1>5. OthersTyped'
  BY <1>0, <1>1, OthersTypedStep
<1>6. Typed'
  BY <1>1, <1>2, <1>3, <1>4, <1>5 DEF Typed
<1>7. Worked' /\ ClosedEpicIdle'
  BY <1>0, <1>1, WorkedStep, ClosedEpicStep
<1>8. OneOwner' /\ StoppingUngated'
  BY <1>0, <1>1, OneOwnerStep, StoppingUngatedStep
<1>9. Untouched' /\ OneGate' /\ Fresh'
  BY <1>0, <1>1, UntouchedStep, OneGateStep, FreshStep
<1>10. Resuming' /\ Stopped'
  BY <1>0, <1>1, ResumingStep, StoppedStep
<1> QED BY <1>2, <1>6, <1>7, <1>8, <1>9, <1>10 DEF IInv, Quieted

LEMMA Invariant == Spec => []IInv
BY InitIInv, NextIInv, PTL DEF Spec

-----------------------------------------------------------------------------
(* What follows from it.                                                   *)

LEMMA TypedTypeOK == Typed => TypeOK
<1> SUFFICES ASSUME Typed PROVE TypeOK
  OBVIOUS
<1>1. /\ epicStatus \in [Epic -> {"open", "paused", "closed"}]
      /\ status \in [Issue -> {"open", "in_progress", "retry_wait", "deferred"} \cup Closed]
      /\ retries \in [Issue -> 0..RetryBudget + 1]
      /\ reason \in [Issue -> Message \cup {""}]
      /\ phase \in [Attempt -> Live \cup Closed \cup {"none"}]
      /\ work \in [Attempt -> Issue \cup {None}]
  BY DEF Typed, RowsTyped
<1>2. /\ recovery \in [Attempt -> Paused \cup {"none", "resume_pending"}]
      /\ authority \in [Attempt -> {"none", "open", "pending"}]
      /\ project \in [Attempt -> {"none", "open", "reject_pending"}]
      /\ marked \in [Attempt -> BOOLEAN]
      /\ session \in [Attempt -> {"none", "idle", "busy", "gone"}]
  BY DEF Typed, GatesTyped, PlatformTyped
<1>3. told \in [Attempt -> Nat]
  <2>1. told \in [Attempt -> 0..1] /\ 0..1 \subseteq Nat
    BY DEF Typed, PlatformTyped
  <2> QED BY <2>1
<1>4. /\ disp.pc \in {"start", "idle", "reconcile", "probe", "watch", "resume", "handoff",
                      "claim", "launch", "activate", "prompt", "answer"}
      /\ disp.left \subseteq Attempt \cup Issue /\ disp.kept \subseteq Attempt
      /\ disp.cur \in Attempt \cup Issue \cup {None}
  BY DEF Typed, PassTyped, PassesOf, Launching
<1>5. /\ finishing \in Attempt \cup {None}
      /\ rec.pc \in {"free", "deliver", "complete", "stop"} /\ rec.of \in Attempt \cup {None}
      /\ stopping \in Epic \cup {NoEpic} /\ blocked \subseteq Attempt /\ faults \in 0..MaxFaults
  BY DEF Typed, OthersTyped
<1> QED BY <1>1, <1>2, <1>3, <1>4, <1>5 DEF TypeOK

LEMMA ToldOnce == Typed => ResponseSentOnce
<1> SUFFICES ASSUME Typed, NEW a \in Attempt PROVE told[a] <= 1
  BY DEF ResponseSentOnce
<1>1. told[a] \in 0..1
  BY DEF Typed, PlatformTyped
<1> QED BY <1>1

LEMMA OwnersFew == OneOwner => OneWriterPerEpic
<1> SUFFICES ASSUME OneOwner, NEW e \in Epic PROVE Cardinality(Owners(e)) <= 1
  BY DEF OneWriterPerEpic
<1>1. \A a, b \in Owners(e) : a = b
  BY DEF OneOwner, Owners, Of
<1>2. CASE Owners(e) = {}
  <2>1. Cardinality(Owners(e)) = 0
    BY <1>2, FS_EmptySet
  <2> QED BY <2>1
<1>3. CASE Owners(e) # {}
  <2>1. PICK a \in Owners(e) : Owners(e) = {a}
    BY <1>1, <1>3
  <2>2. Cardinality(Owners(e)) = 1
    BY <2>1, FS_Singleton
  <2> QED BY <2>2
<1> QED BY <1>2, <1>3

LEMMA WorkersOne == Worked => InProgressIsLive
<1> SUFFICES ASSUME Worked PROVE InProgressIsLive
  OBVIOUS
<1>1. \A a \in LiveAttempts : status[work[a]] = "in_progress"
  BY DEF Worked
<1>2. ASSUME NEW i \in Issue, status[i] = "in_progress"
      PROVE  Cardinality({a \in LiveAttempts : work[a] = i}) = 1
  <2>1. PICK a \in LiveAttempts : work[a] = i
    BY <1>2 DEF Worked
  <2>2. {b \in LiveAttempts : work[b] = i} = {a}
    BY <2>1 DEF Worked
  <2> QED BY <2>2, FS_Singleton
<1> QED BY <1>1, <1>2 DEF InProgressIsLive

LEMMA StoppedQuiet == Stopped => YieldedIsQuiet
BY DEF Stopped, YieldedIsQuiet, Yielded

-----------------------------------------------------------------------------
(* Theorems.                                                               *)

\* Every variable has its type, whatever steps of the dispatcher, the agents, the
\* user and the crashes of the hub follow one another.
THEOREM FactoryTypes == Spec => []TypeOK
<1>1. IInv => TypeOK
  BY TypedTypeOK DEF IInv
<1> QED BY Invariant, <1>1, PTL

\* Work is in progress exactly while one live Attempt works on it: the claim, the
\* failures, the completion, the decisions of the user, the retries and the stop of
\* an Epic move an Issue and its Attempt together.
THEOREM FactoryInProgress == Spec => []InProgressIsLive
<1>1. IInv => InProgressIsLive
  BY WorkersOne DEF IInv
<1> QED BY Invariant, <1>1, PTL

\* One Attempt at most holds the workspace of an Epic: the claim and the resume
\* look for others in their transaction, and nothing else gives a workspace to one
\* that had yielded it.
THEOREM FactoryOneWriter == Spec => []OneWriterPerEpic
<1>1. IInv => OneWriterPerEpic
  BY OwnersFew DEF IInv
<1> QED BY Invariant, <1>1, PTL

\* A session that yielded its workspace runs no turn: the handoff stops it before it
\* marks the checkpoint, and only a resume that left the pause prompts it again.
THEOREM FactoryYieldedQuiet == Spec => []YieldedIsQuiet
<1>1. IInv => YieldedIsQuiet
  BY StoppedQuiet DEF IInv, Quieted
<1> QED BY Invariant, <1>1, PTL

\* A completion in flight never meets a gate: it begins without one, and gates are
\* raised on active Attempts only.
THEOREM FactoryStoppingUngated == Spec => []StoppingUngated
<1>1. IInv => StoppingUngated
  BY DEF IInv
<1> QED BY Invariant, <1>1, PTL

\* A closed Epic has no live Attempt and no unfinished work: a claim reads the Epic
\* again, nothing reopens work of a closed one, and a stop ends all of it.
THEOREM FactoryClosedIdle == Spec => []ClosedEpicIdle
<1>1. IInv => ClosedEpicIdle
  BY DEF IInv
<1> QED BY Invariant, <1>1, PTL

\* The response of a recovery gate reaches its session once, however often the reply
\* of the call was lost, the hub crashed and the user tried again.
THEOREM FactoryResponseOnce == Spec => []ResponseSentOnce
<1>1. IInv => ResponseSentOnce
  BY ToldOnce DEF IInv
<1> QED BY Invariant, <1>1, PTL

\* No late failure, restart or stop changes how an Attempt ended, nor takes back
\* work that succeeded.
THEOREM FactoryOutcomes == Spec => OutcomesAreFinal
<1>1. IInv /\ [Next]_vars =>
        [/\ \A a \in Attempt : phase[a] \in Closed => phase'[a] = phase[a]
         /\ \A i \in Issue : status[i] = "succeeded" => status'[i] = "succeeded"]_vars
  <2> SUFFICES ASSUME IInv, [Next]_vars
               PROVE  /\ \A a \in Attempt : phase[a] \in Closed => phase'[a] = phase[a]
                      /\ \A i \in Issue : status[i] = "succeeded" => status'[i] = "succeeded"
    OBVIOUS
  <2>1. Typed /\ Worked /\ RowKind
    BY StepKinds DEF IInv
  <2> QED BY <2>1, OutcomesStep
<1> QED BY Invariant, <1>1, PTL DEF Spec, OutcomesAreFinal

\* While only recovery gates are raised, the Attempts that write are never more than
\* the capacity: the claim counts them in its transaction, the resume counts itself.
THEOREM FactoryCapacity == Spec /\ Gates \subseteq {"recovery"} => []CapacityKept
<1> DEFINE J == Gates \subseteq {"recovery"} => Within
<1>1. Init => J
  <2> SUFFICES ASSUME Init PROVE Within
    OBVIOUS
  <2>1. OnlyRecovery
    BY DEF Init, OnlyRecovery
  <2>2. Occupying = {}
    BY Words DEF Init, Occupying, LiveAttempts
  <2>3. Cardinality(Occupying) = 0
    BY <2>2, FS_EmptySet
  <2> QED BY <2>1, <2>3, Constants DEF Within, CapacityKept
<1>2. IInv /\ J /\ [Next]_vars => J'
  <2> SUFFICES ASSUME IInv, Within, Gates \subseteq {"recovery"}, [Next]_vars PROVE Within'
    OBVIOUS
  <2>1. Typed /\ RowKind /\ GateKind
    BY StepKinds DEF IInv
  <2> QED BY <2>1, OnlyRecoveryStep, CapacityStep DEF Within
<1>3. J /\ Gates \subseteq {"recovery"} => CapacityKept
  BY DEF Within
<1> HIDE DEF J
<1>4. Spec => []J
  BY Invariant, <1>1, <1>2, PTL DEF Spec
<1>5. CASE Gates \subseteq {"recovery"}
  <2>1. J => CapacityKept
    BY <1>3, <1>5
  <2> QED BY <1>4, <2>1, PTL
<1> QED BY <1>5


=============================================================================
