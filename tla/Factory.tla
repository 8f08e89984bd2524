------------------------------- MODULE Factory -------------------------------
(***************************************************************************)
(* The Software Factory's scheduler.  A Work Epic is a graph of Issues; an *)
(* Attempt is one agent session that works on one Issue in the workspace   *)
(* of its Epic.  internal/state/factory*.go keeps the rows in SQLite, one  *)
(* action per transaction; internal/factory runs a dispatcher goroutine,   *)
(* the agents' tool calls and the user's decisions on gates against it.    *)
(*                                                                         *)
(* A gate pauses an Attempt until a human decides.  The rows survive a     *)
(* crash of the hub, and so do the agents' sessions, which another process *)
(* hosts; the dispatcher's pass, the mutexes and handoffBlocked do not.    *)
(*                                                                         *)
(* Left out: the contents of plans, prompts and policies, graph edits (no  *)
(* edit touches an Issue in progress), Formula checks and merge gates.     *)
(***************************************************************************)
EXTENDS Integers, FiniteSets

CONSTANTS
    Epic,               \* factory_epic ids
    NoEpic,             \* no Epic
    EpicOf,             \* Issues are numbered by created_at; the Epic of each
    Needs,              \* the Issues a "blocks" dependency names
    MaxAttempts,        \* bound: rows of factory_attempt
    Capacity,           \* FactoryCapacityPolicy.GlobalCapacity
    RetryBudget,        \* len(factoryRetryBackoff)
    MaxFaults,          \* bound: crashes, lost sessions, calls that fail
    Gates,              \* the kinds of gate that are raised
    Operators           \* the interventions of the user that happen

Issue   == DOMAIN EpicOf
Attempt == 1..MaxAttempts
None    == 0            \* no Attempt, no Issue

GateKinds == {"recovery", "authority", "project"}
Interventions == {"pause", "stop", "close", "retry", "cancel", "reopen"}

ASSUME FactoryAssumption ==
    /\ MaxAttempts \in Nat /\ NoEpic \notin Epic
    /\ Issue \subseteq Nat \ {0} /\ IsFiniteSet(Issue)
    /\ EpicOf \in [Issue -> Epic]
    /\ Needs \in [Issue -> SUBSET Issue]
    /\ Capacity \in Nat \ {0} /\ RetryBudget \in Nat \ {0}
    /\ MaxFaults \in Nat
    /\ Gates \subseteq GateKinds /\ Operators \subseteq Interventions

VARIABLES
    (* state.db *)
    epicStatus, \* factory_epic.status
    status,     \* factory_issue.status; a closed Issue by its outcome
    retries,    \* retry_attempts
    reason,     \* outcome_reason: the message of the last failure
    phase,      \* factory_attempt.phase; a terminal one by its outcome
    work,       \* work_item_id
    recovery,   \* the Attempt's unresolved recovery gate; "queued" is an open
                \* gate with a saved response
    authority,  \* its unresolved authority escalation gate
    project,    \* its unresolved project request gate
    marked,     \* result_json holds the checkpoint marker of the recovery gate
    (* the agents' platform *)
    session,    \* is the Attempt's session there, is a turn running in it
    told,       \* how often the response of the recovery gate reached it
    (* process memory *)
    disp,       \* where the dispatcher's pass stands
    finishing,  \* the Attempt whose CompleteAttempt holds implementationMu
    rec,        \* where the resolution that holds recoveryMu stands
    stopping,   \* the Epic whose StopEpic holds every mutex, if any
    blocked,    \* handoffBlocked
    faults      \* how many of the bounded faults happened

rows     == <<epicStatus, status, retries, reason, phase, work>>
gates    == <<recovery, authority, project, marked>>
platform == <<session, told>>
memory   == <<disp, finishing, rec, stopping, blocked>>
vars     == <<rows, gates, platform, memory, faults>>

Live   == {"prepared", "active", "stopping"}
Closed == {"succeeded", "failed", "cancelled"}
Paused == {"open", "queued"}    \* recovery gates whose resolution is 'open'

(* The messages FailFactoryAttempt records.  The first two are those of a  *)
(* launch; a restart or a lost session says nothing about the work.        *)
LaunchFailure == {"branch", "launch"}
Interruption  == {"restart", "gone"}
Message == LaunchFailure \cup Interruption \cup
           {"activation", "prompt", "handoff", "rejected"}

(* A pass of the dispatcher: its step, the Attempts or Issues still to     *)
(* visit, the Attempts kept for the next step, and the one in hand.        *)
Pass(pc, left, kept, cur) == [pc |-> pc, left |-> left, kept |-> kept, cur |-> cur]
Idle    == Pass("idle", {}, {}, None)
Free    == [pc |-> "free", of |-> None]
First(S) == CHOOSE x \in S : \A y \in S : x <= y

Init ==
    /\ epicStatus = [e \in Epic |-> "open"]
    /\ status = [i \in Issue |-> "open"]
    /\ retries = [i \in Issue |-> 0] /\ reason = [i \in Issue |-> ""]
    /\ phase = [a \in Attempt |-> "none"] /\ work = [a \in Attempt |-> None]
    /\ recovery = [a \in Attempt |-> "none"]
    /\ authority = [a \in Attempt |-> "none"]
    /\ project = [a \in Attempt |-> "none"]
    /\ marked = [a \in Attempt |-> FALSE]
    /\ session = [a \in Attempt |-> "none"] /\ told = [a \in Attempt |-> 0]
    /\ disp = Idle /\ finishing = None /\ rec = Free /\ stopping = NoEpic
    /\ blocked = {} /\ faults = 0

-----------------------------------------------------------------------------
(* Queries.                                                                *)

LiveAttempts == {a \in Attempt : phase[a] \in Live}
Of(e) == {a \in LiveAttempts : EpicOf[work[a]] = e}

\* IsFactoryAttemptRecoveryPaused and the guards that repeat its query.
Gated(a) == recovery[a] # "none" \/ authority[a] # "none" \/ project[a] # "none"

\* Mutation of Yielded: the checkpoint is not looked at, a pause never yields.
NeverYielded(a) == FALSE

\* factoryRecoveryYieldedSQL: stopped, checked, and waiting for a human.
Yielded(a) == phase[a] = "active" /\ recovery[a] \in Paused /\ marked[a]

\* The live Attempts that hold the workspace of Epic e.
Owners(e) == {a \in Of(e) : ~Yielded(a)}

\* What a claim counts against the capacity.
Occupying ==
    {a \in LiveAttempts : /\ recovery[a] \notin Paused
                          /\ authority[a] = "none" /\ project[a] = "none"}

\* Mutation of OccupyingWith: a paused Attempt does not count itself.
OccupyingOthers(a) == {b \in Occupying : b # a}

\* What resuming Attempt a counts: itself, and project requests as well.
OccupyingWith(a) ==
    {b \in LiveAttempts : b = a \/ (recovery[b] \notin Paused /\ authority[b] = "none")}

\* The dispatch state "ready" of listFactoryIssues.
Ready(i) ==
    /\ status[i] = "open" /\ epicStatus[EpicOf[i]] = "open"
    /\ \A j \in Needs[i] : status[j] = "succeeded"

Unused == {a \in Attempt : phase[a] = "none"}

Fault == faults < MaxFaults /\ faults' = faults + 1

RecoveryFree == rec.pc = "free" /\ stopping = NoEpic
DispatcherHolds == disp.pc \in {"reconcile", "probe", "prompt", "answer"}
ImplementationFree == finishing = None /\ stopping = NoEpic /\ ~DispatcherHolds

\* StopImplementationSession aborts the running turn.  A session that is gone
\* cannot be aborted; any other call may fail.
Idled(A) == [a \in Attempt |-> IF a \in A /\ session[a] = "busy" THEN "idle" ELSE session[a]]
StopSession(a) == session[a] # "gone" /\ session' = Idled({a}) /\ UNCHANGED faults
CallFails(a) == IF session[a] = "gone" THEN UNCHANGED faults ELSE Fault
StopFails(a) == UNCHANGED session /\ CallFails(a)
TryStop(a) == StopSession(a) \/ StopFails(a)

-----------------------------------------------------------------------------
(* Transactions of internal/state, each the primed rows it writes.         *)

\* Mutation of Fail: the Attempt fails and its Issue is forgotten.
FailAttemptOnly(a, msg) ==
    /\ phase' = IF phase[a] \in Live THEN [phase EXCEPT ![a] = "failed"] ELSE phase
    /\ UNCHANGED <<epicStatus, status, retries, reason, work>>

\* Mutation of Fail: a late failure is recorded on an Attempt that ended.
FailLate(a, msg) ==
    /\ phase' = [phase EXCEPT ![a] = "failed"]
    /\ UNCHANGED <<epicStatus, work>>
    /\ IF status[work[a]] # "in_progress" THEN UNCHANGED <<status, retries, reason>> ELSE
       /\ status' = [status EXCEPT ![work[a]] = "retry_wait"]
       /\ retries' = [retries EXCEPT ![work[a]] = IF @ < RetryBudget THEN @ + 1 ELSE @]
       /\ reason' = [reason EXCEPT ![work[a]] = msg]

\* FailFactoryAttempt: the same message twice spends the whole budget.
Fail(a, msg) ==
    LET i == work[a]
        spent == IF msg \notin Interruption /\ retries[i] > 0 /\ reason[i] = msg
                 THEN RetryBudget ELSE retries[i]
    IN IF phase[a] \notin Live THEN UNCHANGED rows ELSE
       /\ phase' = [phase EXCEPT ![a] = "failed"]
       /\ UNCHANGED <<epicStatus, work>>
       /\ IF status[i] # "in_progress" THEN UNCHANGED <<status, retries, reason>> ELSE
          /\ status' = [status EXCEPT ![i] = IF spent < RetryBudget THEN "retry_wait" ELSE "failed"]
          /\ retries' = [retries EXCEPT ![i] = spent + 1]
          /\ reason' = [reason EXCEPT ![i] = msg]

\* Mutation of CreateRecovery: a completion that was begun does not refuse a gate.
CreateRecoveryLate(a) ==
    /\ phase[a] \in {"active", "stopping"} /\ recovery[a] = "none" /\ project[a] = "none"
    /\ recovery' = [recovery EXCEPT ![a] = "open"]
    /\ marked' = [marked EXCEPT ![a] = FALSE]
    /\ told' = [told EXCEPT ![a] = 0]
    /\ blocked' = blocked \ {a}

\* Mutation of CreateRecovery: any earlier checkpoint marker counts for the gate.
CreateRecoveryMarked(a) ==
    /\ phase[a] = "active" /\ recovery[a] = "none" /\ project[a] = "none"
    /\ recovery' = [recovery EXCEPT ![a] = "open"]
    /\ told' = [told EXCEPT ![a] = 0]
    /\ blocked' = blocked \ {a} /\ UNCHANGED marked

\* CreateFactoryRecoveryGate.  The gate has an id of its own: what was noted
\* of an earlier gate of the Attempt does not concern it.
CreateRecovery(a) ==
    /\ phase[a] = "active" /\ recovery[a] = "none" /\ project[a] = "none"
    /\ recovery' = [recovery EXCEPT ![a] = "open"]
    /\ marked' = [marked EXCEPT ![a] = FALSE]
    /\ told' = [told EXCEPT ![a] = 0]
    /\ blocked' = blocked \ {a}

\* Mutation of HeldByOther: a resume does not look who holds the workspace.
HeldByNobody(a) == FALSE

\* ResolveFactoryRecoveryGate with action resume, and the caller's answer to
\* ErrRecoveryWorkspaceBusy: the response is kept on the open gate.
HeldByOther(a) == Owners(EpicOf[work[a]]) \ {a} # {}

Resumable(a) ==
    phase[a] = "active" /\ IF HeldByOther(a) THEN recovery[a] \in Paused
                           ELSE Cardinality(OccupyingWith(a)) <= Capacity
Resume(a) ==
    IF HeldByOther(a)
    THEN recovery' = [recovery EXCEPT ![a] = "queued"] /\ UNCHANGED rec
    ELSE /\ recovery' = [recovery EXCEPT ![a] = "resume_pending"]
         /\ rec' = [pc |-> "deliver", of |-> a]

-----------------------------------------------------------------------------
(* The dispatcher: one pass of NativeService.dispatch after another.       *)

BeginPass ==
    /\ disp.pc = "idle" /\ ImplementationFree
    /\ disp' = Pass("reconcile", {a \in LiveAttempts : phase[a] # "prepared"}, {}, None)
    /\ UNCHANGED <<rows, gates, platform, finishing, rec, stopping, blocked, faults>>

Visited(a) == disp' = Pass("reconcile", disp.left \ {a}, disp.kept, None)

\* A handoff that never finished recording: stop the session, then fail it.
ReconcileStopping ==
    /\ disp.pc = "reconcile" /\ disp.left # {}
    /\ LET a == First(disp.left) IN
       /\ phase[a] = "stopping"
       /\ \/ StopSession(a) /\ Fail(a, "handoff")
          \/ StopFails(a) /\ UNCHANGED rows
       /\ Visited(a)
    /\ UNCHANGED <<gates, told, finishing, rec, stopping, blocked>>

\* A gate that is already there keeps the session from being probed.
ReconcileActive ==
    /\ disp.pc = "reconcile" /\ disp.left # {}
    /\ LET a == First(disp.left) IN
       /\ phase[a] # "stopping"
       /\ IF phase[a] = "active" /\ ~Gated(a)
          THEN disp' = [disp EXCEPT !.pc = "probe", !.cur = a]
          ELSE Visited(a)
    /\ UNCHANGED <<rows, gates, platform, finishing, rec, stopping, blocked, faults>>

Probe ==
    /\ disp.pc = "probe"
    /\ LET a == disp.cur IN
       \/ Fault /\ Visited(a) /\ UNCHANGED rows
       \/ /\ session[a] # "gone"
          /\ disp' = Pass("reconcile", disp.left \ {a}, disp.kept \cup {a}, None)
          /\ UNCHANGED <<rows, faults>>
       \/ session[a] = "gone" /\ Fail(a, "gone") /\ Visited(a) /\ UNCHANGED faults
    /\ UNCHANGED <<gates, platform, finishing, rec, stopping, blocked>>

EndReconcile ==
    /\ disp.pc = "reconcile" /\ disp.left = {}
    /\ disp' = Pass("watch", disp.kept, {}, None)
    /\ UNCHANGED <<rows, gates, platform, finishing, rec, stopping, blocked, faults>>

\* pauseIdleAttempt, outside every mutex, of the Attempts found alive before.
Watch ==
    /\ disp.pc = "watch" /\ disp.left # {}
    /\ LET a == First(disp.left) IN
       /\ disp' = Pass("watch", disp.left \ {a}, {}, None)
       /\ \/ "recovery" \in Gates /\ CreateRecovery(a)
          \/ UNCHANGED <<recovery, marked, told, blocked>>
    /\ UNCHANGED <<rows, authority, project, session, finishing, rec, stopping, faults>>

\* Mutation of Wake: the pass looks for no queued resumes.
WakeOnlyRetries ==
    /\ disp.pc = "watch" /\ disp.left = {}
    /\ \E awake \in SUBSET {i \in Issue : status[i] = "retry_wait"} :
          status' = [i \in Issue |-> IF i \in awake THEN "open" ELSE status[i]]
    /\ disp' = Pass("resume", {}, {}, None)
    /\ UNCHANGED <<epicStatus, retries, reason, phase, work, gates, platform,
                   finishing, rec, stopping, blocked, faults>>

\* WakeFactoryRetries wakes the Issues whose retry_at has passed; then the
\* queued resumes are listed.
Wake ==
    /\ disp.pc = "watch" /\ disp.left = {}
    /\ \E awake \in SUBSET {i \in Issue : status[i] = "retry_wait"} :
          status' = [i \in Issue |-> IF i \in awake THEN "open" ELSE status[i]]
    /\ disp' = Pass("resume", {a \in Attempt : recovery[a] = "queued"}, {}, None)
    /\ UNCHANGED <<epicStatus, retries, reason, phase, work, gates, platform,
                   finishing, rec, stopping, blocked, faults>>

\* resumeQueuedRecoveries reads the gate again under recoveryMu and holds the
\* mutex until the delivery ended.
ResumeQueued ==
    /\ disp.pc = "resume" /\ disp.left # {} /\ RecoveryFree
    /\ LET a == First(disp.left) IN
       /\ disp' = Pass("resume", disp.left \ {a}, {}, a)
       /\ IF recovery[a] = "queued" /\ Resumable(a) THEN Resume(a)
          ELSE UNCHANGED <<recovery, rec>>
    /\ UNCHANGED <<rows, authority, project, marked, platform, finishing, stopping,
                   blocked, faults>>

ListReady ==
    /\ disp.pc = "resume" /\ disp.left = {}
    /\ disp.cur = None \/ rec.of # disp.cur     \* its own delivery ended
    /\ disp' = Pass("handoff", {i \in Issue : Ready(i)}, {}, None)
    /\ UNCHANGED <<rows, gates, platform, finishing, rec, stopping, blocked, faults>>

SkipIssue(i) == disp' = Pass("handoff", disp.left \ {i}, {}, None)

\* handoffRecoveryWorkspace: a paused writer yields once it is stopped and its
\* checkpoint is valid; a session that was stopped is not stopped again.
Handoff ==
    /\ disp.pc = "handoff" /\ disp.left # {} /\ RecoveryFree
    /\ LET i == First(disp.left)
           claim == disp' = [disp EXCEPT !.pc = "claim", !.cur = i]
           H == {a \in Of(EpicOf[i]) : phase[a] = "active" /\ recovery[a] \in Paused /\ ~marked[a]}
       IN \/ H = {} /\ claim /\ UNCHANGED <<marked, session, blocked, faults>>
          \/ \E a \in H :
             \/ a \notin blocked /\ StopFails(a) /\ SkipIssue(i) /\ UNCHANGED <<marked, blocked>>
             \/ /\ Fault /\ SkipIssue(i) /\ UNCHANGED marked
                /\ blocked' = blocked \cup {a}
                /\ session' = IF a \in blocked THEN session ELSE Idled({a})
             \/ /\ IF a \in blocked THEN UNCHANGED <<session, faults>> ELSE StopSession(a)
                /\ blocked' = blocked \ {a}
                /\ IF Owners(EpicOf[i]) \ {a} = {}
                   THEN marked' = [marked EXCEPT ![a] = TRUE] /\ claim
                   ELSE UNCHANGED marked /\ SkipIssue(i)
    /\ UNCHANGED <<rows, recovery, authority, project, told, finishing, rec, stopping>>

\* Mutation of Claimable: the claim trusts the list of ready Issues.
ClaimableAsListed(i) ==
    Owners(EpicOf[i]) = {} /\ Cardinality(Occupying) < Capacity

\* ClaimFactoryImplementation, which reads everything again.
Claimable(i) ==
    /\ Ready(i) /\ Owners(EpicOf[i]) = {}
    /\ Cardinality(Occupying) < Capacity

Claim ==
    /\ disp.pc = "claim"
    /\ LET i == disp.cur
           a == First(Unused)
       IN IF Claimable(i) /\ Unused # {}
          THEN /\ status' = [status EXCEPT ![i] = "in_progress"]
               /\ phase' = [phase EXCEPT ![a] = "prepared"]
               /\ work' = [work EXCEPT ![a] = i]
               /\ disp' = Pass("launch", disp.left \ {i}, {}, a)
               /\ UNCHANGED <<epicStatus, retries, reason>>
          ELSE SkipIssue(i) /\ UNCHANGED rows
    /\ UNCHANGED <<gates, platform, finishing, rec, stopping, blocked, faults>>

NextIssue == disp' = Pass("handoff", disp.left, {}, None)

\* Prepare the workspace and create the session; either may fail.
Launch ==
    /\ disp.pc = "launch"
    /\ LET a == disp.cur IN
       \/ /\ session' = [session EXCEPT ![a] = "idle"]
          /\ disp' = [disp EXCEPT !.pc = "activate"]
          /\ UNCHANGED <<rows, faults>>
       \/ \E msg \in LaunchFailure : Fail(a, msg) /\ Fault /\ NextIssue /\ UNCHANGED session
    /\ UNCHANGED <<gates, told, finishing, rec, stopping, blocked>>

Activate ==
    /\ disp.pc = "activate" /\ ImplementationFree
    /\ LET a == disp.cur IN
       IF phase[a] = "prepared"
       THEN /\ phase' = [phase EXCEPT ![a] = "active"]
            /\ disp' = [disp EXCEPT !.pc = "prompt"]
            /\ UNCHANGED <<epicStatus, status, retries, reason, work, session, faults>>
       ELSE TryStop(a) /\ Fail(a, "activation") /\ NextIssue
    /\ UNCHANGED <<gates, told, finishing, rec, stopping, blocked>>

\* The prompt reaches the session before, or without, the call's answer.
Prompt ==
    /\ disp.pc = "prompt"
    /\ LET a == disp.cur IN
       \/ /\ session[a] # "gone"
          /\ session' = [session EXCEPT ![a] = "busy"]
          /\ disp' = [disp EXCEPT !.pc = "answer"]
          /\ UNCHANGED <<rows, faults>>
       \/ CallFails(a) /\ UNCHANGED session /\ Fail(a, "prompt") /\ NextIssue
    /\ UNCHANGED <<gates, told, finishing, rec, stopping, blocked>>

Answer ==
    /\ disp.pc = "answer" /\ NextIssue
    /\ \/ UNCHANGED <<rows, session, faults>>
       \/ Fault /\ session' = Idled({disp.cur}) /\ Fail(disp.cur, "prompt")
       \/ Fault /\ UNCHANGED session /\ Fail(disp.cur, "prompt")
    /\ UNCHANGED <<gates, told, finishing, rec, stopping, blocked>>

EndPass ==
    /\ disp.pc = "handoff" /\ disp.left = {}
    /\ disp' = Idle
    /\ UNCHANGED <<rows, gates, platform, finishing, rec, stopping, blocked, faults>>

-----------------------------------------------------------------------------
(* The agents: tool calls a running turn makes.                            *)

AgentRequestsRecovery(a) ==
    /\ "recovery" \in Gates /\ session[a] = "busy" /\ CreateRecovery(a)
    /\ UNCHANGED <<rows, authority, project, session, disp, finishing, rec, stopping, faults>>

AgentRequestsProject(a) ==
    /\ "project" \in Gates /\ session[a] = "busy"
    /\ phase[a] = "active" /\ status[work[a]] = "in_progress" /\ ~Gated(a)
    /\ project' = [project EXCEPT ![a] = "open"]
    /\ UNCHANGED <<rows, recovery, authority, marked, platform, memory, faults>>

\* EscalatePermission asks for no other gate; one request at a time.
AgentNeedsAuthority(a) ==
    /\ "authority" \in Gates /\ session[a] = "busy"
    /\ phase[a] = "active" /\ authority[a] = "none"
    /\ authority' = [authority EXCEPT ![a] = "open"]
    /\ UNCHANGED <<rows, recovery, project, marked, platform, memory, faults>>

\* CompleteAttempt validates, moves the Attempt to stopping, validates again
\* and records the result, all under implementationMu.
CompleteBegin(a) ==
    /\ session[a] = "busy" /\ ImplementationFree
    /\ (phase[a] = "active" /\ ~Gated(a)) \/ phase[a] = "stopping"
    /\ phase' = [phase EXCEPT ![a] = "stopping"]
    /\ finishing' = a
    /\ UNCHANGED <<epicStatus, status, retries, reason, work, gates, platform,
                   disp, rec, stopping, blocked, faults>>

CompleteEnd ==
    /\ finishing # None /\ finishing' = None
    /\ LET a == finishing
           recorded == phase[a] = "stopping" /\ ~Gated(a) /\ status[work[a]] = "in_progress"
       IN \/ /\ recorded
             /\ phase' = [phase EXCEPT ![a] = "succeeded"]
             /\ status' = [status EXCEPT ![work[a]] = "succeeded"]
             /\ reason' = [reason EXCEPT ![work[a]] = ""]
             /\ UNCHANGED <<epicStatus, retries, work>>
          \/ UNCHANGED rows       \* refused, also when a push came between
    /\ UNCHANGED <<gates, platform, disp, rec, stopping, blocked, faults>>

TurnEnds(a) ==
    /\ session[a] = "busy" /\ session' = [session EXCEPT ![a] = "idle"]
    /\ UNCHANGED <<rows, gates, told, memory, faults>>

SessionDies(a) ==
    /\ session[a] \in {"idle", "busy"} /\ Fault
    /\ session' = [session EXCEPT ![a] = "gone"]
    /\ UNCHANGED <<rows, gates, told, memory>>

-----------------------------------------------------------------------------
(* The user's decisions.                                                   *)

UserResumes(a) ==
    /\ RecoveryFree /\ recovery[a] # "none" /\ Resumable(a) /\ Resume(a)
    /\ UNCHANGED <<rows, authority, project, marked, platform, disp, finishing,
                   stopping, blocked, faults>>

\* Mutation of Deliver: a retried resume does not look for its response.
DeliverBlindly ==
    /\ rec.pc = "deliver"
    /\ LET a == rec.of IN
       \/ /\ session[a] # "gone" /\ UNCHANGED faults
          /\ session' = [session EXCEPT ![a] = "busy"] /\ told' = [told EXCEPT ![a] = @ + 1]
          /\ rec' = [rec EXCEPT !.pc = "complete"]
       \/ CallFails(a) /\ UNCHANGED platform /\ rec' = Free
       \/ /\ session[a] # "gone" /\ Fault
          /\ session' = [session EXCEPT ![a] = "busy"] /\ told' = [told EXCEPT ![a] = @ + 1]
          /\ rec' = Free
    /\ UNCHANGED <<rows, gates, disp, finishing, stopping, blocked>>

\* The response is sent unless the session shows it already.  A call can fail
\* before the message arrived, or after it without the caller learning so.
Deliver ==
    /\ rec.pc = "deliver"
    /\ LET a == rec.of IN
       \/ /\ session[a] # "gone" /\ UNCHANGED faults
          /\ IF told[a] > 0 THEN UNCHANGED platform
             ELSE session' = [session EXCEPT ![a] = "busy"] /\ told' = [told EXCEPT ![a] = @ + 1]
          /\ rec' = [rec EXCEPT !.pc = "complete"]
       \/ CallFails(a) /\ UNCHANGED platform /\ rec' = Free
       \/ /\ session[a] # "gone" /\ told[a] = 0 /\ Fault
          /\ session' = [session EXCEPT ![a] = "busy"] /\ told' = [told EXCEPT ![a] = 1]
          /\ rec' = Free
    /\ UNCHANGED <<rows, gates, disp, finishing, stopping, blocked>>

\* Mutation of CompleteResume: the gate keeps a resolution no query tests for.
CompleteResumeNamed ==
    /\ rec.pc = "complete" /\ rec' = Free
    /\ recovery' = [recovery EXCEPT ![rec.of] = "resume"]
    /\ UNCHANGED <<rows, authority, project, marked, platform, disp, finishing,
                   stopping, blocked, faults>>

\* CompleteFactoryRecoveryGate.
CompleteResume ==
    /\ rec.pc = "complete" /\ rec' = Free
    /\ recovery' = [recovery EXCEPT ![rec.of] = IF @ = "resume_pending" THEN "none" ELSE @]
    /\ UNCHANGED <<rows, authority, project, marked, platform, disp, finishing,
                   stopping, blocked, faults>>

\* The rows first; the session is stopped after the transaction.
UserGivesUp(a, kind, outcome) ==
    /\ kind \in Operators /\ RecoveryFree
    /\ recovery[a] \in Paused /\ phase[a] = "active"
    /\ phase' = [phase EXCEPT ![a] = "cancelled"]
    /\ status' = [status EXCEPT ![work[a]] = outcome]
    /\ reason' = [reason EXCEPT ![work[a]] = ""]
    /\ recovery' = [recovery EXCEPT ![a] = "none"]
    /\ rec' = [pc |-> "stop", of |-> a]
    /\ UNCHANGED <<epicStatus, retries, work, authority, project, marked, platform,
                   disp, finishing, stopping, blocked, faults>>

UserRetries(a) == UserGivesUp(a, "retry", "open")
UserCancels(a) == UserGivesUp(a, "cancel", "cancelled")

StopAfter ==
    /\ rec.pc = "stop" /\ rec' = Free /\ TryStop(rec.of)
    /\ UNCHANGED <<rows, gates, told, disp, finishing, stopping, blocked>>

\* ResolveProjectRequest stops the session before it defers the work.
UserApprovesProject(a) ==
    /\ stopping = NoEpic /\ project[a] = "open"
    /\ phase[a] = "active" /\ status[work[a]] = "in_progress"
    /\ StopSession(a)
    /\ status' = [status EXCEPT ![work[a]] = "deferred"]
    /\ phase' = [phase EXCEPT ![a] = "cancelled"]
    /\ reason' = [reason EXCEPT ![work[a]] = ""]
    /\ project' = [project EXCEPT ![a] = "none"]
    /\ UNCHANGED <<epicStatus, retries, work, recovery, authority, marked, told, memory>>

UserRejectsProject(a) ==
    /\ stopping = NoEpic /\ project[a] = "open" /\ phase[a] = "active"
    /\ project' = [project EXCEPT ![a] = "reject_pending"]
    /\ UNCHANGED <<rows, recovery, authority, marked, platform, memory, faults>>

\* The feedback reaches a live session; a lost one fails and is retried.
DeliverRejection(a) ==
    /\ stopping = NoEpic /\ project[a] = "reject_pending"
    /\ project' = [project EXCEPT ![a] = "none"]
    /\ \/ /\ session[a] # "gone"
          /\ session' = [session EXCEPT ![a] = "busy"]
          /\ UNCHANGED rows
       \/ /\ session[a] = "gone" /\ phase[a] = "active"
          /\ LET i == work[a] IN
             /\ phase' = [phase EXCEPT ![a] = "failed"]
             /\ IF status[i] # "in_progress" THEN UNCHANGED <<status, retries, reason>> ELSE
                /\ status' = [status EXCEPT ![i] = IF retries[i] < RetryBudget THEN "retry_wait" ELSE "failed"]
                /\ retries' = [retries EXCEPT ![i] = @ + 1]
                /\ reason' = [reason EXCEPT ![i] = "rejected"]
          /\ UNCHANGED <<epicStatus, work, session>>
    /\ UNCHANGED <<recovery, authority, marked, told, memory, faults>>

\* ApplyFactoryScopePlan, once the Plan of the admitted project is carried out.
ScopeReplanned(i) ==
    /\ status[i] = "deferred" /\ epicStatus[EpicOf[i]] # "closed"
    /\ status' = [status EXCEPT ![i] = "open"]
    /\ UNCHANGED <<epicStatus, retries, reason, phase, work, gates, platform, memory, faults>>

\* The decision is stored before the platform is told, and closed after it.
UserDecidesAuthority(a) ==
    /\ stopping = NoEpic /\ authority[a] = "open" /\ phase[a] = "active"
    /\ authority' = [authority EXCEPT ![a] = "pending"]
    /\ UNCHANGED <<rows, recovery, project, marked, platform, memory, faults>>

CompleteAuthority(a) ==
    /\ stopping = NoEpic /\ authority[a] = "pending" /\ phase[a] = "active"
    /\ authority' = [authority EXCEPT ![a] = "none"]
    /\ UNCHANGED <<rows, recovery, project, marked, platform, memory, faults>>

SetEpicPaused(e) ==
    /\ "pause" \in Operators /\ epicStatus[e] # "closed"
    /\ epicStatus' = [epicStatus EXCEPT ![e] = IF @ = "open" THEN "paused" ELSE "open"]
    /\ UNCHANGED <<status, retries, reason, phase, work, gates, platform, memory, faults>>

\* StopEpic takes every mutex, pauses the Epic, stops the sessions one after
\* the other and closes the Epic; a failed stop leaves it paused.
StopEpicBegin(e) ==
    /\ "stop" \in Operators /\ epicStatus[e] # "closed"
    /\ RecoveryFree /\ ImplementationFree
    /\ stopping' = e
    /\ epicStatus' = [epicStatus EXCEPT ![e] = "paused"]
    /\ UNCHANGED <<status, retries, reason, phase, work, gates, platform,
                   disp, finishing, rec, blocked, faults>>

StopEpicFails ==
    /\ stopping # NoEpic /\ stopping' = NoEpic
    /\ \E a \in Of(stopping) :
          /\ phase[a] # "prepared" /\ CallFails(a)
          /\ \A b \in Of(stopping) : b < a /\ phase[b] # "prepared" => session[b] # "gone"
          /\ session' = Idled({b \in Of(stopping) : b < a /\ phase[b] # "prepared"})
    /\ UNCHANGED <<rows, gates, told, disp, finishing, rec, blocked>>

StopEpicEnds ==
    /\ stopping # NoEpic /\ stopping' = NoEpic
    /\ LET e == stopping
           stopped == {a \in Of(e) : phase[a] # "prepared"}
           mine(a) == work[a] # None /\ EpicOf[work[a]] = e /\ epicStatus[e] # "closed"
       IN /\ \A a \in stopped : session[a] # "gone"
          /\ session' = Idled(stopped)
          /\ epicStatus' = [epicStatus EXCEPT ![e] = "closed"]
          /\ phase' = [a \in Attempt |-> IF a \in Of(e) THEN "cancelled" ELSE phase[a]]
          /\ status' = [i \in Issue |-> IF EpicOf[i] = e /\ status[i] \notin Closed
                                        THEN "cancelled" ELSE status[i]]
          /\ reason' = [i \in Issue |-> IF EpicOf[i] = e /\ status[i] \notin Closed
                                        THEN "" ELSE reason[i]]
          /\ recovery' = [a \in Attempt |-> IF mine(a) THEN "none" ELSE recovery[a]]
          /\ authority' = [a \in Attempt |-> IF mine(a) THEN "none" ELSE authority[a]]
          /\ project' = [a \in Attempt |-> IF mine(a) THEN "none" ELSE project[a]]
    /\ UNCHANGED <<retries, work, marked, told, disp, finishing, rec, blocked, faults>>

\* CloseFactoryEpic without force: the root Mol closed, so every Issue did.
CloseEpic(e) ==
    /\ "close" \in Operators /\ epicStatus[e] # "closed"
    /\ \A i \in Issue : EpicOf[i] = e => status[i] = "succeeded"
    /\ epicStatus' = [epicStatus EXCEPT ![e] = "closed"]
    /\ UNCHANGED <<status, retries, reason, phase, work, gates, platform, memory, faults>>

ReopenIssue(i) ==
    /\ "reopen" \in Operators /\ epicStatus[EpicOf[i]] = "open"
    /\ status[i] \in {"failed", "cancelled"}
    /\ status' = [status EXCEPT ![i] = "open"]
    /\ retries' = [retries EXCEPT ![i] = 0] /\ reason' = [reason EXCEPT ![i] = ""]
    /\ UNCHANGED <<epicStatus, phase, work, gates, platform, memory, faults>>

-----------------------------------------------------------------------------
(* The hub dies, alone or with the host of the sessions, and starts again: *)
(* NativeService.Start visits the Attempts it listed, keeping in mind      *)
(* which were stopping, then the passes begin.                             *)

Crash ==
    /\ Fault
    /\ disp' = Pass("start", LiveAttempts, {a \in LiveAttempts : phase[a] = "stopping"}, None)
    /\ finishing' = None /\ rec' = Free /\ stopping' = NoEpic /\ blocked' = {}
    /\ \/ UNCHANGED session
       \/ session' = [a \in Attempt |-> IF session[a] = "none" THEN "none" ELSE "gone"]
    /\ UNCHANGED <<rows, gates, told>>

StartAttempt ==
    /\ disp.pc = "start" /\ disp.left # {}
    /\ LET a == First(disp.left) IN
       /\ disp' = [disp EXCEPT !.left = @ \ {a}]
       /\ \/ Gated(a) /\ UNCHANGED <<rows, session, faults>>
          \/ ~Gated(a) /\ a \in disp.kept /\ StopSession(a) /\ Fail(a, "restart")
          \/ ~Gated(a) /\ a \in disp.kept /\ StopFails(a) /\ UNCHANGED rows
          \/ /\ ~Gated(a) /\ a \notin disp.kept
             /\ IF phase[a] = "prepared" \/ session[a] = "gone" THEN Fail(a, "restart")
                ELSE UNCHANGED rows
             /\ UNCHANGED <<session, faults>>
    /\ UNCHANGED <<gates, told, finishing, rec, stopping, blocked>>

Started ==
    /\ disp.pc = "start" /\ disp.left = {} /\ disp' = Idle
    /\ UNCHANGED <<rows, gates, platform, finishing, rec, stopping, blocked, faults>>

-----------------------------------------------------------------------------
Dispatch ==
    \/ BeginPass \/ ReconcileStopping \/ ReconcileActive \/ Probe \/ EndReconcile
    \/ Watch \/ Wake \/ ResumeQueued \/ ListReady \/ Handoff \/ Claim
    \/ Launch \/ Activate \/ Prompt \/ Answer \/ EndPass
    \/ StartAttempt \/ Started

Resolution == Deliver \/ CompleteResume \/ StopAfter

AgentStep(a) ==
    \/ AgentRequestsRecovery(a) \/ AgentRequestsProject(a) \/ AgentNeedsAuthority(a)
    \/ CompleteBegin(a) \/ TurnEnds(a) \/ SessionDies(a)

UserStep(a) ==
    \/ UserResumes(a) \/ UserRetries(a) \/ UserCancels(a)
    \/ UserApprovesProject(a) \/ UserRejectsProject(a) \/ DeliverRejection(a)
    \/ UserDecidesAuthority(a) \/ CompleteAuthority(a)

EpicStep(e) == SetEpicPaused(e) \/ StopEpicBegin(e) \/ CloseEpic(e)

Next ==
    \/ Dispatch \/ Resolution \/ CompleteEnd \/ StopEpicFails \/ StopEpicEnds \/ Crash
    \/ \E a \in Attempt : AgentStep(a) \/ UserStep(a)
    \/ \E e \in Epic : EpicStep(e)
    \/ \E i \in Issue : ScopeReplanned(i) \/ ReopenIssue(i)

Spec == Init /\ [][Next]_vars

(* The dispatcher's goroutine runs, and a mutex it waits for is granted in *)
(* the end (sync.Mutex hands over to a starving waiter); a call in hand    *)
(* returns.  Agents and users owe nothing.                                 *)
Fairness ==
    /\ SF_vars(Dispatch)
    /\ WF_vars(Resolution) /\ WF_vars(CompleteEnd) /\ WF_vars(StopEpicFails \/ StopEpicEnds)

FairSpec == Spec /\ Fairness

-----------------------------------------------------------------------------
(* Properties.                                                             *)

\* The type of every variable.
TypeOK ==
    /\ epicStatus \in [Epic -> {"open", "paused", "closed"}]
    /\ status \in [Issue -> {"open", "in_progress", "retry_wait", "deferred"} \cup Closed]
    /\ retries \in [Issue -> 0..RetryBudget + 1]
    /\ reason \in [Issue -> Message \cup {""}]
    /\ phase \in [Attempt -> Live \cup Closed \cup {"none"}]
    /\ work \in [Attempt -> Issue \cup {None}]
    /\ recovery \in [Attempt -> Paused \cup {"none", "resume_pending"}]
    /\ authority \in [Attempt -> {"none", "open", "pending"}]
    /\ project \in [Attempt -> {"none", "open", "reject_pending"}]
    /\ marked \in [Attempt -> BOOLEAN]
    /\ session \in [Attempt -> {"none", "idle", "busy", "gone"}]
    /\ told \in [Attempt -> Nat]
    /\ disp.pc \in {"start", "idle", "reconcile", "probe", "watch", "resume", "handoff",
                    "claim", "launch", "activate", "prompt", "answer"}
    /\ disp.left \subseteq Attempt \cup Issue /\ disp.kept \subseteq Attempt
    /\ disp.cur \in Attempt \cup Issue \cup {None}
    /\ finishing \in Attempt \cup {None}
    /\ rec.pc \in {"free", "deliver", "complete", "stop"} /\ rec.of \in Attempt \cup {None}
    /\ stopping \in Epic \cup {NoEpic}
    /\ blocked \subseteq Attempt
    /\ faults \in 0..MaxFaults

\* At most one Attempt holds the workspace of an Epic, however claims, handoffs
\* and resumptions interleave and whatever a gate let go of before.
OneWriterPerEpic == \A e \in Epic : Cardinality(Owners(e)) <= 1

\* Work is in progress exactly while one live Attempt works on it: no failure,
\* decision, stop or restart loses an Issue or leaves two Attempts on it.
InProgressIsLive ==
    /\ \A a \in LiveAttempts : status[work[a]] = "in_progress"
    /\ \A i \in Issue : status[i] = "in_progress" =>
          Cardinality({a \in LiveAttempts : work[a] = i}) = 1

\* A session that yielded its workspace runs no turn until it is resumed.
YieldedIsQuiet == \A a \in Attempt : Yielded(a) => session[a] # "busy"

\* A completion in flight never meets a gate: a gate holds the Attempt back, or
\* the completion came first and no gate can be raised any more.
StoppingUngated == \A a \in Attempt : phase[a] = "stopping" => ~Gated(a)

\* A closed Epic holds no live Attempt and no unfinished work, whatever the
\* dispatcher had listed, claimed or launched when it was closed.
ClosedEpicIdle ==
    \A e \in Epic : epicStatus[e] = "closed" =>
        /\ Of(e) = {}
        /\ \A i \in Issue : EpicOf[i] = e => status[i] \in Closed

\* The response to a recovery gate reaches the session once, though the reply of
\* a sent message may be lost, the hub may crash and the user may retry.
ResponseSentOnce == \A a \in Attempt : told[a] <= 1

\* The Attempts that write are never more than the capacity, also when a
\* paused one resumes.  (With authority and project gates they can be.)
CapacityKept == Cardinality(Occupying) <= Capacity

\* No late report, retry, restart or stop changes how an Attempt ended, and
\* work that succeeded stays so.
OutcomesAreFinal ==
    [][/\ \A a \in Attempt : phase[a] \in Closed => phase'[a] = phase[a]
       /\ \A i \in Issue : status[i] = "succeeded" => status'[i] = "succeeded"]_vars

\* Ready work is claimed in the end while only paused Attempts whose sessions can
\* be stopped hold the workspace of its Epic and there is room: nobody has to
\* decide a gate first.  ("a failed stop keeps the workspace locked")
ReadyWorkClaimed ==
    \A i \in Issue : ~<>[](/\ Ready(i) /\ Unused # {}
                           /\ Cardinality(Occupying) < Capacity
                           /\ \A a \in Owners(EpicOf[i]) :
                                 recovery[a] \in Paused /\ session[a] # "gone")

\* A queued response is sent in the end once the workspace is free for it.
QueuedResumeDelivered ==
    \A a \in Attempt : ~<>[](/\ recovery[a] = "queued" /\ phase[a] = "active"
                             /\ ~HeldByOther(a) /\ Cardinality(OccupyingWith(a)) <= Capacity)

\* The sessions that may still write in the workspace of Epic e: a turn runs
\* and the Attempt has neither handed its work over nor yielded.
Writing(e) ==
    {a \in Attempt : /\ work[a] # None /\ EpicOf[work[a]] = e
                     /\ session[a] = "busy" /\ phase[a] # "succeeded" /\ ~Yielded(a)}

\* "Nothing may share the workspace with a live session."
NothingSharesWorkspace == \A e \in Epic : Cardinality(Writing(e)) <= 1

=============================================================================
