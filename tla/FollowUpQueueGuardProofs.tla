----------------------- MODULE FollowUpQueueGuardProofs -----------------------
(***************************************************************************)
(* The drain guard of FollowUpQueue: a held message never starts into the  *)
(* turn of a recorded follow-up, unless an idle edge asks for it.          *)
(***************************************************************************)
EXTENDS FollowUpQueueSafetyProofs

\* While the guard covers the transcript no read looks like the end of the turn.
LEMMA CoveredReads ==
    ASSUME TypeOK, NEW s \in Session, turn[s], Covers(s, guard[s].seen),
           NEW r \in TrueReads(s) \cup BadReads(s)
    PROVE  ~TurnEnded(s, r)
<1>1. last[s].age \in Nat /\ guard[s].seen \in Nat
  BY DEF TypeOK
<1>2. last[s].role \in {"user", "answering", "answered"}
  BY DEF TypeOK
<1>3. CASE r \in BadReads(s)
  <2>1. CASE r = Answer(s, TRUE)
    <3>1. ~Answer(s, TRUE).completed
      BY DEF Answer
    <3> QED BY <2>1, <3>1 DEF TurnEnded
  <2>2. CASE r = [ok |-> FALSE, age |-> 0, running |-> FALSE, completed |-> FALSE]
    <3>1. ~r.ok
      BY <2>2
    <3> QED BY <3>1 DEF TurnEnded
  <2> QED BY <1>3, <2>1, <2>2 DEF BadReads
<1>4. CASE r \in TrueReads(s)
  <2>1. PICK b \in BOOLEAN : r = Answer(s, b) /\ (last[s].role = "answering" => b)
    BY <1>4 DEF TrueReads
  <2>2. r.age = last[s].age /\ (r.completed => last[s].role = "answered" \/ last[s].age = 0)
    BY <1>2, <2>1 DEF Answer
  <2> QED BY <1>1, <2>2 DEF TurnEnded, Covers
<1> QED BY <1>3, <1>4

LEMMA GuardStep ==
    ASSUME TypeOK, LockHeld, FirstPromptFirst, GuardCovers, [Next]_vars
    PROVE  GuardCovers'
<1> USE DEF rows, durable, process, platform, history
<1>1. /\ owes \in [Session -> BOOLEAN] /\ turn \in [Session -> BOOLEAN]
      /\ last \in [Session -> [age : Nat, role : {"user", "answering", "answered"}]]
      /\ guard \in [Session -> [gen : Nat, seen : Nat]] /\ nextGen \in Nat
      /\ lock \in [Session -> Kind \cup {"free"}] /\ "free" \notin Kind
  BY DEF TypeOK, Kind
<1>2. ASSUME UNCHANGED <<call, guard, owes, turn, last>>
      PROVE  GuardCovers'
  BY <1>2 DEF GuardCovers, Covers
<1>3. ASSUME NEW s \in Session, NEW k \in Kind, NEW pc, NEW seen,
             UNCHANGED <<guard, owes>>, \A t \in Session : turn[t] => turn'[t],
             \A t \in Session : last'[t].role = "answered" => last'[t] = last[t],
             Goto(s, k, At(pc, None, seen)), call[s][k].pc # "receipt",
             pc \notin {"locked", "send", "receipt", "failed"} \/ ~owes[s]
      PROVE  GuardCovers'
  BY <1>3, GotoAt DEF GuardCovers, Covers, At
<1>4. ASSUME NEW s \in Session, lock[s] = "free" 
      PROVE  \A k \in Kind : call[s][k].pc \notin {"locked", "send", "receipt", "failed"}
  BY <1>1, <1>4 DEF LockHeld, Holding
<1>5. ASSUME NEW s \in Session, Prompt(s), UNCHANGED <<call, guard, owes>>
      PROVE  GuardCovers'
  BY <1>1, <1>5 DEF Prompt, GuardCovers, Covers
<1>6. ASSUME NEW m \in Message, EnqueueHeld(m) \/ Remove(m)
      PROVE  GuardCovers'
  BY <1>2, <1>6 DEF EnqueueHeld, Remove
<1>7. ASSUME NEW m \in Message, EnqueueAndDrain(m)
      PROVE  GuardCovers'
  <2> DEFINE s == Owner[m]
  <2>1. s \in Session /\ "enqueue" \in Kind /\ lock[s] = "free" /\ guard[s].gen = 0
    BY <1>7, QueueAssumption DEF EnqueueAndDrain, Acquire, Kind, NoGuard
  <2>2. ~owes[s]
    BY <1>4, <2>1 DEF GuardCovers
  <2>3. Goto(s, "enqueue", At("locked", None, Unread))
    BY <1>7 DEF EnqueueAndDrain, Acquire
  <2>4. UNCHANGED <<guard, owes, turn, last>>
    BY <1>7 DEF EnqueueAndDrain
  <2> QED BY <1>3, <1>4, <2>1, <2>2, <2>3, <2>4
<1>8. ASSUME NEW m \in Message, NEW n \in Message, Move(m, n)
      PROVE  GuardCovers'
  BY <1>2, <1>8 DEF Move
<1>9. ASSUME NEW s \in Session, Flush(s)
      PROVE  GuardCovers'
  <2>1. \A t \in Session : owes'[t] => t # s /\ owes[t]
    BY <1>1, <1>9 DEF Flush
  <2>2. \A t \in Session : t # s => guard'[t] = guard[t]
    BY <1>1, <1>9 DEF Flush
  <2>3. \A t \in Session, j \in Kind : t # s => call'[t][j] = call[t][j]
    BY <1>9, GotoAt DEF Flush, Acquire, Kind
  <2>4. UNCHANGED <<turn, last>>
    BY <1>9 DEF Flush
  <2> QED BY <2>1, <2>2, <2>3, <2>4 DEF GuardCovers, Covers
<1>10. ASSUME NEW s \in Session, TryFlush(s)
       PROVE  GuardCovers'
  <2>1. lock[s] = "free" /\ "setup" \in Kind /\ UNCHANGED <<guard, owes, turn, last>>
    BY <1>10 DEF TryFlush, Kind
  <2>2. guard[s] = NoGuard => ~owes[s]
    BY <1>4, <2>1 DEF GuardCovers, NoGuard
  <2> QED BY <1>3, <1>4, <1>10, <2>1, <2>2 DEF TryFlush, Acquire, Release, Out
<1>11. ASSUME NEW s \in Session, SweepArm(s)
       PROVE  GuardCovers'
  <2>1. call[s]["sweep"].pc # "receipt" /\ "sweep" \in Kind
    BY <1>11 DEF SweepArm, Out, At, Kind
  <2> QED BY <1>3, <1>11, <2>1 DEF SweepArm
<1>12. ASSUME NEW s \in Session, SweepLock(s)
       PROVE  GuardCovers'
  <2>1. /\ lock[s] = "free" /\ "sweep" \in Kind /\ call[s]["sweep"].pc # "receipt"
        /\ UNCHANGED <<owes, turn, last>>
    BY <1>12 DEF SweepLock, Kind
  <2>2. owes[s] => turn[s] /\ guard[s].gen > 0 /\ Covers(s, guard[s].seen)
    BY <1>4, <2>1 DEF GuardCovers
  <2>3. CASE Release(s, "sweep") /\ UNCHANGED guard
    BY <1>3, <2>1, <2>3 DEF Release, Out
  <2>4. ASSUME NEW seen, guard[s].gen = 0, Acquire(s, "sweep", seen), UNCHANGED guard
        PROVE  GuardCovers'
    <3>1. ~owes[s]
      BY <2>2, <2>4
    <3> QED BY <1>3, <2>1, <2>4, <3>1 DEF Acquire
  <2>5. ASSUME NEW r \in TrueReads(s) \cup BadReads(s), TurnEnded(s, r),
               guard' = [guard EXCEPT ![s] = NoGuard], Acquire(s, "sweep", r.age)
        PROVE  GuardCovers'
    <3>1. ~owes[s]
      BY <2>2, <2>5, CoveredReads
    <3>2. \A t \in Session : t # s => guard'[t] = guard[t]
      BY <1>1, <2>5
    <3>3. \A t \in Session, j \in Kind : t # s => call'[t][j] = call[t][j]
      BY <2>1, <2>5, GotoAt DEF Acquire
    <3> QED BY <2>1, <3>1, <3>2, <3>3 DEF GuardCovers, Covers
  <2> QED BY <1>12, <2>3, <2>4, <2>5 DEF SweepLock, SweepSkip
<1>13. ASSUME NEW s \in Session, SetArchived(s)
       PROVE  GuardCovers'
  BY <1>2, <1>13 DEF SetArchived
<1>14. ASSUME NEW s \in Session, DeliverFirst(s) \/ FinishSetup(s)
       PROVE  GuardCovers'
  <2>1. call[s]["setup"].pc # "receipt" /\ "setup" \in Kind
    BY <1>14 DEF DeliverFirst, FinishSetup, Out, At, Kind
  <2>2. \A t \in Session : turn[t] => turn'[t]
    BY <1>1, <1>14 DEF DeliverFirst, FinishSetup, Prompt, platform
  <2>3. \A t \in Session : last'[t].role = "answered" => last'[t] = last[t]
    BY <1>1, <1>14 DEF DeliverFirst, FinishSetup, Prompt, platform
  <2> QED BY <1>3, <1>14, <2>1, <2>2, <2>3 DEF DeliverFirst, FinishSetup
<1>15. ASSUME NEW s \in Session, DirectSend(s) \/ ContinueSession(s)
       PROVE  GuardCovers'
  <2>1. CASE Prompt(s)
    BY <1>5, <1>15, <2>1 DEF DirectSend, ContinueSession, process
  <2>2. CASE UNCHANGED platform
    BY <1>2, <1>15, <2>2 DEF DirectSend, ContinueSession, platform, process
  <2> QED BY <1>15, <2>1, <2>2 DEF DirectSend, ContinueSession
<1>16. ASSUME NEW s \in Session, ShowPrompt(s) \/ StartAnswer(s)
       PROVE  GuardCovers'
  <2>1. \A t \in Session : last'[t].role = "answered" => last'[t] = last[t]
    BY <1>1, <1>16 DEF ShowPrompt, StartAnswer
  <2>2. UNCHANGED <<call, guard, owes, turn>>
    BY <1>16 DEF ShowPrompt, StartAnswer
  <2> QED BY <2>1, <2>2 DEF GuardCovers, Covers
<1>17. ASSUME NEW s \in Session, EndTurn(s)
       PROVE  GuardCovers'
  <2>1. \A t \in Session : owes'[t] => t # s /\ owes[t]
    BY <1>1, <1>17 DEF EndTurn
  <2>2. \A t \in Session : t # s => turn'[t] = turn[t] /\ last'[t] = last[t]
    BY <1>1, <1>17 DEF EndTurn
  <2>3. UNCHANGED <<call, guard>>
    BY <1>17 DEF EndTurn
  <2> QED BY <2>1, <2>2, <2>3 DEF GuardCovers, Covers
<1>18. ASSUME NEW s \in Session, NEW k \in Kind, DrainRead(s, k) \/ SendRefused(s, k)
       PROVE  GuardCovers'
  <2>1. call[s][k].pc \in {"locked", "send"} /\ UNCHANGED <<guard, owes, turn, last>>
    BY <1>18 DEF DrainRead, SendRefused
  <2>2. ~owes[s]
    BY <2>1 DEF GuardCovers
  <2>3. \E c : Goto(s, k, c)
    BY <1>18 DEF DrainRead, SendRefused, Release, Advance
  <2>4. \A t \in Session, j \in Kind : t # s => call'[t][j] = call[t][j]
    BY <2>3, GotoAt
  <2> QED BY <2>1, <2>2, <2>4 DEF GuardCovers, Covers
<1>19. ASSUME NEW s \in Session, NEW k \in Kind, SendAccepted(s, k)
       PROVE  GuardCovers'
  <2>1. call[s][k].pc = "send" /\ UNCHANGED guard
    BY <1>19 DEF SendAccepted
  <2>2. Goto(s, k, At("receipt", call[s][k].head, call[s][k].seen))
    BY <1>19 DEF SendAccepted, Advance
  <2>3. call'[s][k].pc = "receipt" /\ call'[s][k].seen = call[s][k].seen
    BY <2>2, GotoAt DEF At
  <2>4. \A t \in Session, j \in Kind : ~(t = s /\ j = k) => call'[t][j] = call[t][j]
    BY <2>2, GotoAt
  <2>5. \A j \in Kind :
          j # k => call[s][j].pc \notin {"locked", "send", "receipt", "failed"}
    BY <2>1 DEF LockHeld, Holding
  <2>6. turn'[s] /\ (owes'[s] => call[s][k].seen = last[s].age)
    BY <1>1, <1>19 DEF SendAccepted, Prompt
  <2>7. last'[s].role = "answered" => last'[s] = last[s]
    BY <1>1, <1>19 DEF SendAccepted, Prompt
  <2>8. \A t \in Session :
          t # s => owes'[t] = owes[t] /\ turn'[t] = turn[t] /\ last'[t] = last[t]
    BY <1>1, <1>19 DEF SendAccepted, Prompt
  <2>9. owes'[s] /\ last'[s].role = "answered" => last'[s].age <= call[s][k].seen
    BY <1>1, <2>6, <2>7
  <2> QED
    BY <2>1, <2>3, <2>4, <2>5, <2>6, <2>8, <2>9 DEF GuardCovers, Covers
<1>20. ASSUME NEW s \in Session, NEW k \in Kind, SendReplyLost(s, k)
       PROVE  GuardCovers'
  <2>1. call[s][k].pc = "send" /\ UNCHANGED <<guard, owes>>
    BY <1>20 DEF SendReplyLost
  <2>2. ~owes[s]
    BY <2>1 DEF GuardCovers
  <2>3. \A t \in Session, j \in Kind : t # s => call'[t][j] = call[t][j]
    BY <1>20, GotoAt DEF SendReplyLost, Advance
  <2>4. \A t \in Session : t # s => turn'[t] = turn[t] /\ last'[t] = last[t]
    BY <1>1, <1>20 DEF SendReplyLost, Prompt
  <2> QED BY <2>1, <2>2, <2>3, <2>4 DEF GuardCovers, Covers
<1>21. ASSUME NEW s \in Session, NEW k \in Kind,
              \/ DrainNothing(s, k) \/ SendDeferred(s, k)
              \/ RecordFailure(s, k) \/ FailureUnrecorded(s, k)
       PROVE  GuardCovers'
  <2>1. /\ call[s][k].pc # "receipt" /\ Goto(s, k, Out)
        /\ UNCHANGED <<guard, owes, turn, last>>
    BY <1>21 DEF DrainNothing, SendDeferred, RecordFailure, FailureUnrecorded, Release
  <2> QED BY <1>3, <2>1 DEF Out
<1>22. ASSUME NEW s \in Session, NEW k \in Kind, Receipt(s, k)
       PROVE  GuardCovers'
  <2>1. call[s][k].pc = "receipt" /\ Goto(s, k, Out) /\ UNCHANGED <<owes, turn, last>>
    BY <1>22 DEF Receipt, Release
  <2>2. call'[s][k].pc = "out"
    BY <2>1, GotoAt DEF Out, At
  <2>3. \A t \in Session, j \in Kind : ~(t = s /\ j = k) => call'[t][j] = call[t][j]
    BY <2>1, GotoAt
  <2>4. /\ guard'[s].gen > 0 /\ guard'[s].seen = call[s][k].seen
        /\ \A t \in Session : t # s => guard'[t] = guard[t]
    BY <1>1, <1>22 DEF Receipt
  <2>5. owes[s] => Covers(s, call[s][k].seen)
    BY <2>1 DEF GuardCovers
  <2> QED BY <2>1, <2>2, <2>3, <2>4, <2>5 DEF GuardCovers, Covers
<1>23. ASSUME NEW s \in Session, NEW k \in Kind, ReceiptFailed(s, k)
       PROVE  GuardCovers'
  <2>1. \A t \in Session : owes'[t] => t # s /\ owes[t]
    BY <1>1, <1>23 DEF ReceiptFailed
  <2>2. \A t \in Session, j \in Kind : t # s => call'[t][j] = call[t][j]
    BY <1>23, GotoAt DEF ReceiptFailed, Release
  <2>3. UNCHANGED <<guard, turn, last>>
    BY <1>23 DEF ReceiptFailed
  <2> QED BY <2>1, <2>2, <2>3 DEF GuardCovers, Covers
<1>24. CASE SweepList \/ UNCHANGED vars
  BY <1>2, <1>24 DEF SweepList, vars
<1>25. CASE Crash
  BY <1>25 DEF Crash, GuardCovers
<1> QED
  BY <1>6, <1>7, <1>8, <1>9, <1>10, <1>11, <1>12, <1>13, <1>14, <1>15, <1>16, <1>17,
     <1>18, <1>19, <1>20, <1>21, <1>22, <1>23, <1>24, <1>25 DEF Next, Drain

\* While the turn of a recorded follow-up is running, only an idle edge starts
\* a further drain, however late the prompt shows and whatever else is sent.
THEOREM GuardHolds == Spec => []GuardedDrains
<1>1. Init => GuardCovers
  BY DEF Init, GuardCovers
<1>2. TypeOK /\ OneDrainPerMessage /\ GuardCovers /\ [Next]_vars => GuardCovers'
  BY GuardStep DEF OneDrainPerMessage
<1>3. GuardCovers => GuardedDrains
  BY DEF GuardCovers, GuardedDrains
<1> QED BY <1>1, <1>2, <1>3, TypeCorrect, OneDrainCorrect, PTL DEF Spec

=============================================================================
