---------------------- MODULE FollowUpQueueSafetyProofs ----------------------
(***************************************************************************)
(* The safety properties of FollowUpQueue, and that it implements          *)
(* FollowUpDelivery, for every set of sessions and messages, every attempt *)
(* limit and any number of faults and restarts.                            *)
(***************************************************************************)
EXTENDS FollowUpQueueTypeProofs

-----------------------------------------------------------------------------
(* Positions.                                                              *)

LEMMA PositionsStep ==
    ASSUME TypeOK, PositionsDistinct, [Next]_vars
    PROVE  PositionsDistinct'
<1> USE DEF PositionsDistinct
<1>1. RowTypes
  BY DEF TypeOK, RowTypes
<1>2. CASE UNCHANGED rows
  BY <1>2 DEF rows
<1>3. ASSUME NEW m \in Message, Insert(m)
      PROVE  PositionsDistinct'
  BY <1>1, <1>3 DEF Insert, IsTail, Rows, RowTypes
<1>4. ASSUME NEW m \in Message, Delete(m)
      PROVE  PositionsDistinct'
  BY <1>1, <1>4 DEF Delete, RowTypes
<1>5. ASSUME NEW m \in Message, NEW n \in Message, Move(m, n)
      PROVE  PositionsDistinct'
  BY <1>1, <1>5 DEF Move, Rows, RowTypes
<1>6. ASSUME NEW s \in Session, NEW k \in Kind, RecordFailure(s, k)
      PROVE  PositionsDistinct'
  BY <1>6 DEF RecordFailure
<1>7. ASSUME NEW s \in Session, NEW k \in Kind, Receipt(s, k)
      PROVE  PositionsDistinct'
  BY <1>4, <1>7, SendingType DEF Receipt
<1> QED
  BY RowSteps, <1>2, <1>3, <1>4, <1>5, <1>6, <1>7 DEF EnqueueHeld, EnqueueAndDrain, Remove

\* Two rows of one session never share a position, whatever is enqueued,
\* moved, removed and sent: the head of a queue is unique.
THEOREM DistinctPositions == Spec => []PositionsDistinct
<1>1. Init => PositionsDistinct
  BY DEF Init, PositionsDistinct
<1>2. TypeOK /\ PositionsDistinct /\ [Next]_vars => PositionsDistinct'
  BY PositionsStep
<1> QED BY <1>1, <1>2, TypeCorrect, PTL DEF Spec

-----------------------------------------------------------------------------
(* The session lock.                                                       *)

LEMMA GotoAt ==
    ASSUME TypeOK, NEW s \in Session, NEW k \in Kind, NEW c, Goto(s, k, c),
           NEW t \in Session, NEW j \in Kind
    PROVE  call'[t][j] = IF t = s /\ j = k THEN c ELSE call[t][j]
BY DEF TypeOK, Goto

LEMMA LockHeldStep ==
    ASSUME TypeOK, LockHeld, [Next]_vars
    PROVE  LockHeld'
<1> USE DEF durable, process, Holding
<1>1. lock \in [Session -> Kind \cup {"free"}] /\ "free" \notin Kind
  BY DEF TypeOK, Kind
<1>2. CASE UNCHANGED <<lock, call>>
  BY <1>2 DEF LockHeld
<1>3. ASSUME NEW s \in Session, NEW k \in Kind, NEW pc, NEW seen, pc \notin Holding,
             Goto(s, k, At(pc, None, seen)), UNCHANGED lock
      PROVE  LockHeld'
  BY <1>3, GotoAt DEF LockHeld, At
<1>4. ASSUME NEW s \in Session, NEW k \in Kind, Release(s, k),
             lock[s] = "free" \/ call[s][k].pc \in Holding
      PROVE  LockHeld'
  BY <1>1, <1>4, GotoAt DEF LockHeld, At, Release, Out
<1>5. ASSUME NEW s \in Session, NEW k \in Kind, NEW seen, Acquire(s, k, seen)
      PROVE  LockHeld'
  BY <1>1, <1>5, GotoAt DEF LockHeld, At, Acquire
<1>6. ASSUME NEW s \in Session, NEW k \in Kind, NEW pc, NEW m, NEW seen,
             call[s][k].pc \in Holding, Goto(s, k, At(pc, m, seen)), UNCHANGED lock
      PROVE  LockHeld'
  BY <1>6, GotoAt DEF LockHeld, At
<1>7. ASSUME NEW m \in Message, EnqueueHeld(m) \/ Remove(m)
      PROVE  LockHeld'
  BY <1>2, <1>7 DEF EnqueueHeld, Remove
<1>8. ASSUME NEW m \in Message, EnqueueAndDrain(m)
      PROVE  LockHeld'
  BY <1>5, <1>8, QueueAssumption DEF EnqueueAndDrain, Kind
<1>9. ASSUME NEW m \in Message, NEW n \in Message, Move(m, n)
      PROVE  LockHeld'
  BY <1>2, <1>9 DEF Move
<1>10. ASSUME NEW s \in Session, Flush(s) \/ TryFlush(s) \/ SweepLock(s)
       PROVE  LockHeld'
  BY <1>4, <1>5, <1>10 DEF Flush, TryFlush, SweepLock, SweepSkip, Kind
<1>11. ASSUME NEW s \in Session, SweepArm(s) \/ DeliverFirst(s) \/ FinishSetup(s)
       PROVE  LockHeld'
  BY <1>3, <1>11 DEF SweepArm, DeliverFirst, FinishSetup, Kind
<1>12. ASSUME NEW s \in Session,
              \/ SetArchived(s) \/ DirectSend(s) \/ ContinueSession(s)
              \/ ShowPrompt(s) \/ StartAnswer(s) \/ EndTurn(s)
       PROVE  LockHeld'
  BY <1>2, <1>12 DEF SetArchived, DirectSend, ContinueSession, ShowPrompt, StartAnswer, EndTurn
<1>13. ASSUME NEW s \in Session, NEW k \in Kind,
              SendRefused(s, k) \/ SendAccepted(s, k) \/ SendReplyLost(s, k)
       PROVE  LockHeld'
  BY <1>6, <1>13 DEF SendRefused, SendAccepted, SendReplyLost, Advance
<1>14. ASSUME NEW s \in Session, NEW k \in Kind, DrainRead(s, k)
       PROVE  LockHeld'
  BY <1>4, <1>6, <1>14 DEF DrainRead
<1>15. ASSUME NEW s \in Session, NEW k \in Kind,
              \/ DrainNothing(s, k) \/ SendDeferred(s, k) \/ RecordFailure(s, k)
              \/ FailureUnrecorded(s, k) \/ Receipt(s, k) \/ ReceiptFailed(s, k)
       PROVE  LockHeld'
  BY <1>4, <1>15 DEF DrainNothing, SendDeferred, RecordFailure, FailureUnrecorded,
     Receipt, ReceiptFailed
<1>16. CASE SweepList \/ UNCHANGED vars
  BY <1>2, <1>16 DEF SweepList, vars
<1>17. CASE Crash
  BY <1>17 DEF Crash, LockHeld, Out, At
<1> QED
  BY <1>7, <1>8, <1>9, <1>10, <1>11, <1>12, <1>13, <1>14, <1>15, <1>16, <1>17
     DEF Next, Drain

-----------------------------------------------------------------------------
(* The message a drain has under way.                                      *)

LEMMA OneDrainOfAMessage ==
    ASSUME LockHeld, HeadsHeld,
           NEW s \in Session, NEW k \in Kind, call[s][k].pc \in Engaged,
           NEW t \in Session, NEW j \in Kind, call[t][j].pc \in Engaged,
           call[s][k].head = call[t][j].head
    PROVE  s = t /\ k = j
BY DEF LockHeld, HeadsHeld, Engaged, Holding

LEMMA HeadIsSendable ==
    ASSUME TypeOK, HeadsHeld, StagesApart,
           NEW s \in Session, NEW k \in Kind, call[s][k].pc \in Engaged
    PROVE  /\ call[s][k].head \in Message /\ call[s][k].head \notin blocked
           /\ call[s][k].head \notin fresh
BY SendingType DEF HeadsHeld, StagesApart, Engaged, TypeOK

LEMMA StagesStep ==
    ASSUME TypeOK, StagesApart, [Next]_vars
    PROVE  StagesApart'
<1> USE DEF StagesApart, rows, durable, process, history
<1>1. ASSUME NEW m \in Message, EnqueueHeld(m) \/ EnqueueAndDrain(m) \/ Remove(m)
      PROVE  StagesApart'
  BY <1>1 DEF EnqueueHeld, EnqueueAndDrain, Insert, Remove, Delete
<1>2. ASSUME NEW m \in Message, NEW n \in Message, Move(m, n)
      PROVE  StagesApart'
  BY <1>2 DEF Move
<1>3. ASSUME NEW s \in Session,
             \/ Flush(s) \/ TryFlush(s) \/ SweepArm(s) \/ SweepLock(s)
             \/ SetArchived(s) \/ DeliverFirst(s) \/ FinishSetup(s)
             \/ DirectSend(s) \/ ContinueSession(s)
             \/ ShowPrompt(s) \/ StartAnswer(s) \/ EndTurn(s)
      PROVE  StagesApart'
  BY <1>3 DEF Flush, TryFlush, SweepArm, SweepLock, SetArchived, DeliverFirst, FinishSetup,
     DirectSend, ContinueSession, ShowPrompt, StartAnswer, EndTurn
<1>4. ASSUME NEW s \in Session, NEW k \in Kind, Drain(s, k)
      PROVE  StagesApart'
  BY <1>4 DEF Drain, DrainNothing, DrainRead, SendDeferred, SendRefused, SendAccepted,
     SendReplyLost, RecordFailure, FailureUnrecorded, Receipt, Delete, ReceiptFailed
<1>5. CASE SweepList \/ Crash
  BY <1>5 DEF SweepList, Crash
<1>6. CASE UNCHANGED vars
  BY <1>6 DEF vars
<1> QED BY <1>1, <1>2, <1>3, <1>4, <1>5, <1>6 DEF Next

LEMMA HeadsHeldStep ==
    ASSUME TypeOK, LockHeld, HeadsHeld, StagesApart, [Next]_vars
    PROVE  HeadsHeld'
<1> USE DEF rows, durable, process, history, Engaged
<1>1. ASSUME \A t \in Session, j \in Kind :
                call'[t][j].pc \in Engaged =>
                    call[t][j].pc \in Engaged /\ call'[t][j].head = call[t][j].head,
             (queued \ blocked) \cup dropped \subseteq (queued' \ blocked') \cup dropped'
      PROVE  HeadsHeld'
  BY <1>1 DEF HeadsHeld
<1>2. ASSUME NEW s \in Session, NEW k \in Kind, NEW pc, NEW seen, pc \notin Engaged,
             Goto(s, k, At(pc, None, seen)),
             \A t \in Session, j \in Kind :
                call[t][j].pc \in Engaged /\ ~(t = s /\ j = k) =>
                    call[t][j].head \in (queued' \ blocked') \cup dropped'
      PROVE  HeadsHeld'
  BY <1>2, GotoAt DEF HeadsHeld, At
<1>3. ASSUME NEW m \in Message, EnqueueHeld(m) \/ EnqueueAndDrain(m) \/ Remove(m)
      PROVE  HeadsHeld'
  <2>1. (queued \ blocked) \cup dropped \subseteq (queued' \ blocked') \cup dropped'
    BY <1>3 DEF TypeOK, EnqueueHeld, EnqueueAndDrain, Insert, Remove, Delete
  <2>2. CASE EnqueueHeld(m) \/ Remove(m)
    BY <1>1, <2>1, <2>2 DEF EnqueueHeld, Remove
  <2>3. CASE EnqueueAndDrain(m)
    <3>1. Owner[m] \in Session /\ Goto(Owner[m], "enqueue", At("locked", None, Unread))
      BY <2>3, QueueAssumption DEF EnqueueAndDrain, Acquire
    <3> QED BY <1>2, <2>1, <3>1 DEF HeadsHeld, Kind
  <2> QED BY <1>3, <2>2, <2>3
<1>4. ASSUME NEW m \in Message, NEW n \in Message, Move(m, n)
      PROVE  HeadsHeld'
  BY <1>1, <1>4 DEF Move
<1>5. ASSUME NEW s \in Session,
             \/ Flush(s) \/ TryFlush(s) \/ SweepArm(s) \/ SweepLock(s)
             \/ DeliverFirst(s) \/ FinishSetup(s)
      PROVE  HeadsHeld'
  <2>1. UNCHANGED <<queued, blocked, dropped>>
    BY <1>5 DEF Flush, TryFlush, SweepArm, SweepLock, DeliverFirst, FinishSetup
  <2>2. PICK k, pc, seen :
          /\ k \in Kind /\ pc \in {"out", "delivered", "due", "armed", "locked"}
          /\ Goto(s, k, At(pc, None, seen))
    BY <1>5 DEF Flush, TryFlush, SweepArm, SweepLock, SweepSkip, DeliverFirst, FinishSetup,
       Acquire, Release, Out, Kind
  <2> QED BY <1>2, <2>1, <2>2 DEF HeadsHeld
<1>6. ASSUME NEW s \in Session,
             \/ SetArchived(s) \/ DirectSend(s) \/ ContinueSession(s)
             \/ ShowPrompt(s) \/ StartAnswer(s) \/ EndTurn(s)
      PROVE  HeadsHeld'
  BY <1>1, <1>6 DEF SetArchived, DirectSend, ContinueSession, ShowPrompt, StartAnswer, EndTurn
<1>7. ASSUME NEW s \in Session, NEW k \in Kind, DrainRead(s, k)
      PROVE  HeadsHeld'
  <2>1. UNCHANGED <<queued, blocked, dropped>>
    BY <1>7 DEF DrainRead
  <2>2. CASE Release(s, k)
    BY <1>2, <2>1, <2>2 DEF HeadsHeld, Release, Out
  <2>3. ASSUME NEW m \in Message, NEW seen, IsHead(s, m), Goto(s, k, At("send", m, seen))
        PROVE  HeadsHeld'
    BY <2>1, <2>3, GotoAt DEF HeadsHeld, At, IsHead, Drainable, Rows
  <2> QED BY <1>7, <2>2, <2>3 DEF DrainRead
<1>8. ASSUME NEW s \in Session, NEW k \in Kind,
             SendRefused(s, k) \/ SendAccepted(s, k) \/ SendReplyLost(s, k)
      PROVE  HeadsHeld'
  <2>1. UNCHANGED <<queued, blocked, dropped>>
    BY <1>8 DEF SendRefused, SendAccepted, SendReplyLost
  <2>2. PICK pc : Goto(s, k, At(pc, call[s][k].head, call[s][k].seen))
    BY <1>8 DEF SendRefused, SendAccepted, SendReplyLost, Advance
  <2>3. call[s][k].pc = "send"
    BY <1>8 DEF SendRefused, SendAccepted, SendReplyLost
  <2> QED BY <1>1, <2>1, <2>2, <2>3, GotoAt DEF At
<1>9. ASSUME NEW s \in Session, NEW k \in Kind, RecordFailure(s, k) \/ Receipt(s, k)
      PROVE  HeadsHeld'
  <2>1. call[s][k].pc \in Engaged /\ Goto(s, k, Out)
    BY <1>9 DEF RecordFailure, Receipt, Release
  <2>2. \A m \in ((queued \ blocked) \cup dropped) \ {call[s][k].head} :
          m \in (queued' \ blocked') \cup dropped'
    BY <1>9 DEF RecordFailure, Receipt, Delete
  <2> QED BY <1>2, <2>1, <2>2, OneDrainOfAMessage DEF HeadsHeld, Out
<1>10. ASSUME NEW s \in Session, NEW k \in Kind,
              \/ DrainNothing(s, k) \/ SendDeferred(s, k)
              \/ FailureUnrecorded(s, k) \/ ReceiptFailed(s, k)
       PROVE  HeadsHeld'
  <2>1. UNCHANGED <<queued, blocked, dropped>>
    BY <1>10 DEF DrainNothing, SendDeferred, FailureUnrecorded, ReceiptFailed
  <2>2. Goto(s, k, Out)
    BY <1>10 DEF DrainNothing, SendDeferred, FailureUnrecorded, ReceiptFailed, Release
  <2> QED BY <1>2, <2>1, <2>2 DEF HeadsHeld, Out
<1>11. CASE SweepList \/ UNCHANGED vars
  BY <1>1, <1>11 DEF SweepList, vars
<1>12. CASE Crash
  BY <1>12 DEF Crash, HeadsHeld, Out, At
<1> QED
  BY <1>3, <1>4, <1>5, <1>6, <1>7, <1>8, <1>9, <1>10, <1>11, <1>12 DEF Next, Drain

LEMMA GateStep ==
    ASSUME TypeOK, FirstPromptFirst, [Next]_vars
    PROVE  FirstPromptFirst'
<1> USE DEF rows, durable, process, history, Engaged
<1>1. ASSUME UNCHANGED call, settingUp' \subseteq settingUp
      PROVE  FirstPromptFirst'
  BY <1>1 DEF FirstPromptFirst
<1>2. ASSUME NEW s \in Session, NEW k \in Kind, NEW c, Goto(s, k, c),
             s \notin settingUp \/ c.pc \notin Engaged, settingUp' \subseteq settingUp
      PROVE  FirstPromptFirst'
  <2>1. settingUp \subseteq Session
    BY QueueAssumption DEF TypeOK
  <2> QED BY <1>2, <2>1, GotoAt DEF FirstPromptFirst
<1>3. ASSUME NEW m \in Message, EnqueueHeld(m) \/ Remove(m)
      PROVE  FirstPromptFirst'
  BY <1>1, <1>3 DEF EnqueueHeld, Remove
<1>4. ASSUME NEW m \in Message, EnqueueAndDrain(m)
      PROVE  FirstPromptFirst'
  BY <1>2, <1>4, QueueAssumption DEF EnqueueAndDrain, Acquire, At, Kind
<1>5. ASSUME NEW m \in Message, NEW n \in Message, Move(m, n)
      PROVE  FirstPromptFirst'
  BY <1>1, <1>5 DEF Move
<1>6. ASSUME NEW s \in Session,
             \/ Flush(s) \/ TryFlush(s) \/ SweepArm(s) \/ SweepLock(s)
             \/ DeliverFirst(s) \/ FinishSetup(s)
      PROVE  FirstPromptFirst'
  <2>1. PICK k, pc, seen :
          /\ k \in Kind /\ pc \in {"out", "delivered", "due", "armed", "locked"}
          /\ Goto(s, k, At(pc, None, seen))
    BY <1>6 DEF Flush, TryFlush, SweepArm, SweepLock, SweepSkip, DeliverFirst, FinishSetup,
       Acquire, Release, Out, Kind
  <2>2. settingUp' \subseteq settingUp
    BY <1>6 DEF Flush, TryFlush, SweepArm, SweepLock, DeliverFirst, FinishSetup
  <2> QED BY <1>2, <2>1, <2>2 DEF At
<1>7. ASSUME NEW s \in Session,
             \/ SetArchived(s) \/ DirectSend(s) \/ ContinueSession(s)
             \/ ShowPrompt(s) \/ StartAnswer(s) \/ EndTurn(s)
      PROVE  FirstPromptFirst'
  BY <1>1, <1>7 DEF SetArchived, DirectSend, ContinueSession, ShowPrompt, StartAnswer, EndTurn
<1>8. ASSUME NEW s \in Session, NEW k \in Kind, Drain(s, k)
      PROVE  FirstPromptFirst'
  <2>1. UNCHANGED settingUp
    BY <1>8 DEF Drain, DrainNothing, DrainRead, SendDeferred, SendRefused, SendAccepted,
       SendReplyLost, RecordFailure, FailureUnrecorded, Receipt, ReceiptFailed
  <2>2. CASE Goto(s, k, Out)
    BY <1>2, <2>1, <2>2 DEF Out, At
  <2>3. CASE s \notin settingUp /\ \E c : Goto(s, k, c)
    BY <1>2, <2>1, <2>3
  <2>4. call[s][k].pc \in Engaged => s \notin settingUp
    BY DEF FirstPromptFirst
  <2>5. Goto(s, k, Out) \/ (s \notin settingUp /\ \E c : Goto(s, k, c))
    BY <1>8, <2>4 DEF Drain, DrainNothing, DrainRead, SendDeferred, SendRefused,
       SendAccepted, SendReplyLost, RecordFailure, FailureUnrecorded, Receipt,
       ReceiptFailed, Release, Advance
  <2> QED BY <2>2, <2>3, <2>5
<1>9. CASE SweepList \/ UNCHANGED vars
  BY <1>1, <1>9 DEF SweepList, vars
<1>10. CASE Crash
  BY <1>10, QueueAssumption DEF Crash, FirstPromptFirst, TypeOK, Out, At
<1> QED
  BY <1>3, <1>4, <1>5, <1>6, <1>7, <1>8, <1>9, <1>10 DEF Next

-----------------------------------------------------------------------------
(* Failures.                                                               *)

LEMMA FailuresStep ==
    ASSUME TypeOK, FailuresCounted, LockHeld, HeadsHeld, StagesApart, [Next]_vars
    PROVE  FailuresCounted'
<1> USE QueueAssumption DEF FailuresCounted
<1>1. RowTypes
  BY DEF TypeOK, RowTypes
<1>2. CASE UNCHANGED rows
  BY <1>2 DEF rows
<1>3. ASSUME NEW m \in Message, EnqueueHeld(m) \/ EnqueueAndDrain(m)
      PROVE  FailuresCounted'
  BY <1>1, <1>3 DEF EnqueueHeld, EnqueueAndDrain, Insert, RowTypes, StagesApart
<1>4. ASSUME NEW m \in Message, Delete(m)
      PROVE  FailuresCounted'
  BY <1>1, <1>4 DEF Delete, RowTypes
<1>5. ASSUME NEW m \in Message, NEW n \in Message, Move(m, n)
      PROVE  FailuresCounted'
  BY <1>5 DEF Move
<1>6. ASSUME NEW s \in Session, NEW k \in Kind, RecordFailure(s, k)
      PROVE  FailuresCounted'
  <2> DEFINE m == call[s][k].head
  <2>1. m \in Message /\ m \notin blocked
    BY <1>6, HeadIsSendable DEF RecordFailure, Engaged
  <2>2. CASE m \in queued
    <3>1. attempts[m] < AttemptLimit /\ attempts[m] \in Nat
      BY <1>1, <2>1, <2>2 DEF RowTypes
    <3> QED BY <1>1, <1>6, <2>1, <2>2, <3>1 DEF RecordFailure, RowTypes
  <2>3. CASE m \notin queued
    BY <1>6, <2>3 DEF RecordFailure
  <2> QED BY <2>2, <2>3
<1>7. ASSUME NEW s \in Session, NEW k \in Kind, Receipt(s, k)
      PROVE  FailuresCounted'
  BY <1>4, <1>7, SendingType DEF Receipt
<1> QED
  BY RowSteps, <1>2, <1>3, <1>4, <1>5, <1>6, <1>7 DEF Remove

-----------------------------------------------------------------------------
(* The ledger of acceptances.                                              *)

LEMMA AwaitsHolds ==
    ASSUME LockHeld, HeadsHeld, StagesApart, NEW m \in Message, Awaits(m)
    PROVE  m \notin fresh /\ m \in queued \cup dropped
BY DEF Awaits, HeadsHeld, StagesApart, Engaged

\* The ledger after a step that concerns one message.
LEMMA LedgerOfOne ==
    ASSUME Ledger, NEW m \in Message, NEW s \in Session, NEW k \in Kind,
           UNCHANGED <<fresh, dropped>>, m \notin fresh,
           \A n \in Message \ {m} :
              /\ n \in queued' <=> n \in queued
              /\ delivered'[n] = delivered[n] /\ doubts'[n] = doubts[n]
              /\ Awaits(n)' <=> Awaits(n),
           \A t \in Session, j \in Kind :
              ~(t = s /\ j = k) =>
                 /\ call'[t][j] = call[t][j]
                 /\ call[t][j].pc \in Engaged =>
                       call[t][j].head # m /\ call[t][j].head \in Message,
           m \in queued' /\ ~Awaits(m)' => delivered'[m] = doubts'[m],
           m \in dropped => delivered'[m] \in {doubts'[m], doubts'[m] + 1},
           m \notin queued' \cup dropped => delivered'[m] = doubts'[m] + 1,
           LET n == call'[s][k].head IN
              /\ call'[s][k].pc = "receipt" => delivered'[n] = doubts'[n] + 1
              /\ call'[s][k].pc \in {"send", "failed"} => delivered'[n] = doubts'[n]
    PROVE  Ledger'
<1>1. ASSUME NEW n \in Message
      PROVE  /\ n \in fresh' => delivered'[n] = 0 /\ doubts'[n] = 0
             /\ n \in queued' /\ ~Awaits(n)' => delivered'[n] = doubts'[n]
             /\ n \in dropped' => delivered'[n] \in {doubts'[n], doubts'[n] + 1}
             /\ n \notin fresh' \cup queued' \cup dropped' =>
                   delivered'[n] = doubts'[n] + 1
  <2>1. CASE n = m
    BY <2>1
  <2>2. CASE n # m
    BY <2>2 DEF Ledger
  <2> QED BY <2>1, <2>2
<1>2. ASSUME NEW t \in Session, NEW j \in Kind
      PROVE  LET n == call'[t][j].head IN
             /\ call'[t][j].pc = "receipt" => delivered'[n] = doubts'[n] + 1
             /\ call'[t][j].pc \in {"send", "failed"} => delivered'[n] = doubts'[n]
  <2>1. CASE t = s /\ j = k
    BY <2>1
  <2>2. CASE ~(t = s /\ j = k)
    BY <2>2 DEF Ledger, Engaged
  <2> QED BY <2>1, <2>2
<1> QED BY <1>1, <1>2 DEF Ledger

LEMMA LedgerStep ==
    ASSUME TypeOK, LockHeld, HeadsHeld, StagesApart, FirstPromptFirst, Ledger, [Next]_vars
    PROVE  Ledger'
<1> DEFINE counts == <<fresh, queued, dropped, delivered, doubts>>
<1> USE DEF rows, durable, process, history, Engaged
<1>1. /\ delivered \in [Message -> Nat] /\ doubts \in [Message -> Nat]
      /\ queued \subseteq Message
  BY DEF TypeOK
<1>2. ASSUME UNCHANGED counts, UNCHANGED call
      PROVE  Ledger'
  BY <1>2 DEF Ledger, Awaits
<1>3. ASSUME UNCHANGED counts, NEW s \in Session, NEW k \in Kind, NEW pc, NEW seen,
             call[s][k].pc # "receipt", pc \notin Engaged, Goto(s, k, At(pc, None, seen))
      PROVE  Ledger'
  <2>1. \A m \in Message : Awaits(m)' <=> Awaits(m)
    BY <1>3, GotoAt DEF Awaits, At
  <2> QED BY <1>3, <2>1, GotoAt DEF Ledger, At
<1>4. ASSUME NEW m \in Message, EnqueueHeld(m)
      PROVE  Ledger'
  BY <1>4 DEF EnqueueHeld, Insert, Ledger, Awaits
<1>5. ASSUME NEW m \in Message, EnqueueAndDrain(m)
      PROVE  Ledger'
  <2>1. Owner[m] \in Session /\ Goto(Owner[m], "enqueue", At("locked", None, Unread))
    BY <1>5, QueueAssumption DEF EnqueueAndDrain, Acquire
  <2>2. lock[Owner[m]] = "free"
    BY <1>5 DEF EnqueueAndDrain, Acquire
  <2>3. call[Owner[m]]["enqueue"].pc # "receipt"
    BY <2>1, <2>2 DEF LockHeld, Holding, Kind
  <2>4. \A n \in Message : Awaits(n)' <=> Awaits(n)
    BY <2>1, <2>3, GotoAt DEF Awaits, At, Kind
  <2>5. \A t \in Session, j \in Kind :
          call'[t][j].pc \in Engaged => call'[t][j] = call[t][j]
    BY <2>1, GotoAt DEF At, Kind
  <2> QED BY <1>5, <2>4, <2>5 DEF EnqueueAndDrain, Insert, Ledger
<1>6. ASSUME NEW m \in Message, Remove(m)
      PROVE  Ledger'
  <2>1. delivered[m] \in {doubts[m], doubts[m] + 1}
    BY <1>6 DEF Remove, Ledger, Awaits
  <2> QED BY <1>6, <2>1 DEF Remove, Delete, Ledger, Awaits
<1>7. ASSUME NEW m \in Message, NEW n \in Message, Move(m, n)
      PROVE  Ledger'
  BY <1>2, <1>7 DEF Move
<1>8. ASSUME NEW s \in Session,
             \/ Flush(s) \/ TryFlush(s) \/ SweepArm(s) \/ SweepLock(s)
             \/ DeliverFirst(s) \/ FinishSetup(s)
      PROVE  Ledger'
  <2>1. UNCHANGED counts
    BY <1>8 DEF Flush, TryFlush, SweepArm, SweepLock, DeliverFirst, FinishSetup
  <2>2. call[s]["flush"].pc = "receipt" => lock[s] # "free"
    BY DEF LockHeld, Holding, Kind
  <2>3. call[s]["setup"].pc = "receipt" => s \notin settingUp
    BY DEF FirstPromptFirst, Kind
  <2>4. CASE Flush(s)
    BY <1>3, <2>1, <2>2, <2>4 DEF Flush, Acquire, Kind
  <2>5. CASE TryFlush(s)
    BY <1>3, <2>1, <2>5 DEF TryFlush, Acquire, Release, Out, Kind
  <2>6. CASE SweepArm(s)
    <3>1. call[s]["sweep"].pc # "receipt"
      BY <2>6 DEF SweepArm, Out, At
    <3> QED BY <1>3, <2>1, <2>6, <3>1 DEF SweepArm, Kind
  <2>7. CASE SweepLock(s)
    BY <1>3, <2>1, <2>7 DEF SweepLock, SweepSkip, Acquire, Release, Out, Kind
  <2>8. CASE DeliverFirst(s) \/ FinishSetup(s)
    BY <1>3, <2>1, <2>3, <2>8 DEF DeliverFirst, FinishSetup, Kind
  <2> QED BY <1>8, <2>4, <2>5, <2>6, <2>7, <2>8
<1>9. ASSUME NEW s \in Session,
             \/ SetArchived(s) \/ DirectSend(s) \/ ContinueSession(s)
             \/ ShowPrompt(s) \/ StartAnswer(s) \/ EndTurn(s)
      PROVE  Ledger'
  BY <1>2, <1>9 DEF SetArchived, DirectSend, ContinueSession, ShowPrompt, StartAnswer, EndTurn
<1>10. ASSUME NEW s \in Session, NEW k \in Kind, DrainRead(s, k)
       PROVE  Ledger'
  <2>1. UNCHANGED counts /\ call[s][k].pc = "locked"
    BY <1>10 DEF DrainRead
  <2>2. CASE Release(s, k)
    BY <1>3, <2>1, <2>2 DEF Release, Out
  <2>3. ASSUME NEW m \in Message, NEW seen, IsHead(s, m), Goto(s, k, At("send", m, seen))
        PROVE  Ledger'
    <3>1. m \in queued /\ Owner[m] = s
      BY <2>3 DEF IsHead, Drainable, Rows
    <3>2. ~Awaits(m)
      BY <2>1, <3>1 DEF Awaits, LockHeld, HeadsHeld, Holding
    <3>3. \A n \in Message : Awaits(n)' <=> Awaits(n)
      BY <2>1, <2>3, GotoAt DEF Awaits, At
    <3> QED BY <2>1, <2>3, <3>1, <3>2, <3>3, GotoAt DEF Ledger, At
  <2> QED BY <1>10, <2>2, <2>3 DEF DrainRead
<1>11. ASSUME NEW s \in Session, NEW k \in Kind, SendRefused(s, k)
       PROVE  Ledger'
  <2>1. UNCHANGED counts /\ call[s][k].pc = "send"
    BY <1>11 DEF SendRefused
  <2>2. Goto(s, k, At("failed", call[s][k].head, call[s][k].seen))
    BY <1>11 DEF SendRefused, Advance
  <2>3. \A n \in Message : Awaits(n)' <=> Awaits(n)
    BY <2>1, <2>2, GotoAt DEF Awaits, At
  <2> QED BY <2>1, <2>2, <2>3, GotoAt DEF Ledger, At
<1>12. ASSUME NEW s \in Session, NEW k \in Kind, SendAccepted(s, k) \/ SendReplyLost(s, k)
       PROVE  Ledger'
  <2> DEFINE m == call[s][k].head
  <2>1. call[s][k].pc = "send" /\ m \in Message /\ delivered[m] = doubts[m]
    BY <1>12, SendingType DEF SendAccepted, SendReplyLost, Ledger
  <2>2. m \in queued \cup dropped /\ m \notin fresh
    BY <2>1, HeadIsSendable DEF HeadsHeld
  <2>3. UNCHANGED <<fresh, queued, dropped>>
    BY <1>12 DEF SendAccepted, SendReplyLost
  <2>4. \A n \in Message \ {m} :
          delivered'[n] = delivered[n] /\ doubts'[n] = doubts[n]
    BY <1>1, <1>12 DEF SendAccepted, SendReplyLost
  <2>5. \A t \in Session, j \in Kind :
          ~(t = s /\ j = k) /\ call[t][j].pc \in Engaged =>
              call[t][j].head # m /\ call[t][j].head \in Message
    BY <2>1, OneDrainOfAMessage, SendingType
  <2>6. CASE SendAccepted(s, k)
    <3>1. delivered'[m] = doubts'[m] + 1
      BY <1>1, <2>1, <2>6 DEF SendAccepted
    <3>2. Goto(s, k, At("receipt", m, call[s][k].seen))
      BY <2>6 DEF SendAccepted, Advance
    <3>3. call'[s][k].pc = "receipt" /\ call'[s][k].head = m
      BY <3>2, GotoAt DEF At
    <3>4. \A t \in Session, j \in Kind :
            ~(t = s /\ j = k) => call'[t][j] = call[t][j]
      BY <3>2, GotoAt
    <3>5. \A n \in Message \ {m} : Awaits(n)' <=> Awaits(n)
      BY <2>1, <3>3, <3>4 DEF Awaits
    <3>6. Awaits(m)'
      BY <3>3 DEF Awaits
    <3> QED
      BY <2>1, <2>2, <2>3, <2>4, <2>5, <3>1, <3>3, <3>4, <3>5, <3>6, LedgerOfOne
  <2>7. CASE SendReplyLost(s, k)
    <3>1. delivered'[m] = doubts'[m]
      BY <1>1, <2>1, <2>7 DEF SendReplyLost
    <3>2. Goto(s, k, At("failed", m, call[s][k].seen))
      BY <2>7 DEF SendReplyLost, Advance
    <3>3. call'[s][k].pc = "failed" /\ call'[s][k].head = m
      BY <3>2, GotoAt DEF At
    <3>4. \A t \in Session, j \in Kind :
            ~(t = s /\ j = k) => call'[t][j] = call[t][j]
      BY <3>2, GotoAt
    <3>5. \A n \in Message : Awaits(n)' <=> Awaits(n)
      BY <2>1, <3>3, <3>4 DEF Awaits
    <3> QED
      BY <2>1, <2>2, <2>3, <2>4, <2>5, <3>1, <3>3, <3>4, <3>5, LedgerOfOne
  <2> QED BY <1>12, <2>6, <2>7
<1>13. ASSUME NEW s \in Session, NEW k \in Kind,
              \/ DrainNothing(s, k) \/ SendDeferred(s, k)
              \/ RecordFailure(s, k) \/ FailureUnrecorded(s, k)
       PROVE  Ledger'
  <2>1. UNCHANGED counts /\ call[s][k].pc # "receipt" /\ Goto(s, k, Out)
    BY <1>13 DEF DrainNothing, SendDeferred, RecordFailure, FailureUnrecorded, Release
  <2> QED BY <1>3, <2>1 DEF Out
<1>14. ASSUME NEW s \in Session, NEW k \in Kind, Receipt(s, k) \/ ReceiptFailed(s, k)
       PROVE  Ledger'
  <2> DEFINE m == call[s][k].head
  <2>1. call[s][k].pc = "receipt" /\ Goto(s, k, Out)
    BY <1>14 DEF Receipt, ReceiptFailed, Release
  <2>2. m \in Message /\ delivered[m] = doubts[m] + 1
    BY <2>1, SendingType DEF Ledger
  <2>3. m \in queued \cup dropped /\ m \notin fresh /\ ~(m \in queued /\ m \in dropped)
    BY <2>1, <2>2, HeadIsSendable DEF HeadsHeld, StagesApart
  <2>4. \A t \in Session, j \in Kind :
          ~(t = s /\ j = k) /\ call[t][j].pc \in Engaged =>
              call[t][j].head # m /\ call[t][j].head \in Message
    BY <2>1, OneDrainOfAMessage, SendingType
  <2>5. call'[s][k].pc = "out"
    BY <2>1, GotoAt DEF Out, At
  <2>6. \A t \in Session, j \in Kind : ~(t = s /\ j = k) => call'[t][j] = call[t][j]
    BY <2>1, GotoAt
  <2>7. \A n \in Message \ {m} : Awaits(n)' <=> Awaits(n)
    BY <2>1, <2>5, <2>6 DEF Awaits
  <2>8. CASE Receipt(s, k)
    <3>1. UNCHANGED <<fresh, dropped, delivered, doubts>> /\ queued' = queued \ {m}
      BY <2>8 DEF Receipt, Delete
    <3> QED BY <2>2, <2>3, <2>4, <2>5, <2>6, <2>7, <3>1, LedgerOfOne
  <2>9. CASE ReceiptFailed(s, k)
    <3>1. UNCHANGED <<fresh, queued, dropped, delivered>>
      BY <2>9 DEF ReceiptFailed
    <3>2. doubts' = [doubts EXCEPT ![m] = @ + 1]
      BY <2>9 DEF ReceiptFailed
    <3>3. delivered'[m] = doubts'[m]
      BY <1>1, <2>2, <3>1, <3>2
    <3>4. \A n \in Message \ {m} : doubts'[n] = doubts[n]
      BY <1>1, <3>2
    <3> QED BY <2>2, <2>3, <2>4, <2>5, <2>6, <2>7, <3>1, <3>3, <3>4, LedgerOfOne
  <2> QED BY <1>14, <2>8, <2>9
<1>15. CASE SweepList \/ UNCHANGED vars
  BY <1>2, <1>15 DEF SweepList, vars
<1>16. CASE Crash
  <2>1. UNCHANGED <<fresh, queued, dropped, delivered>>
    BY <1>16 DEF Crash
  <2>2. \A m \in Message : doubts'[m] = IF Awaits(m) THEN doubts[m] + 1 ELSE doubts[m]
    BY <1>16 DEF Crash, Awaits
  <2>3. \A t \in Session, j \in Kind : call'[t][j].pc = "out"
    BY <1>16 DEF Crash, Out, At
  <2>4. \A m \in Message :
          Awaits(m) => m \notin fresh /\ m \in queued \cup dropped
                       /\ delivered[m] = doubts[m] + 1
    BY AwaitsHolds DEF Awaits, Ledger
  <2> QED BY <1>1, <2>1, <2>2, <2>3, <2>4 DEF Ledger
<1> QED
  BY <1>4, <1>5, <1>6, <1>7, <1>8, <1>9, <1>10, <1>11, <1>12, <1>13, <1>14, <1>15, <1>16
     DEF Next, Drain, RecordFailure

-----------------------------------------------------------------------------
(* The inductive invariant, and what follows from it.                      *)

\* The lock makes a drain the only one that touches its message: heads are
\* sendable, failures counted, and every acceptance is recorded or in doubt.
THEOREM OneDrainCorrect == Spec => []OneDrainPerMessage
<1>1. Init => OneDrainPerMessage
  BY QueueAssumption DEF Init, OneDrainPerMessage, LockHeld, HeadsHeld, FirstPromptFirst,
     FailuresCounted, StagesApart, Ledger, Holding, Engaged, Out, At
<1>2. TypeOK /\ OneDrainPerMessage /\ [Next]_vars => OneDrainPerMessage'
  BY LockHeldStep, HeadsHeldStep, GateStep, FailuresStep, StagesStep, LedgerStep
     DEF OneDrainPerMessage
<1> QED BY <1>1, <1>2, TypeCorrect, PTL DEF Spec

\* A message is accepted once, and once more for every acceptance that no
\* receipt records, whatever drains, clients, faults and restarts do.
THEOREM AtMostOnce == Spec => []AtMostOnceUnlessInDoubt
<1>1. TypeOK /\ OneDrainPerMessage => AtMostOnceUnlessInDoubt
  <2> SUFFICES ASSUME TypeOK, OneDrainPerMessage, NEW m \in Message
               PROVE  delivered[m] <= doubts[m] + 1
    BY DEF AtMostOnceUnlessInDoubt
  <2>1. delivered[m] \in Nat /\ doubts[m] \in Nat
    BY DEF TypeOK
  <2>2. delivered[m] = 0 \/ delivered[m] = doubts[m] \/ delivered[m] = doubts[m] + 1
    BY DEF OneDrainPerMessage, Ledger, Awaits
  <2> QED BY <2>1, <2>2
<1> QED BY <1>1, TypeCorrect, OneDrainCorrect, PTL

\* A message is gone from the queue only if a client removed it or the platform
\* accepted it: no failure, move, blocking or restart loses it.
THEOREM NothingLost == Spec => []NoLostFollowUp
<1>1. TypeOK /\ OneDrainPerMessage => NoLostFollowUp
  BY DEF TypeOK, OneDrainPerMessage, Ledger, NoLostFollowUp
<1> QED BY <1>1, TypeCorrect, OneDrainCorrect, PTL

\* A row is set aside exactly at its attempt limit, and never while it is sent.
THEOREM SetAsideAtLimit == Spec => []BlockedAtLimit
<1>1. TypeOK /\ OneDrainPerMessage => BlockedAtLimit
  <2> SUFFICES ASSUME TypeOK, OneDrainPerMessage PROVE BlockedAtLimit
    OBVIOUS
  <2>1. queued \subseteq Message
    BY DEF TypeOK
  <2>2. \A m \in queued : attempts[m] <= AttemptLimit
                          /\ (m \in blocked <=> attempts[m] = AttemptLimit)
    BY <2>1 DEF OneDrainPerMessage, FailuresCounted
  <2>3. \A s \in Session, k \in Kind :
          call[s][k].pc \in Engaged => call[s][k].head \notin blocked
    BY HeadIsSendable DEF OneDrainPerMessage
  <2> QED BY <2>2, <2>3 DEF BlockedAtLimit, Engaged
<1> QED BY <1>1, TypeCorrect, OneDrainCorrect, PTL

-----------------------------------------------------------------------------
(* Every step is a step of FollowUpDelivery, or none.                      *)

LEMMA PromiseStep ==
    ASSUME TypeOK, OneDrainPerMessage, [Next]_vars
    PROVE  [Delivery!Next]_(Delivery!promise)
<1> DEFINE counts == <<fresh, queued, dropped, delivered, doubts>>
<1> USE DEF rows, durable, process, history, Engaged, Delivery!promise
<1>1. /\ delivered \in [Message -> Nat] /\ doubts \in [Message -> Nat]
      /\ queued \subseteq Message
      /\ LockHeld /\ HeadsHeld /\ StagesApart /\ Ledger
  BY DEF TypeOK, OneDrainPerMessage
<1>2. ASSUME UNCHANGED counts
      PROVE  UNCHANGED Delivery!promise
  BY <1>2
<1>3. ASSUME NEW m \in Message, EnqueueHeld(m) \/ EnqueueAndDrain(m)
      PROVE  Delivery!Submit(m)
  BY <1>1, <1>3 DEF EnqueueHeld, EnqueueAndDrain, Insert, Delivery!Submit, StagesApart
<1>4. ASSUME NEW m \in Message, Remove(m)
      PROVE  Delivery!Drop(m)
  BY <1>1, <1>4 DEF Remove, Delete, Delivery!Drop, StagesApart
<1>5. ASSUME NEW s \in Session, NEW k \in Kind, SendAccepted(s, k) \/ SendReplyLost(s, k)
      PROVE  Delivery!Next
  <2> DEFINE m == call[s][k].head
  <2>1. m \in Message /\ m \notin fresh /\ m \in queued \cup dropped
    BY <1>1, <1>5, HeadIsSendable DEF SendAccepted, SendReplyLost, HeadsHeld
  <2>2. delivered[m] = doubts[m]
    BY <1>1, <1>5 DEF SendAccepted, SendReplyLost, Ledger
  <2>3. UNCHANGED <<fresh, queued, dropped>>
    BY <1>5 DEF SendAccepted, SendReplyLost
  <2>4. CASE SendAccepted(s, k)
    BY <2>1, <2>2, <2>3, <2>4 DEF SendAccepted, Delivery!Accept, Delivery!Next
  <2>5. CASE SendReplyLost(s, k)
    BY <2>1, <2>2, <2>3, <2>5 DEF SendReplyLost, Delivery!AcceptUnheard, Delivery!Next
  <2> QED BY <1>5, <2>4, <2>5
<1>6. ASSUME NEW s \in Session, NEW k \in Kind, Receipt(s, k) \/ ReceiptFailed(s, k)
      PROVE  Delivery!Next \/ UNCHANGED Delivery!promise
  <2> DEFINE m == call[s][k].head
  <2>1. m \in Message /\ m \notin fresh /\ m \in queued \cup dropped
    BY <1>1, <1>6, HeadIsSendable DEF Receipt, ReceiptFailed, HeadsHeld
  <2>2. delivered[m] = doubts[m] + 1
    BY <1>1, <1>6 DEF Receipt, ReceiptFailed, Ledger
  <2>3. CASE Receipt(s, k) /\ m \in queued
    <3>1. Delivery!Settle(m)
      BY <1>1, <2>1, <2>2, <2>3 DEF Receipt, Delete, Delivery!Settle, StagesApart
    <3>2. PICK n \in Message : n = m
      BY <2>1
    <3>3. Delivery!Settle(n)
      BY <3>1, <3>2 DEF Delivery!Settle
    <3> QED BY <3>3 DEF Delivery!Next
  <2>4. CASE Receipt(s, k) /\ m \notin queued
    BY <2>4 DEF Receipt, Delete
  <2>5. CASE ReceiptFailed(s, k)
    <3>1. Delivery!Forget({m})
      BY <1>1, <2>1, <2>2, <2>5 DEF ReceiptFailed, Delivery!Forget
    <3> QED BY <2>1, <3>1 DEF Delivery!Next
  <2> QED BY <1>6, <2>3, <2>4, <2>5
<1>7. CASE Crash
  <2> DEFINE S == {m \in Message : Awaits(m)}
  <2>1. UNCHANGED <<fresh, queued, dropped, delivered>>
    BY <1>7 DEF Crash
  <2>2. doubts' = [m \in Message |-> IF m \in S THEN doubts[m] + 1 ELSE doubts[m]]
    BY <1>7 DEF Crash, Awaits
  <2>3. \A m \in S : m \notin fresh /\ m \in queued \cup dropped
                     /\ delivered[m] = doubts[m] + 1
    BY <1>1, AwaitsHolds DEF Awaits, Ledger
  <2>4. Delivery!Forget(S)
    BY <2>1, <2>2, <2>3 DEF Delivery!Forget
  <2> QED BY <2>4 DEF Delivery!Next
<1>8. ASSUME NEW m \in Message, NEW n \in Message, Move(m, n)
      PROVE  UNCHANGED counts
  BY <1>8 DEF Move
<1>9. ASSUME NEW s \in Session,
             \/ Flush(s) \/ TryFlush(s) \/ SweepArm(s) \/ SweepLock(s)
             \/ SetArchived(s) \/ DeliverFirst(s) \/ FinishSetup(s)
             \/ DirectSend(s) \/ ContinueSession(s)
             \/ ShowPrompt(s) \/ StartAnswer(s) \/ EndTurn(s)
      PROVE  UNCHANGED counts
  BY <1>9 DEF Flush, TryFlush, SweepArm, SweepLock, SetArchived, DeliverFirst, FinishSetup,
     DirectSend, ContinueSession, ShowPrompt, StartAnswer, EndTurn
<1>10. ASSUME NEW s \in Session, NEW k \in Kind,
              \/ DrainNothing(s, k) \/ DrainRead(s, k) \/ SendDeferred(s, k)
              \/ SendRefused(s, k) \/ RecordFailure(s, k) \/ FailureUnrecorded(s, k)
       PROVE  UNCHANGED counts
  BY <1>10 DEF DrainNothing, DrainRead, SendDeferred, SendRefused, RecordFailure,
     FailureUnrecorded
<1>11. CASE SweepList \/ UNCHANGED vars
  BY <1>11 DEF SweepList, vars
<1> HIDE DEF counts, Delivery!promise
<1> QED
  BY <1>2, <1>3, <1>4, <1>5, <1>6, <1>7, <1>8, <1>9, <1>10, <1>11
     DEF Next, Drain, Delivery!Next

\* The queue implements its promise.
THEOREM PromiseKept == Spec => KeepsPromise
<1>1. Init => Delivery!Init
  BY QueueAssumption DEF Init, Delivery!Init
<1> QED
  BY <1>1, PromiseStep, TypeCorrect, OneDrainCorrect, PTL DEF Spec, KeepsPromise, Delivery!Spec

=============================================================================
