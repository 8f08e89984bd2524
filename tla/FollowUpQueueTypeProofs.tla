----------------------- MODULE FollowUpQueueTypeProofs -----------------------
(***************************************************************************)
(* Every variable of FollowUpQueue keeps its type, for every set of        *)
(* sessions and messages, every attempt limit and any number of faults.    *)
(***************************************************************************)
EXTENDS FollowUpQueue, TLAPS

-----------------------------------------------------------------------------
(* Facts about the steps that the actions are built from.                  *)

Call == Idle \cup Sending

LEMMA AtType ==
    /\ \A pc \in {"out", "delivered", "due", "armed", "locked"}, seen \in Nat \cup {Unread} :
          At(pc, None, seen) \in Call
    /\ \A pc \in {"send", "receipt", "failed"}, m \in Message, seen \in Nat :
          At(pc, m, seen) \in Call
BY DEF At, Call, Idle, Sending

LEMMA SendingType ==
    ASSUME TypeOK, NEW s \in Session, NEW k \in Kind,
           call[s][k].pc \in {"send", "receipt", "failed"}
    PROVE  call[s][k].head \in Message /\ call[s][k].seen \in Nat
<1>1. call[s][k] \in Idle \cup Sending
  BY DEF TypeOK
<1> QED BY <1>1 DEF Idle, Sending

LEMMA OutType == Out \in Call
BY DEF Out, At, Call, Idle, Unread

LEMMA GotoType ==
    ASSUME call \in [Session -> [Kind -> Call]],
           NEW s \in Session, NEW k \in Kind, NEW c \in Call, Goto(s, k, c)
    PROVE  call' \in [Session -> [Kind -> Call]]
BY DEF Goto

LEMMA ReadType ==
    ASSUME TypeOK, NEW s \in Session, NEW r \in TrueReads(s) \cup BadReads(s)
    PROVE  r.age \in Nat
<1>1. last[s].age \in Nat
  BY DEF TypeOK
<1>2. CASE r \in TrueReads(s)
  <2>1. PICK running : r = Answer(s, running)
    BY <1>2 DEF TrueReads
  <2>2. r.age = last[s].age
    BY <2>1 DEF Answer
  <2> QED BY <2>2, <1>1
<1>3. CASE r \in BadReads(s)
  <2>1. r.age = last[s].age \/ r.age = 0
    BY <1>3 DEF BadReads, Answer
  <2> QED BY <2>1, <1>1
<1> QED BY <1>2, <1>3

LEMMA FaultType ==
    ASSUME TypeOK, Fault \/ faults' = faults
    PROVE  faults' \in Nat
BY DEF TypeOK, Fault

LEMMA PromptType ==
    ASSUME TypeOK, NEW s \in Session, Prompt(s)
    PROVE  /\ turn' \in [Session -> BOOLEAN]
           /\ last' \in [Session -> [age : Nat, role : {"user", "answering", "answered"}]]
           /\ unseen' \in [Session -> Nat]
<1>1. /\ turn \in [Session -> BOOLEAN]
      /\ last \in [Session -> [age : Nat, role : {"user", "answering", "answered"}]]
      /\ unseen \in [Session -> Nat]
  BY DEF TypeOK
<1>2. turn' \in [Session -> BOOLEAN]
  BY <1>1 DEF Prompt
<1>3. unseen' \in [Session -> Nat]
  BY <1>1 DEF Prompt
<1>4. last[s].age + 1 \in Nat
  BY <1>1
<1>5. last' \in [Session -> [age : Nat, role : {"user", "answering", "answered"}]]
  BY <1>1, <1>4 DEF Prompt
<1> QED BY <1>2, <1>3, <1>5

-----------------------------------------------------------------------------
(* The types.  CallOK is the part of TypeOK about the drains, proved apart. *)

CallOK == call \in [Session -> [Kind -> Call]]

LEMMA CallStep ==
    ASSUME TypeOK, [Next]_vars
    PROVE  CallOK'
<1> USE OutType, GotoType
<1>1. CallOK
  BY DEF TypeOK, CallOK, Call
<1>2. \A s \in Session, k \in Kind : call[s][k].seen \in Nat \cup {Unread}
  BY <1>1 DEF CallOK, Call, Idle, Sending
<1>3. ASSUME NEW m \in Message, EnqueueHeld(m) PROVE CallOK'
  BY <1>1, <1>3 DEF EnqueueHeld, CallOK, process, durable
<1>4. ASSUME NEW m \in Message, EnqueueAndDrain(m) PROVE CallOK'
  <2>1. Goto(Owner[m], "enqueue", At("locked", None, Unread))
    BY <1>4 DEF EnqueueAndDrain, Acquire
  <2>2. At("locked", None, Unread) \in Call /\ Owner[m] \in Session /\ "enqueue" \in Kind
    BY AtType, QueueAssumption DEF Kind
  <2> QED BY <1>1, <2>1, <2>2 DEF CallOK
<1>5. ASSUME NEW m \in Message, Remove(m) PROVE CallOK'
  BY <1>1, <1>5 DEF Remove, CallOK, process, durable
<1>6. ASSUME NEW m \in Message, NEW n \in Message, Move(m, n) PROVE CallOK'
  BY <1>1, <1>6 DEF Move, CallOK, process, durable
<1>7. ASSUME NEW s \in Session, Flush(s) PROVE CallOK'
  <2>1. Goto(s, "flush", At("locked", None, Unread))
    BY <1>7 DEF Flush, Acquire
  <2>2. At("locked", None, Unread) \in Call /\ "flush" \in Kind
    BY AtType DEF Kind
  <2> QED BY <1>1, <2>1, <2>2 DEF CallOK
<1>8. ASSUME NEW s \in Session, TryFlush(s) PROVE CallOK'
  <2>1. PICK c \in {Out, At("locked", None, Unread)} : Goto(s, "setup", c)
    BY <1>8 DEF TryFlush, Acquire, Release
  <2>2. c \in Call /\ "setup" \in Kind
    BY AtType DEF Kind
  <2> QED BY <1>1, <2>1, <2>2 DEF CallOK
<1>9. ASSUME NEW s \in Session, SweepArm(s) PROVE CallOK'
  <2>1. Goto(s, "sweep", At("armed", None, Unread))
    BY <1>9 DEF SweepArm
  <2>2. At("armed", None, Unread) \in Call /\ "sweep" \in Kind
    BY AtType DEF Kind
  <2> QED BY <1>1, <2>1, <2>2 DEF CallOK
<1>10. ASSUME NEW s \in Session, SweepLock(s) PROVE CallOK'
  <2>1. PICK seen \in Nat \cup {Unread} :
          Goto(s, "sweep", Out) \/ Goto(s, "sweep", At("locked", None, seen))
    BY <1>10, ReadType DEF SweepLock, SweepSkip, Acquire, Release
  <2>2. At("locked", None, seen) \in Call /\ "sweep" \in Kind
    BY AtType DEF Kind
  <2> QED BY <1>1, <2>1, <2>2 DEF CallOK
<1>11. ASSUME NEW s \in Session, SetArchived(s) PROVE CallOK'
  BY <1>1, <1>11 DEF SetArchived, CallOK, process, durable
<1>12. ASSUME NEW s \in Session, DeliverFirst(s) \/ FinishSetup(s) PROVE CallOK'
  <2>1. \/ Goto(s, "setup", At("delivered", None, Unread))
        \/ Goto(s, "setup", At("due", None, Unread))
    BY <1>12 DEF DeliverFirst, FinishSetup
  <2>2. /\ {At("delivered", None, Unread), At("due", None, Unread)} \subseteq Call
        /\ "setup" \in Kind
    BY AtType DEF Kind
  <2> QED BY <1>1, <2>1, <2>2 DEF CallOK
<1>13. ASSUME NEW s \in Session, DirectSend(s) \/ ContinueSession(s) PROVE CallOK'
  BY <1>1, <1>13 DEF DirectSend, ContinueSession, CallOK, process, durable
<1>14. ASSUME NEW s \in Session, ShowPrompt(s) PROVE CallOK'
  BY <1>1, <1>14 DEF ShowPrompt, CallOK, process, durable
<1>15. ASSUME NEW s \in Session, StartAnswer(s) PROVE CallOK'
  BY <1>1, <1>15 DEF StartAnswer, CallOK, process, durable
<1>16. ASSUME NEW s \in Session, EndTurn(s) PROVE CallOK'
  BY <1>1, <1>16 DEF EndTurn, CallOK, process, durable
<1>17. ASSUME NEW s \in Session, NEW k \in Kind, DrainNothing(s, k) PROVE CallOK'
  <2>1. Goto(s, k, Out)
    BY <1>17 DEF DrainNothing, Release
  <2> QED BY <1>1, <2>1 DEF CallOK
<1>18. ASSUME NEW s \in Session, NEW k \in Kind, DrainRead(s, k) PROVE CallOK'
  <2>1. PICK m \in Message, seen \in Nat :
          Goto(s, k, Out) \/ Goto(s, k, At("send", m, seen))
    BY <1>2, <1>18, ReadType DEF DrainRead, Release
  <2>2. At("send", m, seen) \in Call
    BY AtType
  <2> QED BY <1>1, <2>1, <2>2 DEF CallOK
<1>19. ASSUME NEW s \in Session, NEW k \in Kind, SendDeferred(s, k) PROVE CallOK'
  <2>1. Goto(s, k, Out)
    BY <1>19 DEF SendDeferred, Release
  <2> QED BY <1>1, <2>1 DEF CallOK
<1>20. ASSUME NEW s \in Session, NEW k \in Kind, SendRefused(s, k) PROVE CallOK'
  <2>1. Goto(s, k, At("failed", call[s][k].head, call[s][k].seen))
    BY <1>20 DEF SendRefused, Advance
  <2>2. At("failed", call[s][k].head, call[s][k].seen) \in Call
    BY <1>20, SendingType, AtType DEF SendRefused
  <2> QED BY <1>1, <2>1, <2>2 DEF CallOK
<1>21. ASSUME NEW s \in Session, NEW k \in Kind, SendAccepted(s, k) PROVE CallOK'
  <2>1. Goto(s, k, At("receipt", call[s][k].head, call[s][k].seen))
    BY <1>21 DEF SendAccepted, Advance
  <2>2. At("receipt", call[s][k].head, call[s][k].seen) \in Call
    BY <1>21, SendingType, AtType DEF SendAccepted
  <2> QED BY <1>1, <2>1, <2>2 DEF CallOK
<1>22. ASSUME NEW s \in Session, NEW k \in Kind, SendReplyLost(s, k) PROVE CallOK'
  <2>1. Goto(s, k, At("failed", call[s][k].head, call[s][k].seen))
    BY <1>22 DEF SendReplyLost, Advance
  <2>2. At("failed", call[s][k].head, call[s][k].seen) \in Call
    BY <1>22, SendingType, AtType DEF SendReplyLost
  <2> QED BY <1>1, <2>1, <2>2 DEF CallOK
<1>23. ASSUME NEW s \in Session, NEW k \in Kind, RecordFailure(s, k) PROVE CallOK'
  <2>1. Goto(s, k, Out)
    BY <1>23 DEF RecordFailure, Release
  <2> QED BY <1>1, <2>1 DEF CallOK
<1>24. ASSUME NEW s \in Session, NEW k \in Kind, FailureUnrecorded(s, k) PROVE CallOK'
  <2>1. Goto(s, k, Out)
    BY <1>24 DEF FailureUnrecorded, Release
  <2> QED BY <1>1, <2>1 DEF CallOK
<1>25. ASSUME NEW s \in Session, NEW k \in Kind, Receipt(s, k) PROVE CallOK'
  <2>1. Goto(s, k, Out)
    BY <1>25 DEF Receipt, Release
  <2> QED BY <1>1, <2>1 DEF CallOK
<1>26. ASSUME NEW s \in Session, NEW k \in Kind, ReceiptFailed(s, k) PROVE CallOK'
  <2>1. Goto(s, k, Out)
    BY <1>26 DEF ReceiptFailed, Release
  <2> QED BY <1>1, <2>1 DEF CallOK
<1>27. ASSUME SweepList PROVE CallOK'
  BY <1>1, <1>27 DEF SweepList, CallOK, process, durable
<1>28. ASSUME Crash PROVE CallOK'
  BY <1>28 DEF Crash, CallOK
<1>29. CASE UNCHANGED vars
  BY <1>1, <1>29 DEF vars, process, CallOK
<1> QED
  BY <1>3, <1>4, <1>5, <1>6, <1>7, <1>8, <1>9, <1>10, <1>11, <1>12,
     <1>13, <1>14, <1>15, <1>16, <1>17, <1>18, <1>19, <1>20, <1>21,
     <1>22, <1>23, <1>24, <1>25, <1>26, <1>27, <1>28, <1>29 DEF Next, Drain

-----------------------------------------------------------------------------
(* Which actions touch the rows, the ledger and the drains' guards: every   *)
(* other step leaves them unchanged.                                        *)

LEMMA RowSteps ==
    ASSUME [Next]_vars
    PROVE  \/ UNCHANGED rows
           \/ \E m \in Message : EnqueueHeld(m) \/ EnqueueAndDrain(m) \/ Remove(m)
           \/ \E m, n \in Message : Move(m, n)
           \/ \E s \in Session, k \in Kind : RecordFailure(s, k) \/ Receipt(s, k)
<1> USE DEF rows, durable
<1>1. CASE UNCHANGED vars
  BY <1>1 DEF vars
<1>2. ASSUME NEW s \in Session,
             \/ Flush(s) \/ TryFlush(s) \/ SweepArm(s) \/ SweepLock(s)
             \/ SetArchived(s) \/ DeliverFirst(s) \/ FinishSetup(s)
             \/ DirectSend(s) \/ ContinueSession(s)
             \/ ShowPrompt(s) \/ StartAnswer(s) \/ EndTurn(s)
      PROVE  UNCHANGED rows
  BY <1>2 DEF Flush, TryFlush, SweepArm, SweepLock, SetArchived, DeliverFirst, FinishSetup,
              DirectSend, ContinueSession, ShowPrompt, StartAnswer, EndTurn
<1>3. ASSUME NEW s \in Session, NEW k \in Kind,
             Drain(s, k), ~RecordFailure(s, k), ~Receipt(s, k)
      PROVE  UNCHANGED rows
  BY <1>3 DEF Drain, DrainNothing, DrainRead, SendDeferred, SendRefused, SendAccepted,
              SendReplyLost, FailureUnrecorded, ReceiptFailed
<1>4. CASE SweepList \/ Crash
  BY <1>4 DEF SweepList, Crash
<1> QED BY <1>1, <1>2, <1>3, <1>4 DEF Next

-----------------------------------------------------------------------------
(* TypeOK apart from CallOK, one group of variables at a time. *)

RowTypes ==
    /\ queued \subseteq Message /\ blocked \subseteq queued
    /\ pos \in [Message -> Nat] /\ attempts \in [Message -> Nat]

LEMMA RowTypeStep ==
    ASSUME TypeOK, [Next]_vars
    PROVE  RowTypes'
<1> USE DEF RowTypes
<1>1. RowTypes /\ CallOK
  BY DEF TypeOK, CallOK, Call
<1>2. CASE UNCHANGED rows
  BY <1>1, <1>2 DEF rows
<1>3. ASSUME NEW m \in Message, EnqueueHeld(m) \/ EnqueueAndDrain(m)
      PROVE  RowTypes'
  BY <1>1, <1>3 DEF EnqueueHeld, EnqueueAndDrain, Insert, IsTail
<1>4. ASSUME NEW m \in Message, Delete(m)
      PROVE  RowTypes'
  BY <1>1, <1>4 DEF Delete
<1>5. ASSUME NEW m \in Message, NEW n \in Message, Move(m, n)
      PROVE  RowTypes'
  BY <1>1, <1>5 DEF Move
<1>6. ASSUME NEW s \in Session, NEW k \in Kind, RecordFailure(s, k)
      PROVE  RowTypes'
  BY <1>1, <1>6 DEF RecordFailure
<1>7. ASSUME NEW s \in Session, NEW k \in Kind, Receipt(s, k)
      PROVE  RowTypes'
  BY <1>1, <1>7 DEF Receipt, Delete
<1> QED BY RowSteps, <1>2, <1>3, <1>4, <1>5, <1>6, <1>7 DEF Remove

LockTypes ==
    /\ lock \in [Session -> Kind \cup {"free"}]
    /\ guard \in [Session -> [gen : Nat, seen : Nat]]
    /\ nextGen \in Nat /\ armed \in [Session -> Nat]
    /\ todo \subseteq Session /\ edges \in [Session -> Nat]
    /\ archived \subseteq Session /\ settingUp \subseteq Drafts

PlatformTypes ==
    /\ turn \in [Session -> BOOLEAN]
    /\ last \in [Session -> [age : Nat, role : {"user", "answering", "answered"}]]
    /\ unseen \in [Session -> Nat]

HistoryTypes ==
    /\ fresh \subseteq Message /\ dropped \subseteq Message
    /\ delivered \in [Message -> Nat] /\ doubts \in [Message -> Nat]
    /\ owes \in [Session -> BOOLEAN] /\ turnSends \in [Session -> Nat]
    /\ faults \in Nat /\ direct \in Nat

LEMMA LockTypeStep ==
    ASSUME TypeOK, [Next]_vars
    PROVE  LockTypes'
<1> USE DEF LockTypes, durable, process
<1>1. LockTypes /\ CallOK
  BY DEF TypeOK, CallOK, Call
<1>2. Kind = {"enqueue", "flush", "sweep", "setup"} /\ NoGuard \in [gen : Nat, seen : Nat]
  BY DEF Kind, NoGuard
<1>3. CASE UNCHANGED vars
  BY <1>1, <1>3 DEF vars
<1>4. ASSUME NEW m \in Message, EnqueueHeld(m) \/ EnqueueAndDrain(m) \/ Remove(m)
      PROVE  LockTypes'
  BY <1>1, <1>2, <1>4, QueueAssumption DEF EnqueueHeld, EnqueueAndDrain, Acquire, Remove
<1>5. ASSUME NEW m \in Message, NEW n \in Message, Move(m, n)
      PROVE  LockTypes'
  BY <1>1, <1>5 DEF Move
<1>6. ASSUME NEW s \in Session, Flush(s) \/ TryFlush(s)
      PROVE  LockTypes'
  <2>1. edges' \in [Session -> Nat]
    BY <1>1, <1>6 DEF Flush, TryFlush
  <2>2. lock' \in [Session -> Kind \cup {"free"}]
    BY <1>1, <1>2, <1>6 DEF Flush, TryFlush, Acquire, Release
  <2>3. guard' \in [Session -> [gen : Nat, seen : Nat]]
    BY <1>1, <1>2, <1>6 DEF Flush, TryFlush
  <2> QED BY <1>1, <1>6, <2>1, <2>2, <2>3 DEF Flush, TryFlush
<1>7. ASSUME NEW s \in Session, SweepLock(s)
      PROVE  LockTypes'
  <2>1. lock' \in [Session -> Kind \cup {"free"}]
    BY <1>1, <1>2, <1>7 DEF SweepLock, SweepSkip, Acquire, Release
  <2>2. guard' \in [Session -> [gen : Nat, seen : Nat]]
    BY <1>1, <1>2, <1>7 DEF SweepLock, SweepSkip
  <2> QED BY <1>1, <1>7, <2>1, <2>2 DEF SweepLock
<1>8. ASSUME NEW s \in Session,
             SweepArm(s) \/ SetArchived(s) \/ DeliverFirst(s) \/ FinishSetup(s)
      PROVE  LockTypes'
  BY <1>1, <1>8 DEF SweepArm, SetArchived, DeliverFirst, FinishSetup
<1>9. ASSUME NEW s \in Session,
             \/ DirectSend(s) \/ ContinueSession(s)
             \/ ShowPrompt(s) \/ StartAnswer(s) \/ EndTurn(s)
      PROVE  LockTypes'
  BY <1>1, <1>9 DEF DirectSend, ContinueSession, ShowPrompt, StartAnswer, EndTurn
<1>10. ASSUME NEW s \in Session, NEW k \in Kind, Receipt(s, k)
       PROVE  LockTypes'
  <2>1. call[s][k].seen \in Nat
    BY <1>10, SendingType DEF Receipt
  <2> QED BY <1>1, <1>10, <2>1 DEF Receipt, Release
<1>11. ASSUME NEW s \in Session, NEW k \in Kind, Drain(s, k), ~Receipt(s, k)
       PROVE  LockTypes'
  BY <1>1, <1>11 DEF Drain, DrainNothing, DrainRead, SendDeferred, SendRefused,
     SendAccepted, SendReplyLost, RecordFailure, FailureUnrecorded, ReceiptFailed,
     Release, Advance
<1>12. CASE SweepList \/ Crash
  BY <1>1, <1>2, <1>12 DEF SweepList, Crash
<1> QED
  BY <1>3, <1>4, <1>5, <1>6, <1>7, <1>8, <1>9, <1>10, <1>11, <1>12 DEF Next

LEMMA PlatformTypeStep ==
    ASSUME TypeOK, [Next]_vars
    PROVE  PlatformTypes'
<1> USE DEF PlatformTypes, platform
<1>1. PlatformTypes
  BY DEF TypeOK
<1>2. ASSUME NEW s \in Session, Prompt(s)
      PROVE  PlatformTypes'
  BY <1>2, PromptType
<1>3. ASSUME NEW s \in Session, ShowPrompt(s) \/ StartAnswer(s) \/ EndTurn(s)
      PROVE  PlatformTypes'
  <2>1. last[s].age \in Nat /\ last[s].age + 1 \in Nat
    BY <1>1
  <2>2. PICK a \in Nat, r \in {"user", "answering", "answered"} :
          last' = [last EXCEPT ![s] = [age |-> a, role |-> r]]
    BY <1>1, <1>3, <2>1 DEF ShowPrompt, StartAnswer, EndTurn
  <2>3. last' \in [Session -> [age : Nat, role : {"user", "answering", "answered"}]]
    BY <1>1, <2>2
  <2>4. turn' \in [Session -> BOOLEAN]
    BY <1>1, <1>3 DEF ShowPrompt, StartAnswer, EndTurn
  <2>5. unseen' \in [Session -> Nat]
    BY <1>1, <1>3 DEF ShowPrompt, StartAnswer, EndTurn
  <2> QED BY <2>3, <2>4, <2>5
<1>4. CASE UNCHANGED vars
  BY <1>1, <1>4 DEF vars
<1>5. ASSUME NEW m \in Message, EnqueueHeld(m) \/ EnqueueAndDrain(m) \/ Remove(m)
      PROVE  PlatformTypes'
  BY <1>1, <1>5 DEF EnqueueHeld, EnqueueAndDrain, Remove
<1>6. ASSUME NEW m \in Message, NEW n \in Message, Move(m, n)
      PROVE  PlatformTypes'
  BY <1>1, <1>6 DEF Move
<1>7. ASSUME NEW s \in Session,
             \/ Flush(s) \/ TryFlush(s) \/ SweepArm(s) \/ SweepLock(s)
             \/ SetArchived(s) \/ FinishSetup(s)
      PROVE  PlatformTypes'
  BY <1>1, <1>7 DEF Flush, TryFlush, SweepArm, SweepLock, SetArchived, FinishSetup
<1>8. ASSUME NEW s \in Session, NEW k \in Kind,
             Drain(s, k), ~SendAccepted(s, k), ~SendReplyLost(s, k)
      PROVE  PlatformTypes'
  BY <1>1, <1>8 DEF Drain, DrainNothing, DrainRead, SendDeferred, SendRefused,
     RecordFailure, FailureUnrecorded, Receipt, ReceiptFailed
<1>9. CASE SweepList \/ Crash
  BY <1>1, <1>9 DEF SweepList, Crash
<1>10. ASSUME NEW s \in Session, ContinueSession(s)
       PROVE  PlatformTypes'
  BY <1>1, <1>2, <1>10 DEF ContinueSession
<1> QED
  BY <1>2, <1>3, <1>4, <1>5, <1>6, <1>7, <1>8, <1>9, <1>10
     DEF Next, DeliverFirst, DirectSend, SendAccepted, SendReplyLost

LEMMA HistoryTypeStep ==
    ASSUME TypeOK, [Next]_vars
    PROVE  HistoryTypes'
<1> USE FaultType DEF HistoryTypes, history
<1>1. HistoryTypes
  BY DEF TypeOK
<1>2. CASE UNCHANGED vars
  BY <1>1, <1>2 DEF vars
<1>3. ASSUME NEW m \in Message, EnqueueHeld(m) \/ EnqueueAndDrain(m) \/ Remove(m)
      PROVE  HistoryTypes'
  BY <1>1, <1>3 DEF EnqueueHeld, EnqueueAndDrain, Insert, Remove
<1>4. ASSUME NEW m \in Message, NEW n \in Message, Move(m, n)
      PROVE  HistoryTypes'
  BY <1>1, <1>4 DEF Move
<1>5. ASSUME NEW s \in Session,
             \/ TryFlush(s) \/ SweepArm(s) \/ SweepLock(s)
             \/ SetArchived(s) \/ DeliverFirst(s) \/ FinishSetup(s)
             \/ DirectSend(s) \/ ContinueSession(s) \/ ShowPrompt(s) \/ StartAnswer(s)
      PROVE  HistoryTypes'
  BY <1>1, <1>5 DEF TryFlush, SweepArm, SweepLock, Read, SetArchived, DeliverFirst, FinishSetup,
     DirectSend, ContinueSession, ShowPrompt, StartAnswer
<1>11. ASSUME NEW s \in Session, Flush(s) \/ EndTurn(s)
       PROVE  HistoryTypes'
  <2>1. owes' \in [Session -> BOOLEAN]
    BY <1>1, <1>11 DEF Flush, EndTurn
  <2>2. turnSends' \in [Session -> Nat]
    BY <1>1, <1>11 DEF Flush, EndTurn
  <2> QED BY <1>1, <1>11, <2>1, <2>2 DEF Flush, EndTurn
<1>6. ASSUME NEW s \in Session, NEW k \in Kind, SendAccepted(s, k)
      PROVE  HistoryTypes'
  <2>1. owes' \in [Session -> BOOLEAN]
    <3> DEFINE owing == call[s][k].seen = last[s].age
    <3>1. owing \in BOOLEAN /\ owes' = [owes EXCEPT ![s] = owing]
      BY <1>6 DEF SendAccepted
    <3> HIDE DEF owing
    <3> QED BY <1>1, <3>1
  <2>2. delivered' \in [Message -> Nat]
    BY <1>1, <1>6, SendingType DEF SendAccepted
  <2>3. turnSends' \in [Session -> Nat]
    BY <1>1, <1>6 DEF SendAccepted
  <2> QED BY <1>1, <1>6, <2>1, <2>2, <2>3 DEF SendAccepted
<1>7. ASSUME NEW s \in Session, NEW k \in Kind, SendReplyLost(s, k)
      PROVE  HistoryTypes'
  <2>1. delivered' \in [Message -> Nat]
    BY <1>1, <1>7, SendingType DEF SendReplyLost
  <2>2. doubts' \in [Message -> Nat]
    BY <1>1, <1>7, SendingType DEF SendReplyLost
  <2>3. turnSends' \in [Session -> Nat]
    BY <1>1, <1>7 DEF SendReplyLost
  <2> QED BY <1>1, <1>7, <2>1, <2>2, <2>3 DEF SendReplyLost
<1>8. ASSUME NEW s \in Session, NEW k \in Kind, ReceiptFailed(s, k)
      PROVE  HistoryTypes'
  <2>1. doubts' \in [Message -> Nat]
    BY <1>1, <1>8, SendingType DEF ReceiptFailed
  <2>2. owes' \in [Session -> BOOLEAN]
    BY <1>1, <1>8 DEF ReceiptFailed
  <2> QED BY <1>1, <1>8, <2>1, <2>2 DEF ReceiptFailed
<1>9. ASSUME NEW s \in Session, NEW k \in Kind, Drain(s, k),
             ~SendAccepted(s, k), ~SendReplyLost(s, k), ~ReceiptFailed(s, k)
      PROVE  HistoryTypes'
  BY <1>1, <1>9 DEF Drain, DrainNothing, DrainRead, Read, SendDeferred, SendRefused,
     RecordFailure, FailureUnrecorded, Receipt
<1>10. CASE SweepList
  BY <1>1, <1>10 DEF SweepList
<1>12. CASE Crash
  <2>1. doubts' \in [Message -> Nat]
    BY <1>1, <1>12 DEF Crash
  <2>2. owes' \in [Session -> BOOLEAN]
    BY <1>12 DEF Crash
  <2> QED BY <1>1, <1>12, <2>1, <2>2 DEF Crash
<1> QED
  BY <1>2, <1>3, <1>4, <1>5, <1>6, <1>7, <1>8, <1>9, <1>10, <1>11, <1>12 DEF Next

\* Every variable keeps its type.
THEOREM TypeCorrect == Spec => []TypeOK
<1>1. Init => TypeOK
  <2> SUFFICES ASSUME Init PROVE TypeOK
    OBVIOUS
  <2>1. call \in [Session -> [Kind -> Idle \cup Sending]]
    BY OutType DEF Init, Call
  <2>2. guard \in [Session -> [gen : Nat, seen : Nat]]
    BY DEF Init, NoGuard
  <2>3. last \in [Session -> [age : Nat, role : {"user", "answering", "answered"}]]
    BY DEF Init
  <2>4. turn \in [Session -> BOOLEAN] /\ owes \in [Session -> BOOLEAN]
    BY DEF Init
  <2> QED BY <2>1, <2>2, <2>3, <2>4, QueueAssumption DEF Init, TypeOK
<1>2. TypeOK /\ [Next]_vars => TypeOK'
  <2> SUFFICES ASSUME TypeOK, [Next]_vars PROVE TypeOK'
    OBVIOUS
  <2>1. CallOK' /\ RowTypes' /\ LockTypes' /\ PlatformTypes' /\ HistoryTypes'
    BY CallStep, RowTypeStep, LockTypeStep, PlatformTypeStep, HistoryTypeStep
  <2> QED
    BY <2>1 DEF TypeOK, CallOK, Call, RowTypes, LockTypes, PlatformTypes, HistoryTypes
<1> QED BY <1>1, <1>2, PTL DEF Spec

=============================================================================
