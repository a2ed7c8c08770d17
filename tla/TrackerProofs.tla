--------------------------- MODULE TrackerProofs ---------------------------
(***************************************************************************)
(* Theorems about Tracker, for any number of workers and messages.  A step *)
(* of the process is a step of the queue or leaves the queue alone, so the *)
(* invariant of ThreadedMessageQueueProofs carries over; the last theorem  *)
(* is about the timer thread, which nobody joins.                          *)
(***************************************************************************)
EXTENDS Tracker, ThreadedMessageQueueProofs

\* To the queue, whatever the threads of the process do is a step of its own
\* three threads, or nothing: connections push, main stops, the consumer runs.
LEMMA QueueStep == [Next]_vars => [QueueNext]_queueVars
<1> SUFFICES ASSUME [Next]_vars PROVE [QueueNext]_queueVars
  OBVIOUS
<1>1. ASSUME NEW c \in Callers, Ask(c) \/ SpuriousWakeup(c) PROVE UNCHANGED queueVars
  BY <1>1 DEF Ask, SpuriousWakeup, queueVars
<1>2. CASE Accept \/ Query \/ Restore \/ Raise \/ CloseConnection
  BY <1>2 DEF Accept, Query, Restore, Raise, CloseConnection, queueVars
<1>3. ASSUME NEW m \in AddKey \cup SetRankingLength, Post(m) PROVE QueueNext
  <2>1. m \in Message /\ Push(m)
    BY <1>3 DEF Post, Message
  <2> QED
    BY <2>1 DEF QueueNext
<1>4. CASE PostEnqueue \/ Consume
  BY <1>4 DEF PostEnqueue, Consume, QueueNext
<1>5. CASE TimerWakes \/ TimerCalls \/ TimerReturns
  BY <1>5 DEF TimerWakes, TimerCalls, TimerReturns, TimerStep, queueVars
<1>6. CASE HandleSignal \/ JoinWorkers \/ LeaveRun \/ StopBackups
  BY <1>6 DEF HandleSignal, JoinWorkers, LeaveRun, StopBackups, queueVars
<1>7. CASE StopQueue \/ JoinQueue \/ Return
  BY <1>7 DEF StopQueue, JoinQueue, Return, QueueNext
<1>8. CASE UNCHANGED vars
  BY <1>8 DEF vars
<1> QED
  BY <1>1, <1>2, <1>3, <1>4, <1>5, <1>6, <1>7, <1>8 DEF Next

\* main starts the queue before it serves: the queue's invariant holds then.
LEMMA QueueInvariantInit == Init => IInv
<1> SUFFICES ASSUME Init PROVE IInv
  OBVIOUS
<1> USE DEF Init
<1>1. QueueTypeOK
  <2>1. queue \in Seq(Message) /\ pushed \in Seq(Message)
    BY EmptySeq
  <2>2. handled \in Nat /\ offered \subseteq Message /\ deleted \subseteq Message
    OBVIOUS
  <2> QED
    BY <2>1, <2>2 DEF QueueTypeOK, Places
<1>2. Accounted
  <2>1. Len(pushed) = 0 /\ Len(queue) = 0 /\ InHand = 0
    BY DEF InHand
  <2> QED
    BY <2>1 DEF Accounted
<1>3. Lifecycle /\ QuietAfterStop
  BY DEF Lifecycle, QuietAfterStop
<1> QED
  BY <1>1, <1>2, <1>3 DEF IInv

ProcessInv == IInv /\ TypeOK

LEMMA ProcessInvInit == Init => ProcessInv
<1> SUFFICES ASSUME Init PROVE ProcessInv
  OBVIOUS
<1>1. IInv
  BY QueueInvariantInit
<1>2. TypeOK
  BY <1>1 DEF IInv, Init, TypeOK, Callers, Pool, Main, NoThread
<1> QED
  BY <1>1, <1>2 DEF ProcessInv

\* A wakeup leaves each caller in one of its three states.
LEMMA NotifyTyping ==
  ASSUME asking \in [Callers -> {"no", "asking", "waiting"}], Notify
  PROVE  asking' \in [Callers -> {"no", "asking", "waiting"}]
BY DEF Notify

LEMMA ProcessInvStep == ProcessInv /\ [Next]_vars => ProcessInv'
<1> SUFFICES ASSUME ProcessInv, [Next]_vars PROVE ProcessInv'
  OBVIOUS
<1>0. IInv' /\ QueueTypeOK'
  BY QueueStep, IInvStep DEF ProcessInv, IInv
<1> USE <1>0 DEF ProcessInv, TypeOK, Callers
<1>1. ASSUME NEW c \in Callers, Ask(c) PROVE ProcessInv'
  BY <1>1 DEF Ask, queueVars, processVars
<1>2. ASSUME NEW c \in Callers, SpuriousWakeup(c) PROVE ProcessInv'
  BY <1>2 DEF SpuriousWakeup, queueVars, processVars
<1>3. CASE Accept
  BY <1>3 DEF Accept, queueVars, requestVars
<1>4. ASSUME NEW m \in AddKey \cup SetRankingLength, Post(m) PROVE ProcessInv'
  BY <1>4 DEF Post, Push, requestVars, processVars
<1>5. CASE PostEnqueue
  BY <1>5 DEF PostEnqueue, Enqueue, requestVars, processVars
<1>6. CASE Query
  BY <1>6 DEF Query, queueVars, processVars
<1>7. CASE Restore
  <2>1. asking' \in [Callers -> {"no", "asking", "waiting"}]
    BY <1>7, NotifyTyping DEF Restore
  <2> QED
    BY <1>7, <2>1 DEF Restore, queueVars, processVars
<1>8. CASE Raise
  BY <1>8 DEF Raise, queueVars, requestVars
<1>9. CASE CloseConnection
  BY <1>9 DEF CloseConnection, queueVars, requestVars
<1>10. CASE Consume
  <2>1. writingData' \in {0, 1} /\ asking' \in [Callers -> {"no", "asking", "waiting"}]
    BY <1>10, NotifyTyping DEF Consume, requestVars
  <2>2. stopping' = stopping
    BY <1>10 DEF Consume, Run, While, FindEmpty, Pop, Switch
  <2> QED
    BY <1>10, <2>1, <2>2 DEF Consume, processVars
<1>11. CASE TimerWakes
  BY <1>11 DEF TimerWakes, TimerStep, queueVars
<1>12. CASE TimerCalls
  BY <1>12 DEF TimerCalls, TimerStep, queueVars
<1>13. CASE TimerReturns
  BY <1>13 DEF TimerReturns, TimerStep, queueVars
<1>14. CASE HandleSignal
  BY <1>14 DEF HandleSignal, queueVars, requestVars
<1>15. CASE JoinWorkers
  BY <1>15 DEF JoinWorkers, queueVars, requestVars
<1>16. CASE LeaveRun
  BY <1>16 DEF LeaveRun, queueVars, requestVars
<1>17. CASE StopBackups
  BY <1>17 DEF StopBackups, queueVars, requestVars
<1>18. CASE StopQueue
  BY <1>18 DEF StopQueue, BeginStop, requestVars
<1>19. CASE JoinQueue
  BY <1>19 DEF JoinQueue, Join, requestVars, processVars
<1>20. CASE Return
  BY <1>20 DEF Return, Destroy, requestVars
<1>21. CASE UNCHANGED vars
  BY <1>21 DEF vars, queueVars, requestVars, processVars
<1> QED
  BY <1>1, <1>2, <1>3, <1>4, <1>5, <1>6, <1>7, <1>8, <1>9, <1>10, <1>11, <1>12, <1>13,
     <1>14, <1>15, <1>16, <1>17, <1>18, <1>19, <1>20, <1>21 DEF Next

LEMMA ProcessInvAlways == Spec => []ProcessInv
BY ProcessInvInit, ProcessInvStep, PTL DEF Spec

\* The variables of the process keep their types.
THEOREM TrackerTypeCorrect == Spec => []TypeOK
<1>1. ProcessInv => TypeOK
  BY DEF ProcessInv
<1> QED
  BY <1>1, ProcessInvAlways, PTL

\* The mailbox keeps its promise inside the process, too: no message posted by a
\* connection is lost, overtaken or handled twice before the process ends.
THEOREM ConnectionsLoseNothing == Spec => []NothingLostOrSwapped
<1>1. ProcessInv => NothingLostOrSwapped
  BY AccountedKeepsOrder DEF ProcessInv
<1> QED
  BY <1>1, ProcessInvAlways, PTL

\* Once the backups are stopped and none is under way, none follows.
THEOREM NoBackupAfterStop == Spec => NoBackupOnceStopped
<1>1. /\ ~timerOn /\ timer \in {"sleep", "ended"} /\ [Next]_vars
      => (~timerOn /\ timer \in {"sleep", "ended"})'
  <2> SUFFICES ASSUME ~timerOn, timer \in {"sleep", "ended"}, [Next]_vars
               PROVE  ~timerOn' /\ timer' \in {"sleep", "ended"}
    OBVIOUS
  <2>1. CASE TimerWakes
    BY <2>1 DEF TimerWakes, TimerStep
  <2>2. ~ TimerCalls /\ ~ TimerReturns
    BY DEF TimerCalls, TimerReturns, TimerStep
  <2>3. CASE StopBackups
    BY <2>3 DEF StopBackups
  <2>4. CASE UNCHANGED <<timerOn, timer>>
    BY <2>4
  <2>5. [Next]_vars => TimerWakes \/ TimerCalls \/ TimerReturns \/ StopBackups \/ UNCHANGED <<timerOn, timer>>
    BY DEF Next, vars, processVars, Ask, SpuriousWakeup, Accept, Post, PostEnqueue, Query, Restore,
           Raise, CloseConnection, Consume, HandleSignal, JoinWorkers, LeaveRun, StopQueue,
           JoinQueue, Return
  <2> QED
    BY <2>1, <2>2, <2>3, <2>4, <2>5
<1> QED
  BY <1>1, PTL DEF Spec, NoBackupOnceStopped
============================================================================
