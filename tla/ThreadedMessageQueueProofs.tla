-------------------- MODULE ThreadedMessageQueueProofs --------------------
(***************************************************************************)
(* Theorems about ThreadedMessageQueue for every set of messages: its      *)
(* types, that no message is lost or overtaken between push() and the map  *)
(* manager, that the thread is quiet once stop() has returned, and that    *)
(* the queue implements Mailbox.  The inductive invariant says where each  *)
(* message of the history is, position by position, and ties what main has *)
(* done to what the thread can still do.                                   *)
(***************************************************************************)
EXTENDS ThreadedMessageQueue, SequenceTheorems, TLAPS

\* The message in the thread's hands, as a number.
InHand == IF pm = NoMessage THEN 0 ELSE 1

\* Where the pushed messages are: handled, in hand, in the queue.
Accounted ==
  /\ pm # NoMessage => handled < Len(pushed) /\ pm = pushed[handled + 1]
  /\ stopping # "destroyed" =>
       /\ Len(pushed) = handled + InHand + Len(queue)
       /\ \A i \in 1 .. Len(queue) : queue[i] = pushed[handled + InHand + i]

\* What main and the thread know of each other.
Lifecycle ==
  /\ poper = "switch" <=> pm # NoMessage
  /\ poper = "none" =>
       /\ ~running /\ stopping = "no" /\ pushing = NoMessage
       /\ pushed = <<>> /\ handled = 0
  /\ poper = "ended" => ~running
  /\ stopping # "no" => ~running

IInv == QueueTypeOK /\ Accounted /\ Lifecycle /\ QuietAfterStop

\* Nothing pushed, nothing running: the invariant holds at the start.
LEMMA IInvInit == QueueInit => IInv
<1> SUFFICES ASSUME QueueInit PROVE IInv
  OBVIOUS
<1> USE DEF QueueInit
<1>1. QueueTypeOK
  <2>1. queue \in Seq(Message) /\ pushed \in Seq(Message)
    BY EmptySeq
  <2>2. handled \in Nat /\ offered \subseteq Message /\ deleted \subseteq Message
    OBVIOUS
  <2> QED
    BY <2>1, <2>2 DEF QueueTypeOK, Places
<1>2. Accounted
  <2>1. Len(pushed) = 0 /\ Len(queue) = 0 /\ InHand = 0
    BY DEF InHand
  <2> QED
    BY <2>1 DEF Accounted
<1>3. Lifecycle /\ QuietAfterStop
  BY DEF Lifecycle, QuietAfterStop
<1> QED
  BY <1>1, <1>2, <1>3 DEF IInv

\* Every step of the three threads keeps the invariant.
LEMMA IInvStep == IInv /\ [QueueNext]_queueVars => IInv'
<1> SUFFICES ASSUME IInv, [QueueNext]_queueVars PROVE IInv'
  OBVIOUS
<1> USE MessageAssumption DEF IInv, QueueTypeOK, Accounted, InHand, Lifecycle, QuietAfterStop, Places
<1>1. CASE StartQueue
  BY <1>1 DEF StartQueue
<1>2. ASSUME NEW m \in Message, Push(m) PROVE IInv'
  BY <1>2 DEF Push
<1>3. CASE Enqueue
  <2>1. /\ queue' = Append(queue, pushing) /\ pushed' = Append(pushed, pushing)
        /\ pushing \in Message /\ stopping' = stopping /\ stopping # "destroyed"
        /\ pm' = pm /\ handled' = handled
    BY <1>3 DEF Enqueue
  <2>2. /\ queue' \in Seq(Message) /\ pushed' \in Seq(Message)
        /\ Len(queue') = Len(queue) + 1 /\ Len(pushed') = Len(pushed) + 1
        /\ \A i \in 1 .. Len(queue) : queue'[i] = queue[i]
        /\ \A i \in 1 .. Len(pushed) : pushed'[i] = pushed[i]
        /\ queue'[Len(queue) + 1] = pushing /\ pushed'[Len(pushed) + 1] = pushing
    BY <2>1
  <2>3. Accounted'
    <3>1. /\ InHand' = InHand /\ InHand \in Nat /\ Len(queue) \in Nat /\ Len(pushed) \in Nat
          /\ Len(pushed) = handled + InHand + Len(queue)
          /\ \A i \in 1 .. Len(queue) : queue[i] = pushed[handled + InHand + i]
      BY <2>1
    <3>2. pm' # NoMessage => handled' < Len(pushed') /\ pm' = pushed'[handled' + 1]
      <4>1. pm # NoMessage => handled < Len(pushed) /\ pm = pushed[handled + 1]
                              /\ handled + 1 \in 1 .. Len(pushed)
        BY <3>1
      <4> QED
        BY <2>1, <2>2, <3>1, <4>1
    <3>3. Len(pushed') = handled' + InHand' + Len(queue')
      BY <2>1, <2>2, <3>1
    <3>4. ASSUME NEW i \in 1 .. Len(queue') PROVE queue'[i] = pushed'[handled' + InHand' + i]
      <4>1. CASE i <= Len(queue)
        <5>1. i \in 1 .. Len(queue) /\ handled + InHand + i \in 1 .. Len(pushed)
          BY <3>1, <4>1
        <5> HIDE DEF InHand
        <5> QED
          BY <2>1, <2>2, <3>1, <5>1
      <4>2. CASE i > Len(queue)
        <5>1. i = Len(queue) + 1 /\ handled + InHand + i = Len(pushed) + 1
          BY <2>2, <3>1, <4>2
        <5> HIDE DEF InHand
        <5> QED
          BY <2>1, <2>2, <3>1, <5>1
      <4> QED
        BY <2>2, <3>1, <4>1, <4>2
    <3> QED
      BY <3>2, <3>3, <3>4
  <2>4. QueueTypeOK'
    BY <1>3, <2>2 DEF Enqueue
  <2> QED
    BY <1>3, <2>3, <2>4 DEF Enqueue
<1>4. CASE While
  BY <1>4 DEF While
<1>5. CASE FindEmpty
  BY <1>5 DEF FindEmpty
<1>6. CASE Pop
  <2>1. /\ queue # <<>> /\ pm' = Head(queue) /\ queue' = Tail(queue) /\ pm = NoMessage
        /\ pushed' = pushed /\ handled' = handled /\ stopping' = stopping
    BY <1>6 DEF Pop
  <2>2. /\ Len(queue) >= 1 /\ pm' = queue[1] /\ pm' \in Message
        /\ queue' \in Seq(Message) /\ Len(queue') = Len(queue) - 1
        /\ \A i \in 1 .. Len(queue) - 1 : queue'[i] = queue[i + 1]
    BY <2>1
  <2>3. stopping # "destroyed"
    BY <1>6 DEF Pop
  <2>4. Accounted'
    <3>1. /\ InHand = 0 /\ InHand' = 1 /\ Len(queue) \in Nat /\ Len(pushed) \in Nat
          /\ Len(pushed) = handled + Len(queue)
          /\ \A i \in 1 .. Len(queue) : queue[i] = pushed[handled + i]
      BY <2>1, <2>2, <2>3
    <3>2. handled' < Len(pushed') /\ pm' = pushed'[handled' + 1]
      BY <2>1, <2>2, <3>1
    <3>3. Len(pushed') = handled' + InHand' + Len(queue')
      BY <2>1, <2>2, <3>1
    <3>4. ASSUME NEW i \in 1 .. Len(queue') PROVE queue'[i] = pushed'[handled' + InHand' + i]
      <4>1. i \in 1 .. Len(queue) - 1 /\ i + 1 \in 1 .. Len(queue)
        BY <2>2, <3>1
      <4>2. handled + (i + 1) = handled' + InHand' + i
        BY <2>1, <3>1, <4>1
      <4> HIDE DEF InHand
      <4> QED
        BY <2>1, <2>2, <3>1, <4>1, <4>2
    <3> QED
      BY <3>2, <3>3, <3>4
  <2> QED
    BY <1>6, <2>2, <2>4 DEF Pop
<1>7. CASE Switch
  BY <1>7 DEF Switch
<1>8. CASE BeginStop
  BY <1>8 DEF BeginStop
<1>9. CASE Join
  BY <1>9 DEF Join
<1>10. CASE Destroy
  <2>1. deleted' \subseteq Message
    BY <1>10 DEF Destroy
  <2> QED
    BY <1>10, <2>1 DEF Destroy
<1>11. CASE UNCHANGED queueVars
  BY <1>11 DEF queueVars
<1> QED
  BY <1>1, <1>2, <1>3, <1>4, <1>5, <1>6, <1>7, <1>8, <1>9, <1>10, <1>11 DEF QueueNext, Run

\* The invariant holds in every behaviour.
LEMMA IInvAlways == QueueSpec => []IInv
BY IInvInit, IInvStep, PTL DEF QueueSpec

\* The variables of the queue keep their types.
THEOREM QueueTypeCorrect == QueueSpec => []QueueTypeOK
<1>1. IInv => QueueTypeOK
  BY DEF IInv
<1> QED
  BY <1>1, IInvAlways, PTL

\* Once stop() has returned, the thread has ended with nothing in its hands, so
\* nobody calls the map manager from the queue while main destroys it.
THEOREM QuietOnceStopped == QueueSpec => []QuietAfterStop
<1>1. IInv => QuietAfterStop
  BY DEF IInv
<1> QED
  BY <1>1, IInvAlways, PTL

\* Position by position, the invariant says that nothing is lost or overtaken.
LEMMA AccountedKeepsOrder == IInv => NothingLostOrSwapped
<1> SUFFICES ASSUME IInv, stopping # "destroyed"
             PROVE  SubSeq(pushed, handled + 1, Len(pushed)) =
                      (IF pm = NoMessage THEN <<>> ELSE <<pm>>) \o queue
  BY DEF NothingLostOrSwapped
<1> USE DEF IInv, QueueTypeOK, Accounted, InHand
<1> DEFINE hand == IF pm = NoMessage THEN <<>> ELSE <<pm>>
           rest == SubSeq(pushed, handled + 1, Len(pushed))
           both == hand \o queue
<1>1. /\ hand \in Seq(Message) /\ Len(hand) = InHand
      /\ \A i \in 1 .. Len(hand) : hand[i] = pushed[handled + i]
  <2>1. CASE pm = NoMessage
    BY <2>1
  <2>2. CASE pm # NoMessage
    <3>1. pm \in Message /\ hand = <<pm>> /\ Len(hand) = 1 /\ hand[1] = pm
      BY <2>2
    <3> QED
      BY <2>2, <3>1
  <2> QED
    BY <2>1, <2>2
<1>2. /\ rest \in Seq(Message) /\ Len(rest) = Len(pushed) - handled
      /\ \A i \in 1 .. Len(pushed) - handled : rest[i] = pushed[handled + i]
  BY InHand \in Nat, Len(queue) \in Nat, Len(pushed) \in Nat
<1>3. /\ both \in Seq(Message) /\ Len(both) = InHand + Len(queue)
      /\ \A i \in 1 .. Len(hand) : both[i] = hand[i]
      /\ \A i \in 1 .. Len(queue) : both[Len(hand) + i] = queue[i]
  BY <1>1
<1> HIDE DEF hand, rest, both
<1>4. /\ Len(rest) = Len(both)
      /\ \A i \in 1 .. Len(rest) : rest[i] = both[i]
  <2>1. Len(rest) = Len(both)
    BY <1>2, <1>3
  <2>2. ASSUME NEW i \in 1 .. Len(rest) PROVE rest[i] = both[i]
    <3>1. CASE i <= Len(hand)
      BY <1>1, <1>2, <1>3, <2>2, <3>1
    <3>2. CASE i > Len(hand)
      <4>1. i - Len(hand) \in 1 .. Len(queue) /\ Len(hand) + (i - Len(hand)) = i
        BY <1>1, <1>2, <2>2, <3>2
      <4>2. both[i] = queue[i - Len(hand)]
        BY <1>3, <4>1
      <4>3. queue[i - Len(hand)] = pushed[handled + InHand + (i - Len(hand))]
        BY <4>1
      <4>4. handled + InHand + (i - Len(hand)) = handled + i
        BY <1>1, <4>1
      <4> QED
        BY <1>2, <2>2, <4>2, <4>3, <4>4
    <3> QED
      BY <1>1, <1>2, <2>2, <3>1, <3>2
  <2> QED
    BY <2>1, <2>2
<1>5. rest = both
  BY <1>2, <1>3, <1>4, SeqEqual
<1> QED
  BY <1>5 DEF rest, both, hand

\* The queue and the message in hand are always the pushed messages not yet
\* handled, in the order of the pushes.
THEOREM NothingIsLostOrSwapped == QueueSpec => []NothingLostOrSwapped
BY AccountedKeepsOrder, IInvAlways, PTL

---------------------------------------------------------------------------
\* Who owns each message: push() is given a message once, so the history holds it
\* once; what is deleted was handled before, until the destructor takes the rest.
Owned ==
  /\ handled <= Len(pushed)
  /\ \A i \in 1 .. Len(pushed) : pushed[i] \in offered
  /\ \A i, j \in 1 .. Len(pushed) : pushed[i] = pushed[j] => i = j
  /\ pushing # NoMessage =>
       pushing \in offered /\ \A i \in 1 .. Len(pushed) : pushed[i] # pushing
  /\ \A i \in 1 .. handled : pushed[i] \in deleted \cup StopMessage \cup OtherMessage
  /\ stopping # "destroyed" => \A d \in deleted : \E i \in 1 .. handled : pushed[i] = d
  /\ stopping = "destroyed" =>
       /\ queue = <<>>
       /\ \A i \in 1 .. Len(pushed) : pushed[i] \in deleted \cup StopMessage \cup OtherMessage

\* Every step of the three threads keeps the ownership in order.
LEMMA OwnedStep == IInv /\ Owned /\ [QueueNext]_queueVars => Owned'
<1> SUFFICES ASSUME IInv, Owned, [QueueNext]_queueVars PROVE Owned'
  OBVIOUS
<1>0. /\ queue \in Seq(Message) /\ pushed \in Seq(Message) /\ handled \in Nat
      /\ Len(pushed) \in Nat /\ Len(queue) \in Nat /\ deleted \subseteq Message
      /\ pushing \in Message \cup {NoMessage} /\ pm \in Message \cup {NoMessage}
  BY DEF IInv, QueueTypeOK
<1> USE MessageAssumption DEF Owned
<1>1. CASE StartQueue
  BY <1>1 DEF StartQueue
<1>2. ASSUME NEW m \in Message, Push(m) PROVE Owned'
  BY <1>0, <1>2 DEF Push
<1>3. CASE Enqueue
  <2>1. /\ pushed' = Append(pushed, pushing) /\ pushing \in Message /\ pushing' = NoMessage
        /\ stopping # "destroyed" /\ UNCHANGED <<handled, offered, deleted, stopping>>
    BY <1>0, <1>3 DEF Enqueue
  <2>2. /\ Len(pushed') = Len(pushed) + 1 /\ pushed'[Len(pushed) + 1] = pushing
        /\ \A i \in 1 .. Len(pushed) : pushed'[i] = pushed[i]
    BY <1>0, <2>1
  <2>3. \A i \in 1 .. handled : pushed'[i] = pushed[i]
    BY <1>0, <2>2
  <2>4. \A i \in 1 .. Len(pushed') : i \in 1 .. Len(pushed) \/ i = Len(pushed) + 1
    BY <1>0, <2>2
  <2>5. \A i, j \in 1 .. Len(pushed') : pushed'[i] = pushed'[j] => i = j
    BY <2>1, <2>2, <2>4
  <2>6. \A i \in 1 .. Len(pushed') : pushed'[i] \in offered'
    BY <2>1, <2>2, <2>4
  <2>7. handled' <= Len(pushed')
    BY <1>0, <2>1, <2>2
  <2>8. /\ \A i \in 1 .. handled : pushed'[i] \in deleted \cup StopMessage \cup OtherMessage
        /\ \A d \in deleted : \E i \in 1 .. handled : pushed'[i] = d
    BY <2>1, <2>3
  <2> QED
    BY <2>1, <2>5, <2>6, <2>7, <2>8
<1>4. CASE While
  BY <1>4 DEF While
<1>5. CASE FindEmpty
  BY <1>5 DEF FindEmpty
<1>6. CASE Pop
  <2>1. stopping # "destroyed"
    BY <1>6 DEF Pop, IInv, QuietAfterStop
  <2> QED
    BY <1>6, <2>1 DEF Pop
<1>7. CASE Switch
  <2>1. /\ handled < Len(pushed) /\ pm = pushed[handled + 1] /\ pm \in Message
        /\ stopping # "destroyed"
    BY <1>0, <1>7 DEF Switch, IInv, Accounted, Lifecycle, QuietAfterStop
  <2>2. /\ handled' = handled + 1 /\ UNCHANGED <<pushed, pushing, offered, stopping>>
        /\ deleted' = IF pm \in AddKey \cup SetRankingLength THEN deleted \cup {pm} ELSE deleted
    BY <1>7 DEF Switch
  <2>3. \A i \in 1 .. handled' : i \in 1 .. handled \/ i = handled + 1
    BY <1>0, <2>2
  <2>4. \A i \in 1 .. handled' : pushed'[i] \in deleted' \cup StopMessage \cup OtherMessage
    BY <2>1, <2>2, <2>3 DEF Message
  <2>5. ASSUME NEW d \in deleted' PROVE \E i \in 1 .. handled' : pushed'[i] = d
    <3>1. CASE d \in deleted
      BY <1>0, <2>1, <2>2, <3>1
    <3>2. CASE d = pm
      <4>1. handled + 1 \in 1 .. handled' /\ pushed'[handled + 1] = d
        BY <1>0, <2>1, <2>2, <3>2
      <4> QED
        BY <4>1
    <3> QED
      BY <2>2, <3>1, <3>2
  <2>6. handled' <= Len(pushed')
    BY <1>0, <2>1, <2>2
  <2> QED
    BY <2>1, <2>2, <2>4, <2>5, <2>6
<1>8. CASE BeginStop
  BY <1>8 DEF BeginStop
<1>9. CASE Join
  BY <1>9 DEF Join
<1>10. CASE Destroy
  \* The thread has ended with empty hands: what is not handled is in the queue.
  <2>1. /\ stopping # "destroyed" /\ pm = NoMessage
        /\ deleted' = deleted \cup {queue[i] : i \in DOMAIN queue} /\ queue' = <<>>
        /\ stopping' = "destroyed" /\ UNCHANGED <<pushed, handled, offered, pushing>>
    BY <1>10 DEF Destroy, IInv, QuietAfterStop
  <2>2. /\ Len(pushed) = handled + Len(queue)
        /\ \A i \in 1 .. Len(queue) : queue[i] = pushed[handled + i]
    BY <1>0, <2>1 DEF IInv, Accounted, InHand
  <2>3. ASSUME NEW i \in 1 .. Len(pushed), i > handled PROVE pushed[i] \in deleted'
    <3>1. i - handled \in 1 .. Len(queue) /\ handled + (i - handled) = i
      BY <1>0, <2>2, <2>3
    <3>2. queue[i - handled] = pushed[handled + (i - handled)]
      BY <2>2, <3>1
    <3>3. i - handled \in DOMAIN queue
      BY <1>0, <3>1
    <3> QED
      BY <2>1, <3>1, <3>2, <3>3
  <2>4. \A i \in 1 .. Len(pushed) : i > handled \/ i \in 1 .. handled
    BY <1>0
  <2>5. \A i \in 1 .. Len(pushed) : pushed[i] \in deleted' \cup StopMessage \cup OtherMessage
    BY <2>1, <2>3, <2>4
  <2>6. \A i \in 1 .. handled : pushed[i] \in deleted' \cup StopMessage \cup OtherMessage
    BY <2>1
  <2> QED
    BY <2>1, <2>5, <2>6
<1>11. CASE UNCHANGED queueVars
  BY <1>11 DEF queueVars
<1> QED
  BY <1>1, <1>2, <1>3, <1>4, <1>5, <1>6, <1>7, <1>8, <1>9, <1>10, <1>11 DEF QueueNext, Run

\* What is in the queue or in hand stands behind the handled messages in the
\* history, so it is none of those, and only those were deleted.
LEMMA OwnedIsOnce == IInv /\ Owned => EveryMessageDeletedOnce
<1> SUFFICES ASSUME IInv, Owned PROVE EveryMessageDeletedOnce
  OBVIOUS
<1> USE MessageAssumption
<1>0. /\ queue \in Seq(Message) /\ pushed \in Seq(Message) /\ handled \in Nat
      /\ Len(pushed) \in Nat /\ Len(queue) \in Nat /\ deleted \subseteq Message
      /\ DOMAIN queue = 1 .. Len(queue)
  BY DEF IInv, QueueTypeOK
<1>1. \A i \in 1 .. Len(pushed) : i > handled /\ stopping # "destroyed" => pushed[i] \notin deleted
  BY <1>0 DEF Owned
<1>2. ASSUME NEW i \in DOMAIN queue PROVE queue[i] \notin deleted
  <2>1. stopping # "destroyed"
    BY <1>0, <1>2 DEF Owned
  <2>2. handled + InHand + i \in 1 .. Len(pushed) /\ handled + InHand + i > handled
        /\ queue[i] = pushed[handled + InHand + i]
    BY <1>0, <2>1 DEF IInv, Accounted, InHand
  <2> QED
    BY <1>1, <2>1, <2>2
<1>3. pm \notin deleted
  <2>1. CASE pm = NoMessage
    BY <1>0, <2>1
  <2>2. CASE pm # NoMessage
    <3>1. /\ stopping # "destroyed" /\ pm = pushed[handled + 1] /\ handled < Len(pushed)
      BY <2>2 DEF IInv, Accounted, QuietAfterStop
    <3>2. handled + 1 \in 1 .. Len(pushed) /\ handled + 1 > handled
      BY <1>0, <3>1
    <3> QED
      BY <1>1, <3>1, <3>2
  <2> QED
    BY <2>1, <2>2
<1>4. stopping = "destroyed" =>
        \A i \in 1 .. Len(pushed) : pushed[i] \in deleted \cup StopMessage \cup OtherMessage
  BY DEF Owned
<1> QED
  BY <1>2, <1>3, <1>4 DEF EveryMessageDeletedOnce

\* No message is deleted while the queue or the thread still refers to it, and
\* none that reached the queue is left behind, but for the commands run() drops.
THEOREM EveryMessageIsDeletedOnce == QueueSpec => []EveryMessageDeletedOnce
<1>1. QueueInit => Owned
  BY MessageAssumption DEF QueueInit, Owned
<1> QED
  BY <1>1, IInvAlways, OwnedStep, OwnedIsOnce, PTL DEF QueueSpec

---------------------------------------------------------------------------
\* The queue implements the mailbox: in order, at most once, and at most one
\* message more after stop() was called.
THEOREM ImplementsMailbox == QueueSpec => MailboxSpec
<1> DEFINE state == IF poper = "none" THEN "new"
                    ELSE IF running THEN "open"
                    ELSE IF poper \in {"pop", "switch"} THEN "closing" ELSE "closed"
<1>1. QueueInit => Box!Init
  BY DEF QueueInit, Box!Init
<1>2. IInv /\ [QueueNext]_queueVars => [Box!Next]_(Box!vars)
  <2> SUFFICES ASSUME IInv, [QueueNext]_queueVars PROVE [Box!Next]_(Box!vars)
    OBVIOUS
  <2> USE DEF IInv, Lifecycle, Box!vars
  <2>1. CASE StartQueue
    BY <2>1 DEF StartQueue, Box!Next, Box!Open
  <2>2. ASSUME NEW m \in Message, Push(m) PROVE [Box!Next]_(Box!vars)
    BY <2>2 DEF Push
  <2>3. CASE Enqueue
    <3>1. pushing \in Message /\ Box!Send(pushing)
      BY <2>3, MessageAssumption DEF Enqueue, Box!Send, QueueTypeOK
    <3> QED
      BY <3>1 DEF Box!Next
  <2>4. CASE While
    BY <2>4 DEF While
  <2>5. CASE FindEmpty
    BY <2>5 DEF FindEmpty, Box!Next, Box!Close
  <2>6. CASE Pop
    BY <2>6 DEF Pop
  <2>7. CASE Switch
    <3>1. handled < Len(pushed)
      BY <2>7 DEF Switch, Accounted
    <3>2. Box!Take
      BY <2>7, <3>1 DEF Switch, Box!Take
    <3> QED
      BY <3>2 DEF Box!Next
  <2>8. CASE BeginStop
    BY <2>8 DEF BeginStop, Box!Next, Box!Close, QueueTypeOK, Places
  <2>9. CASE Join
    BY <2>9 DEF Join
  <2>10. CASE Destroy
    BY <2>10 DEF Destroy
  <2>11. CASE UNCHANGED queueVars
    BY <2>11 DEF queueVars
  <2> QED
    BY <2>1, <2>2, <2>3, <2>4, <2>5, <2>6, <2>7, <2>8, <2>9, <2>10, <2>11 DEF QueueNext, Run
<1> QED
  BY <1>1, <1>2, IInvAlways, PTL DEF QueueSpec, MailboxSpec, Box!Spec
============================================================================
