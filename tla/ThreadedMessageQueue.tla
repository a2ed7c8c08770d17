----------------------- MODULE ThreadedMessageQueue -----------------------
(***************************************************************************)
(* ThreadedMessageQueue: a queue of pointers to messages and the thread    *)
(* that pops them and calls the map manager.  The queue itself is the      *)
(* lock-free queue of boost, taken as an atomic FIFO; m_running, a plain   *)
(* bool two threads use without synchronisation, is read and written in    *)
(* steps of their own, so that a push and a stop, and a stop and the loop  *)
(* of the thread, interleave at every point.                               *)
(*                                                                         *)
(* Abstraction: a message is a value, its command the set it belongs to.   *)
(***************************************************************************)
EXTENDS Naturals, Sequences, FiniteSets

CONSTANTS
  AddKey,            \* the messages of each command
  SetRankingLength,
  StopMessage,
  OtherMessage,      \* notDefined, getKeyRanking, isHotKey: no case of run()
  NoMessage          \* a null pointer

Message == AddKey \cup SetRankingLength \cup StopMessage \cup OtherMessage

ASSUME MessageAssumption == NoMessage \notin Message

VARIABLES
  queue,      \* the lock-free queue
  running,    \* m_running
  poper,      \* where the thread m_poper is: see Places
  pm,         \* the message it has popped
  pushing,    \* the message a push() has found m_running for
  stopping,   \* how far the owner is: "no", "join", "joined", "destroyed"
  pushed,     \* history: the messages that reached the queue, in order
  handled,    \* history: how many of them the thread is done with
  offered,    \* history: the messages given to push()
  deleted     \* history: the messages that were deleted

queueVars == <<queue, running, poper, pm, pushing, stopping, pushed, handled, offered, deleted>>

Places == {"none", "while", "pop", "switch", "ended"}

QueueInit ==
  /\ queue = <<>> /\ running = FALSE /\ poper = "none" /\ pm = NoMessage
  /\ pushing = NoMessage /\ stopping = "no"
  /\ pushed = <<>> /\ handled = 0 /\ offered = {} /\ deleted = {}

\* start(): the consumer is set, so the thread is created.
StartQueue ==
  /\ poper = "none"
  /\ running' = TRUE /\ poper' = "while"
  /\ UNCHANGED <<queue, pm, pushing, stopping, pushed, handled, offered, deleted>>

---------------------------------------------------------------------------
(* push(), called by the connection thread.  There is no queue to push to  *)
(* once it is destroyed; whether that happens is a matter for Tracker.     *)

\* m_running is looked at; a message that comes too late is dropped silently.
Push(m) ==
  /\ pushing = NoMessage /\ m \notin offered /\ stopping # "destroyed"
  /\ offered' = offered \cup {m}
  /\ pushing' = IF running THEN m ELSE NoMessage
  /\ UNCHANGED <<queue, running, poper, pm, stopping, pushed, handled, deleted>>

\* Mutants of Enqueue: a null pointer is pushed, or it is pushed at the wrong end.
EnqueueNull ==
  /\ pushing # NoMessage /\ stopping # "destroyed"
  /\ pushing' = NoMessage
  /\ queue' = Append(queue, pushing')
  /\ pushed' = Append(pushed, pushing')
  /\ UNCHANGED <<running, poper, pm, stopping, handled, offered, deleted>>
EnqueueInFront ==
  /\ pushing # NoMessage /\ stopping # "destroyed"
  /\ queue' = <<pushing>> \o queue
  /\ pushed' = Append(pushed, pushing)
  /\ pushing' = NoMessage
  /\ UNCHANGED <<running, poper, pm, stopping, handled, offered, deleted>>

Enqueue ==
  /\ pushing # NoMessage /\ stopping # "destroyed"
  /\ queue' = Append(queue, pushing)
  /\ pushed' = Append(pushed, pushing)
  /\ pushing' = NoMessage
  /\ UNCHANGED <<running, poper, pm, stopping, handled, offered, deleted>>

---------------------------------------------------------------------------
(* run(), the thread.                                                      *)

While ==
  /\ poper = "while"
  /\ poper' = IF running THEN "pop" ELSE "ended"
  /\ UNCHANGED <<queue, running, pm, pushing, stopping, pushed, handled, offered, deleted>>

\* Mutant of FindEmpty: the thread ends when there is nothing to do.
FindEmptyEnds ==
  /\ poper = "pop" /\ queue = <<>>
  /\ poper' = "ended"
  /\ UNCHANGED <<queue, running, pm, pushing, stopping, pushed, handled, offered, deleted>>

\* An empty queue: sleep and look at m_running again.
FindEmpty ==
  /\ poper = "pop" /\ queue = <<>>
  /\ poper' = "while"
  /\ UNCHANGED <<queue, running, pm, pushing, stopping, pushed, handled, offered, deleted>>

\* Only this thread pops while it runs, so empty() and pop() agree.
Pop ==
  /\ poper = "pop" /\ queue # <<>>
  /\ pm' = Head(queue) /\ queue' = Tail(queue)
  /\ poper' = "switch"
  /\ UNCHANGED <<running, pushing, stopping, pushed, handled, offered, deleted>>

\* Mutants of Switch: the next message is popped without a look at m_running, or
\* a key's message is not deleted.
SwitchAndPop ==
  /\ poper = "switch"
  /\ handled' = handled + 1
  /\ deleted' = IF pm \in AddKey \cup SetRankingLength THEN deleted \cup {pm} ELSE deleted
  /\ running' = (running /\ pm \notin StopMessage)
  /\ pm' = NoMessage /\ poper' = "pop"
  /\ UNCHANGED <<queue, pushing, stopping, pushed, offered>>
SwitchLeaks ==
  /\ poper = "switch"
  /\ handled' = handled + 1
  /\ deleted' = IF pm \in SetRankingLength THEN deleted \cup {pm} ELSE deleted
  /\ running' = (running /\ pm \notin StopMessage)
  /\ pm' = NoMessage /\ poper' = "while"
  /\ UNCHANGED <<queue, pushing, stopping, pushed, offered>>

\* A key or a length goes to the map manager and is deleted; a stop message
\* ends the loop; it and the others are never deleted.
Switch ==
  /\ poper = "switch"
  /\ handled' = handled + 1
  /\ deleted' = IF pm \in AddKey \cup SetRankingLength THEN deleted \cup {pm} ELSE deleted
  /\ running' = (running /\ pm \notin StopMessage)
  /\ pm' = NoMessage /\ poper' = "while"
  /\ UNCHANGED <<queue, pushing, stopping, pushed, offered>>

---------------------------------------------------------------------------
(* stop() and the destructor, called by main.                              *)

\* Mutant of BeginStop: m_running is left alone.
BeginStopOnlyJoins ==
  /\ stopping = "no" /\ poper # "none"
  /\ stopping' = "join"
  /\ UNCHANGED <<queue, running, poper, pm, pushing, pushed, handled, offered, deleted>>

BeginStop ==
  /\ stopping = "no" /\ poper # "none"
  /\ running' = FALSE /\ stopping' = "join"
  /\ UNCHANGED <<queue, poper, pm, pushing, pushed, handled, offered, deleted>>

\* Mutant of Join: the thread is not waited for.
JoinAtOnce ==
  /\ stopping = "join" /\ stopping' = "joined"
  /\ UNCHANGED <<queue, running, poper, pm, pushing, pushed, handled, offered, deleted>>

Join ==
  /\ stopping = "join" /\ poper = "ended"
  /\ stopping' = "joined"
  /\ UNCHANGED <<queue, running, poper, pm, pushing, pushed, handled, offered, deleted>>

\* What is still in the queue is deleted unseen.
Destroy ==
  /\ stopping = "joined"
  /\ stopping' = "destroyed"
  /\ deleted' = deleted \cup {queue[i] : i \in DOMAIN queue}
  /\ queue' = <<>>
  /\ UNCHANGED <<running, poper, pm, pushing, pushed, handled, offered>>

Run == While \/ FindEmpty \/ Pop \/ Switch

QueueNext ==
  \/ StartQueue \/ (\E m \in Message : Push(m)) \/ Enqueue
  \/ Run
  \/ BeginStop \/ Join \/ Destroy

\* The operating system runs the thread, a push() that was begun and main.
QueueSpec ==
  /\ QueueInit /\ [][QueueNext]_queueVars
  /\ WF_queueVars(StartQueue) /\ WF_queueVars(Enqueue) /\ WF_queueVars(Run)
  /\ WF_queueVars(Join) /\ WF_queueVars(Destroy)

---------------------------------------------------------------------------
QueueTypeOK ==
  /\ queue \in Seq(Message) /\ pushed \in Seq(Message)
  /\ running \in BOOLEAN /\ poper \in Places
  /\ pm \in Message \cup {NoMessage} /\ pushing \in Message \cup {NoMessage}
  /\ stopping \in {"no", "join", "joined", "destroyed"}
  /\ handled \in Nat /\ offered \subseteq Message /\ deleted \subseteq Message

\* The queue holds what was pushed and not yet handled, in the order of the
\* pushes, the message in the thread's hands in front: no message is handled
\* twice, overtaken or lost, until the destructor empties the queue.
NothingLostOrSwapped ==
  stopping # "destroyed" =>
    SubSeq(pushed, handled + 1, Len(pushed)) =
      (IF pm = NoMessage THEN <<>> ELSE <<pm>>) \o queue

\* No message is deleted while the queue still points to it, and once the queue
\* is destroyed every message that reached it has been deleted, but for the
\* commands that run() only takes off the queue.
EveryMessageDeletedOnce ==
  /\ \A i \in DOMAIN queue : queue[i] \notin deleted
  /\ pm \notin deleted
  /\ stopping = "destroyed" =>
       \A i \in 1 .. Len(pushed) :
         pushed[i] \in deleted \cup StopMessage \cup OtherMessage

\* Once stop() has returned the thread does not touch the map manager again.
QuietAfterStop == stopping \in {"joined", "destroyed"} => poper = "ended" /\ pm = NoMessage

\* Every message that reaches the queue is handled, unless the queue is stopped.
HandledUnlessStopped ==
  \A i \in 1 .. Cardinality(Message) :
    Len(pushed) >= i ~> handled >= i \/ ~running

\* stop() returns, whatever is pushed or handled meanwhile.
StopReturns == stopping = "join" ~> stopping # "join"

\* The queue is a mailbox: after stop() sets m_running at most the message the
\* thread is about to pop, or has popped, is still handled.
Box == INSTANCE Mailbox WITH
  sent <- pushed,
  taken <- handled,
  state <- IF poper = "none" THEN "new"
           ELSE IF running THEN "open"
           ELSE IF poper \in {"pop", "switch"} THEN "closing" ELSE "closed"
MailboxSpec == Box!Spec
============================================================================
