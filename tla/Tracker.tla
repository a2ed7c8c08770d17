------------------------------ MODULE Tracker ------------------------------
(***************************************************************************)
(* The tracker process as threads: main, the threads of the io_context     *)
(* (main is one of them while it serves), the consumer thread of the       *)
(* message queue and the timer thread of the backups.  A connection is     *)
(* served synchronously inside the accept handler, on the one thread that  *)
(* happened to run it; the acceptor is armed again when it is closed, so   *)
(* there is one connection at a time.  Queries and backups wait on the     *)
(* condition variable of the map manager; a signal handler stops the       *)
(* io_context and joins its threads, then main stops the rest and returns. *)
(*                                                                         *)
(* Abstraction: of the maps only m_writingData is kept (MapManager has the *)
(* rest), of a backup only its wait for the mutex and the condition        *)
(* (BackupManager has the rest), of a request what it does to threads.     *)
(***************************************************************************)
EXTENDS ThreadedMessageQueue

CONSTANTS
  Worker,      \* the threads of m_threads; {} when threadQty is 1
  Faults       \* TRUE: reading a backup file may fail

Main == "main"
Pool == Worker \cup {Main}
NoThread == "no thread"

ASSUME WorkerAssumption == Main \notin Worker /\ NoThread \notin Worker

VARIABLES
  writingData,  \* m_writingData, seen with the mutex free
  asking,       \* per caller of isHotKey, getTopHotkeys or backupRequest:
                \* "no", "asking" (for the mutex), "waiting" (for m_mapCondition)
  server,       \* the thread that serves the open connection, or NoThread
  signal,       \* "none", "raised", "taken"
  stopper,      \* the thread in the signal handler, or NoThread
  stopped,      \* the io_context is stopped
  main,         \* "serve", "stopBackups", "stopQueue", "join", "returned"
  timerOn,      \* m_running of the Timer
  timer         \* its thread: "sleep", "call" (about to), "backup", "ended"

requestVars == <<writingData, asking>>
processVars == <<server, signal, stopper, stopped, main, timerOn, timer>>
vars == <<queueVars, requestVars, processVars>>

Callers == {"connection", "timer"}

\* main has started the queue and the backups and runs the io_context.
Init ==
  /\ queue = <<>> /\ running = TRUE /\ poper = "while" /\ pm = NoMessage
  /\ pushing = NoMessage /\ stopping = "no"
  /\ pushed = <<>> /\ handled = 0 /\ offered = {} /\ deleted = {}
  /\ writingData = 0 /\ asking = [c \in Callers |-> "no"]
  /\ server = NoThread /\ signal = "none" /\ stopper = NoThread
  /\ stopped = FALSE /\ main = "serve" /\ timerOn = TRUE /\ timer = "sleep"

\* Every thread ends with the process, and the process when main returns.
Alive == main # "returned"

---------------------------------------------------------------------------
(* The condition variable.                                                 *)

\* Mutant of Notify: nobody is woken.
NotifyNobody == UNCHANGED asking

\* notify_one: one waiting thread, any one, will ask for the mutex again.
Notify ==
  LET waiting == {c \in Callers : asking[c] = "waiting"}
  IN  IF waiting = {} THEN UNCHANGED asking
      ELSE \E c \in waiting : asking' = [asking EXCEPT ![c] = "asking"]

\* The mutex is taken and the condition looked at: done, or wait.
Ask(c) ==
  /\ Alive /\ asking[c] = "asking"
  /\ asking' = [asking EXCEPT ![c] = IF writingData = 0 THEN "no" ELSE "waiting"]
  /\ UNCHANGED <<queueVars, writingData, processVars>>

\* A condition variable may wake a thread for no reason.
SpuriousWakeup(c) ==
  /\ Alive /\ asking[c] = "waiting"
  /\ asking' = [asking EXCEPT ![c] = "asking"]
  /\ UNCHANGED <<queueVars, writingData, processVars>>

---------------------------------------------------------------------------
(* The connection thread.                                                  *)

Idle(t) == t # server /\ t # stopper /\ (t = Main => main = "serve")

\* An idle thread runs the accept handler.
Accept ==
  /\ Alive /\ server = NoThread /\ ~stopped
  /\ \E t \in Pool : Idle(t) /\ server' = t
  /\ UNCHANGED <<queueVars, requestVars, signal, stopper, stopped, main, timerOn, timer>>

\* The connection waits for the next request: no request is being answered.
Reading == server # NoThread /\ asking["connection"] = "no" /\ pushing = NoMessage

\* /keySent and /setTopHotKeys: push the message (two steps of the queue).
Post(m) == Alive /\ Reading /\ Push(m) /\ UNCHANGED <<requestVars, processVars>>
PostEnqueue == Alive /\ Enqueue /\ UNCHANGED <<requestVars, processVars>>

\* /isHotKey and /getTopHotKeys.  (/totalKeys and /time change nothing.)
Query ==
  /\ Alive /\ Reading
  /\ asking' = [asking EXCEPT !["connection"] = "asking"]
  /\ UNCHANGED <<queueVars, writingData, processVars>>

\* /restore: with the mutex held m_writingData is set and, when all is read,
\* reset; a read error returns before that, and notifies nobody.
Restore ==
  /\ Alive /\ Reading
  /\ \/ writingData' = 0 /\ Notify
     \/ Faults /\ writingData' = 1 /\ UNCHANGED asking
  /\ UNCHANGED <<queueVars, processVars>>

\* /shutdown, /restart, or a signal from outside.
Raise ==
  /\ Alive /\ signal = "none" /\ signal' = "raised"
  /\ UNCHANGED <<queueVars, requestVars, server, stopper, stopped, main, timerOn, timer>>

\* The client closes: the handler arms the acceptor again and returns.
CloseConnection ==
  /\ Alive /\ Reading /\ server' = NoThread
  /\ UNCHANGED <<queueVars, requestVars, signal, stopper, stopped, main, timerOn, timer>>

---------------------------------------------------------------------------
(* The consumer thread and the timer thread.                               *)

\* The two operations of the map manager a message leads to: a submission ends
\* any write and notifies, a new length only ends the write.
Consume ==
  /\ Alive /\ Run
  /\ IF poper = "switch" /\ pm \in AddKey
     THEN writingData' = 0 /\ Notify
     ELSE IF poper = "switch" /\ pm \in SetRankingLength
     THEN writingData' = 0 /\ UNCHANGED asking
     ELSE UNCHANGED requestVars
  /\ UNCHANGED processVars

TimerStep(from, to) ==
  /\ Alive /\ timer = from /\ timer' = to
  /\ UNCHANGED <<queueVars, writingData, server, signal, stopper, stopped, main>>

\* Mutant of TimerWakes: m_running is only looked at after a backup.
TimerAlwaysCalls == TimerStep("sleep", "call") /\ UNCHANGED <<asking, timerOn>>

\* An hour has passed: the thread looks at m_running.
TimerWakes ==
  IF timerOn THEN TimerStep("sleep", "call") /\ UNCHANGED <<asking, timerOn>>
  ELSE TimerStep("sleep", "ended") /\ UNCHANGED <<asking, timerOn>>

\* The function: the backup asks for the mutex.
TimerCalls ==
  TimerStep("call", "backup") /\ asking' = [asking EXCEPT !["timer"] = "asking"] /\ UNCHANGED timerOn

\* It returns, and m_running is looked at again; behind the loop it is cleared.
TimerReturns ==
  /\ asking["timer"] = "no" /\ UNCHANGED asking
  /\ IF timerOn THEN TimerStep("backup", "sleep") /\ UNCHANGED timerOn
     ELSE TimerStep("backup", "ended") /\ timerOn' = FALSE

---------------------------------------------------------------------------
(* The end of the process.                                                 *)

\* Mutant of HandleSignal: the handler waits for the workers, the io_context goes on.
HandlerOnlyJoins ==
  /\ Alive /\ signal = "raised" /\ ~stopped
  /\ signal' = "taken"
  /\ \E t \in Pool : Idle(t) /\ stopper' = t
  /\ UNCHANGED <<queueVars, requestVars, server, stopped, main, timerOn, timer>>

\* An idle thread of the io_context runs the signal handler, which stops the
\* io_context and joins the workers.
HandleSignal ==
  /\ Alive /\ signal = "raised" /\ ~stopped
  /\ signal' = "taken" /\ stopped' = TRUE
  /\ \E t \in Pool : Idle(t) /\ stopper' = t
  /\ UNCHANGED <<queueVars, requestVars, server, main, timerOn, timer>>

\* waitThreadsToFinish: every worker but the handler's own thread has left run(),
\* which a worker that serves a connection does when the client closes it.
JoinWorkers ==
  /\ Alive /\ stopper # NoThread
  /\ \A w \in Worker \ {stopper} : w # server
  /\ stopper' = NoThread
  /\ UNCHANGED <<queueVars, requestVars, server, signal, stopped, main, timerOn, timer>>

\* main's own run() returns once main runs no handler.
LeaveRun ==
  /\ main = "serve" /\ stopped /\ server # Main /\ stopper # Main
  /\ main' = "stopBackups"
  /\ UNCHANGED <<queueVars, requestVars, server, signal, stopper, stopped, timerOn, timer>>

\* backupMgr.stop() does not wait for the timer thread.
StopBackups ==
  /\ main = "stopBackups" /\ main' = "stopQueue" /\ timerOn' = FALSE
  /\ UNCHANGED <<queueVars, requestVars, server, signal, stopper, stopped, timer>>

StopQueue ==
  /\ main = "stopQueue" /\ main' = "join" /\ BeginStop
  /\ UNCHANGED <<requestVars, server, signal, stopper, stopped, timerOn, timer>>

JoinQueue ==
  /\ main = "join" /\ Join
  /\ UNCHANGED <<requestVars, processVars>>

\* main returns: the queue and the map manager are destroyed.
Return ==
  /\ main = "join" /\ Destroy /\ main' = "returned"
  /\ UNCHANGED <<requestVars, server, signal, stopper, stopped, timerOn, timer>>

Next ==
  \/ \E c \in Callers : Ask(c) \/ SpuriousWakeup(c)
  \/ Accept \/ (\E m \in AddKey \cup SetRankingLength : Post(m)) \/ PostEnqueue
  \/ Query \/ Restore \/ Raise \/ CloseConnection
  \/ Consume \/ TimerWakes \/ TimerCalls \/ TimerReturns
  \/ HandleSignal \/ JoinWorkers \/ LeaveRun
  \/ StopBackups \/ StopQueue \/ JoinQueue \/ Return

\* Threads are scheduled, a request that was received is worked on, and main and
\* the handlers go on when what they join has ended.  The io_context runs its
\* ready handlers in order, so the signal handler is not overtaken for ever
\* (SF).  Nothing is assumed about clients, signals, the hour and spurious wakeups.
Fairness ==
  /\ \A c \in Callers : WF_vars(Ask(c))
  /\ WF_vars(PostEnqueue) /\ WF_vars(Consume) /\ WF_vars(TimerCalls) /\ WF_vars(TimerReturns)
  /\ SF_vars(HandleSignal)
  /\ WF_vars(JoinWorkers) /\ WF_vars(LeaveRun)
  /\ WF_vars(StopBackups) /\ WF_vars(StopQueue) /\ WF_vars(JoinQueue) /\ WF_vars(Return)

Spec == Init /\ [][Next]_vars /\ Fairness

\* Clients that do not keep a connection for ever.
ClosingSpec == Spec /\ SF_vars(CloseConnection)

---------------------------------------------------------------------------
TypeOK ==
  /\ QueueTypeOK
  /\ writingData \in {0, 1} /\ asking \in [Callers -> {"no", "asking", "waiting"}]
  /\ server \in Pool \cup {NoThread} /\ stopper \in Pool \cup {NoThread}
  /\ signal \in {"none", "raised", "taken"} /\ stopped \in BOOLEAN
  /\ main \in {"serve", "stopBackups", "stopQueue", "join", "returned"}
  /\ timerOn \in BOOLEAN /\ timer \in {"sleep", "call", "backup", "ended"}

\* A failed restore leaves m_writingData set, and there are at most two threads
\* to wait for it; two submissions behind it in the queue wake the connection,
\* whichever thread a notify_one picks, unless the tracker is being stopped.
QueuedKeys == {i \in handled + 1 .. Len(pushed) : pushed[i] \in AddKey}
TwoKeysWakeTheConnection ==
  (asking["connection"] = "waiting" /\ Cardinality(QueuedKeys) >= 2 /\ running)
    ~> (asking["connection"] = "no" \/ ~running)

\* When clients close their connections in the end, a signal ends the process:
\* neither main's run() nor a join of main or of a handler main runs waits for
\* ever.  Only a query that waits behind a failed restore can prevent it.
ShutdownCompletes ==
  [](signal = "raised" =>
       <>(main = "returned") \/ []<>(asking["connection"] = "waiting"))

\* backupMgr.stop() does not wait for the timer thread, but at most the backup
\* that is under way or was just decided upon is still to come.
NoBackupOnceStopped ==
  [](~timerOn /\ timer \in {"sleep", "ended"} => [](timer \in {"sleep", "ended"}))

\* "the answer is in the reply payload: YES or NO" (README.md:96): every query is
\* answered.
QueryAnswered == asking["connection"] # "no" ~> asking["connection"] = "no"

\* "stopping all the involved threads" (tracker.cpp:80): no thread serves
\* a connection any more when main returns and destroys what it uses.
NoServiceAfterReturn == main = "returned" => server = NoThread
============================================================================
