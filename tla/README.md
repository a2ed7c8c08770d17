# KeyTracker: verification project

KeyTracker is a hot-key tracker: clients report keys over HTTP, the tracker
counts them, keeps a ranking of the most frequent ones in memory, answers "is
this key hot?" and "which are the top N?", and every hour writes both tables to
disk, from where a client can have them restored. This directory models it in
TLA+: modules, TLC configurations, theorems checked by TLAPS, and
`PROJECT.json`, which lists runs, mutants, findings, hazards and the lines of
code each definition stands for. All paths below are relative to the repository.

## 1. The system

| component | state | operations | used by |
|---|---|---|---|
| `MapManager` (`src/MapManager.cpp`) | key map, ranking multimap, N and M, `m_writingData`, mutex, condition variable | `addOrUpdateKey`, `setTopKeyReportBaseSize`, `isHotKey`, `getTopHotkeys`, `backupRequest`, `restoreRequest`, `purge`, `zap` | queue thread, connection thread, timer thread |
| `ThreadedMessageQueue` (`src/ThreadedMessageQueue.cpp`) | lock-free queue, `m_running`, thread `m_poper` | `start`, `push`, `run`, `stop`, destructor | connection thread pushes, own thread pops, main stops |
| `Message` (`include/Message.h`) | two strings, a byte, a short, a number | constructors, getters | MessageServer builds it, the queue's thread reads it |
| `MessageServer` (`src/messageserver.cpp`) | pointers to the others | `onMessage` with its commands, `start`, `stop` | connections, main |
| `BackupManager` (`src/backupmanager.cpp`) | two file names, a timer, ten generations of two files | `backupRequest`, `renameFiles`, `restoreRequest`, `start`, `stop` | timer thread, connection thread, main |
| `Timer` (`src/timer/timer.cpp`, `include/timer/timer.h`) | `m_running`, `m_periodic`, interval | `start` (a detached thread), `stop` | BackupManager |
| `WebServer`, `Listener` (`src/web/`) | io_context, acceptor, worker threads | `accept`, `run`, `stop`, `waitThreadsToFinish` | main, the signal handler |
| `HttpConnection` (`src/web/http-connection.cpp`) | socket, receive buffer, flags | `run`, read, process, write, `retrieveBody` | the accept handler |
| client programs (`src/client/`) | a connection each, a list of requests | connect, write, read, disconnect | users, as tests |
| `tracker` (`src/tracker.cpp`) | owner of all of the above | `main`, the signal handler | the operating system |

How they interact. A connection is served *inside* the accept handler by the
thread that ran it, and the acceptor is armed again only when it is closed: there
is one connection at a time, whatever the number of threads. It calls
`MessageServer::onMessage`. Queries and a restore go straight to the map manager,
on the connection's thread; submissions and new report sizes become messages
which the queue's thread applies later. The timer's detached thread calls the
backup. So three threads meet at the mutex of the map manager, two of them also
at the file names, and main stops them in the end, behind a signal handler that
runs on any thread of the io_context.

What is hard here, and what makes each component correct:

* **MapManager**: the ranking is updated incrementally and never rebuilt: an early
  exit, a find of the old entry under the old count, an insert, a trim. It is
  correct if after *any* history, including evictions, restores and restarts,
  it is what a full sort of the counts could give, and if the two queries agree; but
  a restore that reads half a backup, or files of two, brings in a ranking of other
  counts, and correct is then only what this cannot break.
* **Files**: opening, renaming and truncating happen outside the mutex, and a
  process may end anywhere. Correct: what was completely dumped is not lost,
  generations are in order, a restore brings back one dump.
* **Queue**: `m_running` is a plain bool; a push, a stop and the loop interleave.
  Correct: nothing lost, overtaken, handled twice or freed too early, and quiet
  after `stop()`.
* **Shutdown**: joins, a handler that may run on a thread of the pool it joins,
  and connections only the client ends. Correct: it completes.
* **Condition variable**: `notify_one`, callers of two kinds, and an error path
  without notification. Correct: a waiting query is answered.
* **Connections**: one buffer per connection, in memory another one used before,
  searched for the body by hand; one response object for all requests; clients
  that vanish. Correct: a command is handed up once and with its own body, each
  client reads its own answers, and the next connection is served.
* **Timer**: a detached thread nobody waits for. Correct: once stopped it begins
  nothing new.
* **Texts**: payloads are cut at commas, numbers pass through `int`, 16 bits and a
  clamp, files are read back by cutting at commas. Correct: what was told is
  what is in force, and what was written reads back.

The hazards, each at its line and with the properties that cover it, are in
`PROJECT.json`.

## 2. Modules

| module | models | kind |
|---|---|---|
| `HotKeys` | what the tracker promises: counts, a set of hot keys, a saved copy, and what a load that met a save may bring | abstract specification |
| `Ranking` | the ranking multimap as a sequence, and the operations on it | operators |
| `MapManager` | the maps, N and M, the file steps of a backup and a restore, restart, faults of the disk | state machine, refines `HotKeys` |
| `MapMaintenance` | `purge` and `zap`; extends `MapManager` | state machine |
| `MCMapManager` | the symmetry of keys for TLC; extends `MapMaintenance` | instance |
| `RankingProofs`, `MapManagerProofs` | theorems about `Ranking` and `MapManager` | proofs |
| `MapManagerRefinement` | that `MapManager` implements `HotKeys`, and the answers of the queries; extends `MapManagerProofs` | proofs |
| `Mailbox` | what a queue with a consumer promises | abstract specification |
| `ThreadedMessageQueue` | the queue, its thread, `stop()` and the destructor | state machine, refines `Mailbox` |
| `ThreadedMessageQueueProofs` | theorems about it | proofs |
| `BackupManager` | the hourly pass against a restore, file by file | state machine |
| `BackupManagerProofs` | theorems about it | proofs |
| `Tracker` | threads, condition variable, timer, signal, shutdown; extends `ThreadedMessageQueue` | composition |
| `TrackerProofs` | theorems about it; extends `ThreadedMessageQueueProofs` | proofs |
| `MessageServer` | payloads, messages, sizes and the lines of `keys.csv` | state machine |
| `MessageServerProofs` | theorems about it | proofs |
| `Clients` | the client programs: requests, scripts, connect to disconnect | state machine of one side |
| `HttpConnection` | acceptor, receive buffer, requests and replies; extends `Clients` | composition |
| `HttpConnectionProofs` | theorems about it | proofs |
| `MCHttpConnection` | the scripts of three programs, and of one that is not the repository's | instance |

### How state and actions correspond to the code

**Ranking, MapManager.** `freqMap` is the sequence an iteration of the multimap
visits; equal counts stand in the order of insertion, as the standard demands of
`multimap::insert`. `multimap::find` is taken to return the first of the equal
entries, as libstdc++ does. `keyMap[k]` is the `frequency` of `k`, 0 if absent.
`Rerank` is the second half of `addOrUpdateKey`, with its early exit. What runs under
`m_mapMutex` is one action, but a pass of the backup timer dumps its files in two,
`DumpFrequencies` and `DumpKeys`, between which it holds the mutex (`MutexFree`) and
the process may end. Files are renamed, created and opened outside the mutex, so each
of these is an action: `RenameKeys`, `RenameFrequencies`, `OpenKeys`,
`OpenFrequencies` of a pass (`pass` is its program counter), `RestoreOpensKeys` and
`RestoreOpensFrequencies` of a restore, before `RestoreReads` takes the mutex. A
restore keeps a file it has open when a pass renames it (`moved`, `oldKeys`,
`oldFreq`), and may open one file on either side of a renaming. `Restart` ends the
process at any of these points, with any prefix of a file being dumped. None of this
needs a fault of the disk; with `Faults` an open may fail besides (unnoticed by a
backup, which asks `bad()`), a write may be cut short (`DumpIsCut`) and a read may
fail in the middle (`RestoreFails`). Older generations are left to `BackupManager`:
a renamed file is gone here unless a restore has it open. `Reply` is what
`onMessage` shows of the list, ten entries in the code, `ReplyMax` here.
`writingData` is the value other threads can see, that is, the one at the release of
the mutex.

Two history variables say what can be expected of the maps and of the files. `sound`:
since the process started no restore has failed midway, met a renaming or read files
that were not both written out, and nothing was purged. `written`: the files that the last pass,
or the one under way, has dumped completely from sound maps. They are not part of
the code, and no guard reads them.

**BackupManager.** Maps and files hold version numbers, and names refer to inodes,
so that an open handle stays with its file when the file is renamed. Each rename,
open and dump is one action of the timer thread; opening the files and reading
them are the actions of a restore. `ProcessEnds` happens anywhere and may leave
the file being written torn. Between the two dumps the mutex is held
(`MutexFree`), so submissions and restores wait there.

**ThreadedMessageQueue.** `poper` is the program counter of the thread: `while`
(about to read `m_running`), `pop`, `switch`, `ended`. `push()` is two actions,
the test of `m_running` and the push. `stop()` is two, the assignment and the
join. `pushed`, `handled`, `offered`, `deleted` are history. The data race on
`m_running` is modelled as reads and writes in any order, which is what a build
produces: the calls between two reads keep a compiler from dropping one.

**Tracker.** `server` is the thread in the accept handler, `stopper` the one in
the signal handler, `asking` the two callers that wait on the condition
variable. `Consume` is a step of the queue's thread together with what
`addOrUpdateKey` and `setTopKeyReportBaseSize` do to `m_writingData` and the
waiters. The other details of maps and backups are left to their own modules.

The timer's thread is `timer`: asleep, about to call the backup, in it, or ended;
the reads of `m_running` after the sleep and after the backup are its steps (the
read at the head of the loop directly follows another and is merged with it).

**MapMaintenance.** `Visited` are the positions purge's reverse iterator stops at,
`Looked` the first n of them, `Purge` what is left; entries are erased by position. Erasing the lowest entry leaves
the end of the range dangling (`Dangling`); what can happen then is taken as any
sub-ranking and any part of the keys, or a crash.

**Clients, HttpConnection.** A request is a record and, on the wire, a sequence of
tokens: pieces of the target, header lines, the empty line, pieces of the body.
`phase[c]` is where the program of client `c` is, `sent[c]` and `reply[c]` what is
unread in the two sockets; a program has one request outstanding. Each of the
stress test's request functions is the request it builds; its write and its read
are `Send` and `Receive`. `memory` is the block of `m_buffer`: boost consumes what
it has parsed, so each request is read to its beginning, over the bytes of earlier
ones, and a new connection gets fresh memory or the block of the one before. A
request longer than `ReadSize` (512 bytes) comes in two pieces, the second over the
first. `handed` is history. `onMessage` is seen by its return value and by whether it waits
(`blocked`): once a restore has failed, a query may or may not wait in the map
manager, and a submission or a backup, which are not in this module, may or may not
end that (`Unblock`).

**MessageServer.** Texts are sequences of words, numbers and commas. `Split` is
what the code's two `find` calls compute, `AddKeyMessage` where the constructor
puts the port, `Clamp` what becomes of N, `Line` and `Read` what a backup writes
of a key and a restore cuts out of it.

## 3. Runs

| run | question | bounds | states |
|---|---|---|---|
| `core` | over every order of submissions, file steps, restores and process ends: is the ranking a top M while `sound`? do the queries agree, do the written files fit together? does MapManager implement `HotKeys`? | 3 keys, M = 2, counts to 3, 2 passes, N of 1 and 2, a reply of 1 | 1 404 040 |
| `faults` | the same steps when writes are cut short and opens and reads fail, with purge and zap; what does a purge keep of a ranking in order? | 3 keys, M = 2, counts to 2, 1 pass | 516 358 |
| `backups` | passes, restores, submissions, and the end of the process at any point | 2 generations, 4 passes, 2 ends, 2 changes | 2 922 067 |
| `queue` | order, ownership, end and liveness of the queue; does it implement `Mailbox`? | one or two messages of each kind | 42 432 |
| `shutdown` | does a signal end the process, whoever handles it? do two submissions wake a query that waits after a failed restore? does the timer thread stop? | two workers, three messages, restores that fail | 146 233 |
| `payloads` | what is stored, written and read back of every payload; which size is in force | payloads of up to five tokens, two requests, sizes 12, 0, 65536, 65566 | 710 212 |
| `clients` | is each command handed up once, with its own body, and answered to its client, whatever the buffer holds and whoever is killed? do all programs end? | the main script of the stress test, one of its threads, nine single commands, one a restore | 283 592 |

Why the bounds are enough. A ranking of two entries has a lowest and a highest
entry, a third key competes from outside, and counts up to three let a key be
evicted, come back by a tie and by more; the theorems do not depend on M or on the
number of keys. Two passes are what a restore needs to read files of two dumps, and
what a second dump needs to follow a process end in the first; the bound is on all
processes together. In `faults` one has to do, so that a second pass over what a
failing disk left is covered by the theorems only. A reply of one entry is shorter than the list for N = 2 and as
long as it for N = 1, as 10 entries are for the tracker's N from 1 to 20. In `renameFiles` a generation above the first is
renamed like every other, so two show the first, a middle and an overwritten last
one; four passes are more than the generations kept. One connection at a time is
the code's own bound; two workers give every assignment of connection and signal
handler to threads. Five tokens hold every payload with three components and the
two commas between them, and those with more commas than that. In `HttpConnection` the targets are one to three
tokens long and at least three tokens stand from Content-Length to the end of a
request with a body, as in the code the targets of the tracker's commands differ
by at most 20 bytes and that end has at least 22 (for one host name); the
commands include an empty key, one that needs two reads, one of `MaxBuffer` tokens,
another verb, and a POST without Content-Length. The stress test may be started
twice, so its main thread and one of its 200 are taken as concurrent. `Files` is
large enough for every name and open handle, so that an open never waits for a file.

### Findings

Five runs show a disagreement between what the repository says and what the code
does. Each is expected to end in a violation of its one property.

| run | what the text says | what the code does |
|---|---|---|
| `race` | `README.md:103` restore brings the whole collection back | during an hourly pass it may read the new, still empty files |
| `query` | `README.md:96` the answer is YES or NO | after a failed restore a query waits until something is submitted |
| `service` | `src/tracker.cpp:80` all threads are stopped | main may return while a connection is served |
| `split` | `src/messageserver.cpp:55` the payload is split in three | url and port are cut at the first comma again, the port is lost |
| `plugin` | `README.md:97` the posted text is reported as key | when a header line follows Content-Length, that line is |

The passing properties say exactly where the code stops short of more. The history of
`race` has a second effect, on a working disk: a restore opens `keys.csv`, a pass
renames both files and creates new ones, and the restore then opens the empty
`frequencies.csv`. Counted keys then have no place in the ranking, and `isHotKey` takes
the branch commented as one that should never happen (`src/MapManager.cpp:137`). (A
process that ends between the two dumps of a pass leaves the converse, a ranking
without its keys, for the next one to restore.) Therefore
`RankingMirrorsKeys`, `RankingIsTop` and `AnswersAgree` are promised while `sound`, that is
until a restore brings in something else than a whole backup, and again after the
next restore of one. `SavedCopyIsTop` is promised
of the two files of a pass from the end of its second dump to the next pass.
`AnswersAgree` is about the list and about the reply made of it, which is cut at 10
(`src/messageserver.cpp:119`) though N may be up to 20 and `README.md:101` speaks of 12
keys. `RankingBounded`, `SavedRankingReloads` and `IncumbentsKeepTies` hold without any such
condition. `IncumbentsKeepTies` compares with the count a key is *ranked* with, which
after a mixed restore need not be the one the key map has. `UndisturbedRestoreIsWhole`
covers the first restore after a start, of what an earlier process wrote, as long
as no pass was cut off since the last whole dump.
`LinesReadBack` promises a whole line only for a
url without a comma: with one, `stoi` may throw in a restore, and nobody catches; that
throw is not covered, and neither are line breaks in a key. `HandledUnlessStopped` ends
with a stop: the message that a late `push()` drops, though its client was told
otherwise, is not covered.
`SizeInForce` has the 16 bits and the clamp that the reply to `/setTopHotKeys`
(`src/messageserver.cpp:175`) does not mention. `ShutdownCompletes` assumes clients
that close their connections: `io_context::stop` does not interrupt the handler a
connection is served in. It also says the one other thing that can prevent the end:
a query that waits behind a failed restore. `PayloadIsBody` holds for the requests
the repository's programs send, as long as they come in one read. `PurgeKeepsTop`
allows one ranked entry more than keys are kept: `--itRevRanking.base()`
(`src/MapManager.cpp:345`) is the entry the walk stopped in front of, and the erased
range ends before it. Submitted again, that key is ranked twice, so a purge ends
`sound`. `ClientsFinish` counts a program as finished that finds the tracker gone, as
after the exception of a POST without Content-Length, and is excused when a query
waits behind a failed restore for ever, for then the only connection is stuck.
`NoServiceAfterReturn` is about workers; that the detached timer thread may be in a
backup when main returns is part of the model, but stated by no property.

### Fairness

Only what the code and the operating system's scheduler give. The threads run:
weak fairness of the consumer's loop, of a push that was begun, of main's steps
and of a caller that asks for the mutex. The signal handler has strong fairness,
because the io_context runs its ready handlers in order and each connection
handler queues a new accept behind it. Nothing is assumed about clients, signals,
the hour or spurious wakeups; only `shutdown` assumes, as a stated condition
(`ClosingSpec`), that clients close their connections in the end. (This assumption
is about `CloseConnection`, which is disabled while the connection waits, so
`TwoKeysWakeTheConnection` does not profit from it.) In `clients` the thread that
serves runs, and a program that is connected goes on; nobody has to start one.

## 4. Proofs

Every invariant and every safety property of the passing runs except `PurgeKeepsTop`
(run `faults`) is a theorem, for every value of the constants that satisfies the assumptions named
in the modules. Those assumptions say no more than the code does: the sizes are
naturals and M exceeds N, tokens of different kinds differ, requests fit two reads.
Two theorems have a hypothesis besides:

* `Orderly(RequestsOf(Scripts))`, for what `retrieveBody` really needs: Content-Length
  is the last header line, and a request with a body reaches at least as far as the
  Content-Length of any older one. `MCHttpConnection` has TLC evaluate it for the
  requests of the repository's programs (`ProgramsAreOrderly`); the run `plugin` is
  what happens without it.

`RankingProofs` has the lemmas about `UpperBound`, `Insert`, `Erase` and `Trim`: what
they return for every sorted ranking. Its last part shows that inserting the lines of
a sorted ranking one by one gives it back (`FoldReloads`). The fold of the community
modules is a recursive function; that the function exists and what it returns for the
first n lines is shown by looking at the least n for which it fails, as the induction
theorems of the library cannot be used.

**`MapManagerProofs`** proves for every set of keys, all sizes and any history:

* `TypeCorrect`, `RankingNeverExceedsM` and `SavedRankingRebuilds`. The invariant
  `Bounded` says that maps, files *and the renamed files a restore has open* hold
  sorted rankings of at most M entries; the part about the files is what makes a
  restore keep it.
* `RankingMirrorsTheKeys`, `RankingIsTopM`, `SavedCopyFitsTogether`. `RankingIsTop` is
  not inductive as it stands: the early exit is right only because the ranking mirrors
  the counts, the find-and-erase only because each key is ranked once, and a restore
  only because the pair of files satisfies the same. The inductive invariant
  `Consistent` is therefore mirror and top-M of the memory while `sound`, the same of the files
  once both are `written`, and that between the dumps a written ranking is the one in
  memory, with `Bounded`. The step
  of `AddOrUpdateKey` is split as the code is: the early exit, a key that was ranked, a
  known key that was not, and a new key.

**`MapManagerRefinement`** builds on `Consistent`: `IncumbentsKeepTheirPlace` (an
action property), `ImplementsHotKeys` (each operation is a step of `HotKeys` or a
stutter: `RerankMoves` says which keys enter and leave the ranking, `RankingIsHot` that a
top M in the sense of `MapManager` is one in the sense of `HotKeys`) and `QueriesAgree`.
The refinement mapping shows `HotKeys` a saved copy from the end of the second dump to
the renaming of the first file, and a load as crossed once a pass has renamed a file
it has open. `HotKeys` allows such a load, or one without a copy, to bring anything,
and promises the hot keys again after the next whole one; everything else is as on a
quiet disk. `QueriesAgree` needs one more invariant, `FewKnown`: only finitely many
keys were ever counted, because the set of keys may be infinite and the length of the
list is compared with the number of known keys.

**`ThreadedMessageQueueProofs`** proves for every set of messages `QueueTypeCorrect`,
`QuietOnceStopped`, `NothingIsLostOrSwapped`, `EveryMessageIsDeletedOnce` and
`ImplementsMailbox`. The invariant gives each pushed message its place by index,
handled, in hand or at its position in the queue, and relates the program counter to
`m_running` and to how far `stop()` is. Deletion needs the owner of a message too
(`Owned`): a message is offered to `push()` once and so pushed once, and before the
destructor takes the rest, only handled messages are deleted.

**`TrackerProofs`** lifts this to the process: every step of it is a step of the queue
or leaves the queue alone (`QueueStep`), so that `ConnectionsLoseNothing` follows from the
queue's invariant. `NoBackupAfterStop` is about a thread nobody joins: nothing starts
the timer again.

**`BackupManagerProofs`** proves `BackupTypeCorrect`, `DumpsAreInOrder`,
`LastDumpSurvives`, `QuietRestoreIsWhole` and `RestoresAreOfDumps` for any number of
generations, passes and process ends. While a pass renames, there is a generation
without a file, the hole, that wanders down to 0, where the new file is opened. None of
the properties is inductive, as each says where a dump is between passes only; the
invariant says where it is during one: below the hole at its old generation, above
it one higher (`Place`, `InOrder`, `Survives`). Also needed: no file has two names
(`Named`), what the files being written hold (`PassInv`), which files a restore may
have open (`RestoreInv`), and, in a process that never ended, that those are of
completed dumps and the ranking not older than the keys (`Unbroken`). TLC has checked
this invariant with the bounds of `backups`.

**`MessageServerProofs`** proves `ServerTypeCorrect`, `LinesAreReadBack` and
`SizeIsInForce` for payloads of any length. Lines read back because a key, being what
stands before the first comma of a payload, has none; the invariant says so of keys
wherever they are (`KeysArePlain`) and of the lines in the file, from which a
restore takes keys again (`FileOfLines`). `SizeInForce` speaks of an empty queue; the
invariant says that the last queued size is the one named last (`SizesInOrder`).

**`HttpConnectionProofs`** proves `ConnectionTypeCorrect` and `RepliesAreOwn` for any
clients and scripts, and `BodiesAreHandedUp` and `CommandsAreHandedOnce` for orderly
ones. `Exchange` follows a request from the client's socket to its reply, so that
there is never more than one answer under way; `BufferInv` says that every
Content-Length left in the block came from some request and stands where that one had
it; with `Orderly`, a body is then found behind the last one.

Only model-checked: liveness and everything under fairness, which the provers do not
reach; and `PurgeKeepsTop`. What the provers
needed most was that facts under a quantifier be given a name, and sequences of a line
be kept as opaque terms.

## 5. Not modelled

* HTTP itself, HTML replies, logging, command line: layout and I/O.
* The Timer's start while it runs, and its setters: nothing in the tracker starts it
  twice or sets it after the constructor.
* The body boost collects in `m_request`, which nothing reads; bodies of more than two
  reads; headers longer than one read; the HTTP version, as every reply says
  keep-alive.
* `TRY_CONNECT` of the stress test, which is compiled out.
* The inside of boost's lock-free queue, of the io_context and of the standard
  library: taken by their documented behaviour.
* Accept errors, which the code itself calls impossible. Read and write errors end a
  connection (`ReadEnd`, `WriteResponse`).
* Destruction of the objects on main's stack while a detached timer thread or a
  worker still uses them is undefined behaviour; `service` shows that the state is
  reached, what follows is not modelled.
* The unit tests.

## 6. Plan

In order of importance; the first three parts are done.

1. *Core*: `Ranking`, `MapManager`, `HotKeys`, their proofs; `ThreadedMessageQueue`,
   `Mailbox`, their proofs; `BackupManager`; `Tracker`; `MessageServer`.
2. *More of the system*: `Clients` and `HttpConnection`; the timer's thread in
   `Tracker`; `MapMaintenance`.
3. *Proofs of the safety properties*: `MapManagerRefinement`, `TrackerProofs`,
   `BackupManagerProofs`, `MessageServerProofs`, `HttpConnectionProofs`.
4. *What is left to prove*: `PurgeKeepsTop` and, for `MaintenanceSpec`, what `Bounded` says;
   that `Tracker` implements `Mailbox` as the queue alone does.
