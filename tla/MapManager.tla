---------------------------- MODULE MapManager ----------------------------
(***************************************************************************)
(* MapManager: the counts of all submitted keys (m_pKeyMap), the ranking   *)
(* of the most frequent ones (m_pFrequencyMap), the sizes N and M, and the *)
(* two files a pass of the backup timer writes and a restore reads.  What  *)
(* runs under m_mapMutex is one action, except that a pass dumps its files *)
(* in two.  Renaming and opening files is done outside the mutex: each     *)
(* such step is an action of its own, and the process may end between any  *)
(* two.  The threads that wait for m_writingData are in module Tracker,    *)
(* the older generations of the files in module BackupManager.             *)
(*                                                                         *)
(* Abstraction: url and port of a key are stored and dumped but never      *)
(* read, so a key's details are its frequency, 0 for a key the map does    *)
(* not hold.  Keys and urls are taken to survive the comma-separated files *)
(* (no line break in a key, no comma in a url).  purge and zap, which no   *)
(* part of the tracker calls, are in MapMaintenance.                       *)
(***************************************************************************)
EXTENDS Ranking

CONSTANTS
  Key,           \* the keys clients submit
  ReportSize,    \* n of the constructor: the initial N (10 in tracker.cpp)
  RequestedMax,  \* m of the constructor: the wanted M (20 in tracker.cpp)
  MinGap,        \* MIN_GAP_MAX_DEFAULT (4)
  ReplyMax,      \* the most entries a reply lists (10 in messageserver.cpp)
  BaseSizes,     \* the values given to setTopKeyReportBaseSize
  MaxFrequency,  \* bound of the model: no key is counted further
  MaxPasses,     \* bound of the model: how many passes the timer begins
  Faults         \* TRUE: writes may be cut short, opens and reads may fail

ASSUME SizesAssumption ==
  /\ ReportSize \in Nat /\ RequestedMax \in Nat /\ MinGap \in Nat \ {0}
  /\ BaseSizes \subseteq Nat /\ ReplyMax \in Nat
  /\ MaxFrequency \in Nat /\ MaxPasses \in Nat

ASSUME FaultsAssumption == Faults \in BOOLEAN

\* m_maxReportElementNumber.  Both sizes are taken to fit their 16 bits.
MaxReportSize ==
  IF RequestedMax > ReportSize + MinGap THEN RequestedMax ELSE ReportSize + MinGap

VARIABLES
  keyMap,        \* m_pKeyMap: the frequency of each key, 0 when absent
  freqMap,       \* m_pFrequencyMap, a Ranking
  base,          \* m_baseReportElementNumber (N)
  writingData,   \* m_writingData: 1 only after a restore that failed midway
  onDisk,        \* which of the names keys.csv and frequencies.csv exist
  keyFile,       \* the complete lines of keys.csv
  freqFile,      \* the complete lines of frequencies.csv
  pass,          \* where the timer thread is: see Passes
  passes,        \* how many passes it has begun
  reading,       \* the files a restore has open: see Readings
  moved,         \* those of them that a pass has renamed since
  oldKeys,       \* what they hold, which their names no longer stand for
  oldFreq,
  sound,         \* history: see below
  written        \* history: see below

(***************************************************************************)
(* Two history variables say what the maps in memory and the files can be  *)
(* expected to hold.  sound: since the process was started no restore has  *)
(* failed midway, met a renaming or read files that were not both written  *)
(* out, and nothing was purged.  written: the files the last pass, or the  *)
(* one under way, has dumped completely from sound maps.  Both files       *)
(* written is what a backup is for.                                        *)
(***************************************************************************)
memory == <<keyMap, freqMap, base, writingData>>
files == <<onDisk, keyFile, freqFile>>
input == <<reading, moved, oldKeys, oldFreq>>
timer == <<pass, passes>>
vars == <<memory, files, timer, input, sound, written>>

Files == {"keys", "frequencies"}
Passes == {"sleep", "renameFrequencies", "openKeys", "openFrequencies",
           "dumpFrequencies", "dumpKeys"}
Readings == {{}, {"keys"}, Files}
NoKeys == [k \in Key |-> 0]

EmptyMaps == keyMap = NoKeys /\ freqMap = <<>> /\ base = ReportSize /\ writingData = 0
NoInput == reading = {} /\ moved = {} /\ oldKeys = NoKeys /\ oldFreq = <<>>

Init ==
  /\ EmptyMaps /\ NoInput
  /\ onDisk = {} /\ keyFile = NoKeys /\ freqFile = <<>> /\ pass = "sleep" /\ passes = 0
  /\ sound = TRUE /\ written = {}

\* A pass holds the mutex from its first dump to the end of the second.
MutexFree == pass # "dumpKeys"

---------------------------------------------------------------------------
(* The queue's thread.                                                     *)

\* Count a key and rerank it.
AddOrUpdateKey(key) ==
  /\ MutexFree /\ keyMap[key] < MaxFrequency
  /\ keyMap' = [keyMap EXCEPT ![key] = @ + 1]
  /\ freqMap' = Rerank(freqMap, key, keyMap[key], MaxReportSize)
  /\ writingData' = 0
  /\ UNCHANGED <<base, files, timer, input, sound, written>>

\* Mutant of SetTopKeyReportBaseSize: N is not clamped.
SetUnclamped(n) ==
  /\ MutexFree /\ base' = n /\ writingData' = 0
  /\ UNCHANGED <<keyMap, freqMap, files, timer, input, sound, written>>

\* The new N is clamped to M.  Also ends a write that a failed restore left open.
SetTopKeyReportBaseSize(n) ==
  /\ MutexFree
  /\ base' = Min({n, MaxReportSize})
  /\ writingData' = 0
  /\ UNCHANGED <<keyMap, freqMap, files, timer, input, sound, written>>

---------------------------------------------------------------------------
(* A pass of the timer thread.                                             *)

\* The current keys.csv becomes an old one; a restore that has it open keeps
\* reading the renamed file.
RenameKeys ==
  /\ pass = "sleep" /\ passes < MaxPasses
  /\ pass' = "renameFrequencies" /\ passes' = passes + 1
  /\ onDisk' = onDisk \ {"keys"} /\ keyFile' = NoKeys
  /\ IF "keys" \in reading \ moved
     THEN moved' = moved \cup {"keys"} /\ oldKeys' = keyFile
     ELSE UNCHANGED <<moved, oldKeys>>
  /\ written' = {}
  /\ UNCHANGED <<memory, freqFile, reading, oldFreq, sound>>

RenameFrequencies ==
  /\ pass = "renameFrequencies" /\ pass' = "openKeys"
  /\ onDisk' = onDisk \ {"frequencies"} /\ freqFile' = <<>>
  /\ IF "frequencies" \in reading \ moved
     THEN moved' = moved \cup {"frequencies"} /\ oldFreq' = freqFile
     ELSE UNCHANGED <<moved, oldFreq>>
  /\ UNCHANGED <<memory, passes, keyFile, reading, oldKeys, sound, written>>

\* backupRequest opens its files before it asks for the mutex.  The names are
\* free after the renaming, so an open creates an empty file.  A failed open
\* sets failbit, the code asks for bad(): the pass goes on without the file.
OpenKeys ==
  /\ pass = "openKeys" /\ pass' = "openFrequencies"
  /\ \/ onDisk' = onDisk \cup {"keys"}
     \/ Faults /\ UNCHANGED onDisk
  /\ UNCHANGED <<memory, passes, keyFile, freqFile, input, sound, written>>

OpenFrequencies ==
  /\ pass = "openFrequencies" /\ pass' = "dumpFrequencies"
  /\ \/ onDisk' = onDisk \cup {"frequencies"}
     \/ Faults /\ UNCHANGED onDisk
  /\ UNCHANGED <<memory, passes, keyFile, freqFile, input, sound, written>>

\* What a file holds after an interrupted write or a failed read: a prefix of
\* the lines.  The keys are in the order of their text, which the model does
\* not fix, so any part of them is the prefix of some order.
SomeKeys(m) == {[k \in Key |-> IF k \in K THEN m[k] ELSE 0] : K \in SUBSET Key}
SomeEntries(rank) == {SubSeq(rank, 1, n) : n \in 0 .. Len(rank)}

\* Mutant of DumpFrequencies: dumps the reported entries instead of all M.
DumpReported ==
  /\ pass = "dumpFrequencies" /\ writingData = 0 /\ pass' = "dumpKeys"
  /\ IF "frequencies" \in onDisk
     THEN freqFile' = Trim(freqMap, base) /\ written' = {f \in {"frequencies"} : sound}
     ELSE UNCHANGED <<freqFile, written>>
  /\ UNCHANGED <<memory, passes, onDisk, keyFile, input, sound>>

\* With no write open the mutex is taken and the ranking dumped and closed ...
DumpFrequencies ==
  /\ pass = "dumpFrequencies" /\ writingData = 0 /\ pass' = "dumpKeys"
  /\ IF "frequencies" \in onDisk
     THEN freqFile' = freqMap /\ written' = {f \in {"frequencies"} : sound}
     ELSE UNCHANGED <<freqFile, written>>
  /\ UNCHANGED <<memory, passes, onDisk, keyFile, input, sound>>

\* ... then the keys, and only then is the mutex released.
DumpKeys ==
  /\ pass = "dumpKeys" /\ pass' = "sleep"
  /\ IF "keys" \in onDisk
     THEN keyFile' = keyMap /\ written' = written \cup {f \in {"keys"} : sound}
     ELSE UNCHANGED <<keyFile, written>>
  /\ UNCHANGED <<memory, passes, onDisk, freqFile, input, sound>>

\* A write is cut short.  If that is noticed while the ranking is dumped, the
\* backup is given up and keys.csv stays empty.
DumpIsCut ==
  /\ Faults
  /\ \/ /\ pass = "dumpFrequencies" /\ writingData = 0 /\ "frequencies" \in onDisk
        /\ freqFile' \in SomeEntries(freqMap) /\ UNCHANGED keyFile
        /\ pass' \in {"dumpKeys", "sleep"}
     \/ /\ pass = "dumpKeys" /\ "keys" \in onDisk
        /\ keyFile' \in SomeKeys(keyMap) /\ UNCHANGED freqFile
        /\ pass' = "sleep"
  /\ UNCHANGED <<memory, passes, onDisk, input, sound, written>>

---------------------------------------------------------------------------
(* A restore, on the thread of the connection.                             *)

\* restoreRequest opens keys.csv; without it nothing happens.
RestoreOpensKeys ==
  /\ reading = {} /\ "keys" \in onDisk
  /\ reading' = {"keys"}
  /\ UNCHANGED <<memory, files, timer, moved, oldKeys, oldFreq, sound, written>>

\* Then frequencies.csv, still without the mutex.
RestoreOpensFrequencies ==
  /\ reading = {"keys"} /\ "frequencies" \in onDisk
  /\ reading' = Files
  /\ UNCHANGED <<memory, files, timer, moved, oldKeys, oldFreq, sound, written>>

RestoreEnds == reading' = {} /\ moved' = {} /\ oldKeys' = NoKeys /\ oldFreq' = <<>>

\* Without it ("opening" error) the restore has changed nothing.
RestoreGivesUp ==
  /\ reading = {"keys"} /\ ("frequencies" \notin onDisk \/ Faults)
  /\ RestoreEnds
  /\ UNCHANGED <<memory, files, timer, sound, written>>

\* What the open files hold when they are read.
KeysRead == IF "keys" \in moved THEN oldKeys ELSE keyFile
RankingRead == IF "frequencies" \in moved THEN oldFreq ELSE freqFile

\* Mutant of RestoreReads: the old ranking is not cleared before.
RestoreOnTop ==
  /\ reading = Files /\ MutexFree
  /\ keyMap' = KeysRead /\ freqMap' = FoldLeft(Insert, freqMap, RankingRead)
  /\ writingData' = 0 /\ RestoreEnds
  /\ sound' = (written = Files /\ moved = {})
  /\ UNCHANGED <<base, files, timer, written>>

\* With the mutex held both maps are replaced; no open file is written then,
\* and none is ever truncated, so the two are read in one step.  A sorted file
\* is inserted line by line into the ranking in its own order
\* (SavedRankingReloads), and a cut-off file is read like a complete one.
RestoreReads ==
  /\ reading = Files /\ MutexFree
  /\ keyMap' = KeysRead /\ freqMap' = RankingRead
  /\ writingData' = 0 /\ RestoreEnds
  /\ sound' = (written = Files /\ moved = {})
  /\ UNCHANGED <<base, files, timer, written>>

\* A read error returns at once: what was read stays, the old ranking too if
\* the keys were being read, and m_writingData keeps the value 1.
RestoreFails ==
  /\ Faults /\ reading = Files /\ MutexFree
  /\ \/ keyMap' \in SomeKeys(KeysRead) /\ UNCHANGED freqMap
     \/ keyMap' = KeysRead /\ freqMap' \in SomeEntries(RankingRead)
  /\ writingData' = 1 /\ RestoreEnds
  /\ sound' = FALSE
  /\ UNCHANGED <<base, files, timer, written>>

---------------------------------------------------------------------------
\* The process ends, anywhere in a pass or a restore, and is started again.  Of
\* a file being written any prefix may have reached the disk.
Restart ==
  /\ keyMap' = NoKeys /\ freqMap' = <<>> /\ base' = ReportSize /\ writingData' = 0
  /\ \/ UNCHANGED <<keyFile, freqFile>>
     \/ /\ pass = "dumpFrequencies" /\ writingData = 0 /\ "frequencies" \in onDisk
        /\ freqFile' \in SomeEntries(freqMap) /\ UNCHANGED keyFile
     \/ /\ pass = "dumpKeys" /\ "keys" \in onDisk
        /\ keyFile' \in SomeKeys(keyMap) /\ UNCHANGED freqFile
  /\ pass' = "sleep" /\ RestoreEnds /\ sound' = TRUE
  /\ UNCHANGED <<onDisk, passes, written>>

BackupPass ==
  \/ RenameKeys \/ RenameFrequencies \/ OpenKeys \/ OpenFrequencies
  \/ DumpFrequencies \/ DumpKeys \/ DumpIsCut

Restore ==
  \/ RestoreOpensKeys \/ RestoreOpensFrequencies \/ RestoreGivesUp
  \/ RestoreReads \/ RestoreFails

Next ==
  \/ \E key \in Key : AddOrUpdateKey(key)
  \/ \E n \in BaseSizes : SetTopKeyReportBaseSize(n)
  \/ BackupPass \/ Restore \/ Restart

Spec == Init /\ [][Next]_vars

---------------------------------------------------------------------------
\* The answers of isHotKey and getTopHotkeys, which both wait while
\* writingData = 1, and what the reply to the second shows of it.
IsHotKey(key) == keyMap[key] > 0 /\ Ranks(freqMap, key, keyMap[key])
TopHotkeys == Top(freqMap, base)
Reply == SubSeq(TopHotkeys, 1, Min({ReplyMax, Len(TopHotkeys)}))

TypeOK ==
  /\ keyMap \in [Key -> Nat] /\ keyFile \in [Key -> Nat] /\ oldKeys \in [Key -> Nat]
  /\ freqMap \in Seq([freq : Nat, key : Key])
  /\ freqFile \in Seq([freq : Nat, key : Key])
  /\ oldFreq \in Seq([freq : Nat, key : Key])
  /\ base \in 0 .. MaxReportSize
  /\ writingData \in {0, 1}
  /\ onDisk \subseteq Files /\ written \subseteq onDisk
  /\ pass \in Passes /\ reading \in Readings /\ moved \subseteq reading
  /\ passes \in Nat /\ sound \in BOOLEAN

\* Sorted and never above M entries, whatever was restored and however often.
RankingBounded == Ascending(freqMap) /\ Len(freqMap) <= MaxReportSize

\* The ranking mirrors the counts: each key once, with its present count.
Mirrors(rank, counts) ==
  /\ \A i, j \in DOMAIN rank : rank[i].key = rank[j].key => i = j
  /\ \A i \in DOMAIN rank : rank[i].freq = counts[rank[i].key] /\ rank[i].freq > 0

\* A counted key is left out only by a full ranking, and never outnumbers
\* an entry of it.
Outranks(rank, counts) ==
  \A k \in Key \ RankedKeys(rank) : counts[k] > 0 =>
    Len(rank) = MaxReportSize /\ \A i \in DOMAIN rank : counts[k] <= rank[i].freq

\* After any history of submissions, evictions, resizings, backups, process
\* ends and restores of whole backups, the ranking holds each of its keys once
\* and with its present count: addOrUpdateKey's find-and-erase never misses.
\* (A restore that meets a pass can break this, and isHotKey then takes the branch
\* "Should never happen!", MapManager.cpp:137.)
RankingMirrorsKeys == sound => Mirrors(freqMap, keyMap)

\* ... and it is a top M: the early exit of addOrUpdateKey loses no key that
\* belongs in it, though evicted keys are never looked at again.
RankingIsTop == sound => Outranks(freqMap, keyMap)

\* Once both files of a pass are written, and until the next pass renames them,
\* they fit together in the same way, wherever the process ends and whatever is
\* submitted or restored meanwhile.
SavedCopyIsTop ==
  written = Files => Mirrors(freqFile, keyFile) /\ Outranks(freqFile, keyFile)

\* Inserting the lines of a ranking one by one, as the restore does, gives it
\* back in its own order, that of ties included (so the same keys are evicted
\* next), be the file complete, cut off or renamed meanwhile.
SavedRankingReloads ==
  \A rank \in {freqFile, oldFreq} : FoldLeft(Insert, <<>>, rank) = rank

\* list shows the n hottest keys, or all if there are fewer: its counts fall,
\* isHotKey says YES to each of its keys, and no key that is not listed has a
\* higher count than one that is.
ShowsHottest(list, n) ==
  LET listed == RankedKeys(list)
  IN  /\ Len(list) = Cardinality(listed)
      /\ Len(list) = Min({n, Cardinality({k \in Key : keyMap[k] > 0})})
      /\ \A i, j \in DOMAIN list : i < j => list[i].freq >= list[j].freq
      /\ \A k \in listed : IsHotKey(k)
      /\ \A k \in listed, l \in Key \ listed : keyMap[k] >= keyMap[l]

\* The two queries agree: the list of getTopHotkeys has N keys, the reply the
\* first ReplyMax of them.
AnswersAgree ==
  sound => ShowsHottest(TopHotkeys, base) /\ ShowsHottest(Reply, Min({base, ReplyMax}))

\* A submission evicts a key only for a count strictly higher than the one it is
\* ranked with: on a tie the incumbent stays, and one submission evicts one key
\* at most, even in a ranking that a restore has mixed from two backups.
IncumbentsKeepTies ==
  [][\A key, k \in Key :
       /\ AddOrUpdateKey(key) /\ k \in RankedKeys(freqMap)
       /\ k \notin RankedKeys(freqMap')
       => /\ \A i \in DOMAIN freqMap : freqMap[i].key = k => freqMap[i].freq < keyMap'[key]
          /\ RankedKeys(freqMap) \ RankedKeys(freqMap') = {k}]_vars

\* MapManager implements the abstract tracker.
Promise == INSTANCE HotKeys WITH
  M <- MaxReportSize,
  Faulty <- Faults,
  count <- keyMap,
  hot <- RankedKeys(freqMap),
  saved <- IF written = Files THEN <<keyFile, RankedKeys(freqFile)>> ELSE <<>>,
  loading <- IF reading = {} THEN "no" ELSE IF moved = {} THEN "clean" ELSE "crossed"
HotKeysSpec == Promise!Spec
============================================================================
