--------------------------- MODULE BackupManager ---------------------------
(***************************************************************************)
(* BackupManager: the pass its timer thread makes every hour (rename the   *)
(* old files one generation up, open new ones, dump the maps) against the  *)
(* restore a client asks for on the connection thread, submissions and the *)
(* end of the process at any point.  The two threads share the names of    *)
(* the files and MapManager's mutex, and nothing else keeps them apart.    *)
(*                                                                         *)
(* Abstraction: what the maps hold is a version number, 0 when empty, and  *)
(* a file holds the version dumped into it; a dump of empty maps is an     *)
(* empty file.  Files are inodes under names, so that a handle stays with  *)
(* its file when the name moves on.  Renaming, opening and writing do not  *)
(* fail here (module MapManager has the failures inside one operation).    *)
(***************************************************************************)
EXTENDS Integers, Sequences, FiniteSets

CONSTANTS
  Generations,   \* how many old generations are kept (9 in renameFiles)
  Files,         \* how many files the disk has room for
  MaxChanges,    \* bound: how often the maps change
  MaxPasses,     \* bound: how many passes the timer thread begins
  MaxEnds        \* bound: how often the process ends; 0 for a run without

ASSUME GenerationsAssumption == Generations \in Nat \ {0} /\ Files \in Nat
ASSUME EndsAssumption == MaxEnds \in Nat

VARIABLES
  maps,       \* the version of the key map and of the ranking
  slot,       \* slot[k][g]: the file named after kind k and generation g
  content,    \* content[f]: the version in file f
  pass,       \* where the timer thread is: see Passes
  at,         \* the generation renameFiles is filling
  out,        \* the output files of a pass
  restore,    \* where the connection thread is: see Restores
  in,         \* the input files of a restore
  dumps,      \* history: the maps of every completed pass
  calm,       \* history: how many of them since the process was started
  begun,      \* history: passes begun since the last completed one
  apart,      \* history: no pass was under way at any time of this restore
  changes,    \* history: how often the maps were changed by a submission
  ends        \* how often the process has ended

disk == <<slot, content>>
timer == <<pass, at, out>>
connection == <<restore, in>>
history == <<dumps, calm, begun, apart, changes, ends>>
vars == <<maps, disk, timer, connection, history>>

Kinds == {"keys", "frequencies"}
Passes == {"sleep", "renameKeys", "renameFrequencies", "openKeys",
           "openFrequencies", "dumpFrequencies", "dumpKeys"}
Restores == {"idle", "openFrequencies", "read"}
Inode == 1 .. Files
NoFile == 0
Torn == -1
NoMaps == [k \in Kinds |-> 0]
NoHandles == [k \in Kinds |-> NoFile]

Init ==
  /\ maps = NoMaps
  /\ slot = [k \in Kinds |-> [g \in 0 .. Generations |-> NoFile]]
  /\ content = [f \in Inode |-> 0]
  /\ pass = "sleep" /\ at = 0 /\ out = NoHandles
  /\ restore = "idle" /\ in = NoHandles
  /\ dumps = <<>> /\ calm = 0 /\ begun = 0 /\ apart = TRUE
  /\ changes = 0 /\ ends = 0

---------------------------------------------------------------------------
(* The timer thread.                                                       *)

\* Mutant of BeginPass: renameFiles starts one generation too high.
BeginPassTooHigh ==
  /\ pass = "sleep" /\ Len(dumps) + begun < MaxPasses
  /\ pass' = "renameKeys" /\ at' = Generations + 1 /\ begun' = begun + 1
  /\ apart' = (restore = "idle")
  /\ UNCHANGED <<maps, disk, out, connection, dumps, calm, changes, ends>>

\* The timer fires; renameFiles starts with the oldest generation.
BeginPass ==
  /\ pass = "sleep" /\ Len(dumps) + begun < MaxPasses
  /\ pass' = "renameKeys" /\ at' = Generations /\ begun' = begun + 1
  /\ apart' = (restore = "idle")
  /\ UNCHANGED <<maps, disk, out, connection, dumps, calm, changes, ends>>

\* The file of kind k and generation g - 1, if there is one, becomes generation
\* g; a file that had that name loses it.
Renamed(k, g) ==
  IF slot[k][g - 1] = NoFile THEN slot
  ELSE [slot EXCEPT ![k][g] = slot[k][g - 1], ![k][g - 1] = NoFile]

\* Mutant of RenameKeys: an old file is copied over, its name kept.
RenameKeysCopies ==
  /\ pass = "renameKeys"
  /\ slot' = [slot EXCEPT !["keys"][at] = slot["keys"][at - 1]]
  /\ pass' = "renameFrequencies"
  /\ UNCHANGED <<maps, content, at, out, connection, history>>

RenameKeys ==
  /\ pass = "renameKeys"
  /\ slot' = Renamed("keys", at)
  /\ pass' = "renameFrequencies"
  /\ UNCHANGED <<maps, content, at, out, connection, history>>

\* Mutant of RenameFrequencies: the generations are gone through upwards.
RenameUpwards ==
  /\ pass = "renameFrequencies"
  /\ slot' = Renamed("frequencies", Generations + 1 - at)
  /\ at' = at - 1
  /\ pass' = IF at > 1 THEN "renameKeys" ELSE "openKeys"
  /\ UNCHANGED <<maps, content, out, connection, history>>

RenameFrequencies ==
  /\ pass = "renameFrequencies"
  /\ slot' = Renamed("frequencies", at)
  /\ at' = at - 1
  /\ pass' = IF at > 1 THEN "renameKeys" ELSE "openKeys"
  /\ UNCHANGED <<maps, content, out, connection, history>>

\* A file that neither a name nor a handle refers to.
Unused(f) ==
  \A k \in Kinds : f \notin {slot[k][g] : g \in 0 .. Generations} \cup {out[k], in[k]}

\* Opening for output truncates the file of that name, or creates one.  (Which
\* of the unused ones makes no difference: the first.)
Open(k) ==
  \E f \in Inode :
    /\ IF slot[k][0] = NoFile
       THEN Unused(f) /\ \A e \in Inode : Unused(e) => f <= e
       ELSE f = slot[k][0]
    /\ slot' = [slot EXCEPT ![k][0] = f]
    /\ content' = [content EXCEPT ![f] = 0]
    /\ out' = [out EXCEPT ![k] = f]

OpenKeys ==
  /\ pass = "openKeys" /\ Open("keys") /\ pass' = "openFrequencies"
  /\ UNCHANGED <<maps, at, connection, history>>

OpenFrequencies ==
  /\ pass = "openFrequencies" /\ Open("frequencies") /\ pass' = "dumpFrequencies"
  /\ UNCHANGED <<maps, at, connection, history>>

\* The mutex is taken and the ranking dumped and closed ...
DumpFrequencies ==
  /\ pass = "dumpFrequencies"
  /\ content' = [content EXCEPT ![out["frequencies"]] = maps["frequencies"]]
  /\ pass' = "dumpKeys"
  /\ UNCHANGED <<maps, slot, at, out, connection, history>>

\* ... then the keys, and only then is the mutex released.
DumpKeys ==
  /\ pass = "dumpKeys"
  /\ content' = [content EXCEPT ![out["keys"]] = maps["keys"]]
  /\ pass' = "sleep" /\ out' = NoHandles
  /\ dumps' = Append(dumps, maps) /\ calm' = calm + 1 /\ begun' = 0
  /\ UNCHANGED <<maps, slot, at, connection, apart, changes, ends>>

MutexFree == pass # "dumpKeys"

---------------------------------------------------------------------------
(* The connection thread and the consumer of the message queue.            *)

\* A restore opens keys.csv; without it, it fails and has changed nothing.
RestoreOpensKeys ==
  /\ restore = "idle" /\ slot["keys"][0] # NoFile
  /\ in' = [in EXCEPT !["keys"] = slot["keys"][0]]
  /\ restore' = "openFrequencies"
  /\ apart' = (pass = "sleep")
  /\ UNCHANGED <<maps, disk, timer, dumps, calm, begun, changes, ends>>

\* Then frequencies.csv, with the same outcome if there is none.
RestoreOpensFrequencies ==
  /\ restore = "openFrequencies"
  /\ IF slot["frequencies"][0] = NoFile
     THEN in' = NoHandles /\ restore' = "idle"
     ELSE /\ in' = [in EXCEPT !["frequencies"] = slot["frequencies"][0]]
          /\ restore' = "read"
  /\ UNCHANGED <<maps, disk, timer, history>>

\* Mutants of RestoreReads: the ranking is not replaced, or the maps are without
\* the mutex.
RestoreKeepsRanking ==
  /\ restore = "read" /\ MutexFree
  /\ maps' = [maps EXCEPT !["keys"] = content[in["keys"]]]
  /\ restore' = "idle" /\ in' = NoHandles
  /\ UNCHANGED <<disk, timer, history>>
RestoreReadsUnlocked ==
  /\ restore = "read"
  /\ maps' = [k \in Kinds |-> content[in[k]]]
  /\ restore' = "idle" /\ in' = NoHandles
  /\ UNCHANGED <<disk, timer, history>>

\* With the mutex held the maps are replaced by what the open files hold now.  The
\* two are read in one step: a pass dumps under the same mutex, and it opens only
\* names it has freed by renaming, so that it truncates no file a restore has open.
RestoreReads ==
  /\ restore = "read" /\ MutexFree
  /\ maps' = [k \in Kinds |-> content[in[k]]]
  /\ restore' = "idle" /\ in' = NoHandles
  /\ UNCHANGED <<disk, timer, history>>

\* A submission: the maps hold something they never held before.
Submit ==
  /\ MutexFree /\ changes < MaxChanges
  /\ changes' = changes + 1
  /\ maps' = [k \in Kinds |-> changes']
  /\ UNCHANGED <<disk, timer, connection, dumps, calm, begun, apart, ends>>

\* The process ends: main returns while the detached timer thread is anywhere,
\* or it is killed.  Of a file being written any part may have reached the disk.
ProcessEnds ==
  /\ ends < MaxEnds /\ ends' = ends + 1
  /\ \/ UNCHANGED content
     \/ /\ pass = "dumpFrequencies"
        /\ content' = [content EXCEPT ![out["frequencies"]] = Torn]
     \/ /\ pass = "dumpKeys"
        /\ content' = [content EXCEPT ![out["keys"]] = Torn]
  /\ maps' = NoMaps
  /\ pass' = "sleep" /\ at' = 0 /\ out' = NoHandles
  /\ restore' = "idle" /\ in' = NoHandles
  /\ calm' = 0 /\ apart' = TRUE
  /\ UNCHANGED <<slot, dumps, begun, changes>>

TimerThread ==
  \/ BeginPass \/ RenameKeys \/ RenameFrequencies
  \/ OpenKeys \/ OpenFrequencies \/ DumpFrequencies \/ DumpKeys

ConnectionThread == RestoreOpensKeys \/ RestoreOpensFrequencies \/ RestoreReads

Next == TimerThread \/ ConnectionThread \/ Submit \/ ProcessEnds

Spec == Init /\ [][Next]_vars

---------------------------------------------------------------------------
TypeOK ==
  /\ maps \in [Kinds -> Nat \cup {Torn}]
  /\ slot \in [Kinds -> [0 .. Generations -> Inode \cup {NoFile}]]
  /\ content \in [Inode -> Nat \cup {Torn}]
  /\ pass \in Passes /\ at \in 0 .. Generations
  /\ out \in [Kinds -> Inode \cup {NoFile}] /\ in \in [Kinds -> Inode \cup {NoFile}]
  /\ restore \in Restores
  /\ dumps \in Seq([Kinds -> Nat \cup {Torn}]) /\ calm \in 0 .. Len(dumps)
  /\ begun \in Nat /\ apart \in BOOLEAN /\ changes \in Nat /\ ends \in 0 .. MaxEnds

\* The file of kind k and generation g is a complete dump of version v.
Holds(k, g, v) == slot[k][g] # NoFile /\ content[slot[k][g]] = v

\* Between two passes the newest dumps this process completed are on disk in
\* order, generation 0 the newest, keys and frequencies under equal numbers,
\* whatever an earlier process left half renamed.
NewestInOrder ==
  pass = "sleep" /\ begun = 0 =>
    \A g \in 0 .. Generations, k \in Kinds :
      g < calm => Holds(k, g, dumps[Len(dumps) - g][k])

\* However often the process ends in the middle of a pass, both files of the
\* last completed dump are somewhere on disk, unharmed, until more passes than
\* there are generations have begun after it.
NewestSurvives ==
  dumps # <<>> /\ begun <= Generations =>
    \A k \in Kinds :
      \E g \in 0 .. begun : Holds(k, g, dumps[Len(dumps)][k])

\* A restore that meets no pass brings the last dump back, both maps of it, also
\* the first one after a start, whichever process wrote the dump: only a pass that
\* a process end cut short since then can have moved its files.
UndisturbedRestoreIsWhole ==
  [][RestoreReads /\ apart /\ begun = 0 /\ dumps # <<>> => maps' = dumps[Len(dumps)]]_vars

\* A restore that does meet a pass may find its files just emptied, and may even
\* bring the keys of one dump with the ranking of a later one, but, as long as
\* the process never ended in the middle of a pass, no part of a dump that is
\* still being written, nor a ranking older than the keys.
RestoresCompletedDumps ==
  [][RestoreReads /\ ends = 0 =>
       \/ maps'["frequencies"] = 0
       \/ \E i, j \in DOMAIN dumps :
            /\ i <= j
            /\ maps'["keys"] = dumps[i]["keys"]
            /\ maps'["frequencies"] = dumps[j]["frequencies"]]_vars

\* "will restore the whole collection of keys from a previous backup in disk"
\* (README.md:103): once there is a backup, the maps after a restore are those
\* of a completed dump.
RestoredWhole ==
  [][RestoreReads /\ dumps # <<>> => \E i \in DOMAIN dumps : maps' = dumps[i]]_vars
============================================================================
