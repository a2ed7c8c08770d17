------------------------ MODULE BackupManagerProofs ------------------------
(***************************************************************************)
(* Theorems about BackupManager for any number of generations and of       *)
(* files, passes and submissions, and for a process that ends at any       *)
(* point.  A pass shifts the files of each kind upwards from the oldest,   *)
(* leaving behind it a hole that wanders down to generation 0, where the   *)
(* new file is opened.  The inductive invariant says where a dump is while *)
(* the hole wanders: below it at its old generation, above it one higher,  *)
(* and never in it.                                                        *)
(***************************************************************************)
EXTENDS BackupManager, SequenceTheorems, TLAPS

Generation == 0 .. Generations

\* Where the hole of kind k is: above all generations between two passes.
Hole(k) ==
  IF pass = "sleep" THEN Generations + 1
  ELSE IF pass = "renameFrequencies" /\ k = "keys" THEN at - 1
  ELSE at

\* No file has two names.
Named ==
  \A k, l \in Kinds : \A g, h \in Generation :
    slot[k][g] # NoFile /\ slot[k][g] = slot[l][h] => k = l /\ g = h

Opened(k) ==
  \/ k = "keys" /\ pass \in {"openFrequencies", "dumpFrequencies", "dumpKeys"}
  \/ k = "frequencies" /\ pass \in {"dumpFrequencies", "dumpKeys"}

\* How far the pass is, and what the files it writes are named and hold.
PassInv ==
  /\ pass \in {"renameKeys", "renameFrequencies"} => at >= 1
  /\ pass \notin {"sleep", "renameKeys", "renameFrequencies"} => at = 0
  /\ pass # "sleep" => begun >= 1
  /\ \A k \in Kinds :
       /\ Hole(k) = 0 /\ ~Opened(k) => slot[k][0] = NoFile
       /\ Opened(k) => slot[k][0] = out[k] /\ out[k] # NoFile
       /\ ~Opened(k) => out[k] = NoFile
  /\ pass = "dumpFrequencies" => content[out["frequencies"]] = 0
  /\ pass = "dumpKeys" => content[out["frequencies"]] = maps["frequencies"]

\* Where the j-th but newest dump of kind k is.
Place(k, j) == IF j < Hole(k) THEN j ELSE j + 1

\* The dumps of this process are in their places, those that fell out excepted.
InOrder(k) ==
  \A j \in Generation :
    j < calm /\ Place(k, j) <= Generations => Holds(k, Place(k, j), dumps[Len(dumps) - j][k])

\* The last dump is somewhere, and not where the hole is.
Survives(k) ==
  dumps # <<>> /\ begun <= Generations =>
    \E g \in 0 .. begun :
      /\ Holds(k, g, dumps[Len(dumps)][k])
      /\ pass # "sleep" => g > Hole(k) \/ (g < Hole(k) /\ g <= begun - 1)

\* The files a restore has open.
RestoreInv ==
  /\ restore # "idle" => in["keys"] # NoFile /\ in["keys"] # out["frequencies"]
  /\ restore = "read" => in["frequencies"] # NoFile /\ in["frequencies"] # out["keys"]
  /\ restore # "idle" /\ apart => pass = "sleep" /\ in["keys"] = slot["keys"][0]
  /\ restore = "read" /\ apart => in["frequencies"] = slot["frequencies"][0]

\* In a process that never ended: before the first dump only files being written
\* have names; a restore has opened files being written or of completed dumps,
\* and its ranking is never older than its keys.
NothingYet ==
  dumps = <<>> => \A k \in Kinds : \A g \in Generation : slot[k][g] # NoFile => slot[k][g] = out[k]

KeysOpen ==
  restore # "idle" /\ in["keys"] # out["keys"] =>
    \E i \in DOMAIN dumps : content[in["keys"]] = dumps[i]["keys"]

BothOpen ==
  restore = "read" /\ in["frequencies"] # out["frequencies"] =>
    /\ in["keys"] # out["keys"]
    /\ \E i, j \in DOMAIN dumps :
         /\ i <= j
         /\ content[in["keys"]] = dumps[i]["keys"]
         /\ content[in["frequencies"]] = dumps[j]["frequencies"]

Unbroken == ends = 0 => calm = Len(dumps) /\ NothingYet /\ KeysOpen /\ BothOpen

BackupInv ==
  /\ TypeOK /\ Named /\ PassInv
  /\ \A k \in Kinds : InOrder(k) /\ Survives(k)
  /\ RestoreInv /\ Unbroken
---------------------------------------------------------------------------
(* Types and files.                                                        *)

USE GenerationsAssumption, EndsAssumption

\* A file moves up one generation; if there is none, nothing does.
LEMMA MoveUp ==
  ASSUME TypeOK, Named, NEW k \in Kinds, NEW a \in 1 .. Generations, slot' = Renamed(k, a)
  PROVE  /\ slot' \in [Kinds -> [Generation -> Inode \cup {NoFile}]]
         /\ \A l \in Kinds : l # k => slot'[l] = slot[l]
         /\ \A g \in Generation : g # a /\ g # a - 1 => slot'[k][g] = slot[k][g]
         /\ slot'[k][a - 1] = NoFile
         /\ slot[k][a - 1] # NoFile => slot'[k][a] = slot[k][a - 1]
         /\ slot[k][a - 1] = NoFile => slot' = slot
         /\ Named'
<1>0. a \in Generation /\ a - 1 \in Generation /\ a # a - 1
  BY DEF Generation
<1>1. slot \in [Kinds -> [Generation -> Inode \cup {NoFile}]]
  BY DEF TypeOK, Generation
<1>2. CASE slot[k][a - 1] = NoFile
  BY <1>0, <1>1, <1>2 DEF Renamed, Named
<1>3. CASE slot[k][a - 1] # NoFile
  <2> DEFINE row == [slot[k] EXCEPT ![a] = slot[k][a - 1], ![a - 1] = NoFile]
  <2>1. slot' = [slot EXCEPT ![k] = row]
    BY <1>0, <1>1, <1>3 DEF Renamed
  <2>2. /\ row \in [Generation -> Inode \cup {NoFile}]
        /\ row[a] = slot[k][a - 1] /\ row[a - 1] = NoFile
        /\ \A g \in Generation : g # a /\ g # a - 1 => row[g] = slot[k][g]
    BY <1>0, <1>1
  <2> HIDE DEF row
  <2>3. /\ slot' \in [Kinds -> [Generation -> Inode \cup {NoFile}]]
        /\ slot'[k] = row /\ \A l \in Kinds : l # k => slot'[l] = slot[l]
    BY <1>1, <2>1, <2>2
  <2>4. ASSUME NEW l \in Kinds, NEW g \in Generation, slot'[l][g] # NoFile
        PROVE  \E h \in Generation :
                 /\ slot'[l][g] = slot[l][h]
                 /\ IF l = k /\ g = a THEN h = a - 1 ELSE h = g /\ ~ (l = k /\ h = a - 1)
    BY <1>0, <2>2, <2>3, <2>4
  <2>5. Named'
    <3> SUFFICES ASSUME NEW l \in Kinds, NEW m \in Kinds, NEW g \in Generation, NEW h \in Generation,
                        slot'[l][g] # NoFile, slot'[l][g] = slot'[m][h]
                 PROVE  l = m /\ g = h
      BY DEF Named
    <3>1. PICK u \in Generation :
            /\ slot'[l][g] = slot[l][u]
            /\ IF l = k /\ g = a THEN u = a - 1 ELSE u = g /\ ~ (l = k /\ u = a - 1)
      BY <2>4
    <3>2. PICK v \in Generation :
            /\ slot'[m][h] = slot[m][v]
            /\ IF m = k /\ h = a THEN v = a - 1 ELSE v = h /\ ~ (m = k /\ v = a - 1)
      BY <2>4
    <3>3. slot[l][u] # NoFile /\ slot[l][u] = slot[m][v]
      BY ONLY <3>1, <3>2, slot'[l][g] # NoFile, slot'[l][g] = slot'[m][h]
    <3>4. l = m /\ u = v
      BY <3>3 DEF Named
    <3> QED
      BY <3>1, <3>2, <3>4
  <2> QED
    BY <1>3, <2>2, <2>3, <2>5
<1> QED
  BY <1>2, <1>3

\* Where there is no file of the newest name, opening for output makes a new one.
LEMMA OpenMakesFile ==
  ASSUME TypeOK, Named, NEW k \in Kinds, slot[k][0] = NoFile, Open(k)
  PROVE  \E f \in Inode :
           /\ Unused(f)
           /\ slot' \in [Kinds -> [Generation -> Inode \cup {NoFile}]]
           /\ slot'[k][0] = f /\ \A l \in Kinds : l # k => slot'[l] = slot[l]
           /\ \A g \in Generation : g # 0 => slot'[k][g] = slot[k][g]
           /\ content' \in [Inode -> Nat \cup {Torn}]
           /\ content'[f] = 0 /\ \A e \in Inode : e # f => content'[e] = content[e]
           /\ out' \in [Kinds -> Inode \cup {NoFile}]
           /\ out'[k] = f /\ \A l \in Kinds : l # k => out'[l] = out[l]
           /\ Named'
<1>0. 0 \in Generation /\ NoFile \notin Inode
  BY DEF Generation, Inode, NoFile
<1>1. /\ slot \in [Kinds -> [Generation -> Inode \cup {NoFile}]]
      /\ content \in [Inode -> Nat \cup {Torn}] /\ out \in [Kinds -> Inode \cup {NoFile}]
  BY DEF TypeOK, Generation
<1>2. PICK f \in Inode : /\ Unused(f)
                         /\ slot' = [slot EXCEPT ![k][0] = f]
                         /\ content' = [content EXCEPT ![f] = 0]
                         /\ out' = [out EXCEPT ![k] = f]
  BY DEF Open
<1> DEFINE row == [slot[k] EXCEPT ![0] = f]
<1>3. /\ row \in [Generation -> Inode \cup {NoFile}] /\ row[0] = f
      /\ \A g \in Generation : g # 0 => row[g] = slot[k][g]
      /\ slot' = [slot EXCEPT ![k] = row]
  BY <1>0, <1>1, <1>2
<1> HIDE DEF row
<1>4. /\ slot' \in [Kinds -> [Generation -> Inode \cup {NoFile}]]
      /\ slot'[k] = row /\ \A l \in Kinds : l # k => slot'[l] = slot[l]
  BY <1>1, <1>3
<1>5. \A l \in Kinds : \A g \in Generation : slot[l][g] # f
  BY <1>2 DEF Unused, Generation
<1>6. Named'
  <2> SUFFICES ASSUME NEW l \in Kinds, NEW m \in Kinds, NEW g \in Generation, NEW h \in Generation,
                      slot'[l][g] # NoFile, slot'[l][g] = slot'[m][h]
               PROVE  l = m /\ g = h
    BY DEF Named
  <2>1. \A n \in Kinds : \A i \in Generation :
          IF n = k /\ i = 0 THEN slot'[n][i] = f ELSE slot'[n][i] = slot[n][i]
    BY <1>3, <1>4
  <2> QED
    BY <1>5, <2>1 DEF Named
<1>7. /\ content' \in [Inode -> Nat \cup {Torn}]
      /\ content'[f] = 0 /\ \A e \in Inode : e # f => content'[e] = content[e]
      /\ out' \in [Kinds -> Inode \cup {NoFile}]
      /\ out'[k] = f /\ \A l \in Kinds : l # k => out'[l] = out[l]
  BY <1>1, <1>2
<1> QED
  BY <1>2, <1>3, <1>4, <1>6, <1>7

LEMMA BackupTypeInit == Init => TypeOK
<1>1. <<>> \in Seq([Kinds -> Nat \cup {Torn}]) /\ Len(<<>>) = 0
  BY EmptySeq
<1> QED
  BY <1>1 DEF Init, TypeOK, NoMaps, NoHandles, Passes, Restores, NoFile, Kinds

\* The types follow from where the pass and the restore are.
LEMMA BackupTypeStep ==
  ASSUME TypeOK, Named, PassInv, RestoreInv, [Next]_vars
  PROVE  TypeOK'
<1> USE DEF Passes, Restores
<1>0. /\ maps \in [Kinds -> Nat \cup {Torn}]
      /\ slot \in [Kinds -> [Generation -> Inode \cup {NoFile}]]
      /\ content \in [Inode -> Nat \cup {Torn}]
      /\ dumps \in Seq([Kinds -> Nat \cup {Torn}]) /\ Len(dumps) \in Nat
      /\ calm \in Nat /\ calm <= Len(dumps) /\ at \in Generation
      /\ changes \in Nat /\ ends \in 0 .. MaxEnds /\ begun \in Nat
      /\ out \in [Kinds -> Inode \cup {NoFile}] /\ in \in [Kinds -> Inode \cup {NoFile}]
      /\ NoMaps \in [Kinds -> Nat \cup {Torn}] /\ NoHandles \in [Kinds -> Inode \cup {NoFile}]
      /\ "keys" \in Kinds /\ "frequencies" \in Kinds
  BY DEF TypeOK, Generation, NoMaps, NoHandles, Kinds
<1>1. CASE BeginPass
  BY <1>0, <1>1 DEF BeginPass, TypeOK, Generation, disk, connection
<1>2. CASE RenameKeys
  <2>1. slot' \in [Kinds -> [Generation -> Inode \cup {NoFile}]]
    <3>1. at \in 1 .. Generations
      BY <1>0, <1>2 DEF RenameKeys, PassInv, Generation
    <3> QED
      BY <1>0, <1>2, <3>1, MoveUp DEF RenameKeys
  <2> QED
    BY <1>0, <1>2, <2>1 DEF RenameKeys, TypeOK, Generation, connection, history
<1>3. CASE RenameFrequencies
  <2>0. at \in 1 .. Generations
    BY <1>0, <1>3 DEF RenameFrequencies, PassInv, Generation
  <2>1. slot' \in [Kinds -> [Generation -> Inode \cup {NoFile}]]
    BY <1>0, <1>3, <2>0, MoveUp DEF RenameFrequencies
  <2>2. at' \in 0 .. Generations
    BY <1>3, <2>0 DEF RenameFrequencies
  <2> QED
    BY <1>0, <1>3, <2>1, <2>2 DEF RenameFrequencies, TypeOK, Generation, connection, history
<1>4. CASE OpenKeys
  <2>1. slot["keys"][0] = NoFile
    BY <1>0, <1>4 DEF OpenKeys, PassInv, Hole, Opened
  <2>2. /\ slot' \in [Kinds -> [Generation -> Inode \cup {NoFile}]]
        /\ content' \in [Inode -> Nat \cup {Torn}] /\ out' \in [Kinds -> Inode \cup {NoFile}]
    BY <1>0, <1>4, <2>1, OpenMakesFile DEF OpenKeys
  <2> QED
    BY <1>0, <1>4, <2>2 DEF OpenKeys, TypeOK, Generation, connection, history
<1>5. CASE OpenFrequencies
  <2>1. slot["frequencies"][0] = NoFile
    BY <1>0, <1>5 DEF OpenFrequencies, PassInv, Hole, Opened
  <2>2. /\ slot' \in [Kinds -> [Generation -> Inode \cup {NoFile}]]
        /\ content' \in [Inode -> Nat \cup {Torn}] /\ out' \in [Kinds -> Inode \cup {NoFile}]
    BY <1>0, <1>5, <2>1, OpenMakesFile DEF OpenFrequencies
  <2> QED
    BY <1>0, <1>5, <2>2 DEF OpenFrequencies, TypeOK, Generation, connection, history
<1>6. CASE DumpFrequencies
  <2>1. content' \in [Inode -> Nat \cup {Torn}]
    BY <1>0, <1>6 DEF DumpFrequencies
  <2> QED
    BY <1>0, <1>6, <2>1 DEF DumpFrequencies, TypeOK, Generation, connection, history
<1>7. CASE DumpKeys
  <2>1. content' \in [Inode -> Nat \cup {Torn}]
    BY <1>0, <1>7 DEF DumpKeys
  <2>2. dumps' \in Seq([Kinds -> Nat \cup {Torn}]) /\ calm' \in 0 .. Len(dumps')
    BY <1>0, <1>7 DEF DumpKeys
  <2> QED
    BY <1>0, <1>7, <2>1, <2>2 DEF DumpKeys, TypeOK, Generation, connection, NoHandles
<1>8. CASE RestoreOpensKeys
  <2>1. in' \in [Kinds -> Inode \cup {NoFile}]
    BY <1>0, <1>8 DEF RestoreOpensKeys, Generation
  <2> QED
    BY <1>0, <1>8, <2>1 DEF RestoreOpensKeys, TypeOK, Generation, disk, timer
<1>9. CASE RestoreOpensFrequencies
  <2>1. in' \in [Kinds -> Inode \cup {NoFile}] /\ restore' \in Restores
    <3>1. 0 \in Generation
      BY DEF Generation
    <3> QED
      BY <1>0, <1>9, <3>1 DEF RestoreOpensFrequencies
  <2> QED
    BY <1>0, <1>9, <2>1 DEF RestoreOpensFrequencies, TypeOK, Generation, disk, timer, history
<1>10. CASE RestoreReads
  <2>1. maps' \in [Kinds -> Nat \cup {Torn}]
    <3>1. \A k \in Kinds : in[k] \in Inode
      BY <1>0, <1>10 DEF RestoreReads, RestoreInv, Kinds
    <3> QED
      BY <1>0, <1>10, <3>1 DEF RestoreReads
  <2> QED
    BY <1>0, <1>10, <2>1 DEF RestoreReads, TypeOK, Generation, disk, timer, history
<1>11. CASE Submit
  BY <1>0, <1>11 DEF Submit, TypeOK, Generation, disk, timer, connection
<1>12. CASE ProcessEnds
  <2>1. content' \in [Inode -> Nat \cup {Torn}]
    BY <1>0, <1>12 DEF ProcessEnds
  <2> QED
    BY <1>0, <1>12, <2>1 DEF ProcessEnds, TypeOK, Generation
<1>13. CASE UNCHANGED vars
  BY <1>13 DEF vars, disk, timer, connection, history, TypeOK
<1> QED
  BY <1>1, <1>2, <1>3, <1>4, <1>5, <1>6, <1>7, <1>8, <1>9, <1>10, <1>11, <1>12, <1>13
     DEF Next, TimerThread, ConnectionThread
---------------------------------------------------------------------------
(* The pass.                                                               *)

\* What a step of the pass, or beside it, does to the names and the handles.
LEMMA PassStep ==
  ASSUME TypeOK, Named, PassInv, [Next]_vars
  PROVE  Named' /\ PassInv'
<1>0. /\ slot \in [Kinds -> [Generation -> Inode \cup {NoFile}]] /\ at \in Generation
      /\ content \in [Inode -> Nat \cup {Torn}] /\ out \in [Kinds -> Inode \cup {NoFile}]
      /\ begun \in Nat /\ 0 \in Generation
      /\ "keys" \in Kinds /\ "frequencies" \in Kinds
      /\ \A k \in Kinds : k = "keys" \/ k = "frequencies"
      /\ pass \in Passes
  BY DEF TypeOK, Generation, Kinds
<1>1. CASE BeginPass
  <2>1. /\ pass = "sleep" /\ pass' = "renameKeys" /\ at' = Generations /\ begun' = begun + 1
        /\ slot' = slot /\ content' = content /\ out' = out /\ maps' = maps
    BY <1>1 DEF BeginPass, disk
  <2> QED
    BY <1>0, <2>1 DEF Named, PassInv, Hole, Opened
<1>2. CASE RenameKeys
  <2>1. /\ pass = "renameKeys" /\ pass' = "renameFrequencies" /\ at' = at /\ begun' = begun
        /\ content' = content /\ out' = out /\ maps' = maps
        /\ slot' = Renamed("keys", at) /\ at \in 1 .. Generations
    BY <1>0, <1>2 DEF RenameKeys, connection, history, PassInv, Generation
  <2>2. Named' /\ slot'["keys"][at - 1] = NoFile /\ slot'["frequencies"] = slot["frequencies"]
    BY <1>0, <2>1, MoveUp
  <2> QED
    BY <1>0, <2>1, <2>2 DEF PassInv, Hole, Opened
<1>3. CASE RenameFrequencies
  <2>1. /\ pass = "renameFrequencies" /\ at' = at - 1 /\ begun' = begun
        /\ pass' = (IF at > 1 THEN "renameKeys" ELSE "openKeys")
        /\ content' = content /\ out' = out /\ maps' = maps
        /\ slot' = Renamed("frequencies", at) /\ at \in 1 .. Generations
    BY <1>0, <1>3 DEF RenameFrequencies, connection, history, PassInv, Generation
  <2>2. Named' /\ slot'["frequencies"][at - 1] = NoFile /\ slot'["keys"] = slot["keys"]
    BY <1>0, <2>1, MoveUp
  <2>3. CASE at > 1
    <3>1. pass' = "renameKeys" /\ at' >= 1 /\ \A k \in Kinds : Hole(k)' # 0 /\ ~Opened(k)'
      BY <2>1, <2>3 DEF Hole, Opened
    <3> QED
      BY <1>0, <2>1, <2>2, <3>1 DEF PassInv, Opened
  <2>4. CASE at = 1
    <3>1. pass' = "openKeys" /\ at' = 0 /\ \A k \in Kinds : ~Opened(k)' /\ ~Opened(k)
      BY <2>1, <2>4 DEF Opened
    <3>2. slot'["keys"][0] = NoFile /\ slot'["frequencies"][0] = NoFile
      BY <1>0, <2>1, <2>2, <2>4, <3>1 DEF PassInv, Hole
    <3> QED
      BY <1>0, <2>1, <2>2, <3>1, <3>2 DEF PassInv
  <2> QED
    BY <2>1, <2>3, <2>4
<1>4. CASE OpenKeys
  <2>1. /\ pass = "openKeys" /\ pass' = "openFrequencies" /\ at' = at /\ begun' = begun
        /\ Open("keys") /\ maps' = maps
    BY <1>4 DEF OpenKeys, connection, history
  <2>2. slot["keys"][0] = NoFile /\ slot["frequencies"][0] = NoFile
    BY <1>0, <2>1 DEF PassInv, Hole, Opened
  <2>3. PICK f \in Inode : /\ slot'["keys"][0] = f /\ slot'["frequencies"] = slot["frequencies"]
                           /\ out'["keys"] = f /\ out'["frequencies"] = out["frequencies"]
                           /\ Named'
    BY <1>0, <2>1, <2>2, OpenMakesFile
  <2>4. f # NoFile
    BY DEF Inode, NoFile
  <2> QED
    BY <1>0, <2>1, <2>2, <2>3, <2>4 DEF PassInv, Opened
<1>5. CASE OpenFrequencies
  <2>1. /\ pass = "openFrequencies" /\ pass' = "dumpFrequencies" /\ at' = at /\ begun' = begun
        /\ Open("frequencies") /\ maps' = maps
    BY <1>5 DEF OpenFrequencies, connection, history
  <2>2. slot["frequencies"][0] = NoFile
    BY <1>0, <2>1 DEF PassInv, Hole, Opened
  <2>3. PICK f \in Inode : /\ slot'["frequencies"][0] = f /\ slot'["keys"] = slot["keys"]
                           /\ out'["frequencies"] = f /\ out'["keys"] = out["keys"]
                           /\ content'[f] = 0 /\ Named'
    BY <1>0, <2>1, <2>2, OpenMakesFile
  <2>4. f # NoFile
    BY DEF Inode, NoFile
  <2> QED
    BY <1>0, <2>1, <2>3, <2>4 DEF PassInv, Opened
<1>6. CASE DumpFrequencies
  <2>1. /\ pass = "dumpFrequencies" /\ pass' = "dumpKeys" /\ at' = at /\ begun' = begun
        /\ slot' = slot /\ out' = out /\ maps' = maps
        /\ content' = [content EXCEPT ![out["frequencies"]] = maps["frequencies"]]
    BY <1>6 DEF DumpFrequencies, connection, history
  <2>2. out["frequencies"] \in Inode
    BY <1>0, <2>1 DEF PassInv, Opened
  <2>3. content'[out["frequencies"]] = maps["frequencies"]
    BY <1>0, <2>1, <2>2
  <2> QED
    BY <1>0, <2>1, <2>3 DEF PassInv, Opened, Named
<1>7. CASE DumpKeys
  <2>1. /\ pass = "dumpKeys" /\ pass' = "sleep" /\ at' = at /\ slot' = slot /\ out' = NoHandles
    BY <1>7 DEF DumpKeys, connection
  <2>2. \A k \in Kinds : Hole(k)' # 0 /\ ~Opened(k)' /\ out'[k] = NoFile
    BY <2>1 DEF Hole, Opened, NoHandles
  <2> QED
    BY <1>0, <2>1, <2>2 DEF PassInv, Named
<1>8. CASE ConnectionThread \/ Submit
  <2>1. UNCHANGED <<pass, at, begun, slot, content, out>> /\ (pass = "dumpKeys" => maps' = maps)
    BY <1>8 DEF ConnectionThread, RestoreOpensKeys, RestoreOpensFrequencies, RestoreReads, Submit,
                MutexFree, disk, timer, connection, history
  <2> QED
    BY <1>0, <2>1 DEF PassInv, Opened, Hole, Named
<1>9. CASE ProcessEnds
  <2>1. pass' = "sleep" /\ slot' = slot /\ out' = NoHandles
    BY <1>9 DEF ProcessEnds
  <2>2. \A k \in Kinds : Hole(k)' # 0 /\ ~Opened(k)' /\ out'[k] = NoFile
    BY <2>1 DEF Hole, Opened, NoHandles
  <2> QED
    BY <1>0, <2>1, <2>2 DEF PassInv, Named
<1>10. CASE UNCHANGED vars
  BY <1>10 DEF vars, disk, timer, connection, history, PassInv, Opened, Hole, Named
<1> QED
  BY <1>1, <1>2, <1>3, <1>4, <1>5, <1>6, <1>7, <1>8, <1>9, <1>10 DEF Next, TimerThread
---------------------------------------------------------------------------
(* The dumps.                                                              *)

\* The hole stays, or moves down by one; at the end of a pass, or of the process,
\* it is gone.
LEMMA HoleStep ==
  ASSUME TypeOK, PassInv, [Next]_vars, NEW k \in Kinds
  PROVE  /\ Hole(k) \in 0 .. Generations + 1 /\ Hole(k)' \in 0 .. Generations + 1
         /\ IF DumpKeys \/ ProcessEnds THEN Hole(k)' = Generations + 1
            ELSE Hole(k)' = Hole(k) \/ Hole(k)' = Hole(k) - 1
         /\ DumpKeys => Hole(k) = 0
<1>0. /\ at \in 0 .. Generations /\ (k = "keys" \/ k = "frequencies") /\ pass \in Passes
      /\ pass \in {"renameKeys", "renameFrequencies"} => at >= 1
      /\ pass \notin {"sleep", "renameKeys", "renameFrequencies"} => at = 0
  BY DEF TypeOK, Kinds, PassInv
<1> USE DEF Hole
<1>1. CASE BeginPass
  BY <1>0, <1>1 DEF BeginPass, DumpKeys, ProcessEnds
<1>2. CASE RenameKeys
  BY <1>0, <1>2 DEF RenameKeys, DumpKeys, ProcessEnds
<1>3. CASE RenameFrequencies
  <2>1. /\ pass = "renameFrequencies" /\ at' = at - 1 /\ at >= 1
        /\ pass' = (IF at > 1 THEN "renameKeys" ELSE "openKeys")
    BY <1>0, <1>3 DEF RenameFrequencies
  <2>2. ~DumpKeys /\ ~ProcessEnds
    BY <1>3 DEF RenameFrequencies, DumpKeys, ProcessEnds
  <2>3. CASE at > 1
    BY <1>0, <2>1, <2>2, <2>3
  <2>4. CASE at = 1
    BY <1>0, <2>1, <2>2, <2>4
  <2> QED
    BY <1>0, <2>1, <2>3, <2>4
<1>4. CASE OpenKeys \/ OpenFrequencies \/ DumpFrequencies
  BY <1>0, <1>4 DEF OpenKeys, OpenFrequencies, DumpFrequencies, DumpKeys, ProcessEnds
<1>5. CASE DumpKeys
  BY <1>0, <1>5 DEF DumpKeys
<1>6. CASE ConnectionThread \/ Submit
  <2>1. pass' = pass /\ at' = at
    BY <1>6 DEF ConnectionThread, RestoreOpensKeys, RestoreOpensFrequencies, RestoreReads, Submit, timer
  <2>2. ~DumpKeys /\ ~ProcessEnds
    BY <1>6 DEF ConnectionThread, RestoreOpensKeys, RestoreOpensFrequencies, RestoreReads, Submit,
                MutexFree, history, DumpKeys, ProcessEnds, TypeOK
  <2> QED
    BY <1>0, <2>1, <2>2
<1>7. CASE ProcessEnds
  <2>1. Hole(k) \in 0 .. Generations + 1
    BY <1>0
  <2>2. Hole(k)' = Generations + 1
    BY <1>7 DEF ProcessEnds
  <2>3. DumpKeys => Hole(k) = 0
    BY <1>0 DEF DumpKeys
  <2> QED
    BY <1>7, <2>1, <2>2, <2>3
<1>8. CASE UNCHANGED vars
  <2>1. pass' = pass /\ at' = at /\ ends' = ends
    BY <1>8 DEF vars, timer, history
  <2>2. ~DumpKeys /\ ~ProcessEnds
    BY <2>1 DEF DumpKeys, ProcessEnds, TypeOK
  <2> QED
    BY <1>0, <2>1, <2>2
<1> QED
  BY <1>1, <1>2, <1>3, <1>4, <1>5, <1>6, <1>7, <1>8 DEF Next, TimerThread

\* Where the file of generation g is after the hole has moved.
Moved(g, from, to) == IF to <= g /\ g < from THEN g + 1 ELSE g

WillHold(k, g, v) == slot'[k][g] # NoFile /\ content'[slot'[k][g]] = v

\* No step harms a file outside the hole; the hole moves it up when it passes.
LEMMA FilesStep ==
  ASSUME TypeOK, Named, PassInv, [Next]_vars, NEW k \in Kinds, NEW g \in Generation, NEW v,
         g # Hole(k), Holds(k, g, v), Moved(g, Hole(k), Hole(k)') <= Generations
  PROVE  WillHold(k, Moved(g, Hole(k), Hole(k)'), v)
<1>0. /\ slot \in [Kinds -> [Generation -> Inode \cup {NoFile}]] /\ at \in 0 .. Generations
      /\ content \in [Inode -> Nat \cup {Torn}] /\ out \in [Kinds -> Inode \cup {NoFile}]
      /\ 0 \in Generation /\ g \in 0 .. Generations
      /\ "keys" \in Kinds /\ "frequencies" \in Kinds /\ (k = "keys" \/ k = "frequencies")
      /\ slot[k][g] # NoFile /\ slot[k][g] \in Inode /\ content[slot[k][g]] = v
      /\ pass \in Passes
  BY DEF TypeOK, Generation, Kinds, Holds
<1>1. CASE BeginPass
  <2>1. slot' = slot /\ content' = content /\ Hole(k) = Generations + 1 /\ Hole(k)' = Generations
    BY <1>0, <1>1 DEF BeginPass, disk, Hole
  <2>2. Moved(g, Hole(k), Hole(k)') = g
    BY <1>0, <2>1 DEF Moved
  <2> QED
    BY <1>0, <2>1, <2>2 DEF WillHold
<1>2. ASSUME NEW a \in 1 .. Generations, content' = content, slot' = Renamed(k, a),
             Hole(k) = a, Hole(k)' = a - 1
      PROVE  WillHold(k, Moved(g, Hole(k), Hole(k)'), v)
  <2>1. /\ \A h \in Generation : h # a /\ h # a - 1 => slot'[k][h] = slot[k][h]
        /\ slot[k][a - 1] # NoFile => slot'[k][a] = slot[k][a - 1]
    BY <1>2, MoveUp
  <2>2. CASE g = a - 1
    <3>1. Moved(g, Hole(k), Hole(k)') = a
      BY <1>2, <2>2 DEF Moved
    <3>2. slot'[k][a] = slot[k][g]
      BY <1>0, <2>1, <2>2
    <3> QED
      BY <1>0, <1>2, <3>1, <3>2 DEF WillHold
  <2>3. CASE g # a - 1
    <3>1. Moved(g, Hole(k), Hole(k)') = g
      BY <1>0, <1>2, <2>3 DEF Moved
    <3>2. slot'[k][g] = slot[k][g]
      BY <1>2, <2>1, <2>3
    <3> QED
      BY <1>0, <1>2, <3>1, <3>2 DEF WillHold
  <2> QED
    BY <2>2, <2>3
<1>3. ASSUME Hole(k)' >= Hole(k), slot'[k][g] = slot[k][g],
             content'[slot[k][g]] = content[slot[k][g]]
      PROVE  WillHold(k, Moved(g, Hole(k), Hole(k)'), v)
  <2>1. Moved(g, Hole(k), Hole(k)') = g
    BY <1>0, <1>3, HoleStep DEF Moved
  <2> QED
    BY <1>0, <1>3, <2>1 DEF WillHold
<1>4. CASE RenameKeys
  <2>1. /\ content' = content /\ slot' = Renamed("keys", at) /\ at \in 1 .. Generations
        /\ pass = "renameKeys" /\ pass' = "renameFrequencies" /\ at' = at
    BY <1>0, <1>4 DEF RenameKeys, PassInv
  <2>2. CASE k = "keys"
    BY <1>2, <2>1, <2>2 DEF Hole
  <2>3. CASE k # "keys"
    <3>1. slot'[k] = slot[k]
      BY <1>0, <2>1, <2>3, MoveUp
    <3> QED
      BY <1>0, <1>3, <2>1, <2>3, <3>1 DEF Hole
  <2> QED
    BY <2>2, <2>3
<1>5. CASE RenameFrequencies
  <2>1. /\ content' = content /\ slot' = Renamed("frequencies", at) /\ at \in 1 .. Generations
        /\ pass = "renameFrequencies" /\ pass' \in {"renameKeys", "openKeys"} /\ at' = at - 1
    BY <1>0, <1>5 DEF RenameFrequencies, PassInv
  <2>2. CASE k = "frequencies"
    BY <1>2, <2>1, <2>2 DEF Hole
  <2>3. CASE k = "keys"
    <3>1. slot'[k] = slot[k]
      BY <1>0, <2>1, <2>3, MoveUp
    <3> QED
      BY <1>0, <1>3, <2>1, <2>3, <3>1 DEF Hole
  <2> QED
    BY <1>0, <2>2, <2>3
<1>6. ASSUME NEW l \in Kinds, slot[l][0] = NoFile, Open(l), Hole(k) = 0, Hole(k)' = 0
      PROVE  WillHold(k, Moved(g, Hole(k), Hole(k)'), v)
  <2>1. PICK f \in Inode :
          /\ Unused(f)
          /\ \A m \in Kinds : m # l => slot'[m] = slot[m]
          /\ \A h \in Generation : h # 0 => slot'[l][h] = slot[l][h]
          /\ \A e \in Inode : e # f => content'[e] = content[e]
    BY <1>6, OpenMakesFile
  <2>2. slot[k][g] # f
    BY <1>0, <2>1 DEF Unused
  <2>3. slot'[k][g] = slot[k][g] /\ content'[slot[k][g]] = content[slot[k][g]]
    BY <1>0, <1>6, <2>1, <2>2
  <2> QED
    BY <1>3, <1>6, <2>3
<1>7. CASE OpenKeys
  <2>1. pass = "openKeys" /\ pass' = "openFrequencies" /\ at = 0 /\ at' = 0
    BY <1>7 DEF OpenKeys, PassInv
  <2>2. slot["keys"][0] = NoFile /\ Open("keys")
    BY <1>0, <1>7, <2>1 DEF OpenKeys, PassInv, Hole, Opened
  <2> QED
    BY <1>0, <1>6, <2>1, <2>2 DEF Hole
<1>8. CASE OpenFrequencies
  <2>1. pass = "openFrequencies" /\ pass' = "dumpFrequencies" /\ at = 0 /\ at' = 0
    BY <1>8 DEF OpenFrequencies, PassInv
  <2>2. slot["frequencies"][0] = NoFile /\ Open("frequencies")
    BY <1>0, <1>8, <2>1 DEF OpenFrequencies, PassInv, Hole, Opened
  <2> QED
    BY <1>0, <1>6, <2>1, <2>2 DEF Hole
\* What is written is the newest file of its kind, which is in the hole.
<1>9. ASSUME NEW l \in Kinds, NEW w, Opened(l), pass \in {"dumpFrequencies", "dumpKeys"},
             content' = [content EXCEPT ![out[l]] = w], slot' = slot, Hole(k)' >= Hole(k)
      PROVE  WillHold(k, Moved(g, Hole(k), Hole(k)'), v)
  <2>1. Hole(k) = 0 /\ out[l] = slot[l][0]
    BY <1>9 DEF Hole, PassInv
  <2>2. slot[k][g] # out[l]
    BY <1>0, <2>1 DEF Named
  <2> QED
    BY <1>0, <1>3, <1>9, <2>2
<1>10. CASE DumpFrequencies
  <2>1. /\ Opened("frequencies") /\ pass = "dumpFrequencies" /\ pass' = "dumpKeys" /\ at' = at
        /\ content' = [content EXCEPT ![out["frequencies"]] = maps["frequencies"]] /\ slot' = slot
    BY <1>10 DEF DumpFrequencies, Opened
  <2>2. Hole(k)' = Hole(k)
    BY <2>1 DEF Hole
  <2>3. Hole(k)' >= Hole(k)
    BY <2>2, HoleStep
  <2> QED
    BY <1>0, <1>9, <2>1, <2>3
<1>11. CASE DumpKeys
  <2>1. /\ Opened("keys") /\ pass = "dumpKeys"
        /\ content' = [content EXCEPT ![out["keys"]] = maps["keys"]] /\ slot' = slot
    BY <1>11 DEF DumpKeys, Opened
  <2>2. Hole(k)' >= Hole(k)
    BY <1>11, HoleStep
  <2> QED
    BY <1>0, <1>9, <2>1, <2>2
<1>12. CASE ConnectionThread \/ Submit
  <2>1. UNCHANGED <<pass, at, slot, content>>
    BY <1>12 DEF ConnectionThread, RestoreOpensKeys, RestoreOpensFrequencies, RestoreReads, Submit,
                 timer, disk
  <2>2. Hole(k)' = Hole(k)
    BY <2>1 DEF Hole
  <2> QED
    BY <1>3, <2>1, <2>2, HoleStep
<1>13. CASE ProcessEnds
  <2>1. slot' = slot /\ Hole(k)' >= Hole(k)
    BY <1>13, HoleStep DEF ProcessEnds
  <2>2. CASE content' = content
    BY <1>3, <2>1, <2>2
  <2>3. CASE pass = "dumpFrequencies" /\ content' = [content EXCEPT ![out["frequencies"]] = Torn]
    BY <1>0, <1>9, <2>1, <2>3 DEF Opened
  <2>4. CASE pass = "dumpKeys" /\ content' = [content EXCEPT ![out["keys"]] = Torn]
    BY <1>0, <1>9, <2>1, <2>4 DEF Opened
  <2> QED
    BY <1>13, <2>2, <2>3, <2>4 DEF ProcessEnds
<1>14. CASE UNCHANGED vars
  <2>1. UNCHANGED <<pass, at, slot, content>>
    BY <1>14 DEF vars, timer, disk
  <2>2. Hole(k)' = Hole(k)
    BY <2>1 DEF Hole
  <2> QED
    BY <1>3, <2>1, <2>2, HoleStep
<1> QED
  BY <1>1, <1>4, <1>5, <1>7, <1>8, <1>10, <1>11, <1>12, <1>13, <1>14 DEF Next, TimerThread
\* A completed dump is the newest of both kinds.
LEMMA DumpCompletes ==
  ASSUME TypeOK, Named, PassInv, DumpKeys, NEW k \in Kinds
  PROVE  WillHold(k, 0, maps[k]) /\ dumps'[Len(dumps')] = maps
<1>1. /\ slot \in [Kinds -> [Generation -> Inode \cup {NoFile}]]
      /\ content \in [Inode -> Nat \cup {Torn}] /\ 0 \in Generation
      /\ "keys" \in Kinds /\ "frequencies" \in Kinds /\ (k = "keys" \/ k = "frequencies")
      /\ pass = "dumpKeys" /\ slot' = slot
      /\ content' = [content EXCEPT ![out["keys"]] = maps["keys"]]
  BY DEF TypeOK, Generation, Kinds, DumpKeys
<1>2. \A l \in Kinds : slot[l][0] = out[l] /\ out[l] # NoFile
  BY <1>1 DEF PassInv, Opened, Kinds
<1>3. content[out["frequencies"]] = maps["frequencies"]
  BY <1>1 DEF PassInv
<1>4. out["keys"] # out["frequencies"]
  BY <1>1, <1>2 DEF Named
<1>5. \A l \in Kinds : out[l] \in Inode
  BY <1>1, <1>2
<1>6. WillHold(k, 0, maps[k])
  BY <1>1, <1>2, <1>3, <1>4, <1>5 DEF WillHold
<1>7. dumps'[Len(dumps')] = maps
  BY DEF TypeOK, DumpKeys
<1> QED
  BY <1>6, <1>7

\* The dumps of this process stay in order.
LEMMA OrderStep ==
  ASSUME TypeOK, Named, PassInv, [Next]_vars, NEW k \in Kinds, InOrder(k)
  PROVE  InOrder(k)'
<1>0. /\ calm \in Nat /\ dumps \in Seq([Kinds -> Nat \cup {Torn}]) /\ Len(dumps) \in Nat
      /\ calm <= Len(dumps) /\ maps \in [Kinds -> Nat \cup {Torn}]
  BY DEF TypeOK
<1> DEFINE from == Hole(k)
           to == Hole(k)'
<1>1. /\ from \in 0 .. Generations + 1 /\ to \in 0 .. Generations + 1
      /\ IF DumpKeys \/ ProcessEnds THEN to = Generations + 1 ELSE to = from \/ to = from - 1
      /\ DumpKeys => from = 0
  BY HoleStep
<1>2. ASSUME NEW g \in Generation, NEW v, g # from, Holds(k, g, v), Moved(g, from, to) <= Generations
      PROVE  WillHold(k, Moved(g, from, to), v)
  BY <1>2, FilesStep
<1>3. SUFFICES ASSUME NEW j \in Generation, j < calm', Place(k, j)' <= Generations
               PROVE  WillHold(k, Place(k, j)', dumps'[Len(dumps') - j][k])
  BY DEF InOrder, Holds, WillHold
<1>4. Place(k, j) = (IF j < from THEN j ELSE j + 1) /\ Place(k, j)' = (IF j < to THEN j ELSE j + 1)
  BY DEF Place
<1>5. /\ calm' = calm \/ calm' = 0 \/ (DumpKeys /\ calm' = calm + 1)
      /\ ProcessEnds => calm' = 0
      /\ dumps' = dumps \/ (DumpKeys /\ dumps' = Append(dumps, maps) /\ calm' = calm + 1)
  BY DEF Next, TimerThread, BeginPass, RenameKeys, RenameFrequencies, OpenKeys, OpenFrequencies,
         DumpFrequencies, DumpKeys, ConnectionThread, RestoreOpensKeys, RestoreOpensFrequencies,
         RestoreReads, Submit, ProcessEnds, vars, history
<1>6. j \in Nat /\ j <= Generations
  BY DEF Generation
<1> HIDE DEF from, to
<1>7. CASE DumpKeys
  <2>1. to = Generations + 1 /\ from = 0 /\ Place(k, j)' = j
    <3>1. to = Generations + 1 /\ from = 0
      BY <1>1, <1>7
    <3> QED
      BY <1>4, <1>6, <3>1
  <2>2. dumps' = Append(dumps, maps) /\ calm' = calm + 1
    BY <1>7 DEF DumpKeys
  <2>3. CASE j = 0
    BY <1>7, <2>1, <2>3, DumpCompletes, <1>0, <2>2
  <2>4. CASE j # 0
    <3>1. j - 1 \in Generation /\ j - 1 < calm
      BY <1>0, <1>3, <1>6, <2>2, <2>4 DEF Generation
    <3>2. Holds(k, j, dumps[Len(dumps) - (j - 1)][k])
      <4>1. Place(k, j - 1) = (IF j - 1 < from THEN j - 1 ELSE j - 1 + 1)
        BY DEF Place, from
      <4>2. Place(k, j - 1) = j
        BY <1>6, <2>1, <2>4, <4>1
      <4> QED
        BY <1>6, <3>1, <4>2 DEF InOrder
    <3>3. Len(dumps') - j = Len(dumps) - (j - 1) /\ Len(dumps) - (j - 1) \in 1 .. Len(dumps)
      <4>1. Len(dumps') = Len(dumps) + 1
        BY <1>0, <2>2
      <4> QED
        BY <1>0, <1>6, <2>4, <3>1, <4>1 DEF Generation
    <3>4. dumps'[Len(dumps') - j] = dumps[Len(dumps) - (j - 1)]
      BY <1>0, <2>2, <3>3
    <3>5. Moved(j, from, to) = j /\ j # from
      BY <1>6, <2>1, <2>4 DEF Moved
    <3> QED
      BY <1>2, <1>6, <2>1, <3>2, <3>4, <3>5
  <2> QED
    BY <2>3, <2>4
<1>8. CASE ~DumpKeys /\ calm' # 0
  <2>1. calm' = calm /\ dumps' = dumps /\ ~ProcessEnds
    BY <1>5, <1>8
  <2>2. to = from \/ to = from - 1
    BY <1>1, <1>8, <2>1
  <2>3. /\ Place(k, j) \in Generation /\ Place(k, j) # from
        /\ Moved(Place(k, j), from, to) = Place(k, j)'
    BY <1>1, <1>3, <1>4, <1>6, <2>2 DEF Moved, Generation
  <2>4. Place(k, j) <= Generations
    BY <2>3 DEF Generation
  <2>5. Holds(k, Place(k, j), dumps[Len(dumps) - j][k])
    BY <1>3, <2>1, <2>4 DEF InOrder
  <2> QED
    BY <1>2, <1>3, <2>1, <2>3, <2>5
<1>9. CASE calm' = 0
  BY <1>3, <1>6, <1>9
<1> QED
  BY <1>7, <1>8, <1>9

\* The last dump survives.
LEMMA SurvivalStep ==
  ASSUME TypeOK, Named, PassInv, [Next]_vars, NEW k \in Kinds, Survives(k)
  PROVE  Survives(k)'
<1>0. /\ dumps \in Seq([Kinds -> Nat \cup {Torn}]) /\ Len(dumps) \in Nat /\ begun \in Nat
      /\ maps \in [Kinds -> Nat \cup {Torn}]
      /\ pass # "sleep" => begun >= 1
  BY DEF TypeOK, PassInv
<1> DEFINE from == Hole(k)
           to == Hole(k)'
<1>1. /\ from \in 0 .. Generations + 1 /\ to \in 0 .. Generations + 1
      /\ IF DumpKeys \/ ProcessEnds THEN to = Generations + 1 ELSE to = from \/ to = from - 1
      /\ DumpKeys => from = 0
  BY HoleStep
<1>2. ASSUME NEW g \in Generation, NEW v, g # from, Holds(k, g, v), Moved(g, from, to) <= Generations
      PROVE  WillHold(k, Moved(g, from, to), v)
  BY <1>2, FilesStep
<1>3. SUFFICES ASSUME dumps' # <<>>, begun' <= Generations
               PROVE  \E g \in 0 .. begun' :
                        /\ WillHold(k, g, dumps'[Len(dumps')][k])
                        /\ pass' # "sleep" => g > to \/ (g < to /\ g <= begun' - 1)
  BY DEF Survives, Holds, WillHold
<1>4. \/ DumpKeys
      \/ dumps' = dumps /\ pass' = "sleep" /\ begun' = begun /\ (ProcessEnds \/ pass = "sleep")
      \/ BeginPass
      \/ /\ dumps' = dumps /\ pass # "sleep" /\ pass' # "sleep" /\ begun' = begun
         /\ ~DumpKeys /\ ~ProcessEnds
  <2>1. CASE TimerThread \/ ProcessEnds
    <3>1. ends \in Nat
      BY DEF TypeOK
    <3> QED
      BY <2>1, <3>1 DEF TimerThread, BeginPass, RenameKeys, RenameFrequencies, OpenKeys, OpenFrequencies,
         DumpFrequencies, DumpKeys, ProcessEnds, history
  <2>2. CASE ConnectionThread \/ Submit \/ UNCHANGED vars
    <3>1. dumps' = dumps /\ pass' = pass /\ begun' = begun /\ ends' = ends
      BY <2>2 DEF ConnectionThread, RestoreOpensKeys, RestoreOpensFrequencies, RestoreReads, Submit,
                  timer, history, vars
    <3>2. ~DumpKeys /\ ~ProcessEnds
      BY <3>1 DEF DumpKeys, ProcessEnds, TypeOK
    <3> QED
      BY <3>1, <3>2
  <2> QED
    BY <2>1, <2>2 DEF Next
<1>5. CASE DumpKeys
  <2>1. WillHold(k, 0, maps[k]) /\ dumps'[Len(dumps')] = maps /\ pass' = "sleep" /\ begun' = 0
    BY <1>5, DumpCompletes DEF DumpKeys
  <2> QED
    BY <2>1
<1>6. ASSUME dumps' = dumps, begun <= Generations
      PROVE  \E g \in 0 .. begun : /\ g \in Generation /\ Holds(k, g, dumps'[Len(dumps')][k])
                                   /\ pass # "sleep" => g > from \/ (g < from /\ g <= begun - 1)
  BY <1>0, <1>3, <1>6 DEF Survives, Generation
<1> HIDE DEF from, to
<1>7. CASE dumps' = dumps /\ pass' = "sleep" /\ begun' = begun /\ (ProcessEnds \/ pass = "sleep")
  <2>1. PICK g \in 0 .. begun : /\ g \in Generation /\ Holds(k, g, dumps'[Len(dumps')][k])
                                /\ pass # "sleep" => g > from \/ (g < from /\ g <= begun - 1)
    BY <1>3, <1>6, <1>7
  <2>2. g # from /\ Moved(g, from, to) = g
    <3>1. pass = "sleep" => from = Generations + 1
      BY DEF Hole, from
    <3>2. pass' = "sleep" => to = Generations + 1
      BY DEF Hole, to
    <3> QED
      BY <1>0, <1>1, <1>7, <2>1, <3>1, <3>2 DEF Moved, Generation
  <2>3. WillHold(k, g, dumps'[Len(dumps')][k])
    BY <1>2, <2>1, <2>2 DEF Generation
  <2> QED
    BY <1>7, <2>1, <2>3
<1>8. CASE BeginPass
  <2>1. /\ dumps' = dumps /\ begun' = begun + 1 /\ pass = "sleep" /\ pass' = "renameKeys"
        /\ from = Generations + 1 /\ to = Generations
    BY <1>8 DEF BeginPass, Hole, from, to
  <2>2. PICK g \in 0 .. begun : g \in Generation /\ Holds(k, g, dumps'[Len(dumps')][k])
    BY <1>0, <1>3, <1>6, <2>1
  <2>3. g # from /\ Moved(g, from, to) = g /\ g < to /\ g <= begun' - 1 /\ g \in 0 .. begun'
    BY <1>0, <1>3, <2>1, <2>2 DEF Moved, Generation
  <2>4. WillHold(k, g, dumps'[Len(dumps')][k])
    BY <1>2, <2>2, <2>3 DEF Generation
  <2> QED
    BY <2>3, <2>4
<1>9. CASE /\ dumps' = dumps /\ pass # "sleep" /\ pass' # "sleep" /\ begun' = begun
           /\ ~DumpKeys /\ ~ProcessEnds
  <2>1. PICK g \in 0 .. begun : /\ g \in Generation /\ Holds(k, g, dumps'[Len(dumps')][k])
                                /\ g > from \/ (g < from /\ g <= begun - 1)
    BY <1>3, <1>6, <1>9
  <2> DEFINE h == Moved(g, from, to)
  <2>2. /\ g # from /\ h \in 0 .. begun /\ h <= Generations
        /\ h > to \/ (h < to /\ h <= begun - 1)
    BY <1>0, <1>1, <1>3, <1>9, <2>1 DEF Moved, Generation
  <2>3. WillHold(k, h, dumps'[Len(dumps')][k])
    BY <1>2, <2>1, <2>2
  <2> HIDE DEF h
  <2> QED
    BY <1>9, <2>2, <2>3
<1> QED
  BY <1>4, <1>5, <1>7, <1>8, <1>9
---------------------------------------------------------------------------
(* The restore.                                                            *)

\* What a handle of a pass is: the file it made under the newest name, or none.
LEMMA WhatIsOpened ==
  ASSUME PassInv, NEW k \in Kinds
  PROVE  out[k] = NoFile \/ (Opened(k) /\ out[k] = slot[k][0])
BY DEF PassInv

\* The newest files, while the hole is above them.
LEMMA Newest ==
  ASSUME TypeOK, PassInv, NEW k \in Kinds, InOrder(k), Hole(k) # 0, calm > 0
  PROVE  Holds(k, 0, dumps[Len(dumps)][k]) /\ Len(dumps) \in DOMAIN dumps
<1>1. /\ calm \in Nat /\ calm <= Len(dumps) /\ Len(dumps) \in Nat /\ 0 \in Generation
      /\ at \in Nat /\ DOMAIN dumps = 1 .. Len(dumps)
  BY DEF TypeOK, Generation
<1>2. Hole(k) > 0
  BY <1>1 DEF Hole, PassInv
<1>3. Place(k, 0) = 0
  BY <1>2 DEF Place
<1> QED
  BY <1>1, <1>3 DEF InOrder

\* The files a restore has open stay what they are.
LEMMA RestoreStep ==
  ASSUME TypeOK, Named, PassInv, RestoreInv, [Next]_vars
  PROVE  RestoreInv'
<1>0. /\ slot \in [Kinds -> [Generation -> Inode \cup {NoFile}]] /\ 0 \in Generation
      /\ out \in [Kinds -> Inode \cup {NoFile}] /\ in \in [Kinds -> Inode \cup {NoFile}]
      /\ "keys" \in Kinds /\ "frequencies" \in Kinds /\ NoFile \notin Inode
  BY DEF TypeOK, Generation, Kinds, Inode, NoFile
<1>1. CASE BeginPass
  BY <1>1 DEF BeginPass, RestoreInv, disk, connection
<1>2. CASE RenameKeys \/ RenameFrequencies \/ DumpFrequencies
  <2>1. /\ pass # "sleep" /\ out' = out /\ in' = in /\ restore' = restore /\ apart' = apart
    BY <1>2 DEF RenameKeys, RenameFrequencies, DumpFrequencies, connection, history
  <2> QED
    BY <2>1 DEF RestoreInv
<1>3. ASSUME NEW k \in Kinds, slot[k][0] = NoFile, Open(k), pass # "sleep",
             UNCHANGED <<restore, in, apart>>
      PROVE  RestoreInv'
  <2>1. PICK f \in Inode : Unused(f) /\ out'[k] = f /\ \A l \in Kinds : l # k => out'[l] = out[l]
    BY <1>3, OpenMakesFile
  <2>2. \A l \in Kinds : in[l] # f
    BY <2>1 DEF Unused
  <2> QED
    BY <1>0, <1>3, <2>1, <2>2 DEF RestoreInv
<1>4. CASE OpenKeys
  <2>1. slot["keys"][0] = NoFile
    BY <1>0, <1>4 DEF OpenKeys, PassInv, Hole, Opened
  <2> QED
    BY <1>0, <1>3, <1>4, <2>1 DEF OpenKeys, connection, history
<1>5. CASE OpenFrequencies
  <2>1. slot["frequencies"][0] = NoFile
    BY <1>0, <1>5 DEF OpenFrequencies, PassInv, Hole, Opened
  <2> QED
    BY <1>0, <1>3, <1>5, <2>1 DEF OpenFrequencies, connection, history
<1>6. CASE DumpKeys
  <2>1. /\ pass # "sleep" /\ out' = NoHandles /\ in' = in /\ restore' = restore /\ apart' = apart
    BY <1>6 DEF DumpKeys, connection
  <2>2. out'["keys"] = NoFile /\ out'["frequencies"] = NoFile
    BY <1>0, <2>1 DEF NoHandles
  <2> QED
    BY <2>1, <2>2 DEF RestoreInv
<1>7. CASE RestoreOpensKeys
  <2>1. /\ in'["keys"] = slot["keys"][0] /\ slot["keys"][0] # NoFile
        /\ restore' = "openFrequencies" /\ apart' = (pass = "sleep")
        /\ UNCHANGED <<slot, pass, out>>
    BY <1>0, <1>7 DEF RestoreOpensKeys, disk, timer
  <2>2. in'["keys"] # out["frequencies"]
    BY <1>0, <2>1, WhatIsOpened DEF Named
  <2> QED
    BY <2>1, <2>2 DEF RestoreInv
<1>8. CASE RestoreOpensFrequencies
  <2>1. restore = "openFrequencies" /\ UNCHANGED <<slot, pass, out, apart>>
    BY <1>8 DEF RestoreOpensFrequencies, disk, timer, history
  <2>2. CASE slot["frequencies"][0] = NoFile
    BY <1>8, <2>2 DEF RestoreOpensFrequencies, RestoreInv
  <2>3. CASE slot["frequencies"][0] # NoFile
    <3>1. in'["frequencies"] = slot["frequencies"][0] /\ in'["keys"] = in["keys"] /\ restore' = "read"
      BY <1>0, <1>8, <2>3 DEF RestoreOpensFrequencies
    <3>2. in'["frequencies"] # out["keys"]
      BY <1>0, <2>3, <3>1, WhatIsOpened DEF Named
    <3> QED
      BY <2>1, <2>3, <3>1, <3>2 DEF RestoreInv
  <2> QED
    BY <2>2, <2>3
<1>9. CASE RestoreReads \/ ProcessEnds
  BY <1>9 DEF RestoreReads, ProcessEnds, RestoreInv
<1>10. CASE Submit \/ UNCHANGED vars
  <2>1. UNCHANGED <<slot, pass, out, restore, in, apart>>
    BY <1>10 DEF Submit, vars, disk, timer, connection, history
  <2> QED
    BY <2>1 DEF RestoreInv
<1> QED
  BY <1>1, <1>2, <1>4, <1>5, <1>6, <1>7, <1>8, <1>9, <1>10 DEF Next, TimerThread, ConnectionThread
\* As long as the process has not ended, a restore has opened completed dumps.
LEMMA UnbrokenStep ==
  ASSUME TypeOK, Named, PassInv, RestoreInv, InOrder("frequencies"), InOrder("keys"),
         Unbroken, [Next]_vars
  PROVE  Unbroken'
<1>0. /\ slot \in [Kinds -> [Generation -> Inode \cup {NoFile}]] /\ 0 \in Generation
      /\ content \in [Inode -> Nat \cup {Torn}] /\ maps \in [Kinds -> Nat \cup {Torn}]
      /\ out \in [Kinds -> Inode \cup {NoFile}] /\ in \in [Kinds -> Inode \cup {NoFile}]
      /\ "keys" \in Kinds /\ "frequencies" \in Kinds /\ NoFile \notin Inode
      /\ dumps \in Seq([Kinds -> Nat \cup {Torn}]) /\ Len(dumps) \in Nat
      /\ DOMAIN dumps = 1 .. Len(dumps)
      /\ at \in 0 .. Generations /\ ends \in Nat /\ calm \in Nat
  BY DEF TypeOK, Generation, Kinds, Inode, NoFile
<1>00. /\ restore # "idle" => in["keys"] # NoFile /\ in["keys"] # out["frequencies"]
       /\ restore = "read" => in["frequencies"] # NoFile /\ in["frequencies"] # out["keys"]
       /\ restore = "read" => restore # "idle"
  BY DEF RestoreInv
<1>1. SUFFICES ASSUME ends' = 0 PROVE Unbroken'
  BY DEF Unbroken
<1>2. CASE ProcessEnds
  BY <1>0, <1>1, <1>2 DEF ProcessEnds
<1>3. SUFFICES ASSUME ends' = ends, ~ProcessEnds PROVE Unbroken'
  <2>1. ends' = ends \/ ProcessEnds
    BY DEF Next, TimerThread, BeginPass, RenameKeys, RenameFrequencies, OpenKeys, OpenFrequencies,
         DumpFrequencies, DumpKeys, ConnectionThread, RestoreOpensKeys, RestoreOpensFrequencies,
         RestoreReads, Submit, vars, history
  <2> QED
    BY <1>2, <2>1
<1>4. calm = Len(dumps) /\ NothingYet /\ KeysOpen /\ BothOpen
  BY <1>1, <1>3 DEF Unbroken
<1>5. CASE BeginPass \/ Submit \/ UNCHANGED vars
  <2>1. UNCHANGED <<slot, content, out, dumps, calm, restore, in>>
    BY <1>5 DEF BeginPass, Submit, vars, disk, timer, connection, history
  <2> QED
    BY <1>4, <2>1 DEF Unbroken, NothingYet, KeysOpen, BothOpen
<1>6. ASSUME NEW k \in Kinds, NEW a \in 1 .. Generations, slot' = Renamed(k, a), ~Opened(k),
             UNCHANGED <<content, out, dumps, calm, restore, in>>
      PROVE  Unbroken'
  <2>1. NothingYet'
    <3>1. SUFFICES ASSUME dumps = <<>> PROVE NothingYet'
      BY <1>6 DEF NothingYet
    <3>2. out[k] = NoFile
      BY <1>6 DEF PassInv
    <3>3. slot[k][a - 1] = NoFile
      BY <1>4, <3>1, <3>2 DEF NothingYet, Generation
    <3>4. slot' = slot
      BY <1>6, <3>3, MoveUp
    <3> QED
      BY <1>4, <1>6, <3>4 DEF NothingYet
  <2> QED
    BY <1>4, <1>6, <2>1 DEF Unbroken, KeysOpen, BothOpen
<1>7. CASE RenameKeys \/ RenameFrequencies
  <2>1. /\ at \in 1 .. Generations /\ ~Opened("keys") /\ ~Opened("frequencies")
        /\ slot' = Renamed("keys", at) \/ slot' = Renamed("frequencies", at)
        /\ UNCHANGED <<content, out, dumps, calm, restore, in>>
    BY <1>0, <1>7 DEF RenameKeys, RenameFrequencies, PassInv, Opened, connection, history
  <2> QED
    BY <1>0, <1>6, <2>1
<1>8. ASSUME NEW k \in Kinds, slot[k][0] = NoFile, Open(k), out[k] = NoFile,
             UNCHANGED <<dumps, calm, restore, in>>
      PROVE  Unbroken'
  <2>1. PICK f \in Inode :
          /\ Unused(f) /\ out'[k] = f /\ \A l \in Kinds : l # k => out'[l] = out[l]
          /\ slot'[k][0] = f /\ \A l \in Kinds : l # k => slot'[l] = slot[l]
          /\ \A g \in Generation : g # 0 => slot'[k][g] = slot[k][g]
          /\ \A e \in Inode : e # f => content'[e] = content[e]
    BY <1>8, OpenMakesFile
  <2>2. \A l \in Kinds : /\ in[l] # f /\ (in[l] # NoFile => content'[in[l]] = content[in[l]])
                         /\ in[l] # NoFile /\ in[l] = out'[l] => in[l] = out[l]
                         /\ in[l] # NoFile /\ in[l] = out[l] => in[l] = out'[l]
    <3>1. \A l \in Kinds : in[l] # f
      BY <2>1 DEF Unused
    <3> QED
      BY <1>0, <1>8, <2>1, <3>1
  <2>3. NothingYet'
    <3>1. SUFFICES ASSUME dumps = <<>>, NEW l \in Kinds, NEW g \in Generation, slot'[l][g] # NoFile
                   PROVE  slot'[l][g] = out'[l]
      BY <1>8 DEF NothingYet
    <3>2. slot[l][g] # NoFile => slot[l][g] = out[l]
      BY <1>4, <3>1 DEF NothingYet
    <3>3. CASE l = k /\ g = 0
      BY <2>1, <3>3
    <3>4. CASE l = k /\ g # 0
      BY <1>8, <2>1, <3>1, <3>2, <3>4
    <3>5. CASE l # k
      BY <2>1, <3>1, <3>2, <3>5
    <3> QED
      BY <3>3, <3>4, <3>5
  <2>4. KeysOpen'
    BY <1>0, <1>00, <1>4, <1>8, <2>2 DEF KeysOpen
  <2>5. BothOpen'
    BY <1>0, <1>00, <1>4, <1>8, <2>2 DEF BothOpen
  <2> QED
    BY <1>4, <1>8, <2>3, <2>4, <2>5 DEF Unbroken
<1>9. CASE OpenKeys
  <2>1. slot["keys"][0] = NoFile /\ out["keys"] = NoFile
    BY <1>0, <1>9 DEF OpenKeys, PassInv, Hole, Opened
  <2> QED
    BY <1>0, <1>8, <1>9, <2>1 DEF OpenKeys, connection, history
<1>10. CASE OpenFrequencies
  <2>1. slot["frequencies"][0] = NoFile /\ out["frequencies"] = NoFile
    BY <1>0, <1>10 DEF OpenFrequencies, PassInv, Hole, Opened
  <2> QED
    BY <1>0, <1>8, <1>10, <2>1 DEF OpenFrequencies, connection, history
<1>11. CASE DumpFrequencies
  <2>1. /\ content' = [content EXCEPT ![out["frequencies"]] = maps["frequencies"]]
        /\ UNCHANGED <<slot, out, dumps, calm, restore, in>>
    BY <1>11 DEF DumpFrequencies, connection, history
  <2>2. \A e \in Inode : e # out["frequencies"] => content'[e] = content[e]
    BY <1>0, <2>1
  <2>3. /\ restore # "idle" => content'[in["keys"]] = content[in["keys"]]
        /\ in["frequencies"] # out["frequencies"] /\ restore = "read" =>
             content'[in["frequencies"]] = content[in["frequencies"]]
    BY <1>0, <1>00, <2>2
  <2> QED
    BY <1>00, <1>4, <2>1, <2>3 DEF Unbroken, NothingYet, KeysOpen, BothOpen
<1>12. CASE DumpKeys
  <2>1. /\ content' = [content EXCEPT ![out["keys"]] = maps["keys"]]
        /\ dumps' = Append(dumps, maps) /\ calm' = calm + 1 /\ out' = NoHandles
        /\ UNCHANGED <<slot, restore, in>>
        /\ pass = "dumpKeys" /\ content[out["frequencies"]] = maps["frequencies"]
    BY <1>12 DEF DumpKeys, connection, PassInv
  <2>2. \A e \in Inode : e # out["keys"] => content'[e] = content[e]
    BY <1>0, <2>1
  <2>3. out["keys"] \in Inode => content'[out["keys"]] = maps["keys"]
    BY <1>0, <2>1
  <2> DEFINE n == Len(dumps)
  <2>4. /\ Len(dumps') = n + 1 /\ DOMAIN dumps' = 1 .. n + 1 /\ dumps'[n + 1] = maps
        /\ \A i \in 1 .. n : dumps'[i] = dumps[i]
    BY <1>0, <2>1
  <2>5. n \in Nat /\ DOMAIN dumps = 1 .. n /\ calm = n
    BY <1>0, <1>4
  <2> HIDE DEF n
  <2>6. dumps' # <<>>
    <3>1. Len(<<>>) = 0
      OBVIOUS
    <3> QED
      BY <2>4, <2>5, <3>1
  <2>7. restore # "idle" => \E i \in 1 .. n + 1 : content'[in["keys"]] = dumps'[i]["keys"]
    <3>1. SUFFICES ASSUME restore # "idle"
                   PROVE  \E i \in 1 .. n + 1 : content'[in["keys"]] = dumps'[i]["keys"]
      OBVIOUS
    <3>2. CASE in["keys"] = out["keys"]
      BY <1>0, <1>00, <2>3, <2>4, <2>5, <3>1, <3>2
    <3>3. CASE in["keys"] # out["keys"]
      <4>1. PICK i \in 1 .. n : content[in["keys"]] = dumps[i]["keys"]
        BY <1>4, <2>5, <3>1, <3>3 DEF KeysOpen
      <4>2. content'[in["keys"]] = dumps'[i]["keys"] /\ i \in 1 .. n + 1
        BY <1>0, <1>00, <2>2, <2>4, <2>5, <3>1, <3>3, <4>1
      <4> QED
        BY <4>2
    <3> QED
      BY <3>2, <3>3
  <2>8. restore = "read" => \E i, j \in 1 .. n + 1 :
                              /\ i <= j
                              /\ content'[in["keys"]] = dumps'[i]["keys"]
                              /\ content'[in["frequencies"]] = dumps'[j]["frequencies"]
    <3>1. SUFFICES ASSUME restore = "read"
                   PROVE  \E i, j \in 1 .. n + 1 :
                            /\ i <= j
                            /\ content'[in["keys"]] = dumps'[i]["keys"]
                            /\ content'[in["frequencies"]] = dumps'[j]["frequencies"]
      OBVIOUS
    <3>2. content'[in["frequencies"]] = content[in["frequencies"]]
      BY <1>0, <1>00, <2>2, <3>1
    <3>3. CASE in["frequencies"] = out["frequencies"]
      <4>1. PICK i \in 1 .. n + 1 : content'[in["keys"]] = dumps'[i]["keys"]
        BY <1>00, <2>7, <3>1
      <4>2. n + 1 \in 1 .. n + 1 /\ i <= n + 1
        BY <2>5
      <4>3. content'[in["frequencies"]] = dumps'[n + 1]["frequencies"]
        BY <2>1, <2>4, <3>2, <3>3
      <4> QED
        BY <4>1, <4>2, <4>3
    <3>4. CASE in["frequencies"] # out["frequencies"]
      <4>1. PICK i \in 1 .. n, j \in 1 .. n :
              /\ i <= j
              /\ content[in["keys"]] = dumps[i]["keys"]
              /\ content[in["frequencies"]] = dumps[j]["frequencies"]
        BY <1>4, <2>5, <3>1, <3>4 DEF BothOpen
      <4>2. in["keys"] # out["keys"] /\ in["keys"] \in Inode
        BY <1>0, <1>00, <1>4, <3>1, <3>4 DEF BothOpen
      <4>3. content'[in["keys"]] = content[in["keys"]]
        BY <2>2, <4>2
      <4>4. i \in 1 .. n + 1 /\ j \in 1 .. n + 1 /\ dumps'[i] = dumps[i] /\ dumps'[j] = dumps[j]
        BY <2>4, <2>5
      <4> QED
        BY <3>2, <4>1, <4>3, <4>4
    <3> QED
      BY <3>3, <3>4
  <2>9. out'["keys"] = NoFile /\ out'["frequencies"] = NoFile
    BY <1>0, <2>1 DEF NoHandles
  <2>10. calm' = Len(dumps')
    BY <2>1, <2>4, <2>5
  <2>11. NothingYet'
    BY <2>6 DEF NothingYet
  <2>12. KeysOpen'
    BY <2>1, <2>4, <2>7 DEF KeysOpen
  <2>13. BothOpen'
    <3>1. restore = "read" => in["keys"] # NoFile
      BY <1>00
    <3> QED
      BY <2>1, <2>4, <2>8, <2>9, <3>1 DEF BothOpen
  <2> QED
    BY <2>10, <2>11, <2>12, <2>13 DEF Unbroken
\* A file of the newest name that is not being written is of the last dump.
<1>13. ASSUME NEW k \in Kinds, InOrder(k), slot[k][0] # NoFile, slot[k][0] # out[k]
       PROVE  /\ Len(dumps) \in DOMAIN dumps /\ content[slot[k][0]] = dumps[Len(dumps)][k]
              /\ Hole(k) # 0
  <2>1. ~Opened(k) /\ Hole(k) # 0
    BY <1>13 DEF PassInv
  <2>2. calm > 0
    <3>1. dumps # <<>>
      BY <1>0, <1>4, <1>13 DEF NothingYet
    <3>2. Len(dumps) # 0
      BY <1>0, <3>1
    <3> QED
      BY <1>0, <1>4, <3>2
  <2> QED
    BY <1>13, <2>1, <2>2, Newest DEF Holds
<1>14. CASE RestoreOpensKeys
  <2>1. /\ in'["keys"] = slot["keys"][0] /\ slot["keys"][0] # NoFile /\ restore' = "openFrequencies"
        /\ UNCHANGED <<slot, content, out, dumps, calm>>
    BY <1>0, <1>14 DEF RestoreOpensKeys, disk, timer
  <2>2. KeysOpen'
    BY <1>0, <1>13, <2>1 DEF KeysOpen
  <2> QED
    BY <1>4, <2>1, <2>2 DEF Unbroken, NothingYet, BothOpen
<1>15. CASE RestoreOpensFrequencies
  <2>1. restore = "openFrequencies" /\ UNCHANGED <<slot, content, out, dumps, calm>>
    BY <1>15 DEF RestoreOpensFrequencies, disk, timer, history
  <2>2. CASE slot["frequencies"][0] = NoFile
    <3>1. restore' = "idle"
      BY <1>15, <2>2 DEF RestoreOpensFrequencies
    <3> QED
      BY <1>4, <2>1, <3>1 DEF Unbroken, NothingYet, KeysOpen, BothOpen
  <2>3. CASE slot["frequencies"][0] # NoFile
    <3>1. in'["frequencies"] = slot["frequencies"][0] /\ in'["keys"] = in["keys"] /\ restore' = "read"
      BY <1>0, <1>15, <2>3 DEF RestoreOpensFrequencies
    <3>2. KeysOpen'
      BY <1>4, <2>1, <3>1 DEF KeysOpen
    <3>3. BothOpen'
      <4>1. SUFFICES ASSUME slot["frequencies"][0] # out["frequencies"] PROVE BothOpen'
        BY <2>1, <3>1 DEF BothOpen
      <4>2. /\ Len(dumps) \in DOMAIN dumps
            /\ content[slot["frequencies"][0]] = dumps[Len(dumps)]["frequencies"]
            /\ Hole("frequencies") # 0
        BY <1>0, <1>13, <2>3, <4>1
      <4>3. ~Opened("keys")
        BY <4>2 DEF Hole, Opened, PassInv
      <4>4. in["keys"] # out["keys"]
        BY <1>0, <1>00, <2>1, <4>3 DEF PassInv
      <4>5. PICK i \in DOMAIN dumps : content[in["keys"]] = dumps[i]["keys"]
        BY <1>4, <2>1, <4>4 DEF KeysOpen
      <4>6. i <= Len(dumps)
        BY <1>0
      <4> QED
        BY <2>1, <3>1, <4>2, <4>4, <4>5, <4>6 DEF BothOpen
    <3> QED
      BY <1>4, <2>1, <3>2, <3>3 DEF Unbroken, NothingYet
  <2> QED
    BY <2>2, <2>3
<1>16. CASE RestoreReads
  <2>1. restore' = "idle" /\ UNCHANGED <<slot, content, out, dumps, calm>>
    BY <1>16 DEF RestoreReads, disk, timer, history
  <2> QED
    BY <1>4, <2>1 DEF Unbroken, NothingYet, KeysOpen, BothOpen
<1> QED
  BY <1>2, <1>3, <1>5, <1>7, <1>9, <1>10, <1>11, <1>12, <1>14, <1>15, <1>16
     DEF Next, TimerThread, ConnectionThread

---------------------------------------------------------------------------
(* The theorems.                                                           *)

LEMMA BackupInit == Init => BackupInv
<1> SUFFICES ASSUME Init PROVE BackupInv
  OBVIOUS
<1>1. TypeOK
  BY BackupTypeInit
<1>2. /\ \A k \in Kinds : \A g \in Generation : slot[k][g] = NoFile
      /\ \A k \in Kinds : out[k] = NoFile
      /\ dumps = <<>> /\ Len(dumps) = 0 /\ calm = 0 /\ begun = 0 /\ pass = "sleep" /\ restore = "idle"
  BY DEF Init, NoHandles, Generation
<1>3. Named
  BY <1>2 DEF Named
<1>4. PassInv
  BY <1>2 DEF PassInv, Opened, Hole
<1>5. ASSUME NEW k \in Kinds PROVE InOrder(k) /\ Survives(k)
  BY <1>2 DEF InOrder, Survives, Generation
<1>6. RestoreInv /\ Unbroken
  BY <1>2 DEF RestoreInv, Unbroken, NothingYet, KeysOpen, BothOpen
<1> QED
  BY <1>1, <1>3, <1>4, <1>5, <1>6 DEF BackupInv

LEMMA BackupStep == BackupInv /\ [Next]_vars => BackupInv'
<1> SUFFICES ASSUME BackupInv, [Next]_vars PROVE BackupInv'
  OBVIOUS
<1>1. /\ TypeOK /\ Named /\ PassInv /\ RestoreInv /\ Unbroken
      /\ \A k \in Kinds : InOrder(k) /\ Survives(k)
  BY DEF BackupInv
<1>2. InOrder("keys") /\ InOrder("frequencies")
  BY <1>1 DEF Kinds
<1>3. TypeOK'
  BY <1>1, BackupTypeStep
<1>4. Named' /\ PassInv'
  BY <1>1, PassStep
<1>5. ASSUME NEW k \in Kinds PROVE InOrder(k)' /\ Survives(k)'
  BY <1>1, OrderStep, SurvivalStep
<1>6. RestoreInv'
  BY <1>1, RestoreStep
<1>7. Unbroken'
  BY <1>1, <1>2, UnbrokenStep
<1> QED
  BY <1>3, <1>4, <1>5, <1>6, <1>7 DEF BackupInv

LEMMA BackupAlways == Spec => []BackupInv
BY BackupInit, BackupStep, PTL DEF Spec

\* The maps, the files, the handles and the histories keep their types.
THEOREM BackupTypeCorrect == Spec => []TypeOK
<1>1. BackupInv => TypeOK
  BY DEF BackupInv
<1> QED
  BY <1>1, BackupAlways, PTL

\* Between two passes the dumps this process completed are on disk under their
\* generations, whatever an earlier process left half renamed.
THEOREM DumpsAreInOrder == Spec => []NewestInOrder
<1>1. BackupInv => NewestInOrder
  <2> SUFFICES ASSUME BackupInv, pass = "sleep", NEW g \in 0 .. Generations, NEW k \in Kinds, g < calm
               PROVE  Holds(k, g, dumps[Len(dumps) - g][k])
    BY DEF NewestInOrder
  <2>1. Place(k, g) = g
    BY DEF Place, Hole
  <2> QED
    BY <2>1 DEF BackupInv, InOrder, Generation
<1> QED
  BY <1>1, BackupAlways, PTL

\* However often the process ends in the middle of a pass, the files of the last
\* completed dump are on disk until the generations are used up.
THEOREM LastDumpSurvives == Spec => []NewestSurvives
<1>1. BackupInv => NewestSurvives
  BY DEF BackupInv, Survives, NewestSurvives
<1> QED
  BY <1>1, BackupAlways, PTL

\* A restore that meets no pass brings back the last dump, whichever process wrote
\* it, unless a later pass was cut short.
THEOREM QuietRestoreIsWhole == Spec => UndisturbedRestoreIsWhole
<1>1. BackupInv =>
        (RestoreReads /\ apart /\ begun = 0 /\ dumps # <<>> => maps' = dumps[Len(dumps)])
  <2> SUFFICES ASSUME BackupInv, RestoreReads, apart, begun = 0, dumps # <<>>
               PROVE  maps' = dumps[Len(dumps)]
    OBVIOUS
  <2>1. /\ TypeOK /\ restore = "read"
        /\ in["keys"] = slot["keys"][0] /\ in["frequencies"] = slot["frequencies"][0]
        /\ maps' = [k \in Kinds |-> content[in[k]]]
    BY DEF BackupInv, RestoreInv, RestoreReads
  <2>2. ASSUME NEW k \in Kinds PROVE content[slot[k][0]] = dumps[Len(dumps)][k]
    <3>1. begun <= Generations
      OBVIOUS
    <3>2. PICK g \in 0 .. begun : Holds(k, g, dumps[Len(dumps)][k])
      BY <3>1 DEF BackupInv, Survives
    <3>3. g = 0
      OBVIOUS
    <3> QED
      BY <3>2, <3>3 DEF Holds
  <2>3. dumps[Len(dumps)] \in [Kinds -> Nat \cup {Torn}]
    <3>1. dumps \in Seq([Kinds -> Nat \cup {Torn}]) /\ Len(dumps) \in DOMAIN dumps
      BY <2>1 DEF TypeOK
    <3> QED
      BY <3>1
  <2>4. \A k \in Kinds : content[in[k]] = dumps[Len(dumps)][k]
    BY <2>1, <2>2 DEF Kinds
  <2> QED
    BY <2>1, <2>3, <2>4
<1> QED
  BY <1>1, BackupAlways, PTL DEF UndisturbedRestoreIsWhole

\* A restore that meets a pass brings back nothing, or parts of completed dumps,
\* the ranking never older than the keys, unless the process has ended before.
THEOREM RestoresAreOfDumps == Spec => RestoresCompletedDumps
<1>1. BackupInv =>
        (RestoreReads /\ ends = 0 =>
           \/ maps'["frequencies"] = 0
           \/ \E i, j \in DOMAIN dumps :
                /\ i <= j
                /\ maps'["keys"] = dumps[i]["keys"]
                /\ maps'["frequencies"] = dumps[j]["frequencies"])
  <2> SUFFICES ASSUME BackupInv, RestoreReads, ends = 0
               PROVE  \/ maps'["frequencies"] = 0
                      \/ \E i, j \in DOMAIN dumps :
                           /\ i <= j
                           /\ maps'["keys"] = dumps[i]["keys"]
                           /\ maps'["frequencies"] = dumps[j]["frequencies"]
    OBVIOUS
  <2>1. /\ PassInv /\ BothOpen /\ restore = "read" /\ pass # "dumpKeys"
        /\ maps'["keys"] = content[in["keys"]] /\ maps'["frequencies"] = content[in["frequencies"]]
        /\ in["frequencies"] # NoFile
    BY DEF BackupInv, Unbroken, RestoreInv, RestoreReads, MutexFree, Kinds
  <2>2. CASE in["frequencies"] = out["frequencies"]
    <3>1. pass = "dumpFrequencies"
      BY <2>1, <2>2 DEF PassInv, Opened, Kinds
    <3> QED
      BY <2>1, <2>2, <3>1 DEF PassInv
  <2>3. CASE in["frequencies"] # out["frequencies"]
    BY <2>1, <2>3 DEF BothOpen
  <2> QED
    BY <2>2, <2>3
<1> QED
  BY <1>1, BackupAlways, PTL DEF RestoresCompletedDumps
=============================================================================
