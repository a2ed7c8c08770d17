------------------------- MODULE MapManagerProofs -------------------------
(***************************************************************************)
(* Theorems about MapManager for every set of keys and every value of the  *)
(* sizes, with and without faults of the disk.  Whatever happens to the    *)
(* files, the ranking is ascending and holds at most M entries (Bounded).  *)
(* While it is sound, that is, while only whole backups were restored, it  *)
(* is a top M of the counted keys (RankingIsTopM); the inductive           *)
(* invariant, Consistent, says so of the maps in memory and of the copy on *)
(* disk at once, because a restore makes the second the first.             *)
(***************************************************************************)
EXTENDS MapManager, RankingProofs

\* The constructor never makes M zero: the gap to N is at least one.
LEMMA MaxReportSizeIsPositive == MaxReportSize \in Nat \ {0}
BY SizesAssumption DEF MaxReportSize

\* The smaller of two numbers, for the clamping of N to M.
LEMMA MinOfTwo ==
  ASSUME NEW a \in Nat, NEW b \in Nat
  PROVE  Min({a, b}) = IF a <= b THEN a ELSE b
<1> DEFINE m == IF a <= b THEN a ELSE b
<1>1. m \in {a, b} /\ \A y \in {a, b} : m <= y
  OBVIOUS
<1>2. \A x \in {a, b} : (\A y \in {a, b} : x <= y) => x = m
  OBVIOUS
<1> QED
  BY <1>1, <1>2 DEF Min

---------------------------------------------------------------------------
\* What Rerank does to the ranking's shape, whatever the counts are.
LEMMA RerankKeepsShape ==
  ASSUME NEW rank \in Rankings(Key), Ascending(rank), Len(rank) <= MaxReportSize,
         NEW key \in Key, NEW prev \in Nat
  PROVE  LET new == Rerank(rank, key, prev, MaxReportSize)
         IN  /\ new \in Rankings(Key)
             /\ Ascending(new)
             /\ Len(new) <= MaxReportSize
<1> DEFINE kept == IF prev > 0 THEN Erase(rank, Entry(prev, key)) ELSE rank
           e == Entry(prev + 1, key)
           ins == Insert(kept, e)
           new == Rerank(rank, key, prev, MaxReportSize)
<1>1. new = rank \/ new = Trim(ins, MaxReportSize)
  BY DEF Rerank
<1>2. kept \in Rankings(Key) /\ Ascending(kept)
  BY EraseProperties
<1>3. e \in [freq : Nat, key : Key]
  BY DEF Entry
<1> HIDE DEF kept, e
<1>4. ins \in Rankings(Key) /\ Ascending(ins) /\ Len(ins) \in Nat
  BY <1>2, <1>3, InsertProperties, RankingTyping
<1> HIDE DEF ins
<1>5. /\ Trim(ins, MaxReportSize) \in Rankings(Key)
      /\ Ascending(Trim(ins, MaxReportSize))
      /\ Len(Trim(ins, MaxReportSize)) <= MaxReportSize
  BY <1>4, MaxReportSizeIsPositive, TrimProperties
<1> QED
  BY <1>1, <1>5

\* Every ranking restored from a cut-off file is a prefix of a good one.
LEMMA PrefixKeepsShape ==
  ASSUME NEW rank \in Rankings(Key), Ascending(rank), Len(rank) <= MaxReportSize,
         NEW new \in SomeEntries(rank)
  PROVE  new \in Rankings(Key) /\ Ascending(new) /\ Len(new) <= MaxReportSize
<1> DEFINE E == [freq : Nat, key : Key]
<1>0. /\ Len(rank) \in Nat /\ DOMAIN rank = 1 .. Len(rank)
      /\ \A i \in 1 .. Len(rank) : rank[i] \in E
  BY RankingTyping
<1>1. PICK n \in 0 .. Len(rank) : new = SubSeq(rank, 1, n)
  BY DEF SomeEntries
<1>2. 1 \in Int /\ n \in Int /\ \A i \in 1 .. n : rank[i] \in E
  BY <1>0
<1> HIDE DEF E
<1>3. /\ new \in Seq(E) /\ Len(new) = IF 1 <= n THEN n - 1 + 1 ELSE 0
      /\ \A i \in 1 .. n - 1 + 1 : new[i] = rank[1 + i - 1]
  BY <1>1, <1>2, SubSeqProperties
<1>4. new \in Rankings(Key)
  BY <1>3 DEF E, Rankings
<1>5. Len(new) = n /\ \A i \in 1 .. n : new[i] = rank[i]
  BY <1>0, <1>3
<1>6. DOMAIN new = 1 .. n
  BY <1>4, <1>5, RankingTyping
<1>7. Ascending(new)
  BY <1>0, <1>5, <1>6 DEF Ascending
<1>8. Len(new) <= MaxReportSize
  BY <1>0, <1>5, MaxReportSizeIsPositive
<1> QED
  BY <1>4, <1>7, <1>8

\* What is left of a cut-off keys file is still a map of counts.
LEMMA SomeKeysTyping ==
  ASSUME NEW m \in [Key -> Nat], NEW new \in SomeKeys(m)
  PROVE  new \in [Key -> Nat]
BY DEF SomeKeys

---------------------------------------------------------------------------
\* A ranking as addOrUpdateKey leaves it: sorted, and of at most M entries.
Shape(rank) == rank \in Rankings(Key) /\ Ascending(rank) /\ Len(rank) <= MaxReportSize

\* The inductive invariant of maps and files, which needs no assumption on the
\* disk: every ranking a restore can meet has the shape of one in memory.
MapsInv ==
  /\ keyMap \in [Key -> Nat] /\ keyFile \in [Key -> Nat] /\ oldKeys \in [Key -> Nat]
  /\ Shape(freqMap) /\ Shape(freqFile) /\ Shape(oldFreq)

\* The inductive invariant of the rest: a pass has written nothing before it dumps
\* the ranking, the names it is about to open are free, and a restore that began
\* before the pass reads the renamed keys.
PassInv ==
  /\ base \in 0 .. MaxReportSize /\ writingData \in {0, 1}
  /\ onDisk \subseteq Files /\ written \subseteq onDisk
  /\ pass \in Passes /\ reading \in Readings /\ moved \subseteq reading
  /\ passes \in Nat /\ sound \in BOOLEAN
  /\ pass \notin {"sleep", "dumpKeys"} => written = {}
  /\ pass = "dumpKeys" => written \subseteq {"frequencies"}
  /\ pass \in {"renameFrequencies", "openKeys"} => "keys" \notin onDisk
  /\ pass = "renameFrequencies" /\ reading # {} => moved # {}

Bounded == MapsInv /\ PassInv

\* The empty ranking and the empty map are what a tracker starts with.
LEMMA EmptyShape == Shape(<<>>) /\ NoKeys \in [Key -> Nat]
<1>1. <<>> \in Seq([freq : Nat, key : Key]) /\ Len(<<>>) = 0 /\ DOMAIN <<>> = {}
  OBVIOUS
<1>2. Ascending(<<>>)
  BY <1>1 DEF Ascending
<1>3. NoKeys \in [Key -> Nat]
  BY DEF NoKeys
<1> QED
  BY <1>1, <1>2, <1>3, MaxReportSizeIsPositive DEF Shape, Rankings

LEMMA BoundedInit == Init => Bounded
<1> SUFFICES ASSUME Init PROVE Bounded
  OBVIOUS
<1>1. MapsInv
  BY EmptyShape DEF Init, EmptyMaps, NoInput, MapsInv
<1>2. ReportSize \in 0 .. MaxReportSize
  BY SizesAssumption DEF MaxReportSize
<1>3. PassInv
  BY <1>2 DEF Init, EmptyMaps, NoInput, PassInv, Files, Passes, Readings
<1> QED
  BY <1>1, <1>3 DEF Bounded

\* Every operation, the failing ones of the disk included, keeps the shapes.
LEMMA MapsStep == MapsInv /\ [Next]_vars => MapsInv'
<1> SUFFICES ASSUME MapsInv, [Next]_vars PROVE MapsInv'
  OBVIOUS
<1>0. /\ keyMap \in [Key -> Nat] /\ keyFile \in [Key -> Nat] /\ oldKeys \in [Key -> Nat]
      /\ Shape(freqMap) /\ Shape(freqFile) /\ Shape(oldFreq)
  BY DEF MapsInv
<1> SUFFICES /\ keyMap' \in [Key -> Nat] /\ keyFile' \in [Key -> Nat] /\ oldKeys' \in [Key -> Nat]
             /\ Shape(freqMap') /\ Shape(freqFile') /\ Shape(oldFreq')
  BY DEF MapsInv, Shape, Ascending
<1> DEFINE Goal == /\ keyMap' \in [Key -> Nat] /\ keyFile' \in [Key -> Nat] /\ oldKeys' \in [Key -> Nat]
                   /\ Shape(freqMap') /\ Shape(freqFile') /\ Shape(oldFreq')
<1>e. ASSUME RestoreEnds PROVE oldKeys' \in [Key -> Nat] /\ Shape(oldFreq')
  BY <1>e, EmptyShape DEF RestoreEnds
<1>p. ASSUME NEW rank, Shape(rank), NEW new \in SomeEntries(rank) PROVE Shape(new)
  BY <1>p, PrefixKeepsShape DEF Shape
<1>r. KeysRead \in [Key -> Nat] /\ Shape(RankingRead)
  BY <1>0 DEF KeysRead, RankingRead
<1>1. ASSUME NEW key \in Key, AddOrUpdateKey(key) PROVE Goal
  <2>1. keyMap[key] \in Nat /\ freqMap \in Rankings(Key) /\ Ascending(freqMap) /\ Len(freqMap) <= MaxReportSize
    BY <1>0 DEF Shape
  <2>2. Shape(freqMap')
    BY <1>1, <2>1, RerankKeepsShape DEF AddOrUpdateKey, Shape
  <2>3. keyMap' \in [Key -> Nat]
    BY <1>0, <1>1, <2>1 DEF AddOrUpdateKey
  <2> QED
    BY <1>0, <1>1, <2>2, <2>3 DEF AddOrUpdateKey, files, input
<1>2. ASSUME NEW n \in BaseSizes, SetTopKeyReportBaseSize(n) PROVE Goal
  BY <1>0, <1>2 DEF SetTopKeyReportBaseSize, files, input
<1>3. CASE RenameKeys
  BY <1>0, <1>3, EmptyShape DEF RenameKeys, memory
<1>4. CASE RenameFrequencies
  BY <1>0, <1>4, EmptyShape DEF RenameFrequencies, memory
<1>5. CASE OpenKeys \/ OpenFrequencies
  BY <1>0, <1>5 DEF OpenKeys, OpenFrequencies, memory, input
<1>6. CASE DumpFrequencies
  BY <1>0, <1>6 DEF DumpFrequencies, memory, input
<1>7. CASE DumpKeys
  BY <1>0, <1>7 DEF DumpKeys, memory, input
<1>8. CASE DumpIsCut
  <2>1. keyFile' \in [Key -> Nat] /\ Shape(freqFile')
    BY <1>0, <1>8, <1>p, SomeKeysTyping DEF DumpIsCut
  <2> QED
    BY <1>0, <1>8, <2>1 DEF DumpIsCut, memory, input
<1>9. CASE RestoreOpensKeys \/ RestoreOpensFrequencies
  BY <1>0, <1>9 DEF RestoreOpensKeys, RestoreOpensFrequencies, memory, files
<1>10. CASE RestoreGivesUp
  BY <1>0, <1>10, <1>e DEF RestoreGivesUp, memory, files
<1>11. CASE RestoreReads
  BY <1>0, <1>11, <1>e, <1>r DEF RestoreReads, files
<1>12. CASE RestoreFails
  <2>1. keyMap' \in [Key -> Nat] /\ Shape(freqMap')
    BY <1>0, <1>12, <1>p, <1>r, SomeKeysTyping DEF RestoreFails
  <2> QED
    BY <1>0, <1>12, <1>e, <2>1 DEF RestoreFails, files
<1>13. CASE Restart
  <2>1. keyFile' \in [Key -> Nat] /\ Shape(freqFile')
    BY <1>0, <1>13, <1>p, SomeKeysTyping DEF Restart
  <2> QED
    BY <1>13, <1>e, <2>1, EmptyShape DEF Restart
<1>14. CASE UNCHANGED vars
  BY <1>0, <1>14 DEF vars, memory, files, input
<1> QED
  BY <1>1, <1>2, <1>3, <1>4, <1>5, <1>6, <1>7, <1>8, <1>9, <1>10, <1>11, <1>12, <1>13, <1>14
     DEF Next, BackupPass, Restore

\* What the pass and a restore know of each other's files.
LEMMA PassStep == PassInv /\ [Next]_vars => PassInv'
<1> SUFFICES ASSUME PassInv, [Next]_vars PROVE PassInv'
  OBVIOUS
<1> USE DEF PassInv, Files, Passes, Readings
<1>1. ASSUME NEW key \in Key, AddOrUpdateKey(key) PROVE PassInv'
  BY <1>1 DEF AddOrUpdateKey, files, timer, input
<1>2. ASSUME NEW n \in BaseSizes, SetTopKeyReportBaseSize(n) PROVE PassInv'
  <2>1. base' \in 0 .. MaxReportSize
    <3>1. n \in Nat /\ MaxReportSize \in Nat
      BY SizesAssumption, MaxReportSizeIsPositive
    <3>2. Min({n, MaxReportSize}) \in 0 .. MaxReportSize
      BY ONLY <3>1, MinOfTwo
    <3> QED
      BY ONLY <1>2, <3>2 DEF SetTopKeyReportBaseSize
  <2> QED
    BY <1>2, <2>1 DEF SetTopKeyReportBaseSize, files, timer, input
<1>3. CASE RenameKeys
  BY <1>3 DEF RenameKeys, memory
<1>4. CASE RenameFrequencies
  BY <1>4 DEF RenameFrequencies, memory
<1>5. CASE OpenKeys \/ OpenFrequencies
  BY <1>5 DEF OpenKeys, OpenFrequencies, memory, input
<1>6. CASE DumpFrequencies
  BY <1>6 DEF DumpFrequencies, memory, input
<1>7. CASE DumpKeys
  BY <1>7 DEF DumpKeys, memory, input
<1>8. CASE DumpIsCut
  BY <1>8 DEF DumpIsCut, memory, input
<1>9. CASE RestoreOpensKeys
  BY <1>9 DEF RestoreOpensKeys, memory, files, timer
<1>10. CASE RestoreOpensFrequencies
  BY <1>10 DEF RestoreOpensFrequencies, memory, files, timer
<1>11. CASE RestoreGivesUp
  BY <1>11 DEF RestoreGivesUp, RestoreEnds, memory, files, timer
<1>12. CASE RestoreReads
  BY <1>12 DEF RestoreReads, RestoreEnds, files, timer
<1>13. CASE RestoreFails
  BY <1>13 DEF RestoreFails, RestoreEnds, files, timer
<1>14. CASE Restart
  <2>1. ReportSize \in 0 .. MaxReportSize
    BY SizesAssumption DEF MaxReportSize
  <2> QED
    BY <1>14, <2>1 DEF Restart, RestoreEnds
<1>15. CASE UNCHANGED vars
  BY <1>15 DEF vars, memory, files, timer, input
<1> QED
  BY <1>1, <1>2, <1>3, <1>4, <1>5, <1>6, <1>7, <1>8, <1>9, <1>10, <1>11, <1>12, <1>13, <1>14, <1>15
     DEF Next, BackupPass, Restore

LEMMA BoundedStep == Bounded /\ [Next]_vars => Bounded'
BY MapsStep, PassStep DEF Bounded

\* The variables keep their types in every behaviour, cut-off files, failed
\* opens and failed reads included.
THEOREM TypeCorrect == Spec => []TypeOK
<1>1. Bounded => TypeOK
  BY DEF Bounded, MapsInv, PassInv, Shape, Rankings, TypeOK
<1> QED
  BY <1>1, BoundedInit, BoundedStep, PTL DEF Spec

\* The ranking is in order and never exceeds M entries, faults or not: the
\* size maintenance of addOrUpdateKey is enough, restores included.
THEOREM RankingNeverExceedsM == Spec => []RankingBounded
<1>1. Bounded => RankingBounded
  BY DEF Bounded, MapsInv, Shape, RankingBounded
<1> QED
  BY <1>1, BoundedInit, BoundedStep, PTL DEF Spec

\* What a backup has written of the ranking, a cut-off file too, comes back as
\* it is, ties included, when a restore inserts its lines one by one, also from a
\* file that was renamed while the restore had it open.
THEOREM SavedRankingRebuilds == Spec => []SavedRankingReloads
<1>1. Bounded => SavedRankingReloads
  BY FoldReloads DEF Bounded, MapsInv, Shape, SavedRankingReloads
<1> QED
  BY <1>1, BoundedInit, BoundedStep, PTL DEF Spec

---------------------------------------------------------------------------
\* kept holds the entries of rank but for the one of key, if there is one.
Without(kept, rank, key) ==
  /\ \A i \in 1 .. Len(kept) : kept[i].key # key
  /\ \A i \in 1 .. Len(kept) : \E u \in 1 .. Len(rank) : kept[i] = rank[u]
  /\ \A u \in 1 .. Len(rank) :
       rank[u].key # key => \E i \in 1 .. Len(kept) : kept[i] = rank[u]
  /\ \A i, j \in 1 .. Len(kept) : kept[i].key = kept[j].key => i = j
  /\ (\A u \in 1 .. Len(rank) : rank[u].key # key) => Len(kept) = Len(rank)
  /\ \A u \in 1 .. Len(rank) : rank[u].key = key => Len(kept) = Len(rank) - 1

\* Counting a key once more, in a ranking that is a top M of the counts.
\* First the old entry of the key goes ...
LEMMA EraseKey ==
  ASSUME NEW rank \in Rankings(Key), Ascending(rank),
         NEW counts \in [Key -> Nat], Mirrors(rank, counts), NEW key \in Key,
         NEW kept, kept = IF counts[key] > 0 THEN Erase(rank, Entry(counts[key], key)) ELSE rank
  PROVE  /\ kept \in Rankings(Key) /\ Ascending(kept)
         /\ Without(kept, rank, key)
<1> DEFINE e == Entry(counts[key], key)
<1>0. /\ Len(rank) \in Nat /\ DOMAIN rank = 1 .. Len(rank)
      /\ \A i \in 1 .. Len(rank) : rank[i] \in [freq : Nat, key : Key]
      /\ \A i \in 1 .. Len(rank) : rank[i].freq \in Nat /\ rank[i].key \in Key
  BY RankingTyping
<1>1. /\ \A i, j \in 1 .. Len(rank) : rank[i].key = rank[j].key => i = j
      /\ \A i \in 1 .. Len(rank) : rank[i].freq = counts[rank[i].key] /\ rank[i].freq > 0
  BY <1>0 DEF Mirrors
<1>2. \A u \in 1 .. Len(rank) : rank[u].key = key <=> rank[u] = e /\ counts[key] > 0
  BY <1>0, <1>1 DEF Entry
<1>3. CASE \A u \in 1 .. Len(rank) : rank[u].key # key
  <2>1. kept = rank
    <3>1. CASE counts[key] > 0
      <4>1. \A u \in 1 .. Len(rank) : rank[u] # e
        BY <1>2, <1>3, <3>1
      <4>2. Erase(rank, e) = rank
        BY <4>1, EraseProperties
      <4> QED
        BY <3>1, <4>2
    <3> QED
      BY <3>1
  <2>2. kept \in Rankings(Key) /\ Ascending(kept)
    BY <2>1
  <2> QED
    BY <1>1, <1>3, <2>1, <2>2 DEF Without
<1>4. ASSUME NEW w \in 1 .. Len(rank), rank[w].key = key
      PROVE  kept \in Rankings(Key) /\ Ascending(kept) /\ Without(kept, rank, key)
  <2> DEFINE at(i) == IF i < w THEN i ELSE i + 1
             n == Len(rank) - 1
  <2>1. counts[key] > 0 /\ rank[w] = e
    BY <1>2, <1>4
  <2>2. kept = Erase(rank, e)
    BY <2>1
  <2>3. kept \in Rankings(Key) /\ Ascending(kept)
    BY <2>2, EraseProperties
  <2>4. Len(kept) = n /\ \A i \in 1 .. n : kept[i] = rank[at(i)]
    <3>1. ~ (\A u \in 1 .. Len(rank) : rank[u] # e)
      BY <2>1
    <3>2. PICK p \in 1 .. Len(rank) :
            /\ rank[p] = e
            /\ Len(Erase(rank, e)) = n
            /\ \A i \in 1 .. n : Erase(rank, e)[i] = IF i < p THEN rank[i] ELSE rank[i + 1]
      <4> HIDE DEF e
      <4> QED
        BY <3>1, EraseProperties
    <3>3. p = w
      BY <1>1, <2>1, <3>2
    <3> QED
      BY <2>2, <3>2, <3>3
  <2>5. \A i \in 1 .. n : at(i) \in 1 .. Len(rank) /\ at(i) # w
    BY <1>0
  <2>6. \A i, j \in 1 .. n : at(i) = at(j) => i = j
    BY <1>0
  <2>7. \A u \in 1 .. Len(rank) : u # w => \E i \in 1 .. n : u = at(i)
    <3> SUFFICES ASSUME NEW u \in 1 .. Len(rank), u # w
                 PROVE  \E i \in 1 .. n : u = at(i)
      OBVIOUS
    <3>1. CASE u < w
      <4>1. u \in 1 .. n /\ u = at(u)
        BY <1>0, <3>1
      <4> QED
        BY <4>1
    <3>2. CASE u > w
      <4>1. u - 1 \in 1 .. n /\ u = at(u - 1)
        BY <1>0, <3>2
      <4> QED
        BY <4>1
    <3> QED
      BY <1>0, <3>1, <3>2
  <2> HIDE DEF at, n
  <2>8. \A i \in 1 .. n : kept[i].key # key
    BY <1>1, <1>4, <2>4, <2>5
  <2>9. \A u \in 1 .. Len(rank) :
          rank[u].key # key => \E i \in 1 .. n : kept[i] = rank[u]
    BY <1>4, <2>4, <2>7
  <2>10. \A i, j \in 1 .. n : kept[i].key = kept[j].key => i = j
    <3>1. \A i, j \in 1 .. n : kept[i].key = kept[j].key => at(i) = at(j)
      BY ONLY <1>1, <2>4, <2>5
    <3> QED
      BY ONLY <2>6, <3>1
  <2>11. \A i \in 1 .. n : \E u \in 1 .. Len(rank) : kept[i] = rank[u]
    BY <2>4, <2>5
  <2>12. Len(kept) = n /\ Len(kept) = Len(rank) - 1
    BY <2>4 DEF n
  <2>13. Without(kept, rank, key)
    <3>1. ~ \A u \in 1 .. Len(rank) : rank[u].key # key
      BY <1>4
    <3> QED
      BY ONLY <2>8, <2>9, <2>10, <2>11, <2>12, <3>1 DEF Without
  <2> QED
    BY <2>3, <2>13
<1> QED
  BY <1>3, <1>4

\* Each key stands once in the ranking.
KeysOnce(rank) == \A i, j \in 1 .. Len(rank) : rank[i].key = rank[j].key => i = j

\* ... then the new entry goes in, the others stay ...
LEMMA InsertKey ==
  ASSUME NEW kept \in Rankings(Key), Ascending(kept),
         NEW e \in [freq : Nat, key : Key],
         KeysOnce(kept), e.key \notin RankedKeys(kept),
         NEW ins, ins = Insert(kept, e)
  PROVE  /\ ins \in Rankings(Key) /\ Len(ins) = Len(kept) + 1 /\ Ascending(ins)
         /\ \E p \in 1 .. Len(ins) :
              /\ ins[p] = e
              /\ \A i \in 1 .. Len(ins) : i # p => \E j \in 1 .. Len(kept) : ins[i] = kept[j]
         /\ \A j \in 1 .. Len(kept) : \E i \in 1 .. Len(ins) : ins[i] = kept[j]
         /\ KeysOnce(ins)
<1>1. /\ ins \in Rankings(Key) /\ Len(ins) = Len(kept) + 1 /\ Ascending(ins)
      /\ \E p \in 1 .. Len(kept) + 1 :
           \A i \in 1 .. Len(kept) + 1 :
             ins[i] = IF i < p THEN kept[i] ELSE IF i = p THEN e ELSE kept[i - 1]
  <2>0. kept \in Rankings(Key) /\ Ascending(kept) /\ e \in [freq : Nat, key : Key]
    OBVIOUS
  <2>1. /\ Insert(kept, e) \in Rankings(Key) /\ Len(Insert(kept, e)) = Len(kept) + 1
        /\ Ascending(Insert(kept, e))
        /\ \E p \in 1 .. Len(kept) + 1 :
             \A i \in 1 .. Len(kept) + 1 :
               Insert(kept, e)[i] = IF i < p THEN kept[i] ELSE IF i = p THEN e ELSE kept[i - 1]
    BY ONLY <2>0, InsertProperties
  <2> QED
    BY <2>1
<1>2. Len(kept) \in Nat
  BY RankingTyping
<1>3. PICK p \in 1 .. Len(kept) + 1 :
        \A i \in 1 .. Len(kept) + 1 :
          ins[i] = IF i < p THEN kept[i] ELSE IF i = p THEN e ELSE kept[i - 1]
  BY <1>1
<1> DEFINE n == Len(kept)
           from(i) == IF i < p THEN i ELSE i - 1
           to(j) == IF j < p THEN j ELSE j + 1
<1>4. n \in Nat /\ Len(ins) = n + 1 /\ p \in 1 .. n + 1
  BY <1>1, <1>2
<1>5. \A i \in 1 .. n + 1 : i # p => from(i) \in 1 .. n /\ ins[i] = kept[from(i)]
  BY <1>2, <1>3
<1>6. \A j \in 1 .. n : to(j) \in 1 .. n + 1 /\ ins[to(j)] = kept[j]
  BY <1>2, <1>3
<1>7. ins[p] = e
  BY <1>2, <1>3
<1>8. \A i, j \in 1 .. n + 1 : i # p /\ j # p /\ from(i) = from(j) => i = j
  BY <1>2
<1>9. /\ \A i \in 1 .. n : kept[i].key # e.key
      /\ \A i, j \in 1 .. n : kept[i].key = kept[j].key => i = j
  BY RankingTyping DEF KeysOnce, RankedKeys
<1> HIDE DEF n, from, to
<1>10. \A i, j \in 1 .. n + 1 : ins[i].key = ins[j].key => i = j
  BY <1>5, <1>7, <1>8, <1>9
<1>11. \A i \in 1 .. n + 1 : i # p => \E j \in 1 .. n : ins[i] = kept[j]
  BY <1>5
<1>12. \A j \in 1 .. n : \E i \in 1 .. n + 1 : ins[i] = kept[j]
  BY <1>6
<1>13. Len(kept) = n
  BY DEF n
<1>14. 1 .. Len(ins) = 1 .. n + 1
  BY <1>4
<1>15. p \in 1 .. Len(ins) /\ \A i \in 1 .. Len(ins) : i # p => \E j \in 1 .. Len(kept) : ins[i] = kept[j]
  BY <1>4, <1>11, <1>13, <1>14
<1>16. /\ \A j \in 1 .. Len(kept) : \E i \in 1 .. Len(ins) : ins[i] = kept[j]
       /\ KeysOnce(ins)
  BY <1>10, <1>12, <1>13, <1>14 DEF KeysOnce
<1> QED
  BY <1>1, <1>7, <1>15, <1>16

\* ... and the ranking is trimmed to M again.
LEMMA RerankKeepsTopM ==
  ASSUME NEW rank \in Rankings(Key), Ascending(rank), Len(rank) <= MaxReportSize,
         NEW counts \in [Key -> Nat], Mirrors(rank, counts), Outranks(rank, counts),
         NEW key \in Key,
         NEW new, new = Rerank(rank, key, counts[key], MaxReportSize),
         NEW after, after = [counts EXCEPT ![key] = @ + 1]
  PROVE  Mirrors(new, after) /\ Outranks(new, after)
<1> DEFINE M == MaxReportSize
           e == Entry(counts[key] + 1, key)
           kept == IF counts[key] > 0 THEN Erase(rank, Entry(counts[key], key)) ELSE rank
           ins == Insert(kept, e)
<1>0. /\ Len(rank) \in Nat /\ DOMAIN rank = 1 .. Len(rank)
      /\ \A i \in 1 .. Len(rank) : rank[i].freq \in Nat /\ rank[i].key \in Key
  BY RankingTyping
<1>1. /\ \A i, j \in 1 .. Len(rank) : rank[i].key = rank[j].key => i = j
      /\ \A i \in 1 .. Len(rank) : rank[i].freq = counts[rank[i].key] /\ rank[i].freq > 0
  BY <1>0 DEF Mirrors
<1>2. \A k \in Key : counts[k] > 0 /\ (\A i \in 1 .. Len(rank) : rank[i].key # k) =>
        Len(rank) = M /\ \A i \in 1 .. Len(rank) : counts[k] <= rank[i].freq
  BY <1>0 DEF Outranks, RankedKeys
<1>3. /\ after \in [Key -> Nat] /\ after[key] = counts[key] + 1
      /\ \A k \in Key : k # key => after[k] = counts[k]
      /\ M \in Nat \ {0} /\ counts[key] \in Nat
  BY MaxReportSizeIsPositive
<1>4. CASE counts[key] + 1 <= Lowest(rank, 1) /\ Len(rank) >= M
  <2>1. new = rank
    BY <1>4 DEF Rerank
  <2>2. rank # <<>> /\ 1 \in 1 .. Len(rank) /\ Len(rank) = M
    <3>1. Len(rank) = M /\ Len(rank) # 0
      BY <1>0, <1>3, <1>4
    <3> QED
      BY <1>0, <3>1
  <2>3. \A i \in 1 .. Len(rank) : counts[key] + 1 <= rank[i].freq
    <3>1. counts[key] + 1 <= rank[1].freq
      BY <1>4, <2>2 DEF Lowest
    <3>2. \A i \in 1 .. Len(rank) : rank[1].freq <= rank[i].freq
      BY <1>0, <2>2 DEF Ascending
    <3> QED
      BY <1>0, <1>3, <2>2, <3>1, <3>2
  <2>4. \A i \in 1 .. Len(rank) : rank[i].key # key
    BY <1>0, <1>1, <1>3, <2>3
  <2>5. Mirrors(rank, after)
    BY <1>0, <1>1, <1>3, <2>4 DEF Mirrors
  <2>6. ASSUME NEW k \in Key, after[k] > 0, \A i \in 1 .. Len(rank) : rank[i].key # k
        PROVE  \A i \in 1 .. Len(rank) : after[k] <= rank[i].freq
    <3>1. CASE k = key
      BY <1>3, <2>3, <3>1
    <3>2. CASE k # key
      BY <1>2, <1>3, <2>6, <3>2
    <3> QED
      BY <3>1, <3>2
  <2>7. Outranks(rank, after)
    BY <1>0, <2>2, <2>6 DEF Outranks, RankedKeys
  <2> QED
    BY <2>1, <2>5, <2>7
<1>5. CASE ~ (counts[key] + 1 <= Lowest(rank, 1) /\ Len(rank) >= M)
  <2>1. new = Trim(ins, M)
    BY <1>5 DEF Rerank
  <2>2. /\ kept \in Rankings(Key) /\ Ascending(kept)
        /\ \A i \in 1 .. Len(kept) : kept[i].key # key
        /\ \A i \in 1 .. Len(kept) : \E u \in 1 .. Len(rank) : kept[i] = rank[u]
        /\ \A u \in 1 .. Len(rank) :
             rank[u].key # key => \E i \in 1 .. Len(kept) : kept[i] = rank[u]
        /\ \A i, j \in 1 .. Len(kept) : kept[i].key = kept[j].key => i = j
        /\ (\A u \in 1 .. Len(rank) : rank[u].key # key) => Len(kept) = Len(rank)
        /\ \A u \in 1 .. Len(rank) : rank[u].key = key => Len(kept) = Len(rank) - 1
    <3> HIDE DEF kept
    <3>1. kept = IF counts[key] > 0 THEN Erase(rank, Entry(counts[key], key)) ELSE rank
      BY DEF kept
    <3>2. kept \in Rankings(Key) /\ Ascending(kept) /\ Without(kept, rank, key)
      BY <3>1, EraseKey
    <3> QED
      BY <3>2 DEF Without
  <2>3. e \in [freq : Nat, key : Key] /\ e.key = key /\ e.freq = counts[key] + 1
    BY <1>3 DEF Entry
  <2> HIDE DEF kept, e
  <2>5. Len(kept) \in Nat
    BY <2>2, RankingTyping
  <2>6. /\ ins \in Rankings(Key) /\ Len(ins) = Len(kept) + 1 /\ Ascending(ins)
        /\ \E p \in 1 .. Len(ins) :
             /\ ins[p] = e
             /\ \A i \in 1 .. Len(ins) : i # p => \E j \in 1 .. Len(kept) : ins[i] = kept[j]
        /\ \A j \in 1 .. Len(kept) : \E i \in 1 .. Len(ins) : ins[i] = kept[j]
        /\ \A i, j \in 1 .. Len(ins) : ins[i].key = ins[j].key => i = j
    <3>1. KeysOnce(kept) /\ e.key \notin RankedKeys(kept)
      <4>1. DOMAIN kept = 1 .. Len(kept)
        BY <2>2, RankingTyping
      <4> QED
        BY ONLY <2>2, <2>3, <4>1 DEF KeysOnce, RankedKeys
    <3> QED
      BY <2>2, <2>3, <3>1, InsertKey DEF KeysOnce
  <2>4. ins \in Rankings(Key) /\ Len(ins) = Len(kept) + 1 /\ Ascending(ins)
    BY <2>6
  <2> HIDE DEF ins
  <2>7. /\ Len(ins) \in Nat /\ DOMAIN ins = 1 .. Len(ins)
        /\ \A i \in 1 .. Len(ins) : ins[i].freq \in Nat /\ ins[i].key \in Key
    BY <2>4, RankingTyping
  \* The entries after the insertion: the new one and those kept, each key once.
  <2>8. PICK p \in 1 .. Len(ins) :
          /\ ins[p] = e
          /\ \A i \in 1 .. Len(ins) : i # p => \E j \in 1 .. Len(kept) : ins[i] = kept[j]
          /\ \A j \in 1 .. Len(kept) : \E i \in 1 .. Len(ins) : ins[i] = kept[j]
          /\ \A i, j \in 1 .. Len(ins) : ins[i].key = ins[j].key => i = j
    BY <2>6
  \* ... each with its present count.
  <2>9. \A i \in 1 .. Len(ins) : ins[i].freq = after[ins[i].key] /\ ins[i].freq > 0
    <3> SUFFICES ASSUME NEW i \in 1 .. Len(ins)
                 PROVE  ins[i].freq = after[ins[i].key] /\ ins[i].freq > 0
      OBVIOUS
    <3>1. CASE i = p
      BY <1>3, <2>3, <2>8, <3>1
    <3>2. CASE i # p
      <4>1. PICK j \in 1 .. Len(kept) : ins[i] = kept[j]
        BY <2>8, <3>2
      <4>2. PICK u \in 1 .. Len(rank) : kept[j] = rank[u]
        BY <2>2
      <4>3. rank[u].key # key /\ rank[u].key \in Key
        BY <1>0, <2>2, <4>2
      <4> QED
        BY <1>1, <1>3, <4>1, <4>2, <4>3
    <3> QED
      BY <3>1, <3>2
  \* A key that is in neither ranking is not above any old entry.
  <2>12. ASSUME NEW k \in Key, after[k] > 0, \A i \in 1 .. Len(ins) : ins[i].key # k
         PROVE  /\ Len(rank) = M /\ after[k] = counts[k]
                /\ \A u \in 1 .. Len(rank) : after[k] <= rank[u].freq
                /\ \A i \in 1 .. Len(ins) : i # p => after[k] <= ins[i].freq
    <3>1. k # key /\ after[k] = counts[k]
      BY <1>3, <2>3, <2>8, <2>12
    <3>2. \A u \in 1 .. Len(rank) : rank[u].key # k
      <4> SUFFICES ASSUME NEW u \in 1 .. Len(rank), rank[u].key = k PROVE FALSE
        OBVIOUS
      <4>1. PICK j \in 1 .. Len(kept) : kept[j] = rank[u]
        BY <2>2, <3>1
      <4>2. PICK i \in 1 .. Len(ins) : ins[i] = kept[j]
        BY <2>8
      <4> QED
        BY <2>12, <4>1, <4>2
    <3>3. Len(rank) = M /\ \A u \in 1 .. Len(rank) : after[k] <= rank[u].freq
      BY <1>2, <2>12, <3>1, <3>2
    <3>4. \A i \in 1 .. Len(ins) : i # p => \E u \in 1 .. Len(rank) : ins[i] = rank[u]
      BY <2>2, <2>8
    <3> QED
      BY <3>1, <3>3, <3>4
  <2>10. CASE Len(ins) <= M
    <3>1. new = ins
      BY <1>3, <2>1, <2>7, <2>10 DEF Trim
    <3>2. Mirrors(ins, after)
      BY <2>7, <2>8, <2>9 DEF Mirrors
    <3>3. ASSUME NEW k \in Key, after[k] > 0, \A i \in 1 .. Len(ins) : ins[i].key # k
          PROVE  Len(ins) = M /\ \A i \in 1 .. Len(ins) : after[k] <= ins[i].freq
      <4>1. /\ Len(rank) = M /\ after[k] = counts[k]
            /\ \A u \in 1 .. Len(rank) : after[k] <= rank[u].freq
            /\ \A i \in 1 .. Len(ins) : i # p => after[k] <= ins[i].freq
        BY <2>12, <3>3
      <4>2. Len(kept) # Len(rank)
        BY <1>3, <2>4, <2>5, <2>10, <4>1
      <4>3. PICK u \in 1 .. Len(rank) : rank[u].key = key
        BY <2>2, <4>2
      <4>4. Len(ins) = M
        <5>1. Len(kept) = M - 1
          BY <2>2, <4>1, <4>3
        <5> HIDE DEF M
        <5> QED
          BY <1>0, <2>4, <4>1, <5>1
      <4>5. ins[p].freq = counts[key] + 1 /\ rank[u].freq = counts[key]
        BY <1>1, <2>3, <2>8, <4>3
      <4>6. after[k] <= ins[p].freq
        BY <1>3, <4>1, <4>5
      <4> QED
        BY <4>1, <4>4, <4>6
    <3>4. Outranks(ins, after)
      BY <2>7, <3>3 DEF Outranks, RankedKeys
    <3> QED
      BY <3>1, <3>2, <3>4
  <2>11. CASE Len(ins) > M
    <3>1. Len(kept) = M /\ Len(rank) = M /\ Len(ins) = M + 1
      <4> DEFINE k == Len(kept)
                 r == Len(rank)
      <4>1. k \in Nat /\ r \in Nat /\ M \in Nat
        BY <1>0, <1>3, <2>5
      <4>2. Len(ins) = k + 1 /\ r <= M /\ k + 1 > M
        BY <2>4, <2>11
      <4>3. k = r \/ k = r - 1
        BY <2>2
      <4> HIDE DEF k, r, M
      <4>4. k = M /\ r = M /\ Len(ins) = M + 1
        BY <4>1, <4>2, <4>3
      <4> QED
        BY <4>4 DEF k, r, M
    <3>2. Len(new) = M /\ \A i \in 1 .. M : new[i] = ins[i + 1]
      <4>1. /\ Len(Trim(ins, M)) = Len(ins) - (IF Len(ins) > M THEN Len(ins) - M ELSE 0)
            /\ \A i \in 1 .. Len(ins) - (IF Len(ins) > M THEN Len(ins) - M ELSE 0) :
                 Trim(ins, M)[i] = ins[i + (IF Len(ins) > M THEN Len(ins) - M ELSE 0)]
        <5>1. ins \in Rankings(Key) /\ Ascending(ins) /\ M \in Nat
          BY <1>3, <2>4
        <5> HIDE DEF M
        <5> QED
          BY ONLY <5>1, TrimProperties
      <4>2. (IF Len(ins) > M THEN Len(ins) - M ELSE 0) = 1 /\ Len(ins) - 1 = M
        <5>1. M \in Nat /\ Len(ins) = M + 1
          BY <1>3, <3>1
        <5> HIDE DEF M
        <5> QED
          BY ONLY <5>1
      <4> QED
        BY ONLY <2>1, <4>1, <4>2
    <3>3. DOMAIN new = 1 .. M
      <4>1. Trim(ins, M) \in Rankings(Key)
        BY <1>3, <2>4, TrimProperties
      <4> QED
        BY ONLY <2>1, <3>2, <4>1, RankingTyping
    <3>4. Mirrors(new, after)
      <4>1. \A i \in 1 .. M : i + 1 \in 1 .. Len(ins)
        BY <1>3, <3>1
      <4>2. ASSUME NEW i \in 1 .. M
            PROVE  new[i].freq = after[new[i].key] /\ new[i].freq > 0
        <5>1. i + 1 \in 1 .. Len(ins) /\ new[i] = ins[i + 1]
          BY <3>2, <4>1
        <5> QED
          BY <2>9, <5>1
      <4>3. ASSUME NEW i \in 1 .. M, NEW j \in 1 .. M, new[i].key = new[j].key
            PROVE  i = j
        <5>1. ins[i + 1].key = ins[j + 1].key
          BY <3>2, <4>3
        <5>2. i + 1 = j + 1
          BY <2>8, <4>1, <5>1
        <5> QED
          BY <1>3, <5>2
      <4> QED
        BY <3>3, <4>2, <4>3 DEF Mirrors
    <3>5. ASSUME NEW k \in Key, after[k] > 0, \A i \in 1 .. M : new[i].key # k
          PROVE  \A i \in 1 .. M : after[k] <= new[i].freq
      <4>1. CASE ins[1].key = k
        <5>1. after[k] = ins[1].freq
          BY <1>3, <2>9, <3>1, <4>1
        <5>2. \A i \in 1 .. M : ins[1].freq <= ins[i + 1].freq
          BY <1>3, <2>4, <2>7, <3>1 DEF Ascending
        <5> QED
          BY <3>2, <5>1, <5>2
      <4>2. CASE ins[1].key # k
        <5>1. \A i \in 1 .. Len(ins) : ins[i].key # k
          <6>1. \A i \in 1 .. M + 1 : i = 1 \/ (i - 1 \in 1 .. M /\ ins[i] = new[i - 1])
            <7> SUFFICES ASSUME NEW i \in 1 .. M + 1, i # 1
                         PROVE  i - 1 \in 1 .. M /\ ins[i] = new[i - 1]
              OBVIOUS
            <7>1. i - 1 \in 1 .. M /\ (i - 1) + 1 = i
              BY <1>3
            <7> QED
              BY <3>2, <7>1
          <6> QED
            BY <3>1, <3>5, <4>2, <6>1
        <5>2. /\ \A u \in 1 .. Len(rank) : after[k] <= rank[u].freq
              /\ \A i \in 1 .. Len(ins) : i # p => after[k] <= ins[i].freq
          BY <2>12, <3>5, <5>1
        <5>3. after[k] <= ins[p].freq
          <6>1. 1 \in 1 .. Len(rank) /\ rank # <<>>
            BY <1>3, <3>1
          <6>2. counts[key] + 1 > rank[1].freq
            BY <1>0, <1>3, <1>5, <3>1, <6>1 DEF Lowest
          <6>3. ins[p].freq = counts[key] + 1
            BY <2>3, <2>8
          <6> QED
            BY <1>0, <1>3, <5>2, <6>1, <6>2, <6>3
        <5>4. \A i \in 1 .. Len(ins) : after[k] <= ins[i].freq
          BY <5>2, <5>3
        <5> QED
          BY <1>3, <3>1, <3>2, <5>4
      <4> QED
        BY <4>1, <4>2
    <3>6. Outranks(new, after)
      <4>1. \A k \in Key \ RankedKeys(new) : \A i \in 1 .. M : new[i].key # k
        BY ONLY <3>3 DEF RankedKeys
      <4> QED
        BY ONLY <3>2, <3>3, <3>5, <4>1 DEF Outranks
    <3> QED
      BY <3>4, <3>6
  <2> QED
    BY <1>3, <2>7, <2>10, <2>11
<1> QED
  BY <1>4, <1>5

---------------------------------------------------------------------------
\* The inductive invariant of what is right.  The copy on disk is part of it, as a
\* restore makes it the contents of the maps, and so is the half of it that is
\* there between the two dumps of a pass, when nobody else may touch the maps.
Consistent ==
  /\ Bounded
  /\ RankingMirrorsKeys /\ RankingIsTop /\ SavedCopyIsTop
  /\ pass = "dumpKeys" /\ "frequencies" \in written => sound /\ freqFile = freqMap

\* Nothing counted, nothing ranked: the top M of no keys.
LEMMA EmptyIsTop == Mirrors(<<>>, NoKeys) /\ Outranks(<<>>, NoKeys)
<1>1. DOMAIN <<>> = {}
  OBVIOUS
<1>2. \A k \in Key : ~ (NoKeys[k] > 0)
  BY DEF NoKeys
<1> QED
  BY <1>1, <1>2 DEF Mirrors, Outranks

\* A fresh tracker is consistent: maps are empty and nothing was written.
LEMMA ConsistentInit == Init => Consistent
BY BoundedInit, EmptyIsTop
   DEF Init, EmptyMaps, Consistent, RankingMirrorsKeys, RankingIsTop, SavedCopyIsTop, Files

\* Every operation keeps what is sound a top M, in memory and on disk.
LEMMA ConsistentStep ==
  ASSUME Consistent, [Next]_vars
  PROVE  Consistent'
<1> DEFINE IsTopM(rank, counts) == Mirrors(rank, counts) /\ Outranks(rank, counts)
           Goal == /\ sound' => IsTopM(freqMap', keyMap')
                   /\ written' = Files => IsTopM(freqFile', keyFile')
                   /\ pass' = "dumpKeys" /\ "frequencies" \in written' => sound' /\ freqFile' = freqMap'
<1>0. Bounded /\ Bounded' /\ PassInv
  BY BoundedStep DEF Consistent, Bounded
<1>1. /\ sound => IsTopM(freqMap, keyMap)
      /\ written = Files => IsTopM(freqFile, keyFile)
      /\ pass = "dumpKeys" /\ "frequencies" \in written => sound /\ freqFile = freqMap
  BY DEF Consistent, RankingMirrorsKeys, RankingIsTop, SavedCopyIsTop
<1> SUFFICES Goal
  <2>1. Goal
    OBVIOUS
  <2> QED
    BY <1>0, <2>1 DEF Consistent, RankingMirrorsKeys, RankingIsTop, SavedCopyIsTop, Mirrors, Outranks
<1>e. IsTopM(<<>>, NoKeys)
  BY EmptyIsTop
<1>2. ASSUME NEW key \in Key, AddOrUpdateKey(key) PROVE Goal
  <2>1. /\ freqMap \in Rankings(Key) /\ Ascending(freqMap) /\ Len(freqMap) <= MaxReportSize
        /\ keyMap \in [Key -> Nat]
    BY <1>0 DEF Bounded, MapsInv, Shape
  <2>2. /\ keyMap' = [keyMap EXCEPT ![key] = @ + 1]
        /\ freqMap' = Rerank(freqMap, key, keyMap[key], MaxReportSize)
        /\ UNCHANGED <<freqFile, keyFile, sound, written, pass>> /\ pass # "dumpKeys"
    BY <1>2 DEF AddOrUpdateKey, files, timer, MutexFree
  <2>3. sound => IsTopM(freqMap', keyMap')
    BY <1>1, <2>1, <2>2, RerankKeepsTopM
  <2> HIDE DEF IsTopM
  <2> QED
    BY <1>1, <2>2, <2>3
<1> HIDE DEF IsTopM
<1>3. ASSUME NEW n \in BaseSizes, SetTopKeyReportBaseSize(n) PROVE Goal
  BY <1>1, <1>3 DEF SetTopKeyReportBaseSize, files, timer
<1>4. CASE RenameKeys \/ RenameFrequencies \/ OpenKeys \/ OpenFrequencies
  \* Nothing is written of the pass yet.
  <2>1. written' # Files /\ pass' # "dumpKeys"
    BY <1>0, <1>4 DEF RenameKeys, RenameFrequencies, OpenKeys, OpenFrequencies, PassInv, Files
  <2>2. UNCHANGED <<keyMap, freqMap, sound>>
    BY <1>4 DEF RenameKeys, RenameFrequencies, OpenKeys, OpenFrequencies, memory
  <2> QED
    BY <1>1, <2>1, <2>2
<1>5. CASE DumpFrequencies
  <2>1. UNCHANGED <<keyMap, freqMap, sound>> /\ written = {}
    BY <1>0, <1>5 DEF DumpFrequencies, memory, PassInv
  <2>2. "keys" \notin written' /\ ("frequencies" \in written' => sound /\ freqFile' = freqMap)
    BY <1>5, <2>1 DEF DumpFrequencies
  <2> QED
    BY <1>1, <2>1, <2>2 DEF Files
<1>6. CASE DumpKeys
  <2>1. UNCHANGED <<keyMap, freqMap, freqFile, sound>> /\ pass = "dumpKeys" /\ pass' # "dumpKeys"
    BY <1>6 DEF DumpKeys, memory
  <2>2. ASSUME written' = Files PROVE "frequencies" \in written /\ keyFile' = keyMap
    BY <1>0, <1>6, <2>2 DEF DumpKeys, PassInv, Files
  <2> QED
    BY <1>1, <2>1, <2>2
<1>7. CASE DumpIsCut
  <2>1. UNCHANGED <<keyMap, freqMap, sound, written>> /\ written # Files
    BY <1>0, <1>7 DEF DumpIsCut, memory, PassInv, Files
  <2>2. ~ (pass' = "dumpKeys" /\ "frequencies" \in written')
    BY <1>0, <1>7 DEF DumpIsCut, PassInv
  <2> QED
    BY <1>1, <2>1, <2>2
<1>8. CASE RestoreOpensKeys \/ RestoreOpensFrequencies \/ RestoreGivesUp
  BY <1>1, <1>8 DEF RestoreOpensKeys, RestoreOpensFrequencies, RestoreGivesUp, memory, files, timer
<1>9. CASE RestoreReads
  <2>1. UNCHANGED <<freqFile, keyFile, written, pass>> /\ pass # "dumpKeys"
    BY <1>9 DEF RestoreReads, files, timer, MutexFree
  <2>2. sound' => written = Files /\ freqMap' = freqFile /\ keyMap' = keyFile
    BY <1>9 DEF RestoreReads, KeysRead, RankingRead
  <2> QED
    BY <1>1, <2>1, <2>2
<1>10. CASE RestoreFails
  BY <1>1, <1>10 DEF RestoreFails, files, timer, MutexFree
<1>11. CASE Restart
  <2>1. freqMap' = <<>> /\ keyMap' = NoKeys /\ written' = written /\ pass' # "dumpKeys"
    BY <1>11 DEF Restart
  <2>2. written = Files => UNCHANGED <<freqFile, keyFile>>
    BY <1>0, <1>11 DEF Restart, PassInv, Files
  <2> QED
    BY <1>1, <1>e, <2>1, <2>2
<1>12. CASE UNCHANGED vars
  BY <1>1, <1>12 DEF vars, memory, files, timer
<1> QED
  BY <1>2, <1>3, <1>4, <1>5, <1>6, <1>7, <1>8, <1>9, <1>10, <1>11, <1>12 DEF Next, BackupPass, Restore

\* As long as only whole backups were restored each ranked key stands in the
\* ranking once, with its present count, whatever was submitted, evicted, saved or
\* lost before: addOrUpdateKey's find-and-erase never misses.
THEOREM RankingMirrorsTheKeys == Spec => []RankingMirrorsKeys
<1>1. Consistent => RankingMirrorsKeys
  BY DEF Consistent
<1>2. Consistent /\ [Next]_vars => Consistent'
  BY ConsistentStep
<1> QED
  BY <1>1, <1>2, ConsistentInit, PTL DEF Spec

\* ... and the ranking is a top M of the counted keys: no early exit of
\* addOrUpdateKey costs a key its place.
THEOREM RankingIsTopM == Spec => []RankingIsTop
<1>1. Consistent => RankingIsTop
  BY DEF Consistent
<1>2. Consistent /\ [Next]_vars => Consistent'
  BY ConsistentStep
<1> QED
  BY <1>1, <1>2, ConsistentInit, PTL DEF Spec

\* The pair of files a pass has written is a top M of the counts saved with it,
\* wherever processes end, and whatever restores bring, before and after it.
THEOREM SavedCopyFitsTogether == Spec => []SavedCopyIsTop
<1>1. Consistent => SavedCopyIsTop
  BY DEF Consistent
<1>2. Consistent /\ [Next]_vars => Consistent'
  BY ConsistentStep
<1> QED
  BY <1>1, <1>2, ConsistentInit, PTL DEF Spec
============================================================================
