------------------------ MODULE MapManagerRefinement ------------------------
(***************************************************************************)
(* MapManager implements HotKeys, for every set of keys, all sizes and a   *)
(* disk that may fail; a submission evicts one hot key at most and only    *)
(* for a strictly higher count; and the two queries agree.  The invariant  *)
(* of MapManagerProofs says what the ranking is, the lemma RerankMoves     *)
(* what one submission changes in it.                                      *)
(***************************************************************************)
EXTENDS MapManagerProofs, FiniteSetTheorems

\* A ranking that holds each key once has as many keys as entries.
LEMMA RankedKeysCount ==
  ASSUME NEW rank \in Rankings(Key), KeysOnce(rank)
  PROVE  IsFiniteSet(RankedKeys(rank)) /\ Cardinality(RankedKeys(rank)) = Len(rank)
<1> DEFINE n == Len(rank)
           keyAt == [i \in 1 .. n |-> rank[i].key]
<1>1. n \in Nat /\ DOMAIN rank = 1 .. n
  BY RankingTyping
<1>2. keyAt \in [1 .. n -> RankedKeys(rank)]
  BY <1>1 DEF RankedKeys
<1>3. \A t \in RankedKeys(rank) : \E i \in 1 .. n : keyAt[i] = t
  BY <1>1 DEF RankedKeys
<1>4. \A i, j \in 1 .. n : keyAt[i] = keyAt[j] => i = j
  BY <1>1 DEF KeysOnce
<1>5. DOMAIN keyAt = 1 .. n
  OBVIOUS
<1> HIDE DEF n, keyAt
<1>6. keyAt \in Bijection(1 .. n, RankedKeys(rank))
  BY <1>2, <1>3, <1>4, <1>5 DEF Bijection, Injection, Surjection, IsInjective
<1>7. ExistsBijection(1 .. n, RankedKeys(rank))
  BY <1>6 DEF ExistsBijection
<1>8. IsFiniteSet(RankedKeys(rank)) /\ Cardinality(RankedKeys(rank)) = n
  BY <1>1, <1>7, FS_NatBijection, FS_CountingElements
<1> QED
  BY <1>8 DEF n

\* What one submission changes, in any sorted ranking of at most M entries: only
\* the submitted key may come in, at most one key goes out, and only one that is
\* ranked below the new count.
LEMMA RerankMoves ==
  ASSUME NEW rank \in Rankings(Key), Ascending(rank), Len(rank) <= MaxReportSize,
         NEW key \in Key, NEW prev \in Nat,
         NEW new, new = Rerank(rank, key, prev, MaxReportSize)
  PROVE  /\ RankedKeys(new) \subseteq RankedKeys(rank) \cup {key}
         /\ \A k \in RankedKeys(rank) \ RankedKeys(new) :
              /\ \A i \in DOMAIN rank : rank[i].key = k => rank[i].freq < prev + 1
              /\ RankedKeys(rank) \ RankedKeys(new) = {k}
<1> DEFINE M == MaxReportSize
           e == Entry(prev + 1, key)
           old == Entry(prev, key)
           kept == IF prev > 0 THEN Erase(rank, old) ELSE rank
           ins == Insert(kept, e)
<1>0. /\ Len(rank) \in Nat /\ DOMAIN rank = 1 .. Len(rank)
      /\ \A i \in 1 .. Len(rank) : rank[i].freq \in Nat /\ rank[i].key \in Key
      /\ M \in Nat \ {0}
  BY RankingTyping, MaxReportSizeIsPositive
<1>1. CASE prev + 1 <= Lowest(rank, 1) /\ Len(rank) >= M
  <2>1. new = rank
    BY <1>1 DEF Rerank
  <2> QED
    BY <2>1
<1>2. CASE ~ (prev + 1 <= Lowest(rank, 1) /\ Len(rank) >= M)
  <2>1. new = Trim(ins, M)
    BY <1>2 DEF Rerank
  <2>2. /\ e \in [freq : Nat, key : Key] /\ e.key = key /\ e.freq = prev + 1
        /\ old.key = key
    BY DEF Entry
  \* The erase misses, or takes one entry of the key.
  <2>3. /\ kept \in Rankings(Key) /\ Ascending(kept)
        /\ \/ kept = rank
           \/ /\ Len(kept) = Len(rank) - 1
              /\ \A j \in 1 .. Len(kept) : \E u \in 1 .. Len(rank) : kept[j] = rank[u]
              /\ \A u \in 1 .. Len(rank) :
                   rank[u].key = key \/ \E j \in 1 .. Len(kept) : kept[j] = rank[u]
    <3> HIDE DEF old
    <3>1. CASE kept = rank
      BY <3>1
    <3>2. CASE kept # rank
      <4>1. kept = Erase(rank, old)
        BY <3>2
      <4> HIDE DEF kept
      <4>2. /\ kept \in Rankings(Key) /\ Ascending(kept)
            /\ \E p \in 1 .. Len(rank) :
                 /\ rank[p] = old /\ Len(kept) = Len(rank) - 1
                 /\ \A i \in 1 .. Len(rank) - 1 :
                      kept[i] = IF i < p THEN rank[i] ELSE rank[i + 1]
        BY <3>2, <4>1, EraseProperties
      <4>3. PICK p \in 1 .. Len(rank) :
              /\ rank[p] = old /\ Len(kept) = Len(rank) - 1
              /\ \A i \in 1 .. Len(rank) - 1 :
                   kept[i] = IF i < p THEN rank[i] ELSE rank[i + 1]
        BY <4>2
      <4>4. \A j \in 1 .. Len(kept) : \E u \in 1 .. Len(rank) : kept[j] = rank[u]
        <5> SUFFICES ASSUME NEW j \in 1 .. Len(kept)
                     PROVE  \E u \in 1 .. Len(rank) : kept[j] = rank[u]
          OBVIOUS
        <5>1. j \in 1 .. Len(rank) /\ j + 1 \in 1 .. Len(rank)
          BY <1>0, <4>3
        <5>2. kept[j] = rank[j] \/ kept[j] = rank[j + 1]
          BY <4>3
        <5> QED
          BY <5>1, <5>2
      <4>5. ASSUME NEW u \in 1 .. Len(rank)
            PROVE  rank[u].key = key \/ \E j \in 1 .. Len(kept) : kept[j] = rank[u]
        <5>1. CASE u = p
          BY <2>2, <4>3, <5>1
        <5>2. CASE u < p
          <6>1. u \in 1 .. Len(kept) /\ kept[u] = rank[u]
            BY <1>0, <4>3, <5>2
          <6> QED
            BY <6>1
        <5>3. CASE p < u
          <6>1. u - 1 \in 1 .. Len(kept) /\ ~ (u - 1 < p) /\ u - 1 + 1 = u
            BY <1>0, <4>3, <5>3
          <6>2. kept[u - 1] = rank[u]
            BY <4>3, <6>1
          <6> QED
            BY <6>1, <6>2
        <5> QED
          BY <1>0, <5>1, <5>2, <5>3
      <4> QED
        BY <4>2, <4>3, <4>4, <4>5
    <3> QED
      BY <3>1, <3>2
  <2> HIDE DEF kept, e, old, M
  <2>4. /\ ins \in Rankings(Key) /\ Len(ins) = Len(kept) + 1 /\ Ascending(ins)
        /\ \E p \in 1 .. Len(kept) + 1 :
             \A i \in 1 .. Len(kept) + 1 :
               ins[i] = IF i < p THEN kept[i] ELSE IF i = p THEN e ELSE kept[i - 1]
    BY <2>2, <2>3, InsertProperties
  <2>5. PICK p \in 1 .. Len(kept) + 1 :
          \A i \in 1 .. Len(kept) + 1 :
            ins[i] = IF i < p THEN kept[i] ELSE IF i = p THEN e ELSE kept[i - 1]
    BY <2>4
  <2> HIDE DEF ins
  <2>6. Len(kept) \in Nat /\ DOMAIN ins = 1 .. Len(kept) + 1
    BY <2>3, <2>4, RankingTyping
  \* Before the trim: the old keys and the submitted one.
  <2>7. /\ ins[p] = e
        /\ \A i \in 1 .. Len(kept) + 1 : i = p \/ \E j \in 1 .. Len(kept) : ins[i] = kept[j]
        /\ \A j \in 1 .. Len(kept) : \E i \in 1 .. Len(kept) + 1 : i # p /\ ins[i] = kept[j]
    <3>1. ASSUME NEW i \in 1 .. Len(kept) + 1, i # p
          PROVE  \E j \in 1 .. Len(kept) : ins[i] = kept[j]
      <4>1. CASE i < p
        <5>1. i \in 1 .. Len(kept) /\ ins[i] = kept[i]
          BY <2>5, <2>6, <4>1
        <5> QED
          BY <5>1
      <4>2. CASE p < i
        <5>1. i - 1 \in 1 .. Len(kept) /\ ins[i] = kept[i - 1]
          BY <2>5, <2>6, <4>2
        <5> QED
          BY <5>1
      <4> QED
        BY <2>6, <3>1, <4>1, <4>2
    <3>2. ASSUME NEW j \in 1 .. Len(kept)
          PROVE  \E i \in 1 .. Len(kept) + 1 : i # p /\ ins[i] = kept[j]
      <4>1. CASE j < p
        <5>1. j \in 1 .. Len(kept) + 1 /\ j # p /\ ins[j] = kept[j]
          BY <2>5, <2>6, <4>1
        <5> QED
          BY <5>1
      <4>2. CASE ~ (j < p)
        <5>1. /\ j + 1 \in 1 .. Len(kept) + 1 /\ ~ (j + 1 < p) /\ j + 1 # p
              /\ j + 1 - 1 = j
          BY <2>6, <4>2
        <5>2. ins[j + 1] = kept[j]
          BY <2>5, <5>1
        <5> QED
          BY <5>1, <5>2
      <4> QED
        BY <4>1, <4>2
    <3>3. ins[p] = e
      BY <2>5, <2>6
    <3> QED
      BY <3>1, <3>2, <3>3
  <2>8. RankedKeys(kept) \subseteq RankedKeys(rank) /\ RankedKeys(rank) \subseteq RankedKeys(kept) \cup {key}
    <3>1. CASE kept = rank
      BY <3>1
    <3>2. CASE kept # rank
      <4>1. /\ \A j \in 1 .. Len(kept) : \E u \in 1 .. Len(rank) : kept[j] = rank[u]
            /\ \A u \in 1 .. Len(rank) :
                 rank[u].key = key \/ \E j \in 1 .. Len(kept) : kept[j] = rank[u]
        BY <2>3, <3>2
      <4>2. DOMAIN kept = 1 .. Len(kept) /\ DOMAIN rank = 1 .. Len(rank)
        BY <1>0, <2>3, RankingTyping
      <4>3. ASSUME NEW k \in RankedKeys(kept) PROVE k \in RankedKeys(rank)
        BY ONLY <4>1, <4>2, <4>3 DEF RankedKeys
      <4>4. ASSUME NEW k \in RankedKeys(rank), k # key PROVE k \in RankedKeys(kept)
        <5>1. PICK u \in 1 .. Len(rank) : rank[u].key = k
          BY <4>2 DEF RankedKeys
        <5>2. PICK j \in 1 .. Len(kept) : kept[j] = rank[u]
          BY <4>1, <4>4, <5>1
        <5> QED
          BY <4>2, <5>1, <5>2 DEF RankedKeys
      <4> QED
        BY <4>3, <4>4
    <3> QED
      BY <3>1, <3>2
  <2>9. RankedKeys(ins) = RankedKeys(kept) \cup {key}
    <3>1. DOMAIN kept = 1 .. Len(kept)
      BY <2>3, RankingTyping
    <3>2. ASSUME NEW k \in RankedKeys(ins) PROVE k \in RankedKeys(kept) \cup {key}
      <4>1. PICK i \in 1 .. Len(kept) + 1 : ins[i].key = k
        BY <2>6 DEF RankedKeys
      <4>2. CASE i = p
        BY <2>2, <2>7, <4>1, <4>2
      <4>3. CASE i # p
        BY <2>7, <3>1, <4>1, <4>3 DEF RankedKeys
      <4> QED
        BY <4>2, <4>3
    <3>3. ASSUME NEW k \in RankedKeys(kept) PROVE k \in RankedKeys(ins)
      <4>1. PICK j \in 1 .. Len(kept) : kept[j].key = k
        BY <3>1 DEF RankedKeys
      <4>2. PICK i \in 1 .. Len(kept) + 1 : ins[i] = kept[j]
        BY <2>7
      <4> QED
        BY <2>6, <4>1, <4>2 DEF RankedKeys
    <3>4. key \in RankedKeys(ins)
      BY <2>2, <2>6, <2>7 DEF RankedKeys
    <3> QED
      BY <3>2, <3>3, <3>4
  <2>10. CASE Len(ins) <= M
    <3>1. new = ins
      BY <1>0, <2>1, <2>4, <2>6, <2>10 DEF Trim
    <3> QED
      BY <2>8, <2>9, <3>1
  <2>11. CASE Len(ins) > M
    \* The erase has missed, the ranking is full and loses its first entry.
    <3>1. kept = rank /\ Len(rank) = M /\ Len(ins) = M + 1
      <4> DEFINE r == Len(rank)
                 n == Len(kept)
                 l == Len(ins)
      <4>1. r \in Nat /\ n \in Nat /\ M \in Nat /\ l = n + 1 /\ l > M /\ r <= M
        BY <1>0, <2>4, <2>6, <2>11 DEF M
      <4>2. kept = rank \/ n = r - 1
        BY <2>3
      <4>3. kept = rank => n = r
        OBVIOUS
      <4> HIDE DEF r, n, l
      <4>4. n # r - 1
        BY <4>1
      <4>5. kept = rank /\ r = M /\ l = M + 1
        BY <4>1, <4>2, <4>3, <4>4
      <4> QED
        BY <4>5 DEF r, l
    <3>2. Len(new) = M /\ DOMAIN new = 1 .. M /\ \A i \in 1 .. M : new[i] = ins[i + 1]
      <4>1. /\ Trim(ins, M) \in Rankings(Key)
            /\ Len(Trim(ins, M)) = Len(ins) - (IF Len(ins) > M THEN Len(ins) - M ELSE 0)
            /\ \A i \in 1 .. Len(ins) - (IF Len(ins) > M THEN Len(ins) - M ELSE 0) :
                 Trim(ins, M)[i] = ins[i + (IF Len(ins) > M THEN Len(ins) - M ELSE 0)]
        BY <1>0, <2>4, TrimProperties
      <4>2. (IF Len(ins) > M THEN Len(ins) - M ELSE 0) = 1 /\ Len(ins) - 1 = M
        <5>1. M \in Nat /\ Len(ins) = M + 1
          BY <1>0, <3>1
        <5> QED
          BY ONLY <5>1
      <4>3. new \in Rankings(Key) /\ Len(new) = M /\ \A i \in 1 .. M : new[i] = ins[i + 1]
        BY ONLY <2>1, <4>1, <4>2
      <4> QED
        BY <4>3, RankingTyping
    <3>3. 1 \in 1 .. Len(rank) /\ rank # <<>> /\ rank[1].freq < prev + 1
      <4>1. 1 \in 1 .. Len(rank) /\ rank # <<>>
        BY <1>0, <3>1
      <4> QED
        BY <1>0, <1>2, <3>1, <4>1 DEF Lowest, M
    \* The new entry is above the first, so it is not the one that goes.
    <3>4. p # 1
      <4> SUFFICES ASSUME p = 1 PROVE FALSE
        OBVIOUS
      <4>1. 1 \in DOMAIN ins /\ 2 \in DOMAIN ins /\ ins[1] = e /\ ins[2] = rank[1]
        BY <1>0, <2>5, <2>6, <3>1, <3>3
      <4>2. e.freq <= rank[1].freq
        BY <2>4, <4>1 DEF Ascending
      <4> QED
        BY <1>0, <2>2, <3>3, <4>2
    <3>5. ins[1] = rank[1] /\ \A u \in 2 .. M : ins[u] = rank[u] \/ ins[u + 1] = rank[u]
      <4>1. ins[1] = rank[1]
        BY <1>0, <2>5, <2>6, <3>1, <3>4
      <4>2. ASSUME NEW u \in 2 .. M PROVE ins[u] = rank[u] \/ ins[u + 1] = rank[u]
        <5>1. CASE u < p
          BY <1>0, <2>5, <3>1, <5>1
        <5>2. CASE ~ (u < p)
          <6>1. u + 1 \in 1 .. Len(kept) + 1 /\ ~ (u + 1 < p) /\ u + 1 # p /\ u + 1 - 1 = u
            BY <1>0, <2>6, <3>1, <5>2
          <6> QED
            BY <2>5, <3>1, <6>1
        <5> QED
          BY <5>1, <5>2
      <4> QED
        BY <4>1, <4>2
    <3>6. \A u \in 2 .. M : rank[u].key \in RankedKeys(new)
      <4> SUFFICES ASSUME NEW u \in 2 .. M PROVE rank[u].key \in RankedKeys(new)
        OBVIOUS
      <4>1. u - 1 \in 1 .. M /\ u \in 1 .. M /\ new[u - 1] = ins[u] /\ new[u] = ins[u + 1]
        <5>1. u - 1 \in 1 .. M /\ u \in 1 .. M /\ u - 1 + 1 = u
          BY <1>0
        <5> QED
          BY <3>2, <5>1
      <4>2. new[u - 1] = rank[u] \/ new[u] = rank[u]
        BY <3>5, <4>1
      <4> QED
        BY <3>2, <4>1, <4>2 DEF RankedKeys
    <3>7. RankedKeys(new) \subseteq RankedKeys(rank) \cup {key}
      <4>1. \A i \in 1 .. M : i + 1 \in DOMAIN ins /\ new[i] = ins[i + 1]
        BY <1>0, <2>6, <3>1, <3>2
      <4>2. RankedKeys(new) \subseteq RankedKeys(ins)
        BY <3>2, <4>1 DEF RankedKeys
      <4> QED
        BY <2>8, <2>9, <4>2
    <3>8. ASSUME NEW k \in RankedKeys(rank) \ RankedKeys(new)
          PROVE  /\ \A i \in DOMAIN rank : rank[i].key = k => rank[i].freq < prev + 1
                 /\ k = rank[1].key
      <4>1. \A i \in DOMAIN rank : rank[i].key = k => i = 1
        BY <1>0, <3>1, <3>6
      <4>2. \E i \in DOMAIN rank : rank[i].key = k
        BY DEF RankedKeys
      <4> QED
        BY <3>3, <4>1, <4>2
    <3> QED
      BY <3>7, <3>8
  <2>12. Len(ins) <= M \/ Len(ins) > M
    BY <1>0, <2>4, <2>6 DEF M
  <2> QED
    BY <2>10, <2>11, <2>12
<1> QED
  BY <1>1, <1>2

\* A submission evicts an incumbent only for a count strictly higher than the one
\* it is ranked with, and one at most, after any history of backups, restores,
\* failures of the disk and ends of the process.
THEOREM IncumbentsKeepTheirPlace == Spec => IncumbentsKeepTies
<1> DEFINE Kept == \A key, k \in Key :
                     /\ AddOrUpdateKey(key) /\ k \in RankedKeys(freqMap)
                     /\ k \notin RankedKeys(freqMap')
                     => /\ \A i \in DOMAIN freqMap : freqMap[i].key = k => freqMap[i].freq < keyMap'[key]
                        /\ RankedKeys(freqMap) \ RankedKeys(freqMap') = {k}
<1>1. Bounded => Kept
  <2> SUFFICES ASSUME Bounded, NEW key \in Key, NEW k \in Key, AddOrUpdateKey(key),
                      k \in RankedKeys(freqMap), k \notin RankedKeys(freqMap')
               PROVE  /\ \A i \in DOMAIN freqMap : freqMap[i].key = k => freqMap[i].freq < keyMap'[key]
                      /\ RankedKeys(freqMap) \ RankedKeys(freqMap') = {k}
    OBVIOUS
  <2>1. /\ freqMap \in Rankings(Key) /\ Ascending(freqMap) /\ Len(freqMap) <= MaxReportSize
        /\ keyMap \in [Key -> Nat]
    BY DEF Bounded, MapsInv, Shape
  <2>2. /\ freqMap' = Rerank(freqMap, key, keyMap[key], MaxReportSize)
        /\ keyMap'[key] = keyMap[key] + 1 /\ keyMap[key] \in Nat
    BY <2>1 DEF AddOrUpdateKey
  <2> QED
    BY <2>1, <2>2, RerankMoves
<1>2. Bounded /\ [Next]_vars => [Kept]_vars
  BY <1>1
<1> QED
  BY <1>2, BoundedInit, BoundedStep, PTL DEF Spec, IncumbentsKeepTies

---------------------------------------------------------------------------
\* The two modules speak of the same cardinality.
LEMMA SameCardinality == \A S : Promise!Cardinality(S) = Cardinality(S)
BY DEF Promise!Cardinality, Cardinality, Promise!IsFiniteSet, IsFiniteSet

\* A ranking that mirrors the counts and that no other key outnumbers is what
\* HotKeys calls a set of hot keys.
LEMMA RankingIsHot ==
  ASSUME NEW rank \in Rankings(Key), Len(rank) <= MaxReportSize,
         NEW counts \in [Key -> Nat], Mirrors(rank, counts), Outranks(rank, counts)
  PROVE  Promise!IsTop(RankedKeys(rank), counts)
<1> DEFINE h == RankedKeys(rank)
<1>0. /\ Len(rank) \in Nat /\ DOMAIN rank = 1 .. Len(rank)
      /\ \A i \in 1 .. Len(rank) : rank[i].freq \in Nat /\ rank[i].key \in Key
  BY RankingTyping
<1>1. KeysOnce(rank)
  BY <1>0 DEF Mirrors, KeysOnce
<1>2. Cardinality(h) = Len(rank)
  BY <1>1, RankedKeysCount
<1>3. h \subseteq Promise!Known(counts)
  BY <1>0 DEF RankedKeys, Mirrors, Promise!Known
<1>4. h # Promise!Known(counts) => Cardinality(h) = MaxReportSize
  BY <1>2, <1>3 DEF Outranks, Promise!Known
<1>5. ASSUME NEW in \in h, NEW out \in Promise!Known(counts) \ h
      PROVE  counts[in] >= counts[out]
  <2>1. PICK i \in DOMAIN rank : rank[i].key = in
    BY DEF RankedKeys
  <2>2. rank[i].freq = counts[in]
    BY <2>1 DEF Mirrors
  <2>3. out \in Key /\ counts[out] > 0 /\ counts[out] <= rank[i].freq
    BY DEF Outranks, Promise!Known
  <2>4. counts[in] \in Nat /\ counts[out] \in Nat
    BY <1>0, <2>1, <2>3
  <2> QED
    BY <2>2, <2>3, <2>4
<1>6. Cardinality(h) <= MaxReportSize
  BY <1>2
<1> HIDE DEF h
<1>7. Promise!IsTop(h, counts)
  BY ONLY <1>3, <1>4, <1>5, <1>6, SameCardinality DEF Promise!IsTop
<1> QED
  BY <1>7 DEF h

\* Each operation is one step of HotKeys, or none.
LEMMA OperationsKeepPromise ==
  ASSUME Consistent, Consistent', [Next]_vars
  PROVE  [Promise!Next]_(Promise!vars)
<1> DEFINE hot == RankedKeys(freqMap)
           saved == IF written = Files THEN <<keyFile, RankedKeys(freqFile)>> ELSE <<>>
           loading == IF reading = {} THEN "no" ELSE IF moved = {} THEN "clean" ELSE "crossed"
<1>0. PassInv /\ PassInv' /\ MapsInv /\ MapsInv'
  BY DEF Consistent, Bounded
<1>s. ASSUME UNCHANGED <<keyMap, freqMap, sound>>, saved' = saved, loading' = loading
      PROVE  UNCHANGED Promise!vars
  BY <1>s DEF Promise!vars
<1>e. RankedKeys(<<>>) = {}
  BY DEF RankedKeys
<1>1. ASSUME NEW key \in Key, AddOrUpdateKey(key) PROVE Promise!Submit(key)
  <2>1. /\ freqMap \in Rankings(Key) /\ Ascending(freqMap) /\ Len(freqMap) <= MaxReportSize
        /\ keyMap \in [Key -> Nat]
    BY <1>0 DEF MapsInv, Shape
  <2>2. /\ freqMap' \in Rankings(Key) /\ Len(freqMap') <= MaxReportSize
        /\ keyMap' \in [Key -> Nat]
    BY <1>0 DEF MapsInv, Shape
  <2>3. /\ keyMap' = [keyMap EXCEPT ![key] = @ + 1]
        /\ freqMap' = Rerank(freqMap, key, keyMap[key], MaxReportSize)
        /\ UNCHANGED <<keyFile, freqFile, reading, moved, sound, written>>
    BY <1>1 DEF AddOrUpdateKey, files, input
  <2>4. /\ RankedKeys(freqMap') \subseteq hot \cup {key}
        /\ \A k \in hot \ RankedKeys(freqMap') : hot \ RankedKeys(freqMap') = {k}
    <3>1. keyMap[key] \in Nat
      BY <2>1
    <3> QED
      BY <2>1, <2>3, <3>1, RerankMoves
  <2>5. Cardinality(hot \ RankedKeys(freqMap')) <= 1
    <3>1. CASE hot \ RankedKeys(freqMap') = {}
      BY <3>1, FS_EmptySet
    <3>2. CASE \E k : hot \ RankedKeys(freqMap') = {k}
      BY <3>2, FS_Singleton
    <3> QED
      BY <2>4, <3>1, <3>2
  <2>6. ASSUME sound PROVE Promise!IsTop(RankedKeys(freqMap'), keyMap')
    <3>1. Mirrors(freqMap', keyMap') /\ Outranks(freqMap', keyMap')
      BY <2>3, <2>6 DEF Consistent, RankingMirrorsKeys, RankingIsTop, Mirrors, Outranks
    <3> QED
      BY <2>2, <3>1, RankingIsHot
  <2>7. RankedKeys(freqMap') \in SUBSET (hot \cup {key})
    BY <2>4
  <2>8. saved' = saved /\ loading' = loading /\ sound' = sound
    BY <2>3
  <2> QED
    BY ONLY <2>3, <2>5, <2>6, <2>7, <2>8, SameCardinality DEF Promise!Submit
<1>2. ASSUME NEW n \in BaseSizes, SetTopKeyReportBaseSize(n) PROVE UNCHANGED Promise!vars
  BY <1>2, <1>s DEF SetTopKeyReportBaseSize, files, input
<1>3. CASE RenameKeys
  \* A restore under way has keys.csv open, and now reads the renamed file.
  <2>1. UNCHANGED <<keyMap, freqMap, sound>> /\ written' = {} /\ reading' = reading
    BY <1>3 DEF RenameKeys, memory
  <2>2. reading # {} => moved' # {}
    BY <1>0, <1>3 DEF RenameKeys, PassInv, Readings, Files
  <2>3. reading = {} => moved = {}
    BY <1>0 DEF PassInv
  <2>4. saved' = <<>>
    BY <2>1 DEF Files
  <2>5. loading' = IF loading = "no" THEN "no" ELSE "crossed"
    BY <2>1, <2>2, <2>3
  <2> HIDE DEF saved, loading
  <2>6. Promise!BeginSave
    BY ONLY <2>1, <2>4, <2>5 DEF Promise!BeginSave, saved, loading, hot
  <2> QED
    BY <2>6 DEF Promise!Next
<1>4. CASE RenameFrequencies
  <2>1. UNCHANGED <<keyMap, freqMap, sound, reading>> /\ written = {} /\ written' = {}
    BY <1>0, <1>4 DEF RenameFrequencies, memory, PassInv
  <2>2. reading # {} => moved # {} /\ moved' # {}
    BY <1>0, <1>4 DEF RenameFrequencies, PassInv
  <2>3. saved' = saved
    BY <2>1 DEF Files
  <2>4. loading' = loading
    BY <2>1, <2>2
  <2> QED
    BY <1>s, <2>1, <2>3, <2>4
<1>5. CASE OpenKeys \/ OpenFrequencies
  BY <1>5, <1>s DEF OpenKeys, OpenFrequencies, memory, input
<1>6. CASE DumpFrequencies \/ DumpIsCut
  <2>1. UNCHANGED <<keyMap, freqMap, sound, reading, moved>>
    BY <1>6 DEF DumpFrequencies, DumpIsCut, memory, input
  <2>2. written # Files /\ written' # Files
    BY <1>0, <1>6 DEF DumpFrequencies, DumpIsCut, PassInv, Files
  <2>3. saved' = saved /\ loading' = loading
    BY <2>1, <2>2 DEF Files
  <2> QED
    BY <1>s, <2>1, <2>3
<1>7. CASE DumpKeys
  <2>1. /\ UNCHANGED <<keyMap, freqMap, freqFile, sound, reading, moved>>
        /\ pass = "dumpKeys" /\ written # Files
    BY <1>0, <1>7 DEF DumpKeys, memory, input, PassInv, Files
  <2>2. CASE written' = Files
    <3>1. "frequencies" \in written /\ keyFile' = keyMap
      BY <1>0, <1>7, <2>2 DEF DumpKeys, PassInv, Files
    <3>2. sound /\ freqFile = freqMap
      BY <2>1, <3>1 DEF Consistent
    <3>3. saved' = <<keyMap, hot>> /\ loading' = loading
      BY <2>1, <2>2, <3>1, <3>2
    <3> HIDE DEF saved, loading
    <3>4. Promise!Save
      BY ONLY <2>1, <3>2, <3>3 DEF Promise!Save, saved, loading, hot
    <3> QED
      BY <3>4 DEF Promise!Next
  <2>3. CASE written' # Files
    BY <1>s, <2>1, <2>3 DEF Files
  <2> QED
    BY <2>2, <2>3
<1>8. CASE RestoreOpensKeys
  <2>1. UNCHANGED <<keyMap, freqMap, keyFile, freqFile, sound, written>>
    BY <1>8 DEF RestoreOpensKeys, memory, files
  <2>2. loading = "no" /\ loading' = "clean"
    BY <1>0, <1>8 DEF RestoreOpensKeys, PassInv
  <2>3. saved' = saved
    BY <2>1
  <2> HIDE DEF saved, loading
  <2>4. Promise!BeginLoad
    BY ONLY <2>1, <2>2, <2>3 DEF Promise!BeginLoad, saved, loading, hot
  <2> QED
    BY <2>4 DEF Promise!Next
<1>9. CASE RestoreOpensFrequencies
  <2>1. UNCHANGED <<keyMap, freqMap, keyFile, freqFile, sound, written, moved>>
    BY <1>9 DEF RestoreOpensFrequencies, memory, files
  <2>2. reading # {} /\ reading' # {}
    BY <1>9 DEF RestoreOpensFrequencies, Files
  <2> QED
    BY <1>s, <2>1, <2>2
<1>10. ASSUME reading # {}, moved # {} \/ written # Files \/ Faults
       PROVE  Promise!Hindered
  BY <1>10 DEF Promise!Hindered
<1>11. CASE RestoreGivesUp
  <2>1. UNCHANGED <<keyMap, freqMap, keyFile, freqFile, sound, written>> /\ reading' = {}
    BY <1>11 DEF RestoreGivesUp, RestoreEnds, memory, files
  <2>2. Promise!Hindered
    BY <1>0, <1>10, <1>11 DEF RestoreGivesUp, PassInv, Files
  <2>3. saved' = saved /\ loading' = "no"
    BY <2>1
  <2> HIDE DEF saved, loading
  <2>4. Promise!LoadNothing
    BY ONLY <2>1, <2>2, <2>3 DEF Promise!LoadNothing, saved, loading, hot
  <2> QED
    BY <2>4 DEF Promise!Next
\* Whatever a restore leaves in the maps, it is counts and keys.
<1>12. keyMap' \in [Key -> Nat] /\ RankedKeys(freqMap') \subseteq Key
  <2>1. keyMap' \in [Key -> Nat] /\ freqMap' \in Rankings(Key)
    BY <1>0 DEF MapsInv, Shape
  <2> QED
    BY <2>1, RankingTyping DEF RankedKeys
<1>13. CASE RestoreReads
  <2>1. /\ UNCHANGED <<keyFile, freqFile, written>> /\ reading # {} /\ reading' = {}
        /\ sound' = (written = Files /\ moved = {})
    BY <1>13 DEF RestoreReads, RestoreEnds, files, Files
  <2>2. saved' = saved /\ loading' = "no"
    BY <2>1
  <2>3. CASE written = Files /\ moved = {}
    <3>1. keyMap' = keyFile /\ freqMap' = freqFile
      BY <1>13, <2>3 DEF RestoreReads, KeysRead, RankingRead
    <3>2. /\ saved # <<>> /\ saved[1] = keyMap' /\ saved[2] = RankedKeys(freqMap')
          /\ loading = "clean"
      BY <2>1, <2>3, <3>1
    <3>3. sound' = TRUE
      BY <2>1, <2>3
    <3> HIDE DEF saved, loading
    <3>4. Promise!Load
      BY ONLY <2>2, <3>2, <3>3 DEF Promise!Load, saved, loading
    <3> QED
      BY <3>4 DEF Promise!Next
  <2>4. CASE ~ (written = Files /\ moved = {})
    <3>1. Promise!Hindered
      BY <1>10, <2>1, <2>4
    <3>2. sound' = FALSE
      BY <2>1, <2>4
    <3> HIDE DEF saved, loading
    <3>3. Promise!LoadAnything
      BY ONLY <1>12, <2>2, <3>1, <3>2 DEF Promise!LoadAnything, saved, loading
    <3> QED
      BY <3>3 DEF Promise!Next
  <2> QED
    BY <2>3, <2>4
<1>14. CASE RestoreFails
  <2>1. /\ UNCHANGED <<keyFile, freqFile, written>> /\ reading # {} /\ reading' = {}
        /\ sound' = FALSE /\ Faults
    BY <1>14 DEF RestoreFails, RestoreEnds, files, Files
  <2>2. saved' = saved /\ loading' = "no"
    BY <2>1
  <2>3. Promise!Hindered
    BY <1>10, <2>1
  <2> HIDE DEF saved, loading
  <2>4. Promise!LoadAnything
    BY ONLY <1>12, <2>1, <2>2, <2>3 DEF Promise!LoadAnything, saved, loading
  <2> QED
    BY <2>4 DEF Promise!Next
<1>15. CASE Restart
  <2>1. /\ keyMap' = NoKeys /\ freqMap' = <<>> /\ sound' = TRUE
        /\ reading' = {} /\ written' = written
    BY <1>15 DEF Restart, RestoreEnds
  <2>2. written = Files => UNCHANGED <<keyFile, freqFile>>
    BY <1>0, <1>15 DEF Restart, PassInv, Files
  <2>3. saved' = saved /\ loading' = "no"
    BY <2>1, <2>2
  <2> HIDE DEF saved, loading
  <2>4. Promise!Restart
    BY ONLY <1>e, <2>1, <2>3 DEF Promise!Restart, NoKeys, saved, loading
  <2> QED
    BY <2>4 DEF Promise!Next
<1>16. CASE UNCHANGED vars
  BY <1>16, <1>s DEF vars, memory, files, timer, input
<1>17. ASSUME NEW key \in Key, AddOrUpdateKey(key) PROVE Promise!Next
  BY <1>1, <1>17 DEF Promise!Next
<1> QED
  BY <1>2, <1>3, <1>4, <1>5, <1>6, <1>7, <1>8, <1>9, <1>11, <1>13, <1>14, <1>15, <1>16, <1>17
     DEF Next, BackupPass, Restore

\* MapManager keeps the promise of HotKeys: whatever is submitted, saved and
\* restored, wherever a pass and a restore meet, the process ends or the disk
\* fails, clients see counts and a set of hot keys that a store without rankings
\* and files could have, which loads what it saved unless the load was hindered.
THEOREM ImplementsHotKeys == Spec => HotKeysSpec
<1>1. Init => Promise!Init
  BY DEF Init, EmptyMaps, NoInput, NoKeys, Files, RankedKeys, Promise!Init
<1>2. Consistent /\ [Next]_vars => Consistent'
  BY ConsistentStep
<1>3. Consistent /\ Consistent' /\ [Next]_vars => [Promise!Next]_(Promise!vars)
  BY OperationsKeepPromise
<1> QED
  BY <1>1, <1>2, <1>3, ConsistentInit, PTL DEF Spec, HotKeysSpec, Promise!Spec

---------------------------------------------------------------------------
\* The list getTopHotkeys builds: the last n entries, backwards.
LEMMA TopProperties ==
  ASSUME NEW rank \in Rankings(Key), NEW n \in Nat
  PROVE  LET m == IF n <= Len(rank) THEN n ELSE Len(rank)
         IN  /\ Top(rank, n) \in Rankings(Key)
             /\ Len(Top(rank, n)) = m
             /\ \A i \in 1 .. m : /\ Len(rank) + 1 - i \in 1 .. Len(rank)
                                  /\ Top(rank, n)[i] = rank[Len(rank) + 1 - i]
<1> DEFINE E == [freq : Nat, key : Key]
           r == Len(rank)
           m == IF n <= r THEN n ELSE r
<1>1. r \in Nat /\ \A i \in 1 .. r : rank[i] \in E
  BY RankingTyping
<1>2. Min({n, r}) = m /\ m \in Nat /\ m <= r
  BY <1>1, MinOfTwo
<1>3. Top(rank, n) = [i \in 1 .. m |-> rank[r + 1 - i]]
  BY <1>2 DEF Top
<1> HIDE DEF E, r, m
<1>4. \A i \in 1 .. m : r + 1 - i \in 1 .. r
  BY <1>1, <1>2
<1>5. Top(rank, n) \in Seq(E) /\ Len(Top(rank, n)) = m
  <2>1. \A i \in 1 .. m : rank[r + 1 - i] \in E
    BY <1>1, <1>4
  <2>2. Top(rank, n) \in [1 .. m -> E]
    BY <1>3, <2>1
  <2> QED
    BY <1>2, <2>2
<1>6. \A i \in 1 .. m : Top(rank, n)[i] = rank[r + 1 - i]
  BY <1>3
<1> QED
  BY <1>4, <1>5, <1>6 DEF Rankings, E, m, r

\* Only finitely many keys were ever counted, in memory or in a file, though
\* there may be infinitely many to choose from.
Few(counts) == IsFiniteSet({k \in Key : counts[k] > 0})
FewKnown == Few(keyMap) /\ Few(keyFile) /\ Few(oldKeys)

LEMMA NoKeysAreFew == Few(NoKeys)
<1>1. {k \in Key : NoKeys[k] > 0} = {}
  BY DEF NoKeys
<1> QED
  BY <1>1, FS_EmptySet DEF Few

LEMMA FewKnownStep ==
  ASSUME Bounded, FewKnown, [Next]_vars
  PROVE  FewKnown'
<1> DEFINE Goal == Few(keyMap') /\ Few(keyFile') /\ Few(oldKeys')
<1>0. Few(keyMap) /\ Few(keyFile) /\ Few(oldKeys) /\ Few(KeysRead)
  BY DEF FewKnown, KeysRead
<1> SUFFICES Goal
  BY DEF FewKnown, Few
<1>p. ASSUME NEW m, Few(m), NEW new \in SomeKeys(m) PROVE Few(new)
  <2>1. {k \in Key : new[k] > 0} \subseteq {k \in Key : m[k] > 0}
    BY DEF SomeKeys
  <2> QED
    BY <1>p, <2>1, FS_Subset DEF Few
<1>1. ASSUME NEW key \in Key, AddOrUpdateKey(key) PROVE Goal
  <2>1. keyMap' = [keyMap EXCEPT ![key] = keyMap[key] + 1] /\ keyMap \in [Key -> Nat]
    BY <1>1 DEF AddOrUpdateKey, Bounded, MapsInv
  <2>2. {k \in Key : keyMap'[k] > 0} \subseteq {k \in Key : keyMap[k] > 0} \cup {key}
    BY <2>1
  <2>3. IsFiniteSet({k \in Key : keyMap[k] > 0} \cup {key})
    BY <1>0, FS_AddElement DEF Few
  <2>4. Few(keyMap')
    BY <2>2, <2>3, FS_Subset DEF Few
  <2> QED
    BY <1>0, <1>1, <2>4 DEF AddOrUpdateKey, files, input
<1> HIDE DEF Few
<1>2. ASSUME NEW n \in BaseSizes, SetTopKeyReportBaseSize(n) PROVE Goal
  BY <1>0, <1>2 DEF SetTopKeyReportBaseSize, files, input
<1>3. CASE RenameKeys \/ RenameFrequencies
  BY <1>0, <1>3, NoKeysAreFew DEF RenameKeys, RenameFrequencies, memory
<1>4. CASE OpenKeys \/ OpenFrequencies
  BY <1>0, <1>4 DEF OpenKeys, OpenFrequencies, memory, input
<1>5. CASE DumpFrequencies \/ DumpKeys
  BY <1>0, <1>5 DEF DumpFrequencies, DumpKeys, memory, input
<1>6. CASE DumpIsCut
  BY <1>0, <1>6, <1>p DEF DumpIsCut, memory, input
<1>7. CASE RestoreOpensKeys \/ RestoreOpensFrequencies
  BY <1>0, <1>7 DEF RestoreOpensKeys, RestoreOpensFrequencies, memory, files
<1>8. CASE RestoreGivesUp
  BY <1>0, <1>8, NoKeysAreFew DEF RestoreGivesUp, RestoreEnds, memory, files
<1>9. CASE RestoreReads \/ RestoreFails
  BY <1>0, <1>9, <1>p, NoKeysAreFew DEF RestoreReads, RestoreFails, RestoreEnds, files
<1>10. CASE Restart
  BY <1>0, <1>10, <1>p, NoKeysAreFew DEF Restart, RestoreEnds
<1>11. CASE UNCHANGED vars
  BY <1>0, <1>11 DEF vars, memory, files, input
<1> QED
  BY <1>1, <1>2, <1>3, <1>4, <1>5, <1>6, <1>7, <1>8, <1>9, <1>10, <1>11
     DEF Next, BackupPass, Restore

\* The reply cuts the list: that is the list for a smaller N.
LEMMA ReplyIsTop ==
  ASSUME freqMap \in Rankings(Key), base \in Nat
  PROVE  /\ Min({base, ReplyMax}) \in Nat /\ Min({base, ReplyMax}) <= base
         /\ Reply = Top(freqMap, Min({base, ReplyMax}))
<1> DEFINE E == [freq : Nat, key : Key]
           r == Len(freqMap)
           m == IF base <= r THEN base ELSE r
           n == IF base <= ReplyMax THEN base ELSE ReplyMax
           c == IF n <= r THEN n ELSE r
           list == TopHotkeys
           short == Top(freqMap, n)
<1>1. r \in Nat /\ base \in Nat /\ ReplyMax \in Nat
  BY RankingTyping, SizesAssumption
<1>2. Min({base, ReplyMax}) = n /\ n \in Nat /\ n <= base
  BY <1>1, MinOfTwo
<1>3. /\ list \in Rankings(Key) /\ Len(list) = m
      /\ \A i \in 1 .. m : list[i] = freqMap[r + 1 - i]
  BY <1>1, TopProperties DEF TopHotkeys
<1>4. /\ short \in Rankings(Key) /\ Len(short) = c
      /\ \A i \in 1 .. c : short[i] = freqMap[r + 1 - i]
  <2> HIDE DEF n
  <2> QED
    BY <1>2, TopProperties
<1>5. Reply = SubSeq(list, 1, c)
  <2>1. Min({ReplyMax, m}) = c
    <3>1. m \in Nat
      BY <1>1
    <3>2. Min({ReplyMax, m}) = IF ReplyMax <= m THEN ReplyMax ELSE m
      <4> HIDE DEF m
      <4> QED
        BY <1>1, <3>1, MinOfTwo
    <3> QED
      BY <1>1, <3>2
  <2> QED
    BY <1>3, <2>1 DEF Reply
<1>6. c \in Nat /\ c <= m /\ m \in Nat
  BY <1>1
<1>7. Rankings(Key) = Seq(E)
  BY DEF Rankings
<1> HIDE DEF E, r, m, c, list, short, n
<1>8. list \in Seq(E) /\ short \in Seq(E)
  BY <1>3, <1>4, <1>7
<1>9. \A i \in 1 .. c : i \in 1 .. m /\ list[i] \in E
  <2>1. \A i \in 1 .. c : i \in 1 .. m
    BY <1>6
  <2> QED
    BY <1>3, <1>8, <2>1
<1>10. /\ SubSeq(list, 1, c) \in Seq(E) /\ Len(SubSeq(list, 1, c)) = c
       /\ \A i \in 1 .. c : SubSeq(list, 1, c)[i] = list[i]
  BY <1>3, <1>6, <1>8, <1>9, SubSeqProperties
<1>11. SubSeq(list, 1, c) = short
  <2>1. \A i \in 1 .. c : SubSeq(list, 1, c)[i] = short[i]
    BY <1>3, <1>4, <1>9, <1>10
  <2> QED
    BY <1>4, <1>8, <1>10, <2>1, SeqEqual
<1> QED
  BY <1>2, <1>5, <1>11 DEF short

\* A list of the last n entries shows the n hottest keys, for every n up to M.
LEMMA TopShowsHottest ==
  ASSUME Consistent, FewKnown, sound, NEW n \in Nat, n <= MaxReportSize
  PROVE  ShowsHottest(Top(freqMap, n), n)
<1> DEFINE list == Top(freqMap, n)
           listed == RankedKeys(list)
           known == {k \in Key : keyMap[k] > 0}
           r == Len(freqMap)
           m == IF n <= r THEN n ELSE r
<1>1. /\ freqMap \in Rankings(Key) /\ Ascending(freqMap) /\ Mirrors(freqMap, keyMap)
      /\ Outranks(freqMap, keyMap) /\ keyMap \in [Key -> Nat]
      /\ MaxReportSize \in Nat
  BY MaxReportSizeIsPositive DEF Consistent, Bounded, MapsInv, Shape, RankingMirrorsKeys, RankingIsTop
<1>2. /\ r \in Nat /\ DOMAIN freqMap = 1 .. r
      /\ \A i \in 1 .. r : /\ freqMap[i] \in [freq : Nat, key : Key]
                           /\ freqMap[i].freq \in Nat /\ freqMap[i].key \in Key
  BY <1>1, RankingTyping
<1>3. /\ list \in Rankings(Key) /\ Len(list) = m
      /\ \A i \in 1 .. m : r + 1 - i \in 1 .. r /\ list[i] = freqMap[r + 1 - i]
  BY <1>1, TopProperties
<1>4. DOMAIN list = 1 .. m
  BY <1>3, RankingTyping
<1>5. /\ m \in Nat /\ m <= r /\ m <= n /\ (m = n \/ m = r)
  BY <1>1, <1>2
<1> HIDE DEF list, r, m
<1>6. /\ \A i, j \in 1 .. r : freqMap[i].key = freqMap[j].key => i = j
      /\ \A i \in 1 .. r : freqMap[i].freq = keyMap[freqMap[i].key] /\ freqMap[i].freq > 0
  BY <1>1, <1>2 DEF Mirrors
<1>7. \A i, j \in 1 .. r : i <= j => freqMap[i].freq <= freqMap[j].freq
  <2> SUFFICES ASSUME NEW i \in 1 .. r, NEW j \in 1 .. r, i <= j
               PROVE  freqMap[i].freq <= freqMap[j].freq
    OBVIOUS
  <2>1. CASE i = j
    BY <1>2, <2>1
  <2>2. CASE i < j
    BY <1>1, <1>2, <2>2 DEF Ascending
  <2> QED
    BY <1>2, <2>1, <2>2
\* An entry of the list is an entry of the ranking, among its last m.
<1>8. ASSUME NEW k \in listed
      PROVE  \E u \in 1 .. r : /\ freqMap[u].key = k /\ freqMap[u].freq = keyMap[k]
                               /\ r + 1 - u \in 1 .. m
  <2>1. PICK i \in 1 .. m : list[i].key = k
    BY <1>4 DEF RankedKeys
  <2>2. r + 1 - i \in 1 .. r /\ freqMap[r + 1 - i].key = k /\ r + 1 - (r + 1 - i) = i
    BY <1>2, <1>3, <1>5, <2>1
  <2> QED
    BY <1>6, <2>1, <2>2
<1>9. Len(list) = Cardinality(listed)
  <2>1. KeysOnce(list)
    <3> SUFFICES ASSUME NEW i \in 1 .. m, NEW j \in 1 .. m, list[i].key = list[j].key
                 PROVE  i = j
      BY <1>3 DEF KeysOnce
    <3>1. /\ r + 1 - i \in 1 .. r /\ list[i] = freqMap[r + 1 - i]
          /\ r + 1 - j \in 1 .. r /\ list[j] = freqMap[r + 1 - j]
      BY <1>3
    <3>2. r + 1 - i = r + 1 - j
      BY <1>6, <3>1
    <3> QED
      BY <1>2, <1>5, <3>2
  <2> QED
    BY <1>3, <2>1, RankedKeysCount
<1>10. Len(list) = Min({n, Cardinality(known)})
  <2> DEFINE c == Cardinality(known)
             ranked == RankedKeys(freqMap)
  <2>1. IsFiniteSet(known) /\ c \in Nat
    BY FS_CardinalityType DEF FewKnown, Few
  <2>2. ranked \subseteq known
    BY <1>2, <1>6 DEF RankedKeys
  <2>3. Cardinality(ranked) = r
    <3>1. KeysOnce(freqMap)
      BY <1>2, <1>6 DEF KeysOnce, r
    <3> QED
      BY <1>1, <3>1, RankedKeysCount DEF r
  <2>4. r <= c
    BY <2>1, <2>2, <2>3, FS_Subset
  <2>5. r = c \/ r = MaxReportSize
    <3>1. CASE ranked = known
      BY <2>3, <3>1
    <3>2. CASE \E k \in known : k \notin ranked
      BY <1>1, <3>2 DEF Outranks, r
    <3> QED
      BY <2>2, <3>1, <3>2
  <2>6. Min({n, c}) = IF n <= c THEN n ELSE c
    BY <1>1, <2>1, MinOfTwo
  <2> HIDE DEF c
  <2>7. m = IF n <= c THEN n ELSE c
    BY <1>1, <1>2, <2>1, <2>4, <2>5 DEF m
  <2> QED
    BY <1>3, <2>6, <2>7 DEF c
<1>11. \A i, j \in DOMAIN list : i < j => list[i].freq >= list[j].freq
  <2> SUFFICES ASSUME NEW i \in 1 .. m, NEW j \in 1 .. m, i < j
               PROVE  list[i].freq >= list[j].freq
    BY <1>4
  <2>1. /\ r + 1 - i \in 1 .. r /\ list[i] = freqMap[r + 1 - i]
        /\ r + 1 - j \in 1 .. r /\ list[j] = freqMap[r + 1 - j]
    BY <1>3
  <2>2. r + 1 - j <= r + 1 - i
    BY <1>2, <1>5
  <2>3. freqMap[r + 1 - j].freq <= freqMap[r + 1 - i].freq
    BY <1>7, <2>1, <2>2
  <2>4. list[j].freq <= list[i].freq /\ list[i].freq \in Nat /\ list[j].freq \in Nat
    BY <1>2, <2>1, <2>3
  <2> QED
    BY <2>4
<1>12. ASSUME NEW k \in listed PROVE IsHotKey(k)
  <2>1. PICK u \in 1 .. r : freqMap[u].key = k /\ freqMap[u].freq = keyMap[k]
    BY <1>8
  <2>2. freqMap[u] = Entry(keyMap[k], k)
    BY <1>2, <2>1 DEF Entry
  <2>3. Contains(freqMap, Entry(keyMap[k], k))
    BY <1>2, <2>1, <2>2 DEF Contains, r
  <2>4. freqMap # <<>> /\ 1 \in 1 .. r /\ 1 <= u
    BY <1>2, <2>1 DEF r
  <2>5. freqMap[1].freq <= freqMap[u].freq
    BY <1>7, <2>4
  <2>6. keyMap[k] >= Lowest(freqMap, 0) /\ keyMap[k] > 0
    BY <1>2, <1>6, <2>1, <2>4, <2>5 DEF Lowest
  <2> QED
    BY <2>3, <2>6 DEF IsHotKey, Ranks
<1>13. ASSUME NEW k \in listed, NEW l \in Key \ listed PROVE keyMap[k] >= keyMap[l]
  <2>1. PICK u \in 1 .. r : /\ freqMap[u].key = k /\ freqMap[u].freq = keyMap[k]
                            /\ r + 1 - u \in 1 .. m
    BY <1>8
  <2>2. keyMap[k] \in Nat /\ keyMap[l] \in Nat
    BY <1>1, <1>2, <2>1
  <2>3. CASE l \in RankedKeys(freqMap)
    <3>1. PICK v \in 1 .. r : freqMap[v].key = l
      BY <1>2, <2>3 DEF RankedKeys
    <3>2. r + 1 - v \notin 1 .. m
      <4> SUFFICES ASSUME r + 1 - v \in 1 .. m PROVE FALSE
        OBVIOUS
      <4>1. r + 1 - (r + 1 - v) = v
        BY <1>2
      <4>2. list[r + 1 - v].key = l
        BY <1>3, <3>1, <4>1
      <4> QED
        BY <1>4, <4>2 DEF RankedKeys
    <3>3. v <= u
      BY <1>2, <1>5, <2>1, <3>2
    <3>4. freqMap[v].freq <= freqMap[u].freq
      BY <1>7, <3>3
    <3>5. keyMap[l] <= keyMap[k]
      BY <1>6, <2>1, <3>1, <3>4
    <3> QED
      BY <2>2, <3>5
  <2>4. CASE l \notin RankedKeys(freqMap) /\ keyMap[l] > 0
    <3>1. keyMap[l] <= freqMap[u].freq
      BY <1>1, <1>2, <2>4 DEF Outranks
    <3> QED
      BY <2>1, <2>2, <3>1
  <2> QED
    BY <2>2, <2>3, <2>4
<1> QED
  BY <1>9, <1>10, <1>11, <1>12, <1>13 DEF ShowsHottest, list

\* The answers of the two queries agree at every moment, from the start or a whole
\* restore on: the list getTopHotkeys returns, and what the reply shows of it, are
\* the hottest keys there are, and isHotKey confirms each.
THEOREM QueriesAgree == Spec => []AnswersAgree
<1>1. Consistent /\ [Next]_vars => Consistent'
  BY ConsistentStep
<1>2. Consistent /\ FewKnown /\ [Next]_vars => FewKnown'
  BY FewKnownStep DEF Consistent
<1>3. Init => FewKnown
  BY NoKeysAreFew DEF Init, EmptyMaps, NoInput, FewKnown
<1>4. Consistent /\ FewKnown => AnswersAgree
  <2> SUFFICES ASSUME Consistent, FewKnown, sound PROVE
        ShowsHottest(TopHotkeys, base) /\ ShowsHottest(Reply, Min({base, ReplyMax}))
    BY DEF AnswersAgree
  <2>1. base \in Nat /\ base <= MaxReportSize /\ freqMap \in Rankings(Key) /\ MaxReportSize \in Nat
    BY MaxReportSizeIsPositive DEF Consistent, Bounded, MapsInv, PassInv, Shape
  <2>2. ShowsHottest(TopHotkeys, base)
    BY <2>1, TopShowsHottest DEF TopHotkeys
  <2> DEFINE n == Min({base, ReplyMax})
  <2>3. n \in Nat /\ n <= base /\ Reply = Top(freqMap, n)
    BY <2>1, ReplyIsTop
  <2> HIDE DEF n
  <2>4. ShowsHottest(Reply, n)
    BY <2>1, <2>3, TopShowsHottest
  <2> QED
    BY <2>2, <2>4 DEF n
<1> QED
  BY <1>1, <1>2, <1>3, <1>4, ConsistentInit, PTL DEF Spec
============================================================================
