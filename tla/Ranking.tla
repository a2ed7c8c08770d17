------------------------------ MODULE Ranking ------------------------------
(***************************************************************************)
(* The ranking table of the tracker: MapManager's m_pFrequencyMap, a       *)
(* std::multimap from a frequency to a key, as the sequence an iteration   *)
(* from begin() to end() visits.  Equal frequencies stand in the order in  *)
(* which they were inserted; begin(), the first entry to be evicted, is    *)
(* position 1.  Pure operators, no state and no recursion: MapManager,     *)
(* the composed modules and the proofs all build on these definitions.     *)
(***************************************************************************)
EXTENDS Integers, SequencesExt

Entry(f, k) == [freq |-> f, key |-> k]

\* The order std::multimap keeps by construction, whatever is inserted.
Ascending(rank) ==
  \A i, j \in DOMAIN rank : i < j => rank[i].freq <= rank[j].freq

\* Mutant of UpperBound: lower_bound, in front of the equal frequencies.
LowerBound(rank, f) ==
  CHOOSE i \in 1 .. Len(rank) + 1 :
    /\ \A j \in 1 .. i - 1 : rank[j].freq < f
    /\ \A j \in i .. Len(rank) : f <= rank[j].freq

\* Where an entry of frequency f is inserted: behind the last entry whose
\* frequency is not greater.
UpperBound(rank, f) ==
  CHOOSE i \in 1 .. Len(rank) + 1 :
    /\ \A j \in 1 .. i - 1 : rank[j].freq <= f
    /\ \A j \in i .. Len(rank) : f < rank[j].freq

Insert(rank, e) == InsertAt(rank, UpperBound(rank, e.freq), e)

\* Mutant of Erase: the old entry is not searched for.
EraseNothing(rank, e) == rank

\* find(frequency), then a walk along the equal range to the key, then
\* erase(iterator): the first entry equal to e goes, and only that one.
Erase(rank, e) == RemoveFirst(rank, e)

\* Mutant of Trim: the size maintenance erases from the wrong end.
TrimFromTop(rank, max) == IF Len(rank) > max THEN SubSeq(rank, 1, max) ELSE rank

\* The size maintenance: erase(begin()) while the size exceeds max.
Trim(rank, max) ==
  IF Len(rank) > max THEN SubSeq(rank, Len(rank) - max + 1, Len(rank)) ELSE rank

\* begin()->first, or the default the caller gives for an empty ranking.
Lowest(rank, default) == IF rank = <<>> THEN default ELSE rank[1].freq

\* Mutants of Rerank: the early exit compares the old count, or lets a tie through.
RerankOldCount(rank, key, prev, max) ==
  IF prev <= Lowest(rank, 1) /\ Len(rank) >= max
  THEN rank
  ELSE LET kept == IF prev > 0 THEN Erase(rank, Entry(prev, key)) ELSE rank
       IN  Trim(Insert(kept, Entry(prev + 1, key)), max)
RerankTies(rank, key, prev, max) ==
  IF prev + 1 < Lowest(rank, 1) /\ Len(rank) >= max
  THEN rank
  ELSE LET kept == IF prev > 0 THEN Erase(rank, Entry(prev, key)) ELSE rank
       IN  Trim(Insert(kept, Entry(prev + 1, key)), max)

\* A new count of a key reaches the ranking: an early exit when it could only
\* be evicted again, otherwise the old entry is erased and the new one inserted.
Rerank(rank, key, prev, max) ==
  IF prev + 1 <= Lowest(rank, 1) /\ Len(rank) >= max
  THEN rank
  ELSE LET kept == IF prev > 0 THEN Erase(rank, Entry(prev, key)) ELSE rank
       IN  Trim(Insert(kept, Entry(prev + 1, key)), max)

\* The answer given about a key whose count is f: no search at all below the
\* lowest ranked count, else a search of the equal range.
Ranks(rank, key, f) ==
  f >= Lowest(rank, 0) /\ Contains(rank, Entry(f, key))

\* Mutant of Top: iterates forwards, from the lowest count.
TopFromBegin(rank, n) == [i \in 1 .. Min({n, Len(rank)}) |-> rank[i]]

\* What the list of hot keys shows: the first n entries from the top.
Top(rank, n) ==
  [i \in 1 .. Min({n, Len(rank)}) |-> rank[Len(rank) + 1 - i]]

RankedKeys(rank) == {rank[i].key : i \in DOMAIN rank}
============================================================================
