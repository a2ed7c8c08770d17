---------------------------- MODULE MapMaintenance ----------------------------
(***************************************************************************)
(* The two operations of MapManager that no part of the tracker calls, on  *)
(* top of the others: purge forgets all keys but the n highest ranked,     *)
(* zap forgets everything.                                                 *)
(*                                                                         *)
(* purge walks the ranking from the top with a reverse iterator.  An       *)
(* orphan, a ranked key the key map does not hold, is erased, after which  *)
(* the iterator stands on the next entry already and ++ skips that one.    *)
(* Behind the walk everything below the iterator goes, but not the entry   *)
(* it stands on.                                                           *)
(***************************************************************************)
EXTENDS MapManager

CONSTANT PurgeSizes    \* the values given to purge

\* The n of the walk: "purge n, N <= n <= M".
Clamped(n) == IF n > MaxReportSize THEN MaxReportSize ELSE IF n < base THEN base ELSE n

Orphan(p) == keyMap[freqMap[p].key] = 0

\* The positions the walk would stop at: all but those behind an erased orphan.
Visited ==
  LET visited[p \in 1 .. Len(freqMap)] ==
        p = Len(freqMap) \/ ~(visited[p + 1] /\ Orphan(p + 1))
  IN  {p \in DOMAIN freqMap : visited[p]}

\* Mutant of Looked: the walk takes one step too many.
LookedTooFar(n) ==
  {p \in Visited : Cardinality({q \in Visited : q > p}) <= Clamped(n)}

\* The first n of them.
Looked(n) == {p \in Visited : Cardinality({q \in Visited : q > p}) < Clamped(n)}

\* The end of the reverse range was taken before the walk: erasing the lowest
\* entry leaves it dangling, and what follows is undefined.
Dangling(n) == 1 \in Looked(n) /\ Orphan(1)

\* The entries of a ranking at the positions in P, in their order.
EntriesAt(rank, P) ==
  LET at == SetToSortSeq(P, LAMBDA p, q : p < q) IN [i \in DOMAIN at |-> rank[at[i]]]

Purge(n) ==
  LET found == {p \in Looked(n) : ~Orphan(p)}
      rest == Visited \ Looked(n)
      kept == {p \in DOMAIN freqMap : p \notin Looked(n) \ found /\ \A q \in rest : p >= q}
  IN  /\ MutexFree /\ ~Dangling(n)
      /\ freqMap' = EntriesAt(freqMap, kept)
      /\ keyMap' = [k \in Key |-> IF \E p \in found : freqMap[p].key = k THEN keyMap[k] ELSE 0]
      /\ writingData' = 0 /\ sound' = FALSE
      /\ UNCHANGED <<base, files, timer, input, written>>

\* Undefined behaviour: entries are only erased and keys only copied, but which is
\* open; or the process crashes.
PurgeUndefined(n) ==
  /\ MutexFree /\ Dangling(n)
  /\ \/ /\ \E P \in SUBSET DOMAIN freqMap : freqMap' = EntriesAt(freqMap, P)
        /\ keyMap' \in SomeKeys(keyMap)
        /\ writingData' = 0 /\ sound' = FALSE
        /\ UNCHANGED <<base, files, timer, input, written>>
     \/ Restart

Zap ==
  /\ MutexFree
  /\ keyMap' = NoKeys /\ freqMap' = <<>> /\ writingData' = 0 /\ sound' = TRUE
  /\ UNCHANGED <<base, files, timer, input, written>>

MaintenanceNext ==
  \/ Next
  \/ \E n \in PurgeSizes : Purge(n) \/ PurgeUndefined(n)
  \/ Zap

MaintenanceSpec == Init /\ [][MaintenanceNext]_vars

---------------------------------------------------------------------------
\* Where the ranking was in order, purge(n) keeps n keys with their counts and
\* forgets none that outnumbers one of them; the ranking is left with one entry
\* more than the keys at most (an orphan, which counts from one when it is
\* submitted again and is then ranked twice).
PurgeKeepsTop ==
  [][\A n \in PurgeSizes :
       Mirrors(freqMap, keyMap) /\ Outranks(freqMap, keyMap) /\ Purge(n) =>
         LET known == {k \in Key : keyMap'[k] > 0}
         IN  /\ Cardinality(known) = Min({Clamped(n), Len(freqMap)})
             /\ \A k \in known, l \in Key \ known : keyMap'[k] = keyMap[k] /\ keyMap[k] >= keyMap[l]
             /\ known \subseteq RankedKeys(freqMap')
             /\ Cardinality(RankedKeys(freqMap') \ known) <= 1]_vars
=============================================================================
