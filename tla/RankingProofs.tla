--------------------------- MODULE RankingProofs ---------------------------
(***************************************************************************)
(* What the operators of Ranking do to a sorted ranking, as lemmas for the *)
(* proofs about the machines that use them, and that inserting the entries *)
(* of a sorted ranking one by one gives it back.                           *)
(***************************************************************************)
EXTENDS Ranking, SequenceTheorems, WellFoundedInduction, TLAPS

\* A non-empty set of naturals has a least element.
LEMMA LeastElement ==
  ASSUME NEW T \in SUBSET Nat, T # {}
  PROVE  \E m \in T : \A n \in T : m <= n
<1>1. IsWellFoundedOn(OpToRel(<, Nat), Nat)
  BY NatLessThanWellFounded
<1>2. \E x \in T : \A y \in T : ~ (<<y, x>> \in OpToRel(<, Nat))
  BY <1>1, WFMin
<1>3. \A x, y \in Nat : <<y, x>> \in OpToRel(<, Nat) <=> y < x
  BY DEF OpToRel
<1>4. \E x \in T : \A y \in T : ~ (y < x)
  BY <1>2, <1>3, Zenon
<1> QED
  BY <1>4, SMT

\* InsertAt puts the new element at position p and shifts the rest up.
LEMMA InsertAtProperties ==
  ASSUME NEW S, NEW s \in Seq(S), NEW e \in S, NEW p \in 1 .. Len(s) + 1
  PROVE  /\ InsertAt(s, p, e) \in Seq(S)
         /\ Len(InsertAt(s, p, e)) = Len(s) + 1
         /\ \A i \in 1 .. Len(s) + 1 :
              InsertAt(s, p, e)[i] = IF i < p THEN s[i] ELSE IF i = p THEN e ELSE s[i - 1]
<1> DEFINE front == SubSeq(s, 1, p - 1)
           back == SubSeq(s, p, Len(s))
           mid == front \o <<e>>
<1>0. Len(s) \in Nat /\ p \in Nat
  BY LenProperties
<1>1. \A i \in 1 .. Len(s) : s[i] \in S
  BY ElementOfSeq
<1>2. /\ front \in Seq(S) /\ Len(front) = p - 1
      /\ \A i \in 1 .. p - 1 : front[i] = s[i]
  <2>1. \A i \in 1 .. p - 1 : s[i] \in S
    BY <1>0, <1>1
  <2>2. p - 1 \in Int /\ 1 \in Int
    BY <1>0
  <2>3. /\ front \in Seq(S) /\ Len(front) = IF 1 <= p - 1 THEN p - 1 - 1 + 1 ELSE 0
        /\ \A i \in 1 .. p - 1 - 1 + 1 : front[i] = s[1 + i - 1]
    BY <2>1, <2>2, SubSeqProperties
  <2> QED
    BY <1>0, <2>3
<1>3. /\ back \in Seq(S) /\ Len(back) = Len(s) - p + 1
      /\ \A i \in 1 .. Len(s) - p + 1 : back[i] = s[p + i - 1]
  <2>1. \A i \in p .. Len(s) : s[i] \in S
    BY <1>0, <1>1
  <2>2. p \in Int /\ Len(s) \in Int
    BY <1>0
  <2>3. /\ back \in Seq(S) /\ Len(back) = IF p <= Len(s) THEN Len(s) - p + 1 ELSE 0
        /\ \A i \in 1 .. Len(s) - p + 1 : back[i] = s[p + i - 1]
    BY <2>1, <2>2, SubSeqProperties
  <2> QED
    BY <1>0, <2>3
<1>4. <<e>> \in Seq(S) /\ Len(<<e>>) = 1 /\ <<e>>[1] = e
  OBVIOUS
<1>5. /\ mid \in Seq(S) /\ Len(mid) = p
      /\ \A i \in 1 .. p : mid[i] = IF i <= p - 1 THEN s[i] ELSE e
  <2> HIDE DEF front
  <2>1. /\ mid \in Seq(S) /\ Len(mid) = Len(front) + Len(<<e>>)
        /\ \A i \in 1 .. Len(front) + Len(<<e>>) :
             mid[i] = IF i <= Len(front) THEN front[i] ELSE <<e>>[i - Len(front)]
    BY <1>2, <1>4, ConcatProperties
  <2> QED
    BY <1>0, <1>2, <1>4, <2>1
<1>6. /\ mid \o back \in Seq(S) /\ Len(mid \o back) = Len(mid) + Len(back)
      /\ \A i \in 1 .. Len(mid) + Len(back) :
           (mid \o back)[i] = IF i <= Len(mid) THEN mid[i] ELSE back[i - Len(mid)]
  <2> HIDE DEF mid, back
  <2> QED
    BY <1>3, <1>5, ConcatProperties
<1>7. InsertAt(s, p, e) = mid \o back
  BY DEF InsertAt
<1> HIDE DEF front, back, mid
<1>8. Len(mid) + Len(back) = Len(s) + 1
  BY <1>0, <1>3, <1>5
<1>9. ASSUME NEW i \in 1 .. Len(s) + 1
      PROVE  (mid \o back)[i] = IF i < p THEN s[i] ELSE IF i = p THEN e ELSE s[i - 1]
  <2>1. CASE i <= p
    BY <1>0, <1>5, <1>6, <1>8, <2>1
  <2>2. CASE i > p
    <3>1. (mid \o back)[i] = back[i - p]
      BY <1>0, <1>5, <1>6, <1>8, <2>2
    <3>2. i - p \in 1 .. Len(s) - p + 1
      BY <1>0, <2>2
    <3>3. back[i - p] = s[p + (i - p) - 1]
      BY <1>3, <3>2
    <3> QED
      BY <1>0, <2>2, <3>1, <3>3
  <2>3. i <= p \/ i > p
    BY <1>0
  <2> QED
    BY <2>1, <2>2, <2>3, Zenon
<1> QED
  BY <1>6, <1>7, <1>8, <1>9

\* RemoveAt closes the gap at position p.
LEMMA RemoveAtProperties ==
  ASSUME NEW S, NEW s \in Seq(S), NEW p \in 1 .. Len(s)
  PROVE  /\ RemoveAt(s, p) \in Seq(S)
         /\ Len(RemoveAt(s, p)) = Len(s) - 1
         /\ \A i \in 1 .. Len(s) - 1 :
              RemoveAt(s, p)[i] = IF i < p THEN s[i] ELSE s[i + 1]
<1> DEFINE front == SubSeq(s, 1, p - 1)
           back == SubSeq(s, p + 1, Len(s))
<1>0. Len(s) \in Nat /\ p \in Nat
  BY LenProperties
<1>1. \A i \in 1 .. Len(s) : s[i] \in S
  BY ElementOfSeq
<1>2. /\ front \in Seq(S) /\ Len(front) = p - 1
      /\ \A i \in 1 .. p - 1 : front[i] = s[i]
  <2>1. \A i \in 1 .. p - 1 : s[i] \in S
    BY <1>0, <1>1
  <2>2. p - 1 \in Int /\ 1 \in Int
    BY <1>0
  <2>3. /\ front \in Seq(S) /\ Len(front) = IF 1 <= p - 1 THEN p - 1 - 1 + 1 ELSE 0
        /\ \A i \in 1 .. p - 1 - 1 + 1 : front[i] = s[1 + i - 1]
    BY <2>1, <2>2, SubSeqProperties
  <2> QED
    BY <1>0, <2>3
<1>3. /\ back \in Seq(S) /\ Len(back) = Len(s) - p
      /\ \A i \in 1 .. Len(s) - p : back[i] = s[p + i]
  <2>1. \A i \in p + 1 .. Len(s) : s[i] \in S
    BY <1>0, <1>1
  <2>2. p + 1 \in Int /\ Len(s) \in Int
    BY <1>0
  <2>3. /\ back \in Seq(S) /\ Len(back) = IF p + 1 <= Len(s) THEN Len(s) - (p + 1) + 1 ELSE 0
        /\ \A i \in 1 .. Len(s) - (p + 1) + 1 : back[i] = s[p + 1 + i - 1]
    BY <2>1, <2>2, SubSeqProperties
  <2> QED
    BY <1>0, <2>3
<1>4. RemoveAt(s, p) = front \o back
  BY DEF RemoveAt
<1> HIDE DEF front, back
<1>5. /\ front \o back \in Seq(S) /\ Len(front \o back) = Len(front) + Len(back)
      /\ \A i \in 1 .. Len(front) + Len(back) :
           (front \o back)[i] = IF i <= Len(front) THEN front[i] ELSE back[i - Len(front)]
  BY <1>2, <1>3, ConcatProperties
<1>6. Len(front) + Len(back) = Len(s) - 1
  BY <1>0, <1>2, <1>3
<1>7. ASSUME NEW i \in 1 .. Len(s) - 1
      PROVE  (front \o back)[i] = IF i < p THEN s[i] ELSE s[i + 1]
  <2>1. CASE i < p
    BY <1>0, <1>2, <1>5, <1>6, <2>1
  <2>2. CASE i >= p
    <3>1. (front \o back)[i] = back[i - (p - 1)]
      BY <1>0, <1>2, <1>5, <1>6, <2>2
    <3>2. i - (p - 1) \in 1 .. Len(s) - p
      BY <1>0, <2>2
    <3>3. back[i - (p - 1)] = s[p + (i - (p - 1))]
      BY <1>3, <3>2
    <3> QED
      BY <1>0, <2>2, <3>1, <3>3
  <2>3. i < p \/ i >= p
    BY <1>0
  <2> QED
    BY <2>1, <2>2, <2>3, Zenon
<1> QED
  BY <1>4, <1>5, <1>6, <1>7

---------------------------------------------------------------------------
\* The rankings over a set of keys.
Rankings(K) == Seq([freq : Nat, key : K])

\* The entries of a ranking are what their set says: naturals and keys.
LEMMA RankingTyping ==
  ASSUME NEW K, NEW rank \in Rankings(K)
  PROVE  /\ Len(rank) \in Nat /\ DOMAIN rank = 1 .. Len(rank)
         /\ \A i \in 1 .. Len(rank) :
              /\ rank[i] \in [freq : Nat, key : K]
              /\ rank[i].freq \in Nat /\ rank[i].key \in K
<1> DEFINE E == [freq : Nat, key : K]
<1>1. rank \in Seq(E)
  BY DEF Rankings
<1>2. \A e \in E : e.freq \in Nat /\ e.key \in K
  OBVIOUS
<1> HIDE DEF E
<1>3. Len(rank) \in Nat /\ DOMAIN rank = 1 .. Len(rank)
  BY <1>1, LenProperties
<1>4. \A i \in 1 .. Len(rank) : rank[i] \in E
  BY <1>1, ElementOfSeq
<1>5. \A i \in 1 .. Len(rank) : rank[i].freq \in Nat /\ rank[i].key \in K
  BY <1>2, <1>4
<1> QED
  BY <1>3, <1>4, <1>5 DEF E

\* In an ascending ranking there is a position for every frequency.
LEMMA UpperBoundProperties ==
  ASSUME NEW K, NEW rank \in Rankings(K), Ascending(rank), NEW f \in Nat
  PROVE  /\ UpperBound(rank, f) \in 1 .. Len(rank) + 1
         /\ \A j \in 1 .. UpperBound(rank, f) - 1 : rank[j].freq <= f
         /\ \A j \in UpperBound(rank, f) .. Len(rank) : f < rank[j].freq
<1> DEFINE Bound(i) == /\ \A j \in 1 .. i - 1 : rank[j].freq <= f
                       /\ \A j \in i .. Len(rank) : f < rank[j].freq
           above == {i \in 1 .. Len(rank) : f < rank[i].freq}
<1>0. Len(rank) \in Nat /\ DOMAIN rank = 1 .. Len(rank)
  BY RankingTyping
<1>1. \A i \in 1 .. Len(rank) : rank[i].freq \in Nat
  BY RankingTyping
<1>2. \E i \in 1 .. Len(rank) + 1 : Bound(i)
  <2>1. CASE above = {}
    <3>1. Len(rank) + 1 \in 1 .. Len(rank) + 1
      BY <1>0
    <3>2. Bound(Len(rank) + 1)
      BY <1>0, <1>1, <2>1
    <3> QED
      BY <3>1, <3>2
  <2>2. CASE above # {}
    <3>1. above \in SUBSET Nat
      BY <1>0
    <3>2. PICK m \in above : \A n \in above : m <= n
      BY <2>2, <3>1, LeastElement
    <3>3. m \in 1 .. Len(rank) /\ f < rank[m].freq
      BY <3>2
    <3>4. ASSUME NEW j \in 1 .. m - 1 PROVE rank[j].freq <= f
      <4>1. j \in 1 .. Len(rank) /\ j < m
        BY <1>0, <3>3
      <4>2. j \notin above
        BY <1>0, <3>2, <3>3, <4>1
      <4> QED
        BY <1>1, <4>1, <4>2
    <3>5. ASSUME NEW j \in m .. Len(rank) PROVE f < rank[j].freq
      <4>1. j \in 1 .. Len(rank) /\ (j = m \/ m < j)
        BY <1>0, <3>3
      <4>2. rank[m].freq <= rank[j].freq
        BY <1>0, <1>1, <3>3, <4>1 DEF Ascending
      <4> QED
        BY <1>1, <3>3, <4>1, <4>2
    <3>6. m \in 1 .. Len(rank) + 1
      BY <1>0, <3>3
    <3> QED
      BY <3>4, <3>5, <3>6
  <2> QED
    BY <2>1, <2>2
<1>3. UpperBound(rank, f) = CHOOSE i \in 1 .. Len(rank) + 1 : Bound(i)
  BY DEF UpperBound
<1> QED
  BY <1>2, <1>3

\* Insert keeps a ranking ascending; the new entry is the only change.
LEMMA InsertProperties ==
  ASSUME NEW K, NEW rank \in Rankings(K), Ascending(rank), NEW e \in [freq : Nat, key : K]
  PROVE  /\ Insert(rank, e) \in Rankings(K)
         /\ Len(Insert(rank, e)) = Len(rank) + 1
         /\ Ascending(Insert(rank, e))
         /\ \E p \in 1 .. Len(rank) + 1 :
              \A i \in 1 .. Len(rank) + 1 :
                Insert(rank, e)[i] = IF i < p THEN rank[i] ELSE IF i = p THEN e ELSE rank[i - 1]
<1> DEFINE p == UpperBound(rank, e.freq)
           new == Insert(rank, e)
<1>0. Len(rank) \in Nat /\ DOMAIN rank = 1 .. Len(rank) /\ e.freq \in Nat
  BY RankingTyping
<1>1. \A i \in 1 .. Len(rank) : rank[i].freq \in Nat
  BY RankingTyping
<1>2. /\ p \in 1 .. Len(rank) + 1
      /\ \A j \in 1 .. p - 1 : rank[j].freq <= e.freq
      /\ \A j \in p .. Len(rank) : e.freq < rank[j].freq
  BY <1>0, UpperBoundProperties
<1>3. new = InsertAt(rank, p, e)
  BY DEF Insert
<1> HIDE DEF p, new
<1>4. /\ new \in Rankings(K) /\ Len(new) = Len(rank) + 1
      /\ \A i \in 1 .. Len(rank) + 1 :
           new[i] = IF i < p THEN rank[i] ELSE IF i = p THEN e ELSE rank[i - 1]
  <2> DEFINE E == [freq : Nat, key : K]
  <2>1. rank \in Seq(E) /\ e \in E
    BY DEF Rankings
  <2> HIDE DEF E
  <2>2. p \in 1 .. Len(rank) + 1
    BY <1>2
  <2>3. InsertAt(rank, p, e) \in Seq(E) /\ Len(InsertAt(rank, p, e)) = Len(rank) + 1
    BY <2>1, <2>2, InsertAtProperties
  <2>4. \A i \in 1 .. Len(rank) + 1 :
          InsertAt(rank, p, e)[i] = IF i < p THEN rank[i] ELSE IF i = p THEN e ELSE rank[i - 1]
    BY <2>1, <2>2, InsertAtProperties
  <2> QED
    BY <1>3, <2>3, <2>4 DEF E, Rankings
<1>5. ASSUME NEW i \in 1 .. Len(rank) + 1, NEW j \in 1 .. Len(rank) + 1, i < j
      PROVE  new[i].freq <= new[j].freq
  <2>0. i \in Nat /\ j \in Nat /\ p \in Nat
    BY <1>0, <1>2
  <2>1. CASE j < p
    <3>1. new[i] = rank[i] /\ new[j] = rank[j] /\ i \in 1 .. Len(rank) /\ j \in 1 .. Len(rank)
      BY <1>0, <1>2, <1>4, <1>5, <2>0, <2>1
    <3> QED
      BY <1>0, <1>5, <3>1 DEF Ascending
  <2>2. CASE j = p
    <3>1. new[i] = rank[i] /\ new[j] = e /\ i \in 1 .. p - 1
      BY <1>0, <1>2, <1>4, <1>5, <2>0, <2>2
    <3> QED
      BY <1>2, <3>1
  <2>3. CASE j > p
    <3>1. new[j] = rank[j - 1] /\ j - 1 \in p .. Len(rank) /\ j - 1 \in 1 .. Len(rank)
      BY <1>0, <1>2, <1>4, <1>5, <2>0, <2>3
    <3>2. CASE i < p
      <4>1. new[i] = rank[i] /\ i \in 1 .. p - 1
        BY <1>0, <1>2, <1>4, <2>0, <3>2
      <4>2. rank[i].freq <= e.freq /\ e.freq < rank[j - 1].freq /\ i \in 1 .. Len(rank)
        BY <1>0, <1>2, <2>0, <3>1, <4>1
      <4> QED
        BY <1>0, <1>1, <3>1, <4>1, <4>2
    <3>3. CASE i = p
      BY <1>0, <1>1, <1>2, <1>4, <3>1, <3>3
    <3>4. CASE i > p
      <4>1. new[i] = rank[i - 1] /\ i - 1 \in 1 .. Len(rank) /\ i - 1 < j - 1
        BY <1>0, <1>2, <1>4, <1>5, <2>0, <3>4
      <4> QED
        BY <1>0, <3>1, <4>1 DEF Ascending
    <3> QED
      BY <2>0, <3>2, <3>3, <3>4
  <2> QED
    BY <2>0, <2>1, <2>2, <2>3
<1>6. DOMAIN new = 1 .. Len(rank) + 1
  BY <1>4, LenProperties DEF Rankings
<1>7. Ascending(new)
  BY <1>5, <1>6 DEF Ascending
<1> QED
  BY <1>2, <1>4, <1>7 DEF new

\* Erase takes out one entry equal to e when there is one, nothing otherwise.
LEMMA EraseProperties ==
  ASSUME NEW K, NEW rank \in Rankings(K), Ascending(rank), NEW e
  PROVE  /\ Erase(rank, e) \in Rankings(K)
         /\ Ascending(Erase(rank, e))
         /\ \/ /\ \A i \in 1 .. Len(rank) : rank[i] # e
               /\ Erase(rank, e) = rank
            \/ \E p \in 1 .. Len(rank) :
                 /\ rank[p] = e
                 /\ Len(Erase(rank, e)) = Len(rank) - 1
                 /\ \A i \in 1 .. Len(rank) - 1 :
                      Erase(rank, e)[i] = IF i < p THEN rank[i] ELSE rank[i + 1]
<1> DEFINE found == {i \in 1 .. Len(rank) : rank[i] = e}
           E == [freq : Nat, key : K]
<1>0. Len(rank) \in Nat /\ DOMAIN rank = 1 .. Len(rank)
  BY RankingTyping
<1>1. CASE found = {}
  <2>1. \A i \in 1 .. Len(rank) : rank[i] # e
    BY <1>1
  <2>2. Erase(rank, e) = rank
    BY <2>1 DEF Erase, RemoveFirst
  <2> QED
    BY <2>1, <2>2
<1>2. CASE found # {}
  <2>1. PICK p \in found : \A q \in found : p <= q
    <3>1. found \in SUBSET Nat
      BY <1>0
    <3> QED
      BY <1>2, <3>1, LeastElement
  <2>2. p \in 1 .. Len(rank) /\ rank[p] = e
    BY <2>1
  <2>3. Min(found) \in found
    BY <2>1 DEF Min
  <2>4. SelectInSeq(rank, LAMBDA v : v = e) = Min(found)
    BY <1>2 DEF SelectInSeq
  <2>5. Erase(rank, e) = RemoveAt(rank, Min(found))
    BY <2>2, <2>4 DEF Erase, RemoveFirst
  <2>6. PICK m \in 1 .. Len(rank) : rank[m] = e /\ Erase(rank, e) = RemoveAt(rank, m)
    BY <2>3, <2>5
  <2> DEFINE new == Erase(rank, e)
  <2>7. /\ new \in Rankings(K) /\ Len(new) = Len(rank) - 1
        /\ \A i \in 1 .. Len(rank) - 1 :
             new[i] = IF i < m THEN rank[i] ELSE rank[i + 1]
    <3>1. rank \in Seq(E)
      BY DEF Rankings
    <3> HIDE DEF E, new
    <3>2. /\ RemoveAt(rank, m) \in Seq(E) /\ Len(RemoveAt(rank, m)) = Len(rank) - 1
          /\ \A i \in 1 .. Len(rank) - 1 :
               RemoveAt(rank, m)[i] = IF i < m THEN rank[i] ELSE rank[i + 1]
      BY <3>1, RemoveAtProperties
    <3> QED
      BY <2>6, <3>2 DEF E, Rankings, new
  <2> HIDE DEF new
  <2>8. ASSUME NEW i \in 1 .. Len(rank) - 1, NEW j \in 1 .. Len(rank) - 1, i < j
        PROVE  new[i].freq <= new[j].freq
    <3> DEFINE u == IF i < m THEN i ELSE i + 1
               v == IF j < m THEN j ELSE j + 1
    <3>1. new[i] = rank[u] /\ new[j] = rank[v]
      BY <2>7
    <3>2. u \in 1 .. Len(rank) /\ v \in 1 .. Len(rank) /\ u < v
      BY <1>0, <2>6, <2>8
    <3> HIDE DEF u, v
    <3> QED
      BY <1>0, <3>1, <3>2 DEF Ascending
  <2>9. Ascending(new)
    <3>1. DOMAIN new = 1 .. Len(rank) - 1
      BY <2>7, RankingTyping
    <3> QED
      BY <2>8, <3>1 DEF Ascending
  <2> QED
    BY <2>6, <2>7, <2>9 DEF new
<1> QED
  BY <1>1, <1>2

\* Trim drops entries from the low end, down to max of them.
LEMMA TrimProperties ==
  ASSUME NEW K, NEW rank \in Rankings(K), Ascending(rank), NEW max \in Nat
  PROVE  LET d == IF Len(rank) > max THEN Len(rank) - max ELSE 0
         IN  /\ Trim(rank, max) \in Rankings(K)
             /\ Ascending(Trim(rank, max))
             /\ Len(Trim(rank, max)) = Len(rank) - d
             /\ \A i \in 1 .. Len(rank) - d : Trim(rank, max)[i] = rank[i + d]
<1> DEFINE d == IF Len(rank) > max THEN Len(rank) - max ELSE 0
           new == Trim(rank, max)
           E == [freq : Nat, key : K]
<1>0. /\ Len(rank) \in Nat /\ DOMAIN rank = 1 .. Len(rank)
      /\ \A i \in 1 .. Len(rank) : rank[i] \in E
  BY RankingTyping
<1>1. /\ new \in Rankings(K) /\ Len(new) = Len(rank) - d
      /\ \A i \in 1 .. Len(rank) - d : new[i] = rank[i + d]
  <2>1. CASE Len(rank) > max
    <3>1. new = SubSeq(rank, Len(rank) - max + 1, Len(rank))
      BY <2>1 DEF Trim
    <3>2. /\ Len(rank) - max + 1 \in Int /\ Len(rank) \in Int
          /\ \A i \in Len(rank) - max + 1 .. Len(rank) : rank[i] \in E
      BY <1>0, <2>1
    <3> HIDE DEF E, new
    <3>3. /\ new \in Seq(E)
          /\ Len(new) = IF Len(rank) - max + 1 <= Len(rank)
                        THEN Len(rank) - (Len(rank) - max + 1) + 1 ELSE 0
          /\ \A i \in 1 .. Len(rank) - (Len(rank) - max + 1) + 1 :
               new[i] = rank[(Len(rank) - max + 1) + i - 1]
      BY <3>1, <3>2, SubSeqProperties
    <3>4. /\ Len(new) = max
          /\ \A i \in 1 .. max : new[i] = rank[i + (Len(rank) - max)]
      BY <1>0, <2>1, <3>3
    <3>5. d = Len(rank) - max /\ Len(rank) - d = max
      BY <1>0, <2>1
    <3>6. new \in Rankings(K)
      BY <3>3 DEF E, Rankings
    <3> QED
      BY <3>4, <3>5, <3>6
  <2>2. CASE ~ (Len(rank) > max)
    BY <1>0, <2>2 DEF Trim
  <2> QED
    BY <2>1, <2>2
<1> HIDE DEF new
<1>2. Ascending(new)
  <2>1. DOMAIN new = 1 .. Len(rank) - d
    BY <1>1, RankingTyping
  <2>2. d \in Nat /\ d <= Len(rank)
    BY <1>0
  <2> HIDE DEF d
  <2>3. ASSUME NEW i \in 1 .. Len(rank) - d, NEW j \in 1 .. Len(rank) - d, i < j
        PROVE  new[i].freq <= new[j].freq
    <3>1. i + d \in 1 .. Len(rank) /\ j + d \in 1 .. Len(rank) /\ i + d < j + d
      BY <1>0, <2>2, <2>3
    <3> QED
      BY <1>0, <1>1, <3>1 DEF Ascending
  <2> QED
    BY <2>1, <2>3 DEF Ascending
<1> QED
  BY <1>1, <1>2 DEF new
---------------------------------------------------------------------------
\* One step of the recursion by which FoldLeft inserts the entries of a file:
\* what it makes of the lines in s, from its values for fewer lines.
Reload(g, s, file) ==
  IF s = {} THEN <<>> ELSE Insert(g[s \ {Max(s)}], file[Max(s)])

IsReload(g, n, file) == g = [s \in SUBSET (1 .. n) |-> Reload(g, s, file)]

\* The greatest element is what Max returns.
LEMMA GreatestOf ==
  ASSUME NEW S \in SUBSET Int, NEW m \in S, \A x \in S : x <= m
  PROVE  Max(S) = m
<1>1. m \in S /\ \A x \in S : m >= x
  OBVIOUS
<1>2. \A y \in S : (\A x \in S : y >= x) => y = m
  BY <1>1
<1> QED
  BY <1>1, <1>2 DEF Max

\* Every non-empty set of line numbers has a greatest one.
LEMMA GreatestElement ==
  ASSUME NEW n \in Nat, NEW S \in SUBSET (1 .. n), S # {}
  PROVE  Max(S) \in S
<1> DEFINE above == {b \in Nat : \A x \in S : x <= b}
<1>1. n \in above /\ above \in SUBSET Nat
  OBVIOUS
<1>2. PICK b \in above : \A c \in above : b <= c
  BY <1>1, LeastElement
<1>3. b \in Nat /\ \A x \in S : x <= b
  BY <1>2
<1>4. b \in S
  <2> SUFFICES ASSUME b \notin S PROVE FALSE
    OBVIOUS
  <2>1. \A x \in S : x \in 1 .. n /\ x <= b /\ x # b
    BY <1>3
  <2>2. b - 1 \in Nat
    <3>1. PICK x \in S : TRUE
      OBVIOUS
    <3> QED
      BY <1>3, <2>1, <3>1
  <2>3. \A x \in S : x <= b - 1
    BY <1>3, <2>1
  <2>4. b - 1 \in above
    BY <2>2, <2>3
  <2> QED
    BY <1>2, <1>3, <2>4
<1>5. S \in SUBSET Int
  OBVIOUS
<1> QED
  BY <1>3, <1>4, <1>5, GreatestOf

\* The function FoldLeft defines by recursion exists, for every number of lines.
LEMMA ReloadExists ==
  ASSUME NEW n \in Nat, NEW file
  PROVE  \E g : IsReload(g, n, file)
<1> DEFINE Has(m) == \E g : IsReload(g, m, file)
           bad == {m \in Nat : ~ Has(m)}
<1>1. Has(0)
  <2> DEFINE g == [s \in SUBSET (1 .. 0) |-> <<>>]
  <2>1. \A s \in SUBSET (1 .. 0) : s = {}
    OBVIOUS
  <2>2. g = [s \in SUBSET (1 .. 0) |-> Reload(g, s, file)]
    BY <2>1 DEF Reload
  <2> QED
    BY <2>2 DEF IsReload
<1>2. ASSUME NEW m \in Nat, Has(m) PROVE Has(m + 1)
  <2>1. PICK g : g = [s \in SUBSET (1 .. m) |-> Reload(g, s, file)]
    BY <1>2 DEF IsReload
  <2> DEFINE h == [s \in SUBSET (1 .. m + 1) |->
                     IF m + 1 \in s THEN Insert(g[s \ {m + 1}], file[m + 1]) ELSE g[s]]
  <2>2. ASSUME NEW s \in SUBSET (1 .. m + 1) PROVE h[s] = Reload(h, s, file)
    <3>1. CASE m + 1 \in s
      <4>1. Max(s) = m + 1
        <5>1. s \in SUBSET Int /\ \A x \in s : x <= m + 1
          OBVIOUS
        <5> QED
          BY <3>1, <5>1, GreatestOf
      <4>2. s \ {m + 1} \in SUBSET (1 .. m + 1) /\ m + 1 \notin s \ {m + 1}
        OBVIOUS
      <4>3. h[s \ {m + 1}] = g[s \ {m + 1}]
        BY <4>2
      <4>4. h[s] = Insert(g[s \ {m + 1}], file[m + 1])
        BY <3>1
      <4> HIDE DEF h
      <4> QED
        BY ONLY <3>1, <4>1, <4>3, <4>4 DEF Reload
    <3>2. CASE m + 1 \notin s
      <4>1. s \in SUBSET (1 .. m)
        <5>1. \A x \in s : x \in 1 .. m + 1 /\ x # m + 1
          BY <3>2
        <5>2. \A x \in s : x \in 1 .. m
          BY <5>1
        <5> QED
          BY <5>2
      <4>2. h[s] = g[s] /\ g[s] = Reload(g, s, file)
        BY <2>1, <3>2, <4>1
      <4>3. s \ {Max(s)} \in SUBSET (1 .. m + 1) /\ m + 1 \notin s \ {Max(s)}
        BY <3>2
      <4>4. h[s \ {Max(s)}] = g[s \ {Max(s)}]
        BY <4>3
      <4> HIDE DEF h
      <4> QED
        BY ONLY <4>2, <4>4 DEF Reload
    <3> QED
      BY <3>1, <3>2
  <2>3. h = [s \in SUBSET (1 .. m + 1) |-> h[s]]
    OBVIOUS
  <2> HIDE DEF h
  <2>4. h = [s \in SUBSET (1 .. m + 1) |-> Reload(h, s, file)]
    BY ONLY <2>2, <2>3, Zenon
  <2> QED
    BY <2>4 DEF IsReload
<1> HIDE DEF Has
<1>3. bad = {}
  <2> SUFFICES ASSUME bad # {} PROVE FALSE
    OBVIOUS
  <2>1. PICK m \in bad : \A k \in bad : m <= k
    BY LeastElement
  <2>2. m # 0 /\ m \in Nat /\ ~ Has(m)
    BY <1>1
  <2>3. m - 1 \in Nat /\ ~ (m <= m - 1) /\ m - 1 + 1 = m
    BY <2>2
  <2>4. Has(m - 1)
    BY <2>1, <2>3
  <2> QED
    BY <1>2, <2>2, <2>3, <2>4
<1> QED
  BY <1>3 DEF Has

\* A line of an ascending file goes behind those before it.
LEMMA InsertLast ==
  ASSUME NEW K, NEW rank \in Rankings(K), Ascending(rank), NEW n \in 0 .. Len(rank) - 1
  PROVE  Insert(SubSeq(rank, 1, n), rank[n + 1]) = SubSeq(rank, 1, n + 1)
<1> DEFINE E == [freq : Nat, key : K]
           front == SubSeq(rank, 1, n)
           e == rank[n + 1]
           more == SubSeq(rank, 1, n + 1)
           p == UpperBound(front, e.freq)
<1>1. /\ Len(rank) \in Nat /\ DOMAIN rank = 1 .. Len(rank)
      /\ \A i \in 1 .. Len(rank) : rank[i] \in E /\ rank[i].freq \in Nat
      /\ rank \in Seq(E)
  BY RankingTyping DEF Rankings
<1>2. n \in Nat /\ n + 1 \in 1 .. Len(rank)
  BY <1>1
<1> HIDE DEF E
<1>3. /\ front \in Seq(E) /\ Len(front) = n /\ \A i \in 1 .. n : front[i] = rank[i]
      /\ more \in Seq(E) /\ Len(more) = n + 1 /\ \A i \in 1 .. n + 1 : more[i] = rank[i]
  BY <1>1, <1>2
<1>4. e \in E /\ e.freq \in Nat
  BY <1>1, <1>2
<1>5. \A i \in 1 .. n : front[i].freq <= e.freq
  <2> SUFFICES ASSUME NEW i \in 1 .. n PROVE rank[i].freq <= rank[n + 1].freq
    BY <1>3
  <2>1. i \in 1 .. Len(rank) /\ i < n + 1
    BY <1>1, <1>2
  <2> QED
    BY <1>1, <1>2, <2>1 DEF Ascending
<1>6. Ascending(front)
  <2>1. DOMAIN front = 1 .. n
    BY <1>3
  <2>2. ASSUME NEW i \in 1 .. n, NEW j \in 1 .. n, i < j
        PROVE  front[i].freq <= front[j].freq
    <3>1. i \in DOMAIN rank /\ j \in DOMAIN rank /\ front[i] = rank[i] /\ front[j] = rank[j]
      BY <1>1, <1>2, <1>3
    <3> QED
      BY <2>2, <3>1 DEF Ascending
  <2> QED
    BY ONLY <2>1, <2>2 DEF Ascending
<1> HIDE DEF front, e, more
<1>7. /\ p \in 1 .. n + 1 /\ \A j \in p .. n : e.freq < front[j].freq
  BY <1>3, <1>4, <1>6, UpperBoundProperties DEF Rankings, E
<1>8. p = n + 1
  <2> SUFFICES ASSUME p # n + 1 PROVE FALSE
    OBVIOUS
  <2> HIDE DEF p
  <2>1. p \in 1 .. n /\ p \in p .. n
    BY <1>2, <1>7
  <2>2. front[p].freq <= e.freq /\ e.freq < front[p].freq
    BY <1>5, <1>7, <2>1
  <2>3. front[p].freq \in Nat
    <3>1. p \in 1 .. Len(rank) /\ front[p] = rank[p]
      BY <1>1, <1>2, <1>3, <2>1
    <3> QED
      BY <1>1, <3>1
  <2> QED
    BY <1>4, <2>2, <2>3
<1>9. /\ InsertAt(front, n + 1, e) \in Seq(E) /\ Len(InsertAt(front, n + 1, e)) = n + 1
      /\ \A i \in 1 .. n + 1 : InsertAt(front, n + 1, e)[i] =
           IF i < n + 1 THEN front[i] ELSE IF i = n + 1 THEN e ELSE front[i - 1]
  <2>1. n + 1 \in 1 .. Len(front) + 1
    BY <1>2, <1>3
  <2>2. front \in Seq(E) /\ Len(front) = n /\ e \in E
    BY <1>3, <1>4
  <2> QED
    BY ONLY <2>1, <2>2, InsertAtProperties
<1>10. Insert(front, e) = InsertAt(front, n + 1, e)
  BY <1>8 DEF Insert, p
<1>11. \A i \in 1 .. n + 1 : InsertAt(front, n + 1, e)[i] = more[i]
  <2> SUFFICES ASSUME NEW i \in 1 .. n + 1 PROVE InsertAt(front, n + 1, e)[i] = more[i]
    OBVIOUS
  <2>1. CASE i < n + 1
    BY <1>2, <1>3, <1>9, <2>1
  <2>2. CASE i = n + 1
    BY <1>3, <1>9, <2>2 DEF e
  <2>3. i < n + 1 \/ i = n + 1
    BY <1>2
  <2> QED
    BY ONLY <2>1, <2>2, <2>3
<1>12. InsertAt(front, n + 1, e) = more
  BY <1>3, <1>9, <1>11, SeqEqual
<1> QED
  BY <1>10, <1>12 DEF front, e, more

\* Inserting the lines of an ascending ranking one by one gives it back.
LEMMA FoldReloads ==
  ASSUME NEW K, NEW rank \in Rankings(K), Ascending(rank)
  PROVE  FoldLeft(Insert, <<>>, rank) = rank
<1> DEFINE n == Len(rank)
           g == CHOOSE f : IsReload(f, n, rank)
           bad == {m \in Nat : m <= n /\ g[1 .. m] # SubSeq(rank, 1, m)}
<1>1. n \in Nat /\ DOMAIN rank = 1 .. n
  BY RankingTyping
<1>2. FoldLeft(Insert, <<>>, rank) = g[1 .. n]
  BY <1>1 DEF FoldLeft, MapThenFoldSet, IsReload, Reload
<1>3. g = [s \in SUBSET (1 .. n) |-> Reload(g, s, rank)]
  <2>1. IsReload(g, n, rank)
    BY <1>1, ReloadExists
  <2> QED
    BY ONLY <2>1 DEF IsReload
<1> HIDE DEF n, g
<1>4. g[1 .. 0] = SubSeq(rank, 1, 0)
  <2>1. 1 .. 0 = {} /\ {} \in SUBSET (1 .. n) /\ SubSeq(rank, 1, 0) = <<>>
    BY DEF Rankings
  <2> QED
    BY <1>3, <2>1 DEF Reload
<1>5. ASSUME NEW m \in Nat, m + 1 <= n, g[1 .. m] = SubSeq(rank, 1, m)
      PROVE  g[1 .. m + 1] = SubSeq(rank, 1, m + 1)
  <2>1. 1 .. m + 1 \in SUBSET (1 .. n) /\ m + 1 \in 1 .. m + 1
    BY <1>1, <1>5
  <2>2. Max(1 .. m + 1) = m + 1
    <3>1. 1 .. m + 1 \in SUBSET Int /\ \A x \in 1 .. m + 1 : x <= m + 1
      OBVIOUS
    <3> QED
      BY <2>1, <3>1, GreatestOf
  <2>3. (1 .. m + 1) \ {m + 1} = 1 .. m
    OBVIOUS
  <2>4. g[1 .. m + 1] = Reload(g, 1 .. m + 1, rank)
    BY <1>3, <2>1
  <2>5. Reload(g, 1 .. m + 1, rank) = Insert(g[1 .. m], rank[m + 1])
    <3>1. 1 .. m + 1 # {}
      BY <2>1
    <3> QED
      BY ONLY <2>2, <2>3, <3>1 DEF Reload
  <2>6. Insert(SubSeq(rank, 1, m), rank[m + 1]) = SubSeq(rank, 1, m + 1)
    <3>1. m \in 0 .. n - 1
      BY <1>1, <1>5
    <3> QED
      BY <3>1, InsertLast DEF n
  <2> QED
    BY ONLY <1>5, <2>4, <2>5, <2>6
<1>6. bad = {}
  <2> SUFFICES ASSUME bad # {} PROVE FALSE
    OBVIOUS
  <2>1. PICK m \in bad : \A k \in bad : m <= k
    BY LeastElement
  <2>2. m \in Nat /\ m <= n /\ g[1 .. m] # SubSeq(rank, 1, m) /\ m # 0
    BY <1>4
  <2>3. m - 1 \in Nat /\ ~ (m <= m - 1) /\ m - 1 + 1 = m /\ m - 1 <= n
    BY <1>1, <2>2
  <2>4. g[1 .. m - 1] = SubSeq(rank, 1, m - 1)
    BY <2>1, <2>3
  <2> QED
    BY <1>5, <2>2, <2>3, <2>4
<1>7. g[1 .. n] = SubSeq(rank, 1, n)
  BY <1>1, <1>6
<1>8. SubSeq(rank, 1, n) = rank
  BY DEF n, Rankings
<1> QED
  BY <1>2, <1>7, <1>8
============================================================================
