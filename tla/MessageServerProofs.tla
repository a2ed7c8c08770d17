------------------------ MODULE MessageServerProofs ------------------------
(***************************************************************************)
(* Theorems about MessageServer for texts of any words and numbers.  A key *)
(* never has a comma, being what stands before the first one, so that the  *)
(* first comma of its line in keys.csv ends the key and the second one its *)
(* count; the commas of the url, which may be any text, come later.  The   *)
(* report size in force is that of the last request whose message has been *)
(* applied: the messages still queued carry the later ones.                *)
(***************************************************************************)
EXTENDS MessageServer, SequenceTheorems, WellFoundedInduction, TLAPS

USE TokensAssumption, LimitsAssumption

\* What a line of keys.csv is made of: counts and ports are any numbers.
Field == Token \cup Nat

LineOf(k, f, u, p) == k \o <<Comma, f, Comma>> \o u \o <<Comma, p>>

Message ==
  [cmd : {"addKey", "setRankingLength"}, str1 : Seq(Token), str2 : Seq(Token),
   short : Nat, number : Nat]

\* Keys have no comma, wherever they are.
KeysArePlain ==
  /\ \A i \in DOMAIN inbox : Commas(inbox[i].str1) = {}
  /\ \A k \in DOMAIN keys : k \in Seq(Token) /\ Commas(k) = {}

IsLine(l) ==
  \E k, u \in Seq(Token) : \E f, p \in Nat : Commas(k) = {} /\ l = LineOf(k, f, u, p)

FileOfLines == \A l \in keyFile : IsLine(l)

SizeOf(n) == IF n = 0 THEN ReportSize ELSE Clamp(n % 65536)

NamesSize(m) == m.cmd = "setRankingLength"

\* The last queued size is the one last named; if none is queued it is in force.
SizesInOrder ==
  /\ told \in Nat
  /\ (\A i \in DOMAIN inbox : ~NamesSize(inbox[i])) => base = SizeOf(told)
  /\ \A i \in DOMAIN inbox :
       NamesSize(inbox[i]) /\ (\A j \in DOMAIN inbox : j > i => ~NamesSize(inbox[j])) =>
         told # 0 /\ inbox[i].short = told % 65536

ServerInv == TypeOK /\ inbox \in Seq(Message) /\ KeysArePlain /\ FileOfLines /\ SizesInOrder
---------------------------------------------------------------------------
(* Texts.                                                                  *)

LEMMA LeastOf ==
  ASSUME NEW S \in SUBSET Int, NEW m \in S, \A x \in S : m <= x
  PROVE  Min(S) = m
<1>1. m \in S /\ \A x \in S : m <= x
  OBVIOUS
<1>2. \A y \in S : (\A x \in S : y <= x) => y = m
  BY <1>1
<1> QED
  BY <1>1, <1>2 DEF Min

\* Clamp never exceeds M.
LEMMA ClampIsBounded == \A n \in Nat : Clamp(n) \in 0 .. MaxReportSize
<1> TAKE n \in Nat
<1>1. CASE n <= MaxReportSize
  <2>1. Min({n, MaxReportSize}) = n
    BY <1>1, LeastOf
  <2> QED
    BY <1>1, <2>1 DEF Clamp
<1>2. CASE n > MaxReportSize
  <2>1. Min({n, MaxReportSize}) = MaxReportSize
    BY <1>2, LeastOf
  <2> QED
    BY <2>1 DEF Clamp
<1> QED
  BY <1>1, <1>2

\* A non-empty set of naturals has a least element.
LEMMA LeastElement ==
  ASSUME NEW S \in SUBSET Nat, S # {}
  PROVE  \E m \in S : \A x \in S : m <= x
<1>1. IsWellFoundedOn(OpToRel(<, Nat), Nat)
  BY NatLessThanWellFounded
<1>2. \E m \in S : \A x \in S : ~ (<<x, m>> \in OpToRel(<, Nat))
  BY <1>1, WFMin
<1>3. \A m, x \in Nat : <<x, m>> \in OpToRel(<, Nat) <=> x < m
  BY DEF OpToRel
<1>4. \E m \in S : \A x \in S : ~ (x < m)
  BY <1>2, <1>3, Zenon
<1> QED
  BY <1>4, SMT

\* The first comma of a text that has one.
LEMMA FirstComma ==
  ASSUME NEW S, NEW text \in Seq(S), Commas(text) # {}
  PROVE  /\ Find(text) \in 1 .. Len(text) /\ text[Find(text)] = Comma
         /\ \A i \in 1 .. Find(text) - 1 : text[i] # Comma
<1>1. /\ Commas(text) \in SUBSET Nat /\ Commas(text) \in SUBSET Int
      /\ DOMAIN text = 1 .. Len(text) /\ Len(text) \in Nat
  BY DEF Commas
<1>2. PICK m \in Commas(text) : \A x \in Commas(text) : m <= x
  BY <1>1, LeastElement
<1>3. Min(Commas(text)) = m
  BY <1>1, <1>2, LeastOf
<1>4. Find(text) = m
  BY <1>2, <1>3 DEF Find
<1>5. m \in 1 .. Len(text) /\ text[m] = Comma
  BY <1>1, <1>2 DEF Commas
<1>6. ASSUME NEW i \in 1 .. m - 1 PROVE text[i] # Comma
  <2>1. i \in 1 .. Len(text) /\ ~ (m <= i)
    BY <1>1, <1>5
  <2> QED
    BY <1>1, <1>2, <2>1 DEF Commas
<1> QED
  BY <1>4, <1>5, <1>6

\* What stands before the first comma has none; what follows it is a text too.
LEMMA BeforeAndAfter ==
  ASSUME NEW S, NEW text \in Seq(S)
  PROVE  Before(text) \in Seq(S) /\ After(text) \in Seq(S) /\ Commas(Before(text)) = {}
<1>1. Len(text) \in Nat /\ DOMAIN text = 1 .. Len(text)
  OBVIOUS
<1>2. CASE Commas(text) = {}
  <2>1. Before(text) = text /\ After(text) = <<>>
    BY <1>2 DEF Before, After, Find
  <2> QED
    BY <1>2, <2>1, EmptySeq
<1>3. CASE Commas(text) # {}
  <2> DEFINE c == Find(text)
  <2>1. c \in 1 .. Len(text) /\ \A i \in 1 .. c - 1 : text[i] # Comma
    BY <1>3, FirstComma
  <2>2. Before(text) = SubSeq(text, 1, c - 1) /\ After(text) = SubSeq(text, c + 1, Len(text))
    <3>1. Find(text) # 0
      BY ONLY <1>1, <2>1
    <3> QED
      BY ONLY <3>1 DEF Before, After
  <2> HIDE DEF c
  <2>3. /\ SubSeq(text, 1, c - 1) \in Seq(S) /\ Len(SubSeq(text, 1, c - 1)) = c - 1
        /\ \A i \in 1 .. c - 1 : SubSeq(text, 1, c - 1)[i] = text[i]
        /\ SubSeq(text, c + 1, Len(text)) \in Seq(S)
    BY <1>1, <2>1
  <2>4. Commas(SubSeq(text, 1, c - 1)) = {}
    BY <2>1, <2>3 DEF Commas
  <2> QED
    BY <2>2, <2>3, <2>4
<1> QED
  BY <1>2, <1>3

SplitsInto(text, a, b) == Before(text) = a /\ After(text) = b

\* A text that a comma ends is what stands before the first comma of a longer one.
LEMMA SplitAtComma ==
  ASSUME NEW S, Comma \in S, NEW a \in Seq(S), Commas(a) = {}, NEW b \in Seq(S)
  PROVE  SplitsInto((a \o <<Comma>>) \o b, a, b)
<1> DEFINE text == (a \o <<Comma>>) \o b
           n == Len(a)
           m == Len(b)
           ac == a \o <<Comma>>
<1>1. n \in Nat /\ m \in Nat /\ DOMAIN a = 1 .. n
  OBVIOUS
<1>2. /\ ac \in Seq(S) /\ Len(ac) = n + 1 /\ ac[n + 1] = Comma
      /\ \A i \in 1 .. n : ac[i] = a[i]
  OBVIOUS
<1>3. text = ac \o b
  OBVIOUS
<1> HIDE DEF ac, text
<1>4. /\ text \in Seq(S) /\ Len(text) = n + 1 + m
      /\ \A i \in 1 .. n + 1 : text[i] = ac[i]
      /\ \A i \in 1 .. m : text[n + 1 + i] = b[i]
  <2>1. Len(text) = n + 1 + m /\ text \in Seq(S)
    <3>1. ac \o b \in Seq(S) /\ Len(ac \o b) = Len(ac) + Len(b)
      BY ONLY <1>2, b \in Seq(S)
    <3> QED
      BY ONLY <1>2, <1>3, <3>1
  <2>2. \A i \in 1 .. n + 1 : text[i] = ac[i]
    BY <1>2, <1>3
  <2>3. \A i \in 1 .. m : text[n + 1 + i] = b[i]
    BY ONLY <1>1, <1>2, <1>3, b \in Seq(S)
  <2> QED
    BY ONLY <2>1, <2>2, <2>3
<1> HIDE DEF n, m
<1>5. n + 1 \in Commas(text)
  BY <1>1, <1>2, <1>4 DEF Commas
<1>6. ASSUME NEW x \in Commas(text) PROVE n + 1 <= x
  <2>1. x \in 1 .. n + 1 + m /\ text[x] = Comma
    BY <1>4 DEF Commas
  <2>2. ASSUME x <= n PROVE FALSE
    <3>1. x \in 1 .. n /\ a[x] = Comma
      BY <1>1, <1>2, <1>4, <2>1, <2>2
    <3> QED
      BY <1>1, <3>1 DEF Commas
  <2> QED
    BY <1>1, <2>1, <2>2
<1>7. Find(text) = n + 1
  <2>1. Commas(text) \in SUBSET Int
    BY <1>4 DEF Commas
  <2>2. Min(Commas(text)) = n + 1
    BY <1>5, <1>6, <2>1, LeastOf
  <2> QED
    BY <1>5, <2>2 DEF Find
<1>8. Before(text) = SubSeq(text, 1, n) /\ After(text) = SubSeq(text, n + 2, n + 1 + m)
  <2>1. n + 1 # 0 /\ n + 1 - 1 = n /\ n + 1 + 1 = n + 2
    BY <1>1
  <2>2. Find(text) # 0 /\ Find(text) - 1 = n /\ Find(text) + 1 = n + 2
    BY ONLY <1>1, <1>7
  <2>3. Len(text) = n + 1 + m
    BY <1>4
  <2> QED
    BY ONLY <2>2, <2>3 DEF Before, After
<1>9. SubSeq(text, 1, n) = a
  <2>1. /\ SubSeq(text, 1, n) \in Seq(S) /\ Len(SubSeq(text, 1, n)) = n
        /\ \A i \in 1 .. n : SubSeq(text, 1, n)[i] = text[i]
    BY <1>1, <1>4
  <2>2. \A i \in 1 .. n : SubSeq(text, 1, n)[i] = a[i]
    BY <1>1, <1>2, <1>4, <2>1
  <2> QED
    BY <2>1, <2>2, SeqEqual DEF n
<1>10. SubSeq(text, n + 2, n + 1 + m) = b
  <2> DEFINE sub == SubSeq(text, n + 2, n + 1 + m)
  <2>1. /\ sub \in Seq(S) /\ Len(sub) = m
        /\ \A i \in 1 .. m : sub[i] = text[n + 1 + i]
    BY <1>1, <1>4
  <2>2. \A i \in 1 .. m : sub[i] = b[i]
    BY <1>4, <2>1
  <2> HIDE DEF sub
  <2>3. sub = b
    BY <2>1, <2>2, SeqEqual DEF m
  <2> QED
    BY <2>3 DEF sub
<1> QED
  BY ONLY <1>8, <1>9, <1>10 DEF text, SplitsInto

\* A text with a comma is what stands before the first one, and what follows it.
LEMMA Rejoin ==
  ASSUME NEW S, NEW text \in Seq(S), Commas(text) # {}
  PROVE  text = Before(text) \o <<Comma>> \o After(text)
<1> DEFINE c == Find(text)
           n == Len(text)
           b == SubSeq(text, 1, c - 1)
           a == SubSeq(text, c + 1, n)
           bc == b \o <<Comma>>
<1>1. c \in 1 .. n /\ n \in Nat /\ text[c] = Comma
  BY FirstComma
<1>2. Before(text) = b /\ After(text) = a
  <2>1. Find(text) # 0
    BY <1>1
  <2> QED
    BY ONLY <2>1 DEF Before, After
<1> HIDE DEF c, n
<1>3. /\ b \in Seq(S) /\ Len(b) = c - 1 /\ \A i \in 1 .. c - 1 : b[i] = text[i]
      /\ a \in Seq(S) /\ Len(a) = n - c /\ \A i \in 1 .. n - c : a[i] = text[c + i]
  BY <1>1 DEF n
<1> HIDE DEF a, b
<1>4. Comma \in S
  BY <1>1 DEF n
<1>5. /\ bc \in Seq(S) /\ Len(bc) = c /\ bc[c] = Comma
      /\ \A i \in 1 .. c - 1 : bc[i] = text[i]
  <2>1. b \in Seq(S) /\ Len(b) = c - 1 /\ c \in Nat
    BY <1>1, <1>3
  <2>2. /\ bc \in Seq(S) /\ Len(bc) = c /\ bc[c] = Comma
        /\ \A i \in 1 .. c - 1 : bc[i] = b[i]
    BY ONLY <1>4, <2>1
  <2> QED
    BY <1>3, <2>2
<1> HIDE DEF bc
<1>6. /\ bc \o a \in Seq(S) /\ Len(bc \o a) = n
      /\ \A i \in 1 .. c : (bc \o a)[i] = bc[i]
      /\ \A i \in 1 .. n - c : (bc \o a)[c + i] = a[i]
  <2>1. bc \in Seq(S) /\ Len(bc) = c /\ a \in Seq(S) /\ Len(a) = n - c /\ c \in Nat /\ n \in Nat
    BY <1>1, <1>3, <1>5
  <2> QED
    BY ONLY <2>1
<1>7. ASSUME NEW i \in 1 .. n PROVE (bc \o a)[i] = text[i]
  <2>1. CASE i <= c
    BY <1>1, <1>5, <1>6, <2>1
  <2>2. CASE i > c
    <3>1. i - c \in 1 .. n - c /\ c + (i - c) = i
      BY <1>1, <2>2
    <3>2. (bc \o a)[c + (i - c)] = a[i - c] /\ a[i - c] = text[c + (i - c)]
      BY <1>3, <1>6, <3>1
    <3> QED
      BY <3>1, <3>2
  <2>3. i <= c \/ i > c
    BY <1>1
  <2> QED
    BY ONLY <2>1, <2>2, <2>3
<1>8. bc \o a = text
  BY <1>6, <1>7, SeqEqual DEF n
<1> QED
  BY <1>2, <1>8 DEF bc

LEMMA Concat ==
  ASSUME NEW S, NEW a \in Seq(S), NEW b \in Seq(S)
  PROVE  a \o b \in Seq(S)
OBVIOUS

Regrouped(a, b, c, d, e) ==
  ((a \o (b \o c)) \o d) \o e = (a \o b) \o (c \o (d \o e))

Associates(x, y, z) == (x \o y) \o z = x \o (y \o z)

\* Concatenation is associative.
LEMMA Associativity == ASSUME NEW S PROVE \A x, y, z \in Seq(S) : Associates(x, y, z)
<1> SUFFICES ASSUME NEW x \in Seq(S), NEW y \in Seq(S), NEW z \in Seq(S)
             PROVE  (x \o y) \o z = x \o (y \o z)
  BY DEF Associates
<1> QED
  BY ONLY ConcatAssociative, x \in Seq(S), y \in Seq(S), z \in Seq(S)

LEMMA Regroup == ASSUME NEW S PROVE \A a, b, c, d, e \in Seq(S) : Regrouped(a, b, c, d, e)
<1> DEFINE T == Seq(S)
           Cat(x, y) == x \o y
<1>1. ASSUME NEW x \in Seq(S), NEW y \in Seq(S)
      PROVE  x \o y \in Seq(S)
  OBVIOUS
<1>2. \A x, y, z \in Seq(S) : (x \o y) \o z = x \o (y \o z)
  BY Associativity DEF Associates
<1>3. \A x, y \in T : Cat(x, y) \in T
  BY ONLY <1>1
<1>4. \A x, y, z \in T : Cat(Cat(x, y), z) = Cat(x, Cat(y, z))
  BY ONLY <1>2
<1> HIDE DEF T, Cat
<1>5. \A a, b, c, d, e \in T :
        Cat(Cat(Cat(a, Cat(b, c)), d), e) = Cat(Cat(a, b), Cat(c, Cat(d, e)))
  BY ONLY <1>3, <1>4, SMT
<1> QED
  BY ONLY <1>5 DEF Cat, T, Regrouped

\* A line of keys.csv gives back the key and its count, and all of it if the url
\* has no comma; what it gives as the url is a text in any case.
LEMMA LineReads ==
  ASSUME NEW k \in Seq(Token), Commas(k) = {}, NEW u \in Seq(Token), NEW f \in Nat, NEW p \in Nat
  PROVE  LET r == Read(LineOf(k, f, u, p))
         IN  /\ r.key = k /\ r.frequency = <<f>>
             /\ r.url \in Seq(Token) /\ r.port \in Seq(Field)
             /\ r.throws = (~IsNumber(r.frequency) \/ ~IsNumber(r.port))
             /\ Commas(u) = {} => r.url = u /\ r.port = <<p>>
<1> DEFINE l == LineOf(k, f, u, p)
           end == <<Comma>> \o <<p>>
           rest == u \o end
           tail == <<f>> \o <<Comma>> \o rest
<1>1. /\ Comma \in Field /\ f \in Field /\ p \in Field /\ f # Comma /\ p # Comma
      /\ k \in Seq(Field) /\ u \in Seq(Field)
  BY DEF Field, Token
<1>2. /\ <<f>> \in Seq(Field) /\ <<Comma>> \in Seq(Field) /\ <<p>> \in Seq(Field)
      /\ <<Comma, p>> = end /\ <<Comma, f, Comma>> = <<Comma>> \o (<<f>> \o <<Comma>>)
  BY <1>1
<1>3. /\ <<f>> \o <<Comma>> \in Seq(Field) /\ end \in Seq(Field)
      /\ rest \in Seq(Field) /\ tail \in Seq(Field)
  <2>1. <<f>> \o <<Comma>> \in Seq(Field) /\ end \in Seq(Field)
    BY <1>2
  <2> HIDE DEF end
  <2>2. rest \in Seq(Field)
    BY <1>1, <2>1
  <2> HIDE DEF rest
  <2>3. tail \in Seq(Field)
    BY <2>1, <2>2, Concat
  <2> QED
    BY <2>1, <2>2, <2>3
<1>4. l = k \o <<Comma>> \o tail
  <2>1. l = ((k \o (<<Comma>> \o (<<f>> \o <<Comma>>))) \o u) \o end
    BY ONLY <1>2 DEF LineOf
  <2> HIDE DEF l, end
  <2>2. /\ k \in Seq(Field) /\ <<Comma>> \in Seq(Field) /\ <<f>> \o <<Comma>> \in Seq(Field)
        /\ u \in Seq(Field) /\ end \in Seq(Field)
    BY <1>1, <1>2, <1>3
  <2>3. ((k \o (<<Comma>> \o (<<f>> \o <<Comma>>))) \o u) \o end =
        (k \o <<Comma>>) \o ((<<f>> \o <<Comma>>) \o (u \o end))
    <3>1. Regrouped(k, <<Comma>>, <<f>> \o <<Comma>>, u, end)
      BY ONLY <2>2, Regroup, Zenon
    <3> QED
      BY ONLY <3>1 DEF Regrouped
  <2> QED
    BY ONLY <2>1, <2>3 DEF tail, rest
<1>5. Commas(<<f>>) = {}
  BY <1>1 DEF Commas
<1>6. rest = u \o <<Comma>> \o <<p>>
  BY <1>1, <1>2, ConcatAssociative
<1>7. tail = <<f>> \o <<Comma>> \o rest
  OBVIOUS
<1>8. Commas(u) # {} => rest = Before(u) \o <<Comma>> \o (After(u) \o end)
  <2> SUFFICES ASSUME Commas(u) # {}
               PROVE  rest = Before(u) \o <<Comma>> \o (After(u) \o end)
    OBVIOUS
  <2> DEFINE bc == Before(u) \o <<Comma>>
  <2>1. u = bc \o After(u)
    BY Rejoin
  <2>2. Before(u) \in Seq(Field) /\ After(u) \in Seq(Field)
    BY <1>1, BeforeAndAfter
  <2>3. bc \in Seq(Field)
    BY <1>2, <2>2, Concat
  <2> HIDE DEF bc, end
  <2>4. (bc \o After(u)) \o end = bc \o (After(u) \o end)
    <3>1. Associates(bc, After(u), end)
      BY ONLY <1>3, <2>2, <2>3, Associativity
    <3> QED
      BY ONLY <3>1 DEF Associates
  <2> QED
    BY ONLY <2>1, <2>4 DEF bc
<1> HIDE DEF l, rest, tail, end
<1>9. Before(l) = k /\ After(l) = tail
  <2>1. SplitsInto((k \o <<Comma>>) \o tail, k, tail)
    BY ONLY <1>1, <1>3, SplitAtComma, Commas(k) = {}
  <2> QED
    BY ONLY <1>4, <2>1 DEF SplitsInto
<1>10. Before(tail) = <<f>> /\ After(tail) = rest
  <2>1. SplitsInto((<<f>> \o <<Comma>>) \o rest, <<f>>, rest)
    BY ONLY <1>1, <1>2, <1>3, <1>5, SplitAtComma
  <2> QED
    BY ONLY <1>7, <2>1 DEF SplitsInto
<1>11. Commas(u) = {} => Before(rest) = u /\ After(rest) = <<p>>
  <2>1. Commas(u) = {} => SplitsInto((u \o <<Comma>>) \o <<p>>, u, <<p>>)
    BY ONLY <1>1, <1>2, SplitAtComma
  <2> QED
    BY ONLY <1>6, <2>1 DEF SplitsInto
<1>12. Before(rest) \in Seq(Token) /\ After(rest) \in Seq(Field)
  <2>1. After(rest) \in Seq(Field)
    BY <1>3, BeforeAndAfter
  <2>2. Before(u) \in Seq(Token) /\ Before(u) \in Seq(Field) /\ Commas(Before(u)) = {}
        /\ After(u) \in Seq(Field)
    BY <1>1, BeforeAndAfter
  <2>3. CASE Commas(u) # {}
    <3>1. After(u) \o end \in Seq(Field)
      BY <1>3, <2>2, Concat
    <3>2. Before(rest) = Before(u)
      <4>1. SplitsInto((Before(u) \o <<Comma>>) \o (After(u) \o end), Before(u), After(u) \o end)
        BY ONLY <1>1, <2>2, <3>1, SplitAtComma
      <4> QED
        BY ONLY <1>8, <2>3, <4>1 DEF SplitsInto
    <3> QED
      BY <2>1, <2>2, <3>2
  <2> QED
    BY <1>11, <2>1, <2>3
<1> QED
  BY <1>9, <1>10, <1>11, <1>12 DEF Read, l

ReadsBack(k, f, u, p) ==
  LET r == Read(LineOf(k, f, u, p))
  IN  /\ r.key = k /\ r.frequency = <<f>>
      /\ Commas(u) = {} => ~r.throws /\ r.url = u /\ r.port = <<p>>

LEMMA LineReadsBack ==
  ASSUME NEW k \in Seq(Token), Commas(k) = {}, NEW u \in Seq(Token), NEW f \in Nat, NEW p \in Nat
  PROVE  ReadsBack(k, f, u, p)
<1> DEFINE r == Read(LineOf(k, f, u, p))
<1>1. /\ r.key = k /\ r.frequency = <<f>>
      /\ r.throws = (~IsNumber(r.frequency) \/ ~IsNumber(r.port))
      /\ Commas(u) = {} => r.url = u /\ r.port = <<p>>
  BY LineReads
<1>2. ReadsBack(k, f, u, p) =
        (/\ r.key = k /\ r.frequency = <<f>>
         /\ Commas(u) = {} => ~r.throws /\ r.url = u /\ r.port = <<p>>)
  BY DEF ReadsBack
<1> HIDE DEF r
<1>3. \A n \in Nat : IsNumber(<<n>>)
  BY DEF IsNumber
<1> QED
  BY <1>1, <1>2, <1>3

\* What a restore takes of a line is typed: a line it does not throw on has a
\* count and a port.
LEMMA RestoredDetails ==
  ASSUME NEW k \in Seq(Token), Commas(k) = {}, NEW u \in Seq(Token), NEW f \in Nat, NEW p \in Nat,
         ~ Read(LineOf(k, f, u, p)).throws
  PROVE  LET r == Read(LineOf(k, f, u, p))
         IN  /\ r.key \in Seq(Token) /\ Commas(r.key) = {} /\ r.url \in Seq(Token)
             /\ Stoi(r.frequency) \in Nat /\ Stoi(r.port) \in Nat
<1> DEFINE r == Read(LineOf(k, f, u, p))
<1>1. /\ r.key = k /\ r.frequency = <<f>> /\ r.url \in Seq(Token) /\ r.port \in Seq(Field)
      /\ r.throws = (~IsNumber(r.frequency) \/ ~IsNumber(r.port))
  BY LineReads
<1>2. ~ r.throws
  OBVIOUS
<1> HIDE DEF r
<1>3. Stoi(r.frequency) \in Nat
  BY <1>1 DEF Stoi
<1>4. IsNumber(r.port)
  BY <1>1, <1>2
<1>5. ASSUME NEW port \in Seq(Field), IsNumber(port) PROVE Stoi(port) \in Nat
  <2>1. port[1] \in Field
    BY <1>5 DEF IsNumber
  <2> QED
    BY <1>5, <2>1 DEF IsNumber, Stoi, Field, Token
<1> QED
  BY <1>1, <1>3, <1>4, <1>5 DEF r

\* What keySent makes of a payload is a message, whose key has no comma.
LEMMA KeyMessage ==
  ASSUME NEW data \in Payloads
  PROVE  LET m == AddKeyMessage(Split(data))
         IN  m \in Message /\ Commas(m.str1) = {} /\ m.cmd = "addKey"
<1> DEFINE parts == Split(data)
<1>1. data \in Seq(Token)
  BY DEF Payloads, BoundedSeq, SeqOf
<1>2. /\ Before(data) \in Seq(Token) /\ After(data) \in Seq(Token)
      /\ Commas(Before(data)) = {}
  BY <1>1, BeforeAndAfter
<1>3. IsNumber(After(data)) => Stoi(After(data)) \in Nat
  <2>1. ASSUME NEW text \in Seq(Token), IsNumber(text) PROVE Stoi(text) \in Nat
    <3>1. text[1] \in Token
      BY <2>1 DEF IsNumber
    <3> QED
      BY <2>1, <3>1 DEF IsNumber, Stoi, Token
  <2> QED
    BY ONLY <1>2, <2>1
<1>4. /\ parts.key = Before(data) /\ parts.url = After(data) /\ parts.port \in Nat
  BY <1>3 DEF Split
<1> HIDE DEF parts
<1>5. parts.port % 65536 \in Nat
  BY <1>4
<1> QED
  BY <1>2, <1>4, <1>5 DEF AddKeyMessage, Message, parts

LEMMA SizeMessage ==
  ASSUME NEW num \in Nat
  PROVE  LET m == SetRankingLengthMessage(num)
         IN  m \in Message /\ Commas(m.str1) = {} /\ m.cmd = "setRankingLength"
             /\ m.short = num % 65536
<1>1. num % 65536 \in Nat /\ <<>> \in Seq(Token) /\ Commas(<<>>) = {}
  BY DEF Commas
<1> QED
  BY <1>1 DEF SetRankingLengthMessage, Message

\* Appending a message, and taking the first one.
LEMMA AppendAt ==
  ASSUME NEW S, NEW s \in Seq(S), NEW m \in S
  PROVE  /\ Append(s, m) \in Seq(S) /\ Len(s) \in Nat
         /\ DOMAIN s = 1 .. Len(s) /\ DOMAIN Append(s, m) = 1 .. Len(s) + 1
         /\ Append(s, m)[Len(s) + 1] = m /\ \A i \in 1 .. Len(s) : Append(s, m)[i] = s[i]
BY AppendProperties

LEMMA TailAt ==
  ASSUME NEW S, NEW s \in Seq(S), s # <<>>
  PROVE  /\ Head(s) \in S /\ Head(s) = s[1] /\ Len(s) \in Nat \ {0} /\ DOMAIN s = 1 .. Len(s)
         /\ Tail(s) \in Seq(S) /\ DOMAIN Tail(s) = 1 .. Len(s) - 1
         /\ \A i \in 1 .. Len(s) - 1 : Tail(s)[i] = s[i + 1]
OBVIOUS
---------------------------------------------------------------------------
(* The invariant.                                                          *)

LEMMA ServerInit == Init => ServerInv
<1> SUFFICES ASSUME Init PROVE ServerInv
  OBVIOUS
<1>1. inbox = <<>> /\ keys = <<>> /\ base = ReportSize /\ keyFile = {} /\ alive = TRUE /\ told = 0
  BY DEF Init
<1>2. TypeOK
  BY <1>1 DEF TypeOK
<1>3. inbox \in Seq(Message) /\ KeysArePlain /\ FileOfLines
  BY <1>1 DEF KeysArePlain, FileOfLines
<1>4. SizesInOrder
  BY <1>1 DEF SizesInOrder, SizeOf
<1> QED
  BY <1>2, <1>3, <1>4 DEF ServerInv

LEMMA KeySentKeeps ==
  ASSUME ServerInv, NEW data \in Payloads, KeySent(data)
  PROVE  ServerInv'
<1> DEFINE m == AddKeyMessage(Split(data))
           n == Len(inbox)
<1>1. m \in Message /\ Commas(m.str1) = {} /\ m.cmd = "addKey"
  BY KeyMessage
<1>2. inbox' = Append(inbox, m) /\ UNCHANGED <<keys, base, keyFile, alive, told>>
  BY DEF KeySent
<1>3. inbox \in Seq(Message)
  BY DEF ServerInv
<1> HIDE DEF m, n
<1>4. /\ inbox' \in Seq(Message) /\ n \in Nat
      /\ DOMAIN inbox = 1 .. n /\ DOMAIN inbox' = 1 .. n + 1
      /\ inbox'[n + 1] = m /\ \A i \in 1 .. n : inbox'[i] = inbox[i]
  BY <1>1, <1>2, <1>3, AppendAt DEF n
<1>5. TypeOK'
  BY <1>2 DEF ServerInv, TypeOK
<1>6. KeysArePlain'
  <2>1. ASSUME NEW i \in 1 .. n + 1 PROVE Commas(inbox'[i].str1) = {}
    <3>1. i = n + 1 \/ i \in 1 .. n
      BY <1>4
    <3> QED
      BY <1>1, <1>4, <3>1 DEF ServerInv, KeysArePlain
  <2> QED
    BY <1>2, <1>4, <2>1 DEF ServerInv, KeysArePlain
<1>7. FileOfLines'
  BY <1>2 DEF ServerInv, FileOfLines
<1>8. SizesInOrder'
  <2>1. ~ NamesSize(inbox'[n + 1]) /\ \A i \in 1 .. n : NamesSize(inbox'[i]) <=> NamesSize(inbox[i])
    BY <1>1, <1>4 DEF NamesSize
  <2>2. SizesInOrder
    BY DEF ServerInv
  <2>3. (\A i \in 1 .. n + 1 : ~ NamesSize(inbox'[i])) => base' = SizeOf(told')
    BY <1>2, <1>4, <2>1, <2>2 DEF SizesInOrder
  <2>4. ASSUME NEW i \in 1 .. n + 1, NamesSize(inbox'[i]), \A j \in 1 .. n + 1 : j > i => ~ NamesSize(inbox'[j])
        PROVE  told' # 0 /\ inbox'[i].short = told' % 65536
    <3>1. i \in 1 .. n /\ NamesSize(inbox[i])
      BY <1>4, <2>1, <2>4
    <3>2. \A j \in 1 .. n : j > i => ~ NamesSize(inbox[j])
      BY <1>4, <2>1, <2>4
    <3> QED
      BY <1>2, <1>4, <2>2, <3>1, <3>2 DEF SizesInOrder
  <2> QED
    BY <1>2, <1>4, <2>2, <2>3, <2>4 DEF SizesInOrder, SizeOf
<1> QED
  BY <1>4, <1>5, <1>6, <1>7, <1>8 DEF ServerInv

LEMMA SetTopHotKeysKeeps ==
  ASSUME ServerInv, NEW num \in Sizes, SetTopHotKeys(num)
  PROVE  ServerInv'
<1> DEFINE m == SetRankingLengthMessage(num)
           n == Len(inbox)
<1>1. UNCHANGED <<keys, base, keyFile, alive>>
  BY DEF SetTopHotKeys
<1>2. TypeOK'
  BY <1>1 DEF ServerInv, TypeOK
<1>3. FileOfLines'
  BY <1>1 DEF ServerInv, FileOfLines
<1>4. CASE num <= 0
  <2>1. UNCHANGED <<inbox, told>>
    BY <1>4 DEF SetTopHotKeys
  <2> QED
    <3>1. KeysArePlain' /\ inbox' \in Seq(Message)
      BY <1>1, <2>1 DEF ServerInv, KeysArePlain
    <3>2. SizesInOrder'
      BY <1>1, <2>1 DEF ServerInv, SizesInOrder
    <3> QED
      BY <1>2, <1>3, <3>1, <3>2 DEF ServerInv
<1>5. CASE ~ (num <= 0)
  <2>1. num \in Nat /\ num # 0
    BY <1>5
  <2>2. inbox' = Append(inbox, m) /\ told' = num
    BY <1>5 DEF SetTopHotKeys
  <2>3. /\ m \in Message /\ Commas(m.str1) = {} /\ m.cmd = "setRankingLength"
        /\ m.short = num % 65536
    BY <2>1, SizeMessage
  <2>4. inbox \in Seq(Message)
    BY DEF ServerInv
  <2> HIDE DEF m, n
  <2>5. /\ inbox' \in Seq(Message) /\ n \in Nat
        /\ DOMAIN inbox = 1 .. n /\ DOMAIN inbox' = 1 .. n + 1
        /\ inbox'[n + 1] = m /\ \A i \in 1 .. n : inbox'[i] = inbox[i]
    BY <2>2, <2>3, <2>4, AppendAt DEF n
  <2>6. KeysArePlain'
    <3>1. ASSUME NEW i \in 1 .. n + 1 PROVE Commas(inbox'[i].str1) = {}
      <4>1. i = n + 1 \/ i \in 1 .. n
        BY ONLY <2>5, i \in 1 .. n + 1
      <4>2. \A j \in 1 .. n : Commas(inbox[j].str1) = {}
        BY <2>5 DEF ServerInv, KeysArePlain
      <4>3. CASE i \in 1 .. n
        <5>1. inbox'[i] = inbox[i]
          BY ONLY <2>5, <4>3
        <5> QED
          BY ONLY <4>2, <4>3, <5>1
      <4>4. CASE i = n + 1
        <5>1. inbox'[i] = m
          BY ONLY <2>5, <4>4
        <5> QED
          BY ONLY <2>3, <5>1
      <4> QED
        BY ONLY <4>1, <4>3, <4>4
    <3> QED
      BY <1>1, <2>5, <3>1 DEF ServerInv, KeysArePlain
  <2>7. SizesInOrder'
    <3>1. NamesSize(inbox'[n + 1]) /\ n + 1 \in 1 .. n + 1
      BY <2>3, <2>5 DEF NamesSize
    <3>2. ASSUME NEW i \in 1 .. n + 1, NamesSize(inbox'[i]), \A j \in 1 .. n + 1 : j > i => ~ NamesSize(inbox'[j])
          PROVE  told' # 0 /\ inbox'[i].short = told' % 65536
      <4>1. i = n + 1
        BY <2>5, <3>1, <3>2
      <4> QED
        BY <2>1, <2>2, <2>3, <2>5, <4>1
    <3> QED
      BY <2>1, <2>2, <2>5, <3>1, <3>2 DEF SizesInOrder
  <2> QED
    BY <1>2, <1>3, <2>5, <2>6, <2>7 DEF ServerInv
<1> QED
  BY <1>4, <1>5

LEMMA ConsumeKeeps ==
  ASSUME ServerInv, Consume
  PROVE  ServerInv'
<1> DEFINE m == Head(inbox)
           n == Len(inbox)
<1>1. /\ inbox # <<>> /\ inbox' = Tail(inbox) /\ UNCHANGED <<keyFile, alive, told>>
  BY DEF Consume
<1>2. inbox \in Seq(Message)
  BY DEF ServerInv
<1>3. /\ m \in Message /\ m = inbox[1] /\ n \in Nat \ {0} /\ DOMAIN inbox = 1 .. n
      /\ inbox' \in Seq(Message) /\ DOMAIN inbox' = 1 .. n - 1
      /\ \A i \in 1 .. n - 1 : inbox'[i] = inbox[i + 1]
  BY <1>1, <1>2, TailAt
<1> HIDE DEF n
<1>4. m.str1 \in Seq(Token) /\ Commas(m.str1) = {}
  <2>1. 1 \in DOMAIN inbox
    BY <1>3
  <2>2. Commas(inbox[1].str1) = {}
    BY <2>1 DEF ServerInv, KeysArePlain
  <2>3. m.str1 \in Seq(Token)
    BY <1>3 DEF Message
  <2> QED
    BY ONLY <1>3, <2>2, <2>3
<1>5. FileOfLines'
  BY <1>1 DEF ServerInv, FileOfLines
<1>6. \A i \in DOMAIN inbox' : Commas(inbox'[i].str1) = {}
  <2>1. \A i \in 1 .. n : Commas(inbox[i].str1) = {}
    BY <1>3 DEF ServerInv, KeysArePlain
  <2>2. ASSUME NEW i \in 1 .. n - 1 PROVE Commas(inbox'[i].str1) = {}
    <3>1. i + 1 \in 1 .. n /\ inbox'[i] = inbox[i + 1]
      BY <1>3
    <3> QED
      BY ONLY <2>1, <3>1
  <2> QED
    BY ONLY <1>3, <2>2
<1>7. CASE m.cmd = "addKey"
  <2> DEFINE details == [url |-> m.str2, port |-> m.number,
                         frequency |-> IF Known(m.str1) THEN keys[m.str1].frequency + 1 ELSE 1]
  <2>1. /\ keys' = [k \in DOMAIN keys \cup {m.str1} |->
                      IF k = m.str1 THEN details ELSE keys[k]]
        /\ base' = base
    BY <1>7 DEF Consume
  <2>2. keys \in [DOMAIN keys -> [url : Seq(Token), port : Nat, frequency : Nat]]
    BY DEF ServerInv, TypeOK
  <2>3. details \in [url : Seq(Token), port : Nat, frequency : Nat]
    <3>1. m.str2 \in Seq(Token) /\ m.number \in Nat
      BY <1>3 DEF Message
    <3>2. Known(m.str1) => keys[m.str1].frequency \in Nat
      BY <2>2 DEF Known
    <3> QED
      BY <3>1, <3>2
  <2> HIDE DEF details, m
  <2>4. /\ DOMAIN keys' = DOMAIN keys \cup {m.str1}
        /\ keys' \in [DOMAIN keys' -> [url : Seq(Token), port : Nat, frequency : Nat]]
    BY <2>1, <2>2, <2>3
  <2>5. TypeOK'
    BY <1>1, <2>1, <2>4 DEF ServerInv, TypeOK
  <2>6. KeysArePlain'
    BY <1>4, <1>6, <2>4 DEF ServerInv, KeysArePlain
  <2>7. SizesInOrder'
    <3>1. ~ NamesSize(inbox[1])
      BY <1>3, <1>7 DEF NamesSize, m
    <3>2. SizesInOrder
      BY DEF ServerInv
    <3>3. (\A i \in 1 .. n - 1 : ~ NamesSize(inbox'[i])) => base' = SizeOf(told')
      <4> SUFFICES ASSUME \A i \in 1 .. n - 1 : ~ NamesSize(inbox'[i])
                   PROVE  base = SizeOf(told)
        BY <1>1, <2>1
      <4>1. ASSUME NEW i \in 1 .. n PROVE ~ NamesSize(inbox[i])
        <5>1. i = 1 \/ (i - 1 \in 1 .. n - 1 /\ i - 1 + 1 = i)
          BY <1>3
        <5> QED
          BY <1>3, <3>1, <5>1
      <4> QED
        BY <1>3, <3>2, <4>1 DEF SizesInOrder
    <3>4. ASSUME NEW i \in 1 .. n - 1, NamesSize(inbox'[i]),
                 \A j \in 1 .. n - 1 : j > i => ~ NamesSize(inbox'[j])
          PROVE  told' # 0 /\ inbox'[i].short = told' % 65536
      <4>1. i + 1 \in 1 .. n /\ inbox'[i] = inbox[i + 1] /\ NamesSize(inbox[i + 1])
        BY <1>3, <3>4
      <4>2. ASSUME NEW j \in 1 .. n, j > i + 1 PROVE ~ NamesSize(inbox[j])
        <5>1. j - 1 \in 1 .. n - 1 /\ j - 1 > i /\ j - 1 + 1 = j
          BY <1>3, <4>2
        <5> QED
          BY <1>3, <3>4, <5>1
      <4> QED
        BY <1>1, <1>3, <3>2, <4>1, <4>2 DEF SizesInOrder
    <3>5. told' \in Nat
      BY <1>1, <3>2 DEF SizesInOrder
    <3>6. DOMAIN inbox' = 1 .. n - 1
      BY <1>3
    <3>7. (\A i \in DOMAIN inbox' : ~ NamesSize(inbox'[i])) => base' = SizeOf(told')
      BY ONLY <3>3, <3>6
    <3>8. \A i \in DOMAIN inbox' :
            NamesSize(inbox'[i]) /\ (\A j \in DOMAIN inbox' : j > i => ~ NamesSize(inbox'[j])) =>
              told' # 0 /\ inbox'[i].short = told' % 65536
      BY ONLY <3>4, <3>6
    <3> QED
      BY ONLY <3>5, <3>7, <3>8 DEF SizesInOrder, SizeOf
  <2> QED
    BY <1>3, <1>5, <2>5, <2>6, <2>7 DEF ServerInv
<1>8. CASE m.cmd = "setRankingLength"
  <2>1. base' = Clamp(m.short) /\ keys' = keys
    BY <1>8 DEF Consume
  <2>2. m.short \in Nat
    BY <1>3 DEF Message
  <2> HIDE DEF m
  <2>3. TypeOK'
    BY <1>1, <2>1, <2>2, ClampIsBounded DEF ServerInv, TypeOK
  <2>4. KeysArePlain'
    BY <1>6, <2>1 DEF ServerInv, KeysArePlain
  <2>5. SizesInOrder'
    <3>1. NamesSize(inbox[1])
      BY <1>3, <1>8 DEF NamesSize, m
    <3>2. SizesInOrder
      BY DEF ServerInv
    <3>3. (\A i \in 1 .. n - 1 : ~ NamesSize(inbox'[i])) => base' = SizeOf(told')
      <4> SUFFICES ASSUME \A i \in 1 .. n - 1 : ~ NamesSize(inbox'[i])
                   PROVE  base' = SizeOf(told)
        BY <1>1
      <4>1. ASSUME NEW j \in 1 .. n, j > 1 PROVE ~ NamesSize(inbox[j])
        <5>1. j - 1 \in 1 .. n - 1 /\ j - 1 + 1 = j
          BY <1>3, <4>1
        <5> QED
          BY <1>3, <5>1
      <4>2. told # 0 /\ inbox[1].short = told % 65536
        BY <1>3, <3>1, <3>2, <4>1 DEF SizesInOrder
      <4> QED
        BY <1>3, <2>1, <4>2 DEF SizeOf
    <3>4. ASSUME NEW i \in 1 .. n - 1, NamesSize(inbox'[i]),
                 \A j \in 1 .. n - 1 : j > i => ~ NamesSize(inbox'[j])
          PROVE  told' # 0 /\ inbox'[i].short = told' % 65536
      <4>1. i + 1 \in 1 .. n /\ inbox'[i] = inbox[i + 1] /\ NamesSize(inbox[i + 1])
        BY <1>3, <3>4
      <4>2. ASSUME NEW j \in 1 .. n, j > i + 1 PROVE ~ NamesSize(inbox[j])
        <5>1. j - 1 \in 1 .. n - 1 /\ j - 1 > i /\ j - 1 + 1 = j
          BY <1>3, <4>2
        <5> QED
          BY <1>3, <3>4, <5>1
      <4> QED
        BY <1>1, <1>3, <3>2, <4>1, <4>2 DEF SizesInOrder
    <3>5. told' \in Nat
      BY <1>1, <3>2 DEF SizesInOrder
    <3>6. DOMAIN inbox' = 1 .. n - 1
      BY <1>3
    <3>7. (\A i \in DOMAIN inbox' : ~ NamesSize(inbox'[i])) => base' = SizeOf(told')
      BY ONLY <3>3, <3>6
    <3>8. \A i \in DOMAIN inbox' :
            NamesSize(inbox'[i]) /\ (\A j \in DOMAIN inbox' : j > i => ~ NamesSize(inbox'[j])) =>
              told' # 0 /\ inbox'[i].short = told' % 65536
      BY ONLY <3>4, <3>6
    <3> QED
      BY ONLY <3>5, <3>7, <3>8 DEF SizesInOrder, SizeOf
  <2> QED
    BY <1>3, <1>5, <2>3, <2>4, <2>5 DEF ServerInv
<1>9. m.cmd = "addKey" \/ m.cmd = "setRankingLength"
  BY <1>3 DEF Message
<1> QED
  BY ONLY <1>7, <1>8, <1>9

LEMMA BackupKeeps ==
  ASSUME ServerInv, Backup
  PROVE  ServerInv'
<1>1. keyFile' = {Line(k) : k \in DOMAIN keys} /\ UNCHANGED <<inbox, keys, base, alive, told>>
  BY DEF Backup
<1>2. TypeOK' /\ inbox' \in Seq(Message) /\ KeysArePlain'
  BY <1>1 DEF ServerInv, TypeOK, KeysArePlain
<1>3. SizesInOrder'
  BY <1>1 DEF ServerInv, SizesInOrder
<1>4. FileOfLines'
  <2>1. ASSUME NEW k \in DOMAIN keys
        PROVE  IsLine(Line(k))
    <3>1. k \in Seq(Token) /\ Commas(k) = {}
      BY DEF ServerInv, KeysArePlain
    <3>2. keys[k].url \in Seq(Token) /\ keys[k].frequency \in Nat /\ keys[k].port \in Nat
      BY DEF ServerInv, TypeOK
    <3>3. Line(k) = LineOf(k, keys[k].frequency, keys[k].url, keys[k].port)
      BY DEF Line, LineOf
    <3> QED
      BY ONLY <3>1, <3>2, <3>3 DEF IsLine
  <2> QED
    BY ONLY <1>1, <2>1 DEF FileOfLines
<1> QED
  BY <1>2, <1>3, <1>4 DEF ServerInv

LEMMA RestoreKeeps ==
  ASSUME ServerInv, Restore
  PROVE  ServerInv'
<1> DEFINE lines == {Read(l) : l \in keyFile}
           names == {r.key : r \in lines}
           of(k) == CHOOSE r \in lines : r.key = k
<1>1. UNCHANGED <<inbox, base, keyFile, told>>
  BY DEF Restore
<1>2. inbox' \in Seq(Message) /\ FileOfLines'
  BY <1>1 DEF ServerInv, FileOfLines
<1>3. SizesInOrder'
  BY <1>1 DEF ServerInv, SizesInOrder
<1>4. CASE \E r \in lines : r.throws
  <2>1. alive' = FALSE /\ keys' = keys
    BY <1>4 DEF Restore
  <2>2. TypeOK' /\ KeysArePlain'
    BY <1>1, <2>1 DEF ServerInv, TypeOK, KeysArePlain
  <2> QED
    BY <1>2, <1>3, <2>2 DEF ServerInv
<1>5. CASE ~ \E r \in lines : r.throws
  <2>1. /\ alive' = alive
        /\ keys' = [k \in names |-> [url |-> of(k).url, port |-> Stoi(of(k).port),
                                     frequency |-> Stoi(of(k).frequency)]]
    BY <1>5 DEF Restore
  <2>2. ASSUME NEW r \in lines
        PROVE  /\ r.key \in Seq(Token) /\ Commas(r.key) = {} /\ r.url \in Seq(Token)
               /\ Stoi(r.frequency) \in Nat /\ Stoi(r.port) \in Nat
    <3>1. PICK l \in keyFile : r = Read(l)
      OBVIOUS
    <3>2. PICK k \in Seq(Token), u \in Seq(Token), f \in Nat, p \in Nat :
            Commas(k) = {} /\ l = LineOf(k, f, u, p)
      BY DEF ServerInv, FileOfLines, IsLine
    <3>3. ~ r.throws
      BY <1>5
    <3> QED
      BY ONLY <3>1, <3>2, <3>3, RestoredDetails
  <2>3. ASSUME NEW k \in names PROVE of(k) \in lines /\ of(k).key = k
    OBVIOUS
  <2> HIDE DEF lines, of
  <2>4. \A k \in names : k \in Seq(Token) /\ Commas(k) = {}
    BY <2>2
  <2>5. \A k \in names : of(k).url \in Seq(Token) /\ Stoi(of(k).port) \in Nat
                         /\ Stoi(of(k).frequency) \in Nat
    BY ONLY <2>2, <2>3
  <2> HIDE DEF names
  <2>6. /\ DOMAIN keys' = names
        /\ keys' \in [names -> [url : Seq(Token), port : Nat, frequency : Nat]]
    BY ONLY <2>1, <2>5
  <2>7. TypeOK'
    BY <1>1, <2>1, <2>6 DEF ServerInv, TypeOK
  <2>8. KeysArePlain'
    BY <1>1, <2>4, <2>6 DEF ServerInv, KeysArePlain
  <2> QED
    BY <1>2, <1>3, <2>7, <2>8 DEF ServerInv
<1> QED
  BY <1>4, <1>5

LEMMA ServerInvariant == Spec => []ServerInv
<1>1. ServerInv /\ [Next]_vars => ServerInv'
  <2> SUFFICES ASSUME ServerInv, [Next]_vars PROVE ServerInv'
    OBVIOUS
  <2>1. CASE UNCHANGED vars
    <3>1. TypeOK' /\ inbox' \in Seq(Message) /\ KeysArePlain'
      BY <2>1 DEF vars, ServerInv, TypeOK, KeysArePlain
    <3>2. FileOfLines' /\ SizesInOrder'
      BY <2>1 DEF vars, ServerInv, FileOfLines, SizesInOrder
    <3> QED
      BY <3>1, <3>2 DEF ServerInv
  <2> QED
    BY <2>1, KeySentKeeps, SetTopHotKeysKeeps, ConsumeKeeps, BackupKeeps, RestoreKeeps DEF Next
<1> QED
  BY <1>1, ServerInit, PTL DEF Spec

---------------------------------------------------------------------------
(* The theorems.                                                           *)

\* Whatever the requests were, the details of a key are a text and two numbers,
\* also those a restore has read from a file, and N stays within M.
THEOREM ServerTypeCorrect == Spec => []TypeOK
<1>1. ServerInv => TypeOK
  BY DEF ServerInv
<1> QED
  BY <1>1, ServerInvariant, PTL

\* The line a backup would write of a known key reads back with the key and its
\* count, and as a whole if the url has no comma, whatever else the texts are.
THEOREM LinesAreReadBack == Spec => []LinesReadBack
<1>1. ServerInv => LinesReadBack
  <2> SUFFICES ASSUME ServerInv, NEW k \in DOMAIN keys
               PROVE  LET r == Read(Line(k))
                      IN  /\ r.key = k /\ r.frequency = <<keys[k].frequency>>
                          /\ Commas(keys[k].url) = {} =>
                               ~r.throws /\ r.url = keys[k].url /\ r.port = <<keys[k].port>>
    BY DEF LinesReadBack
  <2> DEFINE f == keys[k].frequency
             u == keys[k].url
             p == keys[k].port
  <2>1. k \in Seq(Token) /\ Commas(k) = {}
    BY DEF ServerInv, KeysArePlain
  <2>2. u \in Seq(Token) /\ f \in Nat /\ p \in Nat
    BY DEF ServerInv, TypeOK
  <2> HIDE DEF f, u, p
  <2>3. ReadsBack(k, f, u, p)
    BY ONLY <2>1, <2>2, LineReadsBack
  <2>4. Line(k) = LineOf(k, f, u, p)
    BY DEF Line, LineOf, f, u, p
  <2> QED
    BY ONLY <2>3, <2>4 DEF ReadsBack, f, u, p
<1> QED
  BY <1>1, ServerInvariant, PTL

\* Once its message has been applied, the size named by the last accepted
\* request is in force, in 16 bits and up to M.
THEOREM SizeIsInForce == Spec => []SizeInForce
<1>1. ServerInv => SizeInForce
  <2> SUFFICES ASSUME ServerInv, inbox = <<>> PROVE base = SizeOf(told)
    BY DEF SizeInForce, SizeOf, Clamp
  <2>1. \A i \in DOMAIN inbox : ~ NamesSize(inbox[i])
    OBVIOUS
  <2> QED
    BY <2>1 DEF ServerInv, SizesInOrder
<1> QED
  BY <1>1, ServerInvariant, PTL
=============================================================================
