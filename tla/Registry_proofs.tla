--------------------------- MODULE Registry_proofs ---------------------------
(***************************************************************************)
(* The recency discipline of every bounded OrderedDict (Lru), and proofs   *)
(* about PreviewCoordinator, whose registries keep it, for any sessions,   *)
(* clients and limit.                                                      *)
(***************************************************************************)
EXTENDS PreviewCoordinator, SequenceTheorems, TLAPS

-----------------------------------------------------------------------------
(* The recency discipline *)

\* An item less: the others keep their order.
LEMMA RemoveAtFacts ==
    ASSUME NEW S, NEW q \in Seq(S), NEW k \in 1..Len(q)
    PROVE  /\ RemoveAt(q, k) \in Seq(S)
           /\ Len(RemoveAt(q, k)) = Len(q) - 1
           /\ \A j \in 1..Len(q) - 1 : RemoveAt(q, k)[j] = IF j < k THEN q[j] ELSE q[j + 1]
<1> DEFINE before == SubSeq(q, 1, k - 1)
           after == SubSeq(q, k + 1, Len(q))
<1>0. Len(q) \in Nat /\ \A i \in 1..Len(q) : q[i] \in S
  BY LenProperties, ElementOfSeq
<1>1. /\ before \in Seq(S) /\ Len(before) = k - 1
      /\ \A j \in 1..k - 1 : before[j] = q[j]
  <2>1. \A i \in 1..k - 1 : q[i] \in S
    BY <1>0
  <2> QED
    BY <1>0, <2>1, SubSeqProperties
<1>2. /\ after \in Seq(S) /\ Len(after) = Len(q) - k
      /\ \A j \in 1..Len(q) - k : after[j] = q[k + j]
  <2>1. \A i \in k + 1..Len(q) : q[i] \in S
    BY <1>0
  <2>2. /\ after \in Seq(S)
        /\ Len(after) = IF k + 1 <= Len(q) THEN Len(q) - (k + 1) + 1 ELSE 0
        /\ \A j \in 1..Len(q) - (k + 1) + 1 : after[j] = q[(k + 1) + j - 1]
    <3> HIDE DEF after
    <3> k + 1 \in Int /\ Len(q) \in Int
      BY <1>0
    <3> QED
      BY <2>1, SubSeqProperties DEF after
  <2> HIDE DEF after
  <2> QED
    BY <1>0, <2>2
<1>3. RemoveAt(q, k) = before \o after
  BY DEF RemoveAt
<1> HIDE DEF before, after
<1>4. /\ before \o after \in Seq(S)
      /\ Len(before \o after) = Len(before) + Len(after)
      /\ \A i \in 1..Len(before) + Len(after) :
           (before \o after)[i] = IF i <= Len(before) THEN before[i] ELSE after[i - Len(before)]
  BY <1>1, <1>2, ConcatProperties
<1>5. ASSUME NEW j \in 1..Len(q) - 1
      PROVE  (before \o after)[j] = IF j < k THEN q[j] ELSE q[j + 1]
  <2>1. CASE j < k
    BY <1>0, <1>1, <1>2, <1>4, <2>1
  <2>2. CASE ~(j < k)
    <3>1. (before \o after)[j] = after[j - (k - 1)] /\ j - (k - 1) \in 1..Len(q) - k
      BY <1>0, <1>1, <1>2, <1>4, <2>2
    <3> QED
      BY <1>0, <1>2, <2>2, <3>1
  <2> QED
    BY <2>1, <2>2
<1> QED
  BY <1>0, <1>1, <1>2, <1>3, <1>4, <1>5

\* The only member of a set of positions is its least.
LEMMA OnlyPosition ==
    ASSUME NEW n \in Nat, NEW I \in SUBSET (1..n), NEW k \in I, \A i \in I : i = k
    PROVE  Min(I) = k
<1>1. I = {k}
  OBVIOUS
<1> QED
  BY <1>1 DEF Min

\* KeepNewest takes a suffix that ends with the same item.
LEMMA KeepNewestFacts ==
    ASSUME NEW S, NEW q \in Seq(S), NEW limit \in Nat
    PROVE  LET r == KeepNewest(q, limit)
               gone == IF Len(q) <= limit THEN 0 ELSE Len(q) - limit
           IN  /\ r \in Seq(S)
               /\ Len(r) = Len(q) - gone
               /\ \A j \in 1..Len(r) : r[j] = q[gone + j]
<1>0. Len(q) \in Nat /\ \A i \in 1..Len(q) : q[i] \in S
  BY LenProperties, ElementOfSeq
<1>1. CASE Len(q) <= limit
  BY <1>0, <1>1 DEF KeepNewest
<1>2. CASE ~(Len(q) <= limit)
  <2> DEFINE gone == Len(q) - limit
             r == SubSeq(q, gone + 1, Len(q))
  <2>1. gone \in Nat /\ gone >= 1 /\ gone + 1 \in Int /\ Len(q) \in Int
    BY <1>0, <1>2
  <2>2. \A i \in gone + 1..Len(q) : q[i] \in S
    BY <1>0, <2>1
  <2>3. /\ r \in Seq(S)
        /\ Len(r) = IF gone + 1 <= Len(q) THEN Len(q) - (gone + 1) + 1 ELSE 0
        /\ \A j \in 1..Len(q) - (gone + 1) + 1 : r[j] = q[(gone + 1) + j - 1]
    <3> HIDE DEF gone
    <3> QED
      BY <2>1, <2>2, SubSeqProperties
  <2>4. Len(r) = limit /\ \A j \in 1..limit : r[j] = q[gone + j]
    <3> HIDE DEF r
    <3>1. Len(r) = limit
      BY <1>0, <1>2, <2>1, <2>3
    <3>2. ASSUME NEW j \in 1..limit PROVE r[j] = q[gone + j]
      <4>1. j \in 1..Len(q) - (gone + 1) + 1
        BY <1>0, <1>2, <2>1
      <4>2. (gone + 1) + j - 1 = gone + j
        BY <2>1, <4>1
      <4> QED
        BY <2>3, <4>1, <4>2
    <3> QED
      BY <3>1, <3>2
  <2>5. KeepNewest(q, limit) = r
    BY <1>2 DEF KeepNewest
  <2> HIDE DEF r
  <2> QED
    BY <1>0, <1>2, <2>3, <2>4, <2>5
<1> QED
  BY <1>1, <1>2

\* Where an element stands in a sequence without repetitions, and what is left
\* without it.
LEMMA RemoveFirstFacts ==
    ASSUME NEW S, NEW q \in Seq(S), IsInjective(q), NEW k \in 1..Len(q)
    PROVE  RemoveFirst(q, q[k]) = RemoveAt(q, k)
<1> DEFINE I == {i \in 1..Len(q) : q[i] = q[k]}
<1>0. Len(q) \in Nat /\ DOMAIN q = 1..Len(q)
  BY LenProperties
<1>1. k \in I /\ \A i \in I : i = k
  BY <1>0 DEF IsInjective
<1>2. Min(I) = k
  <2> HIDE DEF I
  <2>1. I \in SUBSET (1..Len(q))
    BY DEF I
  <2> QED
    BY <1>0, <1>1, <2>1, OnlyPosition
<1>3. SelectInSeq(q, LAMBDA v : v = q[k]) = k
  BY <1>1, <1>2 DEF SelectInSeq
<1> QED
  BY <1>3 DEF RemoveFirst

\* A name that was not there comes after all others.
LEMMA MovedNew ==
    ASSUME NEW S, NEW q \in Seq(S), NEW x \in S, x \notin ToSet(q)
    PROVE  /\ MoveToEnd(q, x) \in Seq(S)
           /\ Len(MoveToEnd(q, x)) = Len(q) + 1
           /\ \A j \in 1..Len(q) : MoveToEnd(q, x)[j] = q[j]
           /\ MoveToEnd(q, x)[Len(q) + 1] = x
<1>1. ToSet(q) = {q[i] : i \in 1..Len(q)}
  BY LenProperties DEF ToSet
<1>2. MoveToEnd(q, x) = Append(q, x)
  BY <1>1 DEF MoveToEnd, RemoveFirst
<1> QED
  BY <1>2, AppendProperties

\* A name that was there leaves its place to the next.
LEMMA MovedKnown ==
    ASSUME NEW S, NEW q \in Seq(S), IsInjective(q), NEW k \in 1..Len(q)
    PROVE  /\ MoveToEnd(q, q[k]) \in Seq(S)
           /\ Len(MoveToEnd(q, q[k])) = Len(q)
           /\ \A j \in 1..Len(q) - 1 : MoveToEnd(q, q[k])[j] = IF j < k THEN q[j] ELSE q[j + 1]
           /\ MoveToEnd(q, q[k])[Len(q)] = q[k]
<1> DEFINE x == q[k]
           r == MoveToEnd(q, x)
           rest == RemoveAt(q, k)
<1>1. Len(q) \in Nat /\ x \in S
  BY LenProperties, ElementOfSeq
<1>2. r = Append(rest, x)
  BY RemoveFirstFacts DEF MoveToEnd
<1>3. /\ rest \in Seq(S) /\ Len(rest) = Len(q) - 1
      /\ \A j \in 1..Len(q) - 1 : rest[j] = IF j < k THEN q[j] ELSE q[j + 1]
  BY RemoveAtFacts
<1> HIDE DEF r, rest, x
<1>4. /\ r \in Seq(S) /\ Len(r) = Len(rest) + 1
      /\ \A j \in 1..Len(rest) : r[j] = rest[j]
      /\ r[Len(rest) + 1] = x
  BY <1>1, <1>2, <1>3, AppendProperties
<1>5. /\ r \in Seq(S) /\ Len(r) = Len(q)
      /\ \A j \in 1..Len(q) - 1 : r[j] = IF j < k THEN q[j] ELSE q[j + 1]
      /\ r[Len(q)] = x
  BY <1>1, <1>3, <1>4
<1> QED
  BY <1>5 DEF r, x

\* MoveToEnd of a sequence without repetitions: what it holds.
LEMMA MoveToEndFacts ==
    ASSUME NEW S, NEW q \in Seq(S), IsInjective(q), NEW x \in S
    PROVE  /\ MoveToEnd(q, x) \in Seq(S)
           /\ IsInjective(MoveToEnd(q, x))
           /\ ToSet(MoveToEnd(q, x)) = ToSet(q) \cup {x}
<1> DEFINE r == MoveToEnd(q, x)
<1>0. /\ Len(q) \in Nat /\ DOMAIN q = 1..Len(q) /\ \A i \in 1..Len(q) : q[i] \in S
  BY LenProperties, ElementOfSeq
<1>1. ToSet(q) = {q[i] : i \in 1..Len(q)}
  BY <1>0 DEF ToSet
<1>2. CASE x \notin ToSet(q)
  <2>2. /\ r \in Seq(S) /\ Len(r) = Len(q) + 1
        /\ \A j \in 1..Len(q) : r[j] = q[j]
        /\ r[Len(q) + 1] = x
    BY <1>2, MovedNew
  <2> HIDE DEF r
  <2>3. DOMAIN r = 1..Len(q) + 1
    BY <2>2, LenProperties
  <2>4. IsInjective(r)
    <3> SUFFICES ASSUME NEW i \in 1..Len(q) + 1, NEW j \in 1..Len(q) + 1, r[i] = r[j] PROVE i = j
      BY <2>3 DEF IsInjective
    <3> QED
      BY <1>0, <1>1, <1>2, <2>2 DEF IsInjective
  <2>5. ToSet(r) = ToSet(q) \cup {x}
    <3>1. ToSet(r) = {r[i] : i \in 1..Len(q) + 1}
      BY <2>3 DEF ToSet
    <3> QED
      BY <1>0, <1>1, <2>2, <3>1
  <2> QED
    BY <2>2, <2>4, <2>5 DEF r
<1>3. CASE x \in ToSet(q)
  <2>1. PICK k \in 1..Len(q) : q[k] = x
    BY <1>1, <1>3
  <2>4. /\ r \in Seq(S) /\ Len(r) = Len(q)
        /\ r[Len(q)] = x
    BY <2>1, MovedKnown
  <2>5. \A j \in 1..Len(q) - 1 : r[j] = IF j < k THEN q[j] ELSE q[j + 1]
    BY <2>1, MovedKnown
  <2> HIDE DEF r
  <2>6. DOMAIN r = 1..Len(q)
    BY <2>4, LenProperties
  <2>7. IsInjective(r)
    <3> SUFFICES ASSUME NEW i \in 1..Len(q), NEW j \in 1..Len(q), r[i] = r[j] PROVE i = j
      BY <2>6 DEF IsInjective
    <3>0. Len(q) \in Nat
      BY <1>0
    <3>1. ASSUME NEW m \in 1..Len(q), m # Len(q)
          PROVE  \E n \in 1..Len(q) : n = (IF m < k THEN m ELSE m + 1) /\ n # k /\ r[m] = q[n]
      <4>1. CASE m < k
        <5>1. m \in 1..Len(q) - 1 /\ m # k
          BY <3>0, <3>1, <4>1
        <5> QED
          BY <2>5, <4>1, <5>1
      <4>2. CASE ~(m < k)
        <5>1. m + 1 \in 1..Len(q) /\ m + 1 # k /\ m \in 1..Len(q) - 1
          BY <3>0, <3>1, <4>2
        <5> QED
          BY <2>5, <4>2, <5>1
      <4> QED
        BY <4>1, <4>2
    <3>2. ASSUME NEW m \in 1..Len(q), NEW n \in 1..Len(q), q[m] = q[n] PROVE m = n
      BY <1>0, <3>2 DEF IsInjective
    <3>3. CASE i = Len(q) \/ j = Len(q)
      BY <2>1, <2>4, <3>1, <3>2, <3>3
    <3>4. CASE i # Len(q) /\ j # Len(q)
      <4>1. PICK n \in 1..Len(q) : n = (IF i < k THEN i ELSE i + 1) /\ n # k /\ r[i] = q[n]
        BY <3>1, <3>4
      <4>2. PICK m \in 1..Len(q) : m = (IF j < k THEN j ELSE j + 1) /\ m # k /\ r[j] = q[m]
        BY <3>1, <3>4
      <4>3. n = m
        BY <3>2, <4>1, <4>2
      <4> QED
        BY <1>0, <4>1, <4>2, <4>3
    <3> QED
      BY <3>3, <3>4
  <2>8. ToSet(r) = ToSet(q) \cup {x}
    <3>1. ToSet(r) = {r[i] : i \in 1..Len(q)}
      BY <2>6 DEF ToSet
    <3>2. ASSUME NEW i \in 1..Len(q) PROVE r[i] \in ToSet(q)
      BY <1>0, <1>1, <2>1, <2>4, <2>5
    <3>3. ASSUME NEW i \in 1..Len(q) PROVE q[i] \in ToSet(r)
      <4>1. CASE i < k
        BY <1>0, <2>5, <3>1, <4>1
      <4>2. CASE i = k
        BY <1>0, <2>1, <2>4, <3>1, <4>2
      <4>3. CASE i > k
        <5>1. i - 1 \in 1..Len(q) - 1 /\ ~(i - 1 < k) /\ (i - 1) + 1 = i
          BY <1>0, <4>3
        <5>2. r[i - 1] = q[i]
          BY <2>5, <5>1
        <5> QED
          BY <1>0, <3>1, <5>1, <5>2
      <4> QED
        BY <1>0, <4>1, <4>2, <4>3
    <3> QED
      BY <1>1, <1>3, <3>1, <3>2, <3>3
  <2> QED
    BY <2>4, <2>7, <2>8 DEF r
<1> QED
  BY <1>2, <1>3

\* What KeepNewest keeps was there, once.
LEMMA KeptFacts ==
    ASSUME NEW S, NEW q \in Seq(S), NEW limit \in Nat, IsInjective(q)
    PROVE  /\ KeepNewest(q, limit) \in Seq(S)
           /\ IsInjective(KeepNewest(q, limit))
           /\ ToSet(KeepNewest(q, limit)) \subseteq ToSet(q)
           /\ Len(KeepNewest(q, limit)) <= limit
<1> DEFINE r == KeepNewest(q, limit)
           gone == IF Len(q) <= limit THEN 0 ELSE Len(q) - limit
<1>0. Len(q) \in Nat /\ DOMAIN q = 1..Len(q)
  BY LenProperties
<1>1. /\ r \in Seq(S)
      /\ Len(r) = Len(q) - gone
      /\ \A j \in 1..Len(r) : r[j] = q[gone + j]
  BY KeepNewestFacts
<1>2. gone \in Nat /\ \A j \in 1..Len(r) : gone + j \in 1..Len(q)
  BY <1>0, <1>1
<1>3. DOMAIN r = 1..Len(r) /\ Len(r) \in Nat
  BY <1>1, LenProperties
<1>4. Len(r) <= limit
  BY <1>0, <1>1
<1> HIDE DEF r, gone
<1>5. IsInjective(r)
  <2> SUFFICES ASSUME NEW i \in 1..Len(r), NEW j \in 1..Len(r), r[i] = r[j] PROVE i = j
    BY <1>3 DEF IsInjective
  <2>1. gone + i = gone + j
    BY <1>0, <1>1, <1>2 DEF IsInjective
  <2> QED
    BY <1>2, <2>1
<1>6. ToSet(r) \subseteq ToSet(q)
  BY <1>0, <1>1, <1>2, <1>3 DEF ToSet
<1> QED
  BY <1>1, <1>4, <1>5, <1>6 DEF r

\* The item moved to the end survives the trimming.
LEMMA MovedIsKept ==
    ASSUME NEW S, NEW q \in Seq(S), IsInjective(q), NEW x \in S, NEW limit \in Nat \ {0}
    PROVE  LET r == KeepNewest(MoveToEnd(q, x), limit)
           IN  /\ r \in Seq(S) /\ IsInjective(r) /\ Len(r) <= limit
               /\ x \in ToSet(r) /\ ToSet(r) \subseteq ToSet(q) \cup {x}
<1> DEFINE m == MoveToEnd(q, x)
           r == KeepNewest(m, limit)
<1>1. m \in Seq(S) /\ IsInjective(m) /\ ToSet(m) = ToSet(q) \cup {x}
  BY MoveToEndFacts
<1>2. Len(m) \in Nat /\ Len(m) >= 1 /\ m[Len(m)] = x
  <2>0. Len(q) \in Nat /\ ToSet(q) = {q[i] : i \in 1..Len(q)}
    BY LenProperties DEF ToSet
  <2>1. CASE x \notin ToSet(q)
    <3>1. Len(m) = Len(q) + 1 /\ m[Len(q) + 1] = x
      BY <2>1, MovedNew
    <3> QED
      BY <2>0, <3>1
  <2>2. CASE x \in ToSet(q)
    <3>1. PICK k \in 1..Len(q) : q[k] = x
      BY <2>0, <2>2
    <3>2. Len(m) = Len(q) /\ m[Len(q)] = x
      BY <3>1, MovedKnown
    <3> QED
      BY <2>0, <3>1, <3>2
  <2> QED
    BY <2>1, <2>2
<1> HIDE DEF m
<1>3. /\ r \in Seq(S) /\ IsInjective(r) /\ Len(r) <= limit
      /\ ToSet(r) \subseteq ToSet(q) \cup {x}
  BY <1>1, KeptFacts
<1>4. x \in ToSet(r)
  <2> DEFINE gone == IF Len(m) <= limit THEN 0 ELSE Len(m) - limit
  <2>1. Len(r) = Len(m) - gone /\ \A j \in 1..Len(r) : r[j] = m[gone + j]
    BY <1>1, KeepNewestFacts
  <2>2. Len(r) \in 1..Len(r) /\ gone + Len(r) = Len(m)
    BY <1>2, <2>1
  <2>3. r[Len(r)] = x
    BY <1>2, <2>1, <2>2
  <2>4. DOMAIN r = 1..Len(r)
    BY <1>3, LenProperties
  <2> HIDE DEF r
  <2> QED
    BY <2>2, <2>3, <2>4 DEF ToSet
<1> QED
  BY <1>3, <1>4 DEF m, r

\* Two sequences of the same length whose items agree.
LEMMA SameItems ==
    ASSUME NEW S, NEW q \in Seq(S), NEW r \in Seq(S), NEW n \in Nat,
           Len(q) = n, Len(r) = n, \A j \in 1..n : q[j] = r[j]
    PROVE  q = r
<1> QED
  BY SeqEqual

\* What is left of a sequence that was too long.
LEMMA Suffix ==
    ASSUME NEW S, NEW q \in Seq(S), NEW limit \in Nat, Len(q) >= limit
    PROVE  /\ KeepNewest(q, limit) \in Seq(S)
           /\ Len(KeepNewest(q, limit)) = limit
           /\ \A j \in 1..limit : KeepNewest(q, limit)[j] = q[(Len(q) - limit) + j]
<1> DEFINE r == KeepNewest(q, limit)
           g == IF Len(q) <= limit THEN 0 ELSE Len(q) - limit
<1>1. r \in Seq(S) /\ Len(r) = Len(q) - g /\ \A j \in 1..Len(r) : r[j] = q[g + j]
  BY KeepNewestFacts
<1>2. Len(q) \in Nat /\ g = Len(q) - limit
  BY LenProperties
<1> HIDE DEF r, g
<1> QED
  BY <1>1, <1>2 DEF r

\* Trimming before a name is moved to the end forgets nothing that trimming
\* afterwards would keep.
LEMMA TrimmedEarlier ==
    ASSUME NEW S, NEW a \in Seq(S), IsInjective(a), NEW x \in S, NEW limit \in Nat \ {0}
    PROVE  KeepNewest(MoveToEnd(KeepNewest(a, limit), x), limit) =
           KeepNewest(MoveToEnd(a, x), limit)
<1> DEFINE b == KeepNewest(a, limit)
           mb == MoveToEnd(b, x)
           ma == MoveToEnd(a, x)
           rb == KeepNewest(mb, limit)
           ra == KeepNewest(ma, limit)
           n == Len(a)
<1>0. n \in Nat /\ ToSet(a) = {a[i] : i \in 1..n}
  BY LenProperties DEF ToSet
<1>1. CASE n <= limit
  BY <1>1 DEF KeepNewest
<1>2. CASE n > limit
  <2> DEFINE gone == n - limit
  <2>0. gone \in Nat /\ gone >= 1 /\ limit \in Nat /\ limit >= 1 /\ n = gone + limit
    BY <1>0, <1>2
  <2>1. b \in Seq(S) /\ IsInjective(b)
    BY KeptFacts
  <2>2. Len(b) = limit /\ \A j \in 1..limit : b[j] = a[gone + j]
    <3>1. LET g == IF n <= limit THEN 0 ELSE n - limit
          IN  Len(b) = n - g /\ \A j \in 1..Len(b) : b[j] = a[g + j]
      BY KeepNewestFacts
    <3>2. (IF n <= limit THEN 0 ELSE n - limit) = gone
      BY <1>0, <1>2
    <3>3. n - gone = limit
      BY <2>0
    <3> HIDE DEF b, gone, n
    <3> QED
      BY <3>1, <3>2, <3>3
  <2>3. ToSet(b) = {b[i] : i \in 1..limit}
    BY <2>1, <2>2, LenProperties DEF ToSet
  <2>4. mb \in Seq(S) /\ ma \in Seq(S)
    BY <2>1, MoveToEndFacts
  <2> HIDE DEF gone
  <2>5. \A i \in 1..n, j \in 1..n : a[i] = a[j] => i = j
    BY LenProperties DEF IsInjective
  <2>6. CASE x \notin ToSet(a)
    <3>1. x \notin ToSet(b)
      BY <1>0, <2>0, <2>2, <2>3, <2>6
    <3>2. Len(mb) = limit + 1 /\ (\A j \in 1..limit : mb[j] = b[j]) /\ mb[limit + 1] = x
      <4> HIDE DEF b
      <4>1. Len(mb) = Len(b) + 1 /\ (\A j \in 1..Len(b) : mb[j] = b[j]) /\ mb[Len(b) + 1] = x
        BY <2>1, <3>1, MovedNew
      <4> QED
        BY <2>2, <4>1
    <3>3. Len(ma) = n + 1 /\ (\A j \in 1..n : ma[j] = a[j]) /\ ma[n + 1] = x
      BY <2>6, MovedNew
    <3> HIDE DEF b, mb, ma
    <3>4. rb \in Seq(S) /\ Len(rb) = limit /\ \A j \in 1..limit : rb[j] = mb[1 + j]
      <4>1. Len(mb) >= limit /\ Len(mb) - limit = 1
        BY <2>0, <3>2
      <4> QED
        BY <2>0, <2>4, <4>1, Suffix
    <3>5. ra \in Seq(S) /\ Len(ra) = limit /\ \A j \in 1..limit : ra[j] = ma[gone + 1 + j]
      <4> HIDE DEF n
      <4>1. Len(ma) >= limit /\ Len(ma) - limit = gone + 1
        BY <2>0, <3>3
      <4>2. /\ ra \in Seq(S) /\ Len(ra) = limit
            /\ \A j \in 1..limit : ra[j] = ma[(Len(ma) - limit) + j]
        BY <2>0, <2>4, <4>1, Suffix
      <4> HIDE DEF ra
      <4> QED
        BY <4>1, <4>2
    <3> HIDE DEF rb, ra, n
    <3>6. ASSUME NEW j \in 1..limit PROVE rb[j] = ra[j]
      <4>1. CASE j = limit
        BY <2>0, <3>2, <3>3, <3>4, <3>5, <4>1
      <4>2. CASE j # limit
        <5>1. 1 + j \in 1..limit /\ gone + 1 + j \in 1..n /\ gone + (1 + j) = gone + 1 + j
          BY <2>0, <4>2
        <5> QED
          BY <2>2, <3>2, <3>3, <3>4, <3>5, <5>1
      <4> QED
        BY <4>1, <4>2
    <3>7. rb = ra
      BY <2>0, <3>4, <3>5, <3>6, SameItems
    <3> QED
      BY <3>7 DEF rb, ra, mb, ma, b
  <2>7. CASE x \in ToSet(a)
    <3>1. PICK k \in 1..n : a[k] = x
      BY <1>0, <2>7
    <3>2. /\ Len(ma) = n /\ ma[n] = x
          /\ \A j \in 1..n - 1 : ma[j] = IF j < k THEN a[j] ELSE a[j + 1]
      BY <3>1, MovedKnown
    <3>3. ra \in Seq(S) /\ Len(ra) = limit /\ \A j \in 1..limit : ra[j] = ma[gone + j]
      <4> HIDE DEF ma, n
      <4>1. Len(ma) >= limit /\ Len(ma) - limit = gone
        BY <2>0, <3>2
      <4> QED
        BY <2>0, <2>4, <4>1, Suffix
    <3>4. CASE k <= gone
      <4>1. x \notin ToSet(b)
        <5> SUFFICES ASSUME NEW i \in 1..limit, b[i] = x PROVE FALSE
          BY <2>3
        <5>1. gone + i \in 1..n /\ gone + i # k
          BY <2>0, <3>4
        <5> QED
          BY <2>2, <2>5, <3>1, <5>1
      <4>2. Len(mb) = limit + 1 /\ (\A j \in 1..limit : mb[j] = b[j]) /\ mb[limit + 1] = x
        <5> HIDE DEF b
        <5>1. Len(mb) = Len(b) + 1 /\ (\A j \in 1..Len(b) : mb[j] = b[j]) /\ mb[Len(b) + 1] = x
          BY <2>1, <4>1, MovedNew
        <5> QED
          BY <2>2, <5>1
      <4> HIDE DEF b, mb, ma
      <4>3. rb \in Seq(S) /\ Len(rb) = limit /\ \A j \in 1..limit : rb[j] = mb[1 + j]
        <5>1. Len(mb) >= limit /\ Len(mb) - limit = 1
          BY <2>0, <4>2
        <5> QED
          BY <2>0, <2>4, <5>1, Suffix
      <4> HIDE DEF rb, ra, n
      <4>4. ASSUME NEW j \in 1..limit PROVE rb[j] = ra[j]
        <5>1. CASE j = limit
          BY <2>0, <3>2, <3>3, <4>2, <4>3, <5>1
        <5>2. CASE j # limit
          <6>1. /\ 1 + j \in 1..limit /\ gone + j \in 1..n - 1 /\ ~(gone + j < k)
                /\ gone + (1 + j) = (gone + j) + 1
            BY <2>0, <3>4, <5>2
          <6>2. rb[j] = a[gone + (1 + j)]
            BY <2>2, <4>2, <4>3, <6>1
          <6>3. ra[j] = a[(gone + j) + 1]
            BY <3>2, <3>3, <6>1
          <6> QED
            BY <6>1, <6>2, <6>3
        <5> QED
          BY <5>1, <5>2
      <4>5. rb = ra
        BY <2>0, <3>3, <4>3, <4>4, SameItems
      <4> QED
        BY <4>5 DEF rb, ra, mb, ma, b
    <3>5. CASE k > gone
      <4> DEFINE h == k - gone
      <4>1. h \in 1..limit /\ gone + h = k
        BY <2>0, <3>5
      <4>2. b[h] = x
        BY <2>2, <3>1, <4>1
      <4>3. /\ Len(mb) = limit /\ mb[limit] = x
            /\ \A j \in 1..limit - 1 : mb[j] = IF j < h THEN b[j] ELSE b[j + 1]
        <5> HIDE DEF b, h
        <5>1. h \in 1..Len(b)
          BY <2>2, <4>1
        <5>2. /\ Len(mb) = Len(b) /\ mb[Len(b)] = x
              /\ \A j \in 1..Len(b) - 1 : mb[j] = IF j < h THEN b[j] ELSE b[j + 1]
          BY <2>1, <4>2, <5>1, MovedKnown
        <5> QED
          BY <2>2, <5>2
      <4>4. rb = mb
        BY <4>3 DEF KeepNewest
      <4> HIDE DEF b, mb, ma, rb, ra, n, h
      <4>5. ASSUME NEW j \in 1..limit PROVE mb[j] = ra[j]
        <5>1. CASE j = limit
          BY <2>0, <3>2, <3>3, <4>3, <5>1
        <5>2. CASE j # limit
          <6>1. j \in 1..limit - 1 /\ gone + j \in 1..n - 1
            BY <2>0, <5>2
          <6>2. CASE j < h
            <7>1. gone + j < k
              BY <2>0, <4>1, <6>2
            <7> QED
              BY <2>2, <3>2, <3>3, <4>3, <6>1, <6>2, <7>1
          <6>3. CASE ~(j < h)
            <7>1. ~(gone + j < k) /\ j + 1 \in 1..limit /\ gone + (j + 1) = (gone + j) + 1
              BY <2>0, <4>1, <6>1, <6>3
            <7> QED
              BY <2>2, <3>2, <3>3, <4>3, <6>1, <6>3, <7>1
          <6> QED
            BY <6>2, <6>3
        <5> QED
          BY <5>1, <5>2
      <4>6. mb = ra
        BY <2>0, <2>4, <3>3, <4>3, <4>5, SameItems
      <4> QED
        BY <4>4, <4>6 DEF rb, ra, mb, ma, b
    <3> QED
      BY <2>0, <3>4, <3>5
  <2> QED
    BY <2>6, <2>7
<1> QED
  BY <1>0, <1>1, <1>2

-----------------------------------------------------------------------------
(* The registry of sessions and selections *)

\* Both registries name, oldest first and once, whoever has a number; at most
\* MaxSessions of them.
RegistryInv ==
    /\ CoordinatorTypeOK
    /\ RegistryConsistent
    /\ RecentSessionsKept
    /\ IsInjective(announced)

\* A trimmed map holds numbers: the one stored, those it held, or none.
LEMMA StoredNumbers ==
    ASSUME NEW D, NEW m \in [D -> Generations], NEW kept,
           NEW x \in D, NEW n \in Generations
    PROVE  Stored(m, kept, x, n) \in [D -> Generations]
<1> 0 \in Generations
  BY MaxGenerationAssumption DEF Generations
<1> QED
  BY DEF Stored

\* One registry after a name was stored in it: its order and its map agree.
LEMMA StoredConsistently ==
    ASSUME NEW D, NEW m \in [D -> Generations], NEW order \in Seq(D), IsInjective(order),
           ToSet(order) = {y \in D : m[y] # 0},
           NEW x \in D, NEW n \in Generations, n > 0,
           NEW kept, kept = KeepNewest(MoveToEnd(order, x), MaxSessions)
    PROVE  /\ kept \in Seq(D) /\ IsInjective(kept) /\ Len(kept) <= MaxSessions
           /\ ToSet(kept) = {y \in D : Stored(m, kept, x, n)[y] # 0}
<1>1. /\ kept \in Seq(D) /\ IsInjective(kept) /\ Len(kept) <= MaxSessions
      /\ x \in ToSet(kept) /\ ToSet(kept) \subseteq ToSet(order) \cup {x}
  BY MaxSessionsAssumption, MovedIsKept
<1>2. ASSUME NEW y \in D
      PROVE  Stored(m, kept, x, n)[y] = IF y = x THEN n ELSE IF y \in ToSet(kept) THEN m[y] ELSE 0
  BY DEF Stored
<1>3. n # 0
  BY MaxGenerationAssumption DEF Generations
<1>4. ToSet(kept) = {y \in D : Stored(m, kept, x, n)[y] # 0}
  <2> HIDE DEF Stored
  <2> QED
    BY <1>1, <1>2, <1>3
<1> QED
  BY <1>1, <1>4

\* The registries begin consistent.
LEMMA RegistryStart == CoordinatorInit => RegistryInv
<1> SUFFICES ASSUME CoordinatorInit PROVE RegistryInv
  OBVIOUS
<1>1. CoordinatorTypeOK
  BY MaxGenerationAssumption DEF CoordinatorInit, CoordinatorTypeOK, Generations
<1>2. IsInjective(<<>>) /\ ToSet(<<>>) = {} /\ Len(<<>>) = 0 /\ <<>> = KeepNewest(<<>>, MaxSessions)
  BY MaxSessionsAssumption DEF IsInjective, ToSet, KeepNewest
<1>3. RegistryConsistent
  BY <1>2, MaxSessionsAssumption DEF CoordinatorInit, RegistryConsistent
<1> QED
  BY <1>1, <1>2, <1>3 DEF CoordinatorInit, RegistryInv, RecentSessionsKept

\* Whatever is announced, trimmed or cleared, both registries stay consistent.
LEMMA RegistryStep == RegistryInv /\ [CoordinatorNext]_coordinatorVars => RegistryInv'
<1> SUFFICES ASSUME RegistryInv, [CoordinatorNext]_coordinatorVars PROVE RegistryInv'
  OBVIOUS
<1>1. ASSUME NEW s \in Sessions, NEW g \in Generations, Register(s, g) PROVE RegistryInv'
  <2>1. latest' \in [Sessions -> Generations]
    BY <1>1, StoredNumbers DEF Register, RegistryInv, CoordinatorTypeOK
  <2>2. /\ latestOrder' \in Seq(Sessions) /\ IsInjective(latestOrder')
        /\ Len(latestOrder') <= MaxSessions
        /\ ToSet(latestOrder') = {y \in Sessions : Stored(latest, latestOrder', s, g)[y] # 0}
    BY <1>1, StoredConsistently
       DEF Register, RegistryInv, CoordinatorTypeOK, RegistryConsistent
  <2>3. announced' \in Seq(Sessions) /\ IsInjective(announced')
    BY <1>1, MoveToEndFacts DEF Register, RegistryInv, CoordinatorTypeOK
  <2>4. latestOrder' = KeepNewest(announced', MaxSessions)
    BY <1>1, MaxSessionsAssumption, TrimmedEarlier
       DEF Register, RegistryInv, CoordinatorTypeOK, RecentSessionsKept
  <2>5. /\ latest' = Stored(latest, latestOrder', s, g)
        /\ selections' = selections /\ selectionsOrder' = selectionsOrder
    BY <1>1 DEF Register
  <2> QED
    BY <2>1, <2>2, <2>3, <2>4, <2>5
       DEF RegistryInv, CoordinatorTypeOK, RegistryConsistent, RecentSessionsKept
<1>2. ASSUME NEW c \in Clients, NEW e \in Generations, RegisterSelection(c, e) PROVE RegistryInv'
  <2>1. selections' \in [Clients -> Generations]
    BY <1>2, StoredNumbers DEF RegisterSelection, RegistryInv, CoordinatorTypeOK
  <2>2. /\ selectionsOrder' \in Seq(Clients) /\ IsInjective(selectionsOrder')
        /\ Len(selectionsOrder') <= MaxSessions
        /\ ToSet(selectionsOrder') =
             {y \in Clients : Stored(selections, selectionsOrder', c, e)[y] # 0}
    <3>1. /\ selections \in [Clients -> Generations] /\ selectionsOrder \in Seq(Clients)
          /\ IsInjective(selectionsOrder)
          /\ ToSet(selectionsOrder) = {y \in Clients : selections[y] # 0}
      BY DEF RegistryInv, CoordinatorTypeOK, RegistryConsistent
    <3>2. e > 0 /\ selectionsOrder' = KeepNewest(MoveToEnd(selectionsOrder, c), MaxSessions)
      BY <1>2 DEF RegisterSelection
    <3> QED
      BY <3>1, <3>2, StoredConsistently
  <2>3. /\ selections' = Stored(selections, selectionsOrder', c, e)
        /\ latest' = latest /\ latestOrder' = latestOrder /\ announced' = announced
    BY <1>2 DEF RegisterSelection
  <2> QED
    BY <2>1, <2>2, <2>3
       DEF RegistryInv, CoordinatorTypeOK, RegistryConsistent, RecentSessionsKept
<1>3. CASE Clear
  <2>1. CoordinatorTypeOK'
    BY <1>3, MaxGenerationAssumption DEF Clear, CoordinatorTypeOK, Generations
  <2>2. IsInjective(<<>>) /\ ToSet(<<>>) = {} /\ Len(<<>>) = 0 /\ <<>> = KeepNewest(<<>>, MaxSessions)
    BY MaxSessionsAssumption DEF IsInjective, ToSet, KeepNewest
  <2>3. RegistryConsistent'
    BY <1>3, <2>2, MaxSessionsAssumption DEF Clear, RegistryConsistent
  <2> QED
    BY <1>3, <2>1, <2>2, <2>3 DEF Clear, RegistryInv, RecentSessionsKept
<1>4. CASE UNCHANGED coordinatorVars
  BY <1>4 DEF coordinatorVars, RegistryInv, CoordinatorTypeOK, RegistryConsistent,
              RecentSessionsKept
<1> QED
  BY <1>1, <1>2, <1>3, <1>4 DEF CoordinatorNext

\* Whatever is announced, trimmed or cleared, both registries stay consistent,
\* and the sessions on record are the MaxSessions that announced last.
THEOREM RegistryInvariant == CoordinatorSpec => []RegistryInv
<1> QED
  BY RegistryStart, RegistryStep, PTL DEF CoordinatorSpec

\* What Stored keeps of a map of numbers when the new one is not lower.
LEMMA StoredMonotone ==
    ASSUME NEW D, NEW m \in [D -> Nat], NEW kept,
           NEW x \in D, NEW n \in Nat, n >= m[x]
    PROVE  \A y \in D : Stored(m, kept, x, n)[y] # 0 => Stored(m, kept, x, n)[y] >= m[y]
<1> SUFFICES ASSUME NEW y \in D, Stored(m, kept, x, n)[y] # 0
             PROVE  Stored(m, kept, x, n)[y] >= m[y]
  OBVIOUS
<1>1. Stored(m, kept, x, n)[y] = IF y = x THEN n ELSE IF y \in ToSet(kept) THEN m[y] ELSE 0
  BY DEF Stored
<1>2. m[y] \in Nat
  OBVIOUS
<1> QED
  BY <1>1, <1>2

\* Whatever sessions and clients announce, in whatever order, and however the
\* registries are trimmed or cleared, an obsolete generation or selection never
\* becomes current again (register and register_selection refuse it).
THEOREM NothingRevived == CoordinatorSpec => NeverRevived
<1>1. RegistryInv /\ [CoordinatorNext]_coordinatorVars => [NoneRevived]_coordinatorVars
  <2> SUFFICES ASSUME RegistryInv, CoordinatorNext PROVE NoneRevived
    OBVIOUS
  <2>0. latest \in [Sessions -> Nat] /\ selections \in [Clients -> Nat]
    BY MaxGenerationAssumption DEF RegistryInv, CoordinatorTypeOK, Generations
  <2>1. ASSUME NEW s \in Sessions, NEW g \in Generations, Register(s, g) PROVE NoneRevived
    <3>1. /\ g \in Nat /\ g >= latest[s]
          /\ latest' = Stored(latest, latestOrder', s, g)
          /\ selections' = selections
      BY <2>1, MaxGenerationAssumption DEF Register, Generations
    <3>2. \A z \in Sessions : latest'[z] # 0 => latest'[z] >= latest[z]
      BY <2>0, <3>1, StoredMonotone
    <3> QED
      BY <2>0, <3>1, <3>2 DEF NoneRevived
  <2>2. ASSUME NEW c \in Clients, NEW e \in Generations, RegisterSelection(c, e) PROVE NoneRevived
    <3>1. /\ e \in Nat /\ e >= selections[c]
          /\ selections' = Stored(selections, selectionsOrder', c, e)
          /\ latest' = latest
      BY <2>2, MaxGenerationAssumption DEF RegisterSelection, Generations
    <3>2. \A z \in Clients : selections'[z] # 0 => selections'[z] >= selections[z]
      BY <2>0, <3>1, StoredMonotone
    <3> QED
      BY <2>0, <3>1, <3>2 DEF NoneRevived
  <2>3. CASE Clear
    BY <2>3 DEF Clear, NoneRevived
  <2> QED
    BY <2>1, <2>2, <2>3 DEF CoordinatorNext
<1> QED
  BY <1>1, RegistryInvariant, PTL DEF NeverRevived, CoordinatorSpec
=============================================================================
