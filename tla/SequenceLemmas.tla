--------------------------- MODULE SequenceLemmas ---------------------------
(***************************************************************************)
(* Facts that several proofs cite: about least elements and remainders,    *)
(* about sequences: what Min, InsertAt, RemoveAt, Front and SubSeq return, *)
(* and about folds over sequences.                                         *)
(***************************************************************************)
EXTENDS Integers, Sequences, SequencesExt, FiniteSetTheorems,
        SequenceTheorems, TLAPS

\* A non-empty set of natural numbers has a least element.  (Initial intervals
\* are finite sets, and strict inclusion of finite sets is well-founded.)
LEMMA LeastExists ==
  ASSUME NEW S \in SUBSET Nat, S # {}
  PROVE  \E x \in S : \A y \in S : x <= y
<1> DEFINE T == {0 .. n : n \in S}
<1>1. T \subseteq FiniteSubsetsOf(Nat)
  <2> SUFFICES ASSUME NEW n \in S PROVE 0 .. n \in FiniteSubsetsOf(Nat)
    OBVIOUS
  <2>1. 0 \in Int /\ n \in Int
    OBVIOUS
  <2>2. IsFiniteSet(0 .. n)
    BY <2>1, FS_Interval
  <2>3. 0 .. n \in SUBSET Nat
    OBVIOUS
  <2> QED BY <2>2, <2>3 DEF FiniteSubsetsOf
<1>2. T # {}
  OBVIOUS
<1> HIDE DEF T
<1>3. PICK A \in T : \A B \in T : ~ (<<B, A>> \in StrictSubsetOrdering(Nat))
  BY <1>1, <1>2, WFMin, FS_StrictSubsetOrderingWellFounded
<1> USE DEF T
<1>4. PICK x \in S : A = 0 .. x
  OBVIOUS
<1>5. ASSUME NEW y \in S, y < x PROVE FALSE
  <2>1. 0 .. y \in T /\ 0 .. y \subseteq 0 .. x /\ x \in 0 .. x /\ x \notin 0 .. y
    BY <1>5
  <2>2. 0 .. y # 0 .. x
    BY <2>1
  <2>3. <<0 .. y, 0 .. x>> \in StrictSubsetOrdering(Nat)
    BY <2>1, <2>2 DEF StrictSubsetOrdering
  <2> QED BY <2>3, <2>1, <1>4, <1>3
<1> QED BY <1>5

\* Min returns the least element.
LEMMA MinIsLeast ==
  ASSUME NEW S \in SUBSET Nat, S # {}
  PROVE  Min(S) \in S /\ \A y \in S : Min(S) <= y
BY LeastExists DEF Min

\* The first n elements of a sequence.
LEMMA PrefixElements ==
  ASSUME NEW S, NEW s \in Seq(S), NEW n \in 0 .. Len(s)
  PROVE  /\ SubSeq(s, 1, n) \in Seq(S)
         /\ Len(SubSeq(s, 1, n)) = n
         /\ \A j \in 1 .. n : SubSeq(s, 1, n)[j] = s[j]
<1>1. 1 \in Int /\ n \in Int /\ \A j \in 1 .. n : s[j] \in S
  BY ElementOfSeq
<1> QED BY <1>1, SubSeqProperties

\* The elements of a sequence from the i-th on.
LEMMA SuffixElements ==
  ASSUME NEW S, NEW s \in Seq(S), NEW i \in 1 .. Len(s) + 1
  PROVE  /\ SubSeq(s, i, Len(s)) \in Seq(S)
         /\ Len(SubSeq(s, i, Len(s))) = Len(s) - i + 1
         /\ \A j \in 1 .. Len(s) - i + 1 : SubSeq(s, i, Len(s))[j] = s[i + j - 1]
<1>1. i \in Int /\ Len(s) \in Int /\ \A j \in i .. Len(s) : s[j] \in S
  BY ElementOfSeq
<1> QED BY <1>1, SubSeqProperties

\* InsertAt puts one element in and moves those from the i-th on.
LEMMA InsertAtElements ==
  ASSUME NEW S, NEW s \in Seq(S), NEW i \in 1 .. Len(s) + 1, NEW e \in S
  PROVE  /\ InsertAt(s, i, e) \in Seq(S)
         /\ Len(InsertAt(s, i, e)) = Len(s) + 1
         /\ \A j \in 1 .. Len(s) + 1 :
              InsertAt(s, i, e)[j] = IF j < i THEN s[j] ELSE IF j = i THEN e ELSE s[j - 1]
<1> DEFINE a == SubSeq(s, 1, i - 1)
           b == SubSeq(s, i, Len(s))
<1>1. a \in Seq(S) /\ Len(a) = i - 1 /\ \A j \in 1 .. i - 1 : a[j] = s[j]
  BY i - 1 \in 0 .. Len(s), PrefixElements
<1>2. b \in Seq(S) /\ Len(b) = Len(s) - i + 1
      /\ \A j \in 1 .. Len(s) - i + 1 : b[j] = s[i + j - 1]
  BY SuffixElements
<1>3. InsertAt(s, i, e) = (a \o <<e>>) \o b
  BY DEF InsertAt
<1> HIDE DEF a, b
<1>4. <<e>> \in Seq(S) /\ Len(<<e>>) = 1 /\ <<e>>[1] = e
  OBVIOUS
<1>5. /\ a \o <<e>> \in Seq(S) /\ Len(a \o <<e>>) = i
      /\ \A j \in 1 .. i : (a \o <<e>>)[j] = IF j < i THEN s[j] ELSE e
  BY <1>1, <1>4, ConcatProperties
<1> QED BY <1>2, <1>3, <1>5, ConcatProperties

\* RemoveAt takes the i-th element out and closes the gap.
LEMMA RemoveAtElements ==
  ASSUME NEW S, NEW s \in Seq(S), NEW i \in 1 .. Len(s)
  PROVE  /\ RemoveAt(s, i) \in Seq(S)
         /\ Len(RemoveAt(s, i)) = Len(s) - 1
         /\ \A j \in 1 .. Len(s) - 1 :
              RemoveAt(s, i)[j] = IF j < i THEN s[j] ELSE s[j + 1]
<1> DEFINE a == SubSeq(s, 1, i - 1)
           b == SubSeq(s, i + 1, Len(s))
<1>1. a \in Seq(S) /\ Len(a) = i - 1 /\ \A j \in 1 .. i - 1 : a[j] = s[j]
  BY i - 1 \in 0 .. Len(s), PrefixElements
<1>2. b \in Seq(S) /\ Len(b) = Len(s) - i
      /\ \A j \in 1 .. Len(s) - i : b[j] = s[i + j]
  BY i + 1 \in 1 .. Len(s) + 1, SuffixElements
<1>3. RemoveAt(s, i) = a \o b
  BY DEF RemoveAt
<1> HIDE DEF a, b
<1>4. /\ a \o b \in Seq(S) /\ Len(a \o b) = Len(a) + Len(b)
      /\ \A j \in 1 .. Len(a) + Len(b) :
           (a \o b)[j] = IF j <= Len(a) THEN a[j] ELSE b[j - Len(a)]
  BY <1>1, <1>2, ConcatProperties
<1>5. Len(a) + Len(b) = Len(s) - 1
  BY <1>1, <1>2
<1>6. ASSUME NEW j \in 1 .. Len(s) - 1
      PROVE  RemoveAt(s, i)[j] = IF j < i THEN s[j] ELSE s[j + 1]
  <2>1. CASE j < i
    BY <2>1, <1>1, <1>2, <1>3, <1>4
  <2>2. CASE ~ (j < i)
    <3>1. j - Len(a) \in 1 .. Len(s) - i /\ i + (j - Len(a)) = j + 1
      BY <2>2, <1>1
    <3>2. b[j - Len(a)] = s[j + 1]
      BY <3>1, <1>2
    <3>3. j \in 1 .. Len(a) + Len(b) /\ ~ (j <= Len(a))
      BY <2>2, <1>1, <1>5
    <3> QED BY <2>2, <3>2, <3>3, <1>3, <1>4
  <2> QED BY <2>1, <2>2
<1> QED BY <1>3, <1>4, <1>5, <1>6

\* Front drops the last element of a sequence.
LEMMA FrontElements ==
  ASSUME NEW S, NEW s \in Seq(S), s # <<>>
  PROVE  /\ Len(s) \in 1 .. Len(s)
         /\ Last(s) = s[Len(s)] /\ Last(s) \in S
         /\ Front(s) \in Seq(S)
         /\ Len(Front(s)) = Len(s) - 1
         /\ \A j \in 1 .. Len(s) - 1 : Front(s)[j] = s[j]
<1>1. Len(s) \in Nat \ {0}
  BY EmptySeq
<1>2. Len(s) - 1 \in 0 .. Len(s)
  BY <1>1
<1>3. s[Len(s)] \in S
  BY <1>1, ElementOfSeq
<1>4. Front(s) = SubSeq(s, 1, Len(s) - 1) /\ Last(s) = s[Len(s)]
  BY DEF Front, Last
<1>5. /\ SubSeq(s, 1, Len(s) - 1) \in Seq(S)
      /\ Len(SubSeq(s, 1, Len(s) - 1)) = Len(s) - 1
      /\ \A j \in 1 .. Len(s) - 1 : SubSeq(s, 1, Len(s) - 1)[j] = s[j]
  BY <1>2, PrefixElements
<1> QED BY <1>1, <1>3, <1>4, <1>5

\* What is left of a sequence after its first m elements.
LEMMA RestElements ==
  ASSUME NEW S, NEW s \in Seq(S), NEW m \in 0 .. Len(s)
  PROVE  /\ SubSeq(s, m + 1, Len(s)) \in Seq(S)
         /\ Len(SubSeq(s, m + 1, Len(s))) = Len(s) - m
         /\ \A j \in 1 .. Len(s) - m : SubSeq(s, m + 1, Len(s))[j] = s[m + j]
<1>1. m + 1 \in Int /\ Len(s) \in Int /\ \A j \in m + 1 .. Len(s) : s[j] \in S
  BY ElementOfSeq
<1> QED BY <1>1, SubSeqProperties

LEMMA RestAppended ==
  ASSUME NEW S, NEW s \in Seq(S), NEW e \in S, NEW m \in 0 .. Len(s)
  PROVE  SubSeq(Append(s, e), m + 1, Len(Append(s, e))) = Append(SubSeq(s, m + 1, Len(s)), e)
<1> DEFINE t == Append(s, e)
           a == SubSeq(t, m + 1, Len(t))
           b == Append(SubSeq(s, m + 1, Len(s)), e)
<1>1. /\ t \in Seq(S) /\ Len(t) = Len(s) + 1 /\ t[Len(s) + 1] = e
      /\ \A j \in 1 .. Len(s) : t[j] = s[j]
  BY AppendProperties
<1> HIDE DEF t
<1>2. /\ a \in Seq(S) /\ Len(a) = Len(s) + 1 - m
      /\ \A j \in 1 .. Len(s) + 1 - m : a[j] = t[m + j]
  BY <1>1, RestElements
<1>3. /\ SubSeq(s, m + 1, Len(s)) \in Seq(S) /\ Len(SubSeq(s, m + 1, Len(s))) = Len(s) - m
      /\ \A j \in 1 .. Len(s) - m : SubSeq(s, m + 1, Len(s))[j] = s[m + j]
  BY RestElements
<1>4. /\ b \in Seq(S) /\ Len(b) = Len(s) - m + 1 /\ b[Len(s) - m + 1] = e
      /\ \A j \in 1 .. Len(s) - m : b[j] = s[m + j]
  BY <1>3, AppendProperties
<1> HIDE DEF a, b
<1>5. ASSUME NEW j \in 1 .. Len(a) PROVE a[j] = b[j]
  <2>1. CASE j = Len(s) - m + 1
    BY SMTT(25), <1>1, <1>2, <1>4, <2>1
  <2>2. CASE j # Len(s) - m + 1
    <3>1. j \in 1 .. Len(s) - m /\ m + j \in 1 .. Len(s) /\ j \in 1 .. Len(s) + 1 - m
      <4>1. Len(s) \in Nat /\ m \in Nat /\ m <= Len(s)
        BY LenProperties
      <4>2. j \in Nat /\ j >= 1 /\ j <= Len(s) + 1 - m
        BY <1>2, <4>1
      <4> QED BY <2>2, <4>1, <4>2
    <3> QED BY <1>1, <1>2, <1>4, <3>1
  <2> QED BY <2>1, <2>2
<1>6. a = b
  BY <1>2, <1>4, <1>5, SeqEqual
<1> QED BY <1>6 DEF a, b, t

LEMMA RestTail ==
  ASSUME NEW S, NEW s \in Seq(S), NEW m \in 0 .. Len(s) - 1
  PROVE  /\ SubSeq(s, m + 1, Len(s)) # <<>>
         /\ Tail(SubSeq(s, m + 1, Len(s))) = SubSeq(s, m + 2, Len(s))
<1>1. m + 1 \in 1 .. Len(s) /\ Len(s) \in m + 1 .. Len(s) /\ (m + 1) + 1 = m + 2
  BY LenProperties
<1>2. Tail(SubSeq(s, m + 1, Len(s))) = SubSeq(s, (m + 1) + 1, Len(s))
  BY <1>1, HeadTailOfSubSeq
<1>3. SubSeq(s, m + 1, Len(s)) # <<>>
  <2>1. SUFFICES ASSUME SubSeq(s, m + 1, Len(s)) = <<>> PROVE FALSE
    OBVIOUS
  <2>2. Len(s) \in Nat /\ m \in Nat /\ m < Len(s) /\ m \in 0 .. Len(s)
    BY LenProperties
  <2>3. Len(SubSeq(s, m + 1, Len(s))) = Len(s) - m
    BY <2>2, RestElements
  <2>4. Len(<<>>) = Len(s) - m
    BY <2>1, <2>3
  <2> QED BY <2>2, <2>4
<1> QED BY <1>1, <1>2, <1>3
-----------------------------------------------------------------------------
\* Remainders.
LEMMA ModRange ==
  ASSUME NEW N \in Nat \ {0}, NEW i \in Nat
  PROVE  i % N \in 0 .. N - 1
OBVIOUS

LEMMA ModSmall ==
  ASSUME NEW N \in Nat \ {0}, NEW i \in Nat, i < N
  PROVE  i % N = i
OBVIOUS

\* A multiple of N is not strictly between 0 and N.
LEMMA NoMultiple ==
  ASSUME NEW N \in Nat \ {0}, NEW k \in Int, 0 < N * k, N * k < N
  PROVE  FALSE
<1>1. CASE k <= 0
  BY <1>1
<1>2. CASE k >= 1
  BY <1>2
<1> QED BY <1>1, <1>2

\* Numbers less than N apart have different remainders.
LEMMA ModApart ==
  ASSUME NEW N \in Nat \ {0}, NEW i \in Nat, NEW j \in Nat, i < j, j - i < N
  PROVE  i % N # j % N
<1> SUFFICES ASSUME i % N = j % N PROVE FALSE
  OBVIOUS
<1>1. i = N * (i \div N) + (i % N) /\ i \div N \in Nat
  OBVIOUS
<1>2. j = N * (j \div N) + (j % N) /\ j \div N \in Nat
  OBVIOUS
<1> DEFINE a == i \div N
           b == j \div N
           r == i % N
<1>3. r \in Nat /\ i = N * a + r /\ j = N * b + r /\ a \in Nat /\ b \in Nat
  BY <1>1, <1>2, ModRange
<1> HIDE DEF a, b, r
<1>4. j - i = N * (b - a)
  BY <1>3
<1>5. b - a \in Int /\ 0 < N * (b - a) /\ N * (b - a) < N
  BY <1>3, <1>4
<1> QED BY <1>5, NoMultiple

LEMMA ModNext ==
  ASSUME NEW N \in Nat \ {0}, NEW i \in Nat
  PROVE  (i + N) % N = i % N
<1>1. i = N * (i \div N) + (i % N) /\ i \div N \in Nat
  OBVIOUS
<1>2. (i + N) \div N = i \div N + 1
  OBVIOUS
<1>3. i + N = N * ((i + N) \div N) + ((i + N) % N)
  OBVIOUS
<1> DEFINE a == i \div N
           r == i % N
           s == (i + N) % N
<1>4. a \in Nat /\ r \in Int /\ s \in Int /\ i = N * a + r /\ i + N = N * (a + 1) + s
  BY <1>1, <1>2, <1>3
<1> HIDE DEF a, r, s
<1>5. N * (a + 1) = N * a + N
  BY <1>4
<1>6. s = r
  BY <1>4, <1>5
<1> QED BY <1>6 DEF r, s

\* A sequence of distinct elements of a finite set is no longer than the set.
LEMMA DistinctLength ==
  ASSUME NEW S, IsFiniteSet(S), NEW s \in Seq(S),
         \A i, j \in 1 .. Len(s) : s[i] = s[j] => i = j
  PROVE  Len(s) <= Cardinality(S)
<1>1. s \in Injection(1 .. Len(s), S)
  BY LenProperties DEF Injection, IsInjective
<1>2. Cardinality(1 .. Len(s)) <= Cardinality(S)
  BY <1>1, FS_Injection
<1> QED BY SMTT(25), <1>2, FS_Interval, LenProperties

\* The largest number of a non-empty set.
LEMMA MaxIsGreatest ==
  ASSUME NEW n \in Nat, NEW S \in SUBSET (1 .. n), S # {}
  PROVE  Max(S) \in S /\ \A y \in S : Max(S) >= y
<1> DEFINE T == {n - y : y \in S}
<1>0. \A y \in S : y \in Int /\ n - y \in Nat
  OBVIOUS
<1>1. T \in SUBSET Nat /\ T # {}
  BY <1>0
<1>2. PICK z \in T : \A y \in T : z <= y
  BY <1>1, LeastExists
<1>3. PICK x \in S : z = n - x
  BY <1>2
<1>4. \A y \in S : n - y \in T
  OBVIOUS
<1> HIDE DEF T
<1>5. ASSUME NEW y \in S PROVE x >= y
  <2>1. n - x <= n - y
    BY <1>2, <1>3, <1>4
  <2> QED BY <2>1, <1>0
<1> QED BY <1>3, <1>5 DEF Max

\* g has a value for each set of the first n places of a sequence s: that of all but its
\* last place taken one step further.
FoldOf(W, f, b, s, n, g) ==
  /\ g \in [SUBSET (1 .. n) -> W]
  /\ \A t \in SUBSET (1 .. n) : g[t] = IF t = {} THEN b ELSE f[g[t \ {Max(t)}], s[Max(t)]]

LEMMA FoldExists ==
  ASSUME NEW W, NEW E, NEW f \in [W \X E -> W], NEW b \in W, NEW n \in Nat, NEW s \in [1 .. n -> E]
  PROVE  \E g : FoldOf(W, f, b, s, n, g)
<1> DEFINE Bad == {k \in 0 .. n : ~ \E g : FoldOf(W, f, b, s, k, g)}
<1>1. SUFFICES Bad = {}
  <2>1. n \in 0 .. n /\ n \notin Bad
    <3>1. n \in 0 .. n
      OBVIOUS
    <3> HIDE DEF Bad
    <3> QED BY <3>1, <1>1
  <2>2. \E g : FoldOf(W, f, b, s, n, g)
    BY <2>1
  <2> QED BY <2>2
<1>2. SUFFICES ASSUME Bad # {} PROVE FALSE
  OBVIOUS
<1>b. Bad \in SUBSET Nat /\ Bad \subseteq 0 .. n
  OBVIOUS
<1>3. PICK k \in Bad : \A j \in Bad : k <= j
  BY <1>2, <1>b, LeastExists
<1>4. k \in 0 .. n /\ ~ \E g : FoldOf(W, f, b, s, k, g)
  BY <1>3
<1>5. CASE k = 0
  <2> DEFINE g == [t \in SUBSET (1 .. 0) |-> b]
  <2>1. ASSUME NEW t \in SUBSET (1 .. 0) PROVE t = {} /\ g[t] = b
    <3>1. 1 .. 0 = {}
      OBVIOUS
    <3> QED BY <3>1
  <2>2. g \in [SUBSET (1 .. 0) -> W]
    OBVIOUS
  <2> HIDE DEF g
  <2>3. FoldOf(W, f, b, s, 0, g)
    BY <2>1, <2>2 DEF FoldOf
  <2> QED BY <2>3, <1>4, <1>5
<1>6. CASE k # 0
  <2>0. k \in 1 .. n /\ k - 1 \in 0 .. n /\ k - 1 \notin Bad
    <3>1. k \in 1 .. n /\ k - 1 \in 0 .. n
      BY <1>4, <1>6
    <3>2. ~ k <= k - 1
      BY <3>1
    <3> HIDE DEF Bad
    <3> QED BY <3>1, <3>2, <1>3
  <2>g. PICK g : FoldOf(W, f, b, s, k - 1, g)
    BY <2>0
  <2>1. /\ g \in [SUBSET (1 .. k - 1) -> W]
        /\ \A t \in SUBSET (1 .. k - 1) :
             g[t] = IF t = {} THEN b ELSE f[g[t \ {Max(t)}], s[Max(t)]]
    BY <2>g DEF FoldOf
  <2> DEFINE h == [t \in SUBSET (1 .. k) |-> IF k \in t THEN f[g[t \ {k}], s[k]] ELSE g[t]]
  <2>2. ASSUME NEW t \in SUBSET (1 .. k)
        PROVE  /\ k \in t => t \ {k} \in SUBSET (1 .. k - 1)
               /\ k \notin t => t \in SUBSET (1 .. k - 1)
    <3>1. \A i \in t : i \in 1 .. k /\ (i # k => i \in 1 .. k - 1)
      BY <2>0
    <3> QED BY <3>1
  <2>3. ASSUME NEW t \in SUBSET (1 .. k) PROVE h[t] \in W
    <3>1. CASE k \in t
      <4>1. g[t \ {k}] \in W /\ s[k] \in E
        BY <3>1, <2>0, <2>1, <2>2
      <4>2. h[t] = f[g[t \ {k}], s[k]]
        BY <3>1
      <4> QED BY <4>1, <4>2
    <3>2. CASE k \notin t
      BY <3>2, <2>1, <2>2
    <3> QED BY <3>1, <3>2
  <2>4. ASSUME NEW t \in SUBSET (1 .. k)
        PROVE  h[t] = IF t = {} THEN b ELSE f[h[t \ {Max(t)}], s[Max(t)]]
    <3>1. CASE k \in t
      <4>1. t # {} /\ Max(t) = k
        <5>0. k \in Nat /\ t # {}
          BY <3>1, <2>0
        <5>1. Max(t) \in t /\ Max(t) >= k
          BY <3>1, <5>0, MaxIsGreatest
        <5>2. Max(t) \in 1 .. k
          BY <5>1
        <5> QED BY <5>0, <5>1, <5>2
      <4>2. t \ {k} \in SUBSET (1 .. k) /\ k \notin t \ {k}
        OBVIOUS
      <4>3. h[t \ {k}] = g[t \ {k}] /\ h[t] = f[g[t \ {k}], s[k]]
        BY <4>2, <3>1
      <4> QED BY <4>1, <4>3
    <3>2. CASE k \notin t
      <4>1. t \in SUBSET (1 .. k - 1) /\ h[t] = g[t]
        BY <3>2, <2>2
      <4>2. h[t \ {Max(t)}] = g[t \ {Max(t)}]
        BY <3>2
      <4>3. g[t] = IF t = {} THEN b ELSE f[g[t \ {Max(t)}], s[Max(t)]]
        BY <2>1, <4>1
      <4> QED BY <4>1, <4>2, <4>3
    <3> QED BY <3>1, <3>2
  <2>5. h \in [SUBSET (1 .. k) -> W]
    BY <2>3
  <2> HIDE DEF h
  <2>6. FoldOf(W, f, b, s, k, h)
    BY <2>4, <2>5 DEF FoldOf
  <2> QED BY <2>6, <1>4
<1> QED BY <1>5, <1>6

\* What holds of the first value of a fold and is kept by each step holds of the last.
LEMMA FoldEnds ==
  ASSUME NEW W, NEW n \in Nat, NEW g, g[{}] \in W,
         \A k \in 1 .. n : g[1 .. k - 1] \in W => g[1 .. k] \in W
  PROVE  g[1 .. n] \in W
<1> DEFINE Bad == {k \in 0 .. n : g[1 .. k] \notin W}
<1>1. SUFFICES ASSUME Bad # {} PROVE FALSE
  BY n \in 0 .. n
<1>2. PICK k \in Bad : \A j \in Bad : k <= j
  BY <1>1, LeastExists, Bad \in SUBSET Nat
<1>3. k # 0
  <2>1. 1 .. 0 = {}
    OBVIOUS
  <2> QED BY <2>1, <1>2
<1>4. k \in 1 .. n /\ k - 1 \in 0 .. n /\ k - 1 \notin Bad
  BY <1>2, <1>3
<1> QED BY <1>2, <1>4

\* The last place, and those before it.
LEMMA LastPlace ==
  ASSUME NEW n \in Nat, NEW k \in 1 .. n
  PROVE  /\ 1 .. k \in SUBSET (1 .. n) /\ 1 .. k # {}
         /\ Max(1 .. k) = k /\ (1 .. k) \ {k} = 1 .. k - 1
<1>1. Max(1 .. k) \in 1 .. k /\ Max(1 .. k) >= k
  BY MaxIsGreatest, k \in Nat, k \in 1 .. k
<1> QED BY <1>1
=============================================================================
