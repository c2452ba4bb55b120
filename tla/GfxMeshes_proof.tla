--------------------------- MODULE GfxMeshes_proof ---------------------------
(***************************************************************************)
(* Proofs about the mesh streamer, and the buffers it stages meshes in:    *)
(* for any keys, streams and sizes, its operations keep every mesh in      *)
(* space of its own, count what is free, and release no space that the GPU *)
(* may still read or write.                                                *)
(***************************************************************************)
EXTENDS GfxMeshes, SequenceLemmas

-----------------------------------------------------------------------------
(* Folds over sets                                                         *)

\* The value of a fold for each subset: c[t] is the element of t that is folded in last.
SetFoldOf(W, f, b, c, S, g) ==
  /\ g \in [SUBSET S -> W]
  /\ \A t \in SUBSET S : g[t] = IF t = {} THEN b ELSE f[c[t]][g[t \ {c[t]}]]

\* As far as subsets of up to k elements.
SetFoldUpto(W, f, b, c, S, k, g) ==
  /\ g \in [SUBSET S -> W]
  /\ \A t \in SUBSET S :
       Cardinality(t) <= k => g[t] = IF t = {} THEN b ELSE f[c[t]][g[t \ {c[t]}]]

LEMMA Smaller ==
  ASSUME NEW S, IsFiniteSet(S), NEW t \in SUBSET S, NEW x \in t
  PROVE  /\ t \ {x} \in SUBSET S /\ IsFiniteSet(t)
         /\ Cardinality(t) \in Nat /\ Cardinality(t \ {x}) \in Nat
         /\ Cardinality(t \ {x}) = Cardinality(t) - 1
         /\ Cardinality(t) <= Cardinality(S)
<1>1. IsFiniteSet(t) /\ Cardinality(t) <= Cardinality(S)
  BY FS_Subset
<1>2. IsFiniteSet(t \ {x}) /\ Cardinality(t \ {x}) = Cardinality(t) - 1
  BY <1>1, FS_RemoveElement
<1> QED BY <1>1, <1>2, FS_CardinalityType

LEMMA SetFoldExists ==
  ASSUME NEW S, IsFiniteSet(S), NEW W, NEW f \in [S -> [W -> W]], NEW b \in W,
         NEW c, \A t \in SUBSET S : t # {} => c[t] \in t
  PROVE  \E g : SetFoldOf(W, f, b, c, S, g)
<1> DEFINE Bad == {k \in Nat : ~ \E g : SetFoldUpto(W, f, b, c, S, k, g)}
<1>1. Bad = {}
  <2> SUFFICES ASSUME Bad # {} PROVE FALSE
    OBVIOUS
  <2>1. Bad \in SUBSET Nat
    OBVIOUS
  <2>2. PICK k \in Bad : \A j \in Bad : k <= j
    BY <2>1, LeastExists
  <2>3. k \in Nat /\ ~ \E g : SetFoldUpto(W, f, b, c, S, k, g)
    BY <2>2
  <2>4. CASE k = 0
    <3> DEFINE g == [t \in SUBSET S |-> b]
    <3>1. ASSUME NEW t \in SUBSET S, Cardinality(t) <= 0 PROVE t = {}
      <4>1. IsFiniteSet(t) /\ Cardinality(t) = 0
        BY <3>1, FS_Subset, FS_CardinalityType
      <4> QED BY <4>1, FS_EmptySet
    <3>2. SetFoldUpto(W, f, b, c, S, 0, g)
      BY <3>1 DEF SetFoldUpto
    <3> HIDE DEF g
    <3> QED BY <3>2, <2>3, <2>4
  <2>5. CASE k # 0
    <3>1. k - 1 \in Nat /\ k - 1 \notin Bad
      <4>1. k - 1 \in Nat /\ ~ (k <= k - 1)
        BY <2>3, <2>5
      <4> HIDE DEF Bad
      <4> QED BY <4>1, <2>2
    <3>2. PICK g : SetFoldUpto(W, f, b, c, S, k - 1, g)
      BY <3>1
    <3>3. g \in [SUBSET S -> W] /\ \A t \in SUBSET S : Cardinality(t) <= k - 1 => g[t] = (IF t = {} THEN b ELSE f[c[t]][g[t \ {c[t]}]])
      BY <3>2 DEF SetFoldUpto
    <3> DEFINE h == [t \in SUBSET S |-> (IF t = {} THEN b ELSE f[c[t]][g[t \ {c[t]}]])]
    <3>4. ASSUME NEW t \in SUBSET S, t # {}
          PROVE  c[t] \in t /\ t \ {c[t]} \in SUBSET S
                 /\ (Cardinality(t) <= k => Cardinality(t \ {c[t]}) <= k - 1)
      <4>1. c[t] \in t
        BY <3>4
      <4> DEFINE x == c[t]
      <4> HIDE DEF x
      <4>2. x \in t
        BY <4>1 DEF x
      <4>3. t \ {x} \in SUBSET S /\ Cardinality(t) \in Nat /\ Cardinality(t \ {x}) = Cardinality(t) - 1
        BY <4>2, Smaller
      <4> QED BY <4>1, <4>3, <2>3 DEF x
    <3>5. ASSUME NEW t \in SUBSET S PROVE h[t] \in W
      <4>1. CASE t = {}
        BY <4>1
      <4>2. CASE t # {}
        <5>1. c[t] \in S /\ g[t \ {c[t]}] \in W
          BY <4>2, <3>3, <3>4
        <5> QED BY <5>1, <4>2
      <4> QED BY <4>1, <4>2
    <3>6. h \in [SUBSET S -> W]
      BY <3>5
    <3>7. ASSUME NEW t \in SUBSET S, Cardinality(t) <= k PROVE h[t] = (IF t = {} THEN b ELSE f[c[t]][h[t \ {c[t]}]])
      <4>1. CASE t = {}
        BY <4>1
      <4>2. CASE t # {}
        <5>1. t \ {c[t]} \in SUBSET S /\ Cardinality(t \ {c[t]}) <= k - 1
          BY <4>2, <3>4, <3>7
        <5>2. h[t \ {c[t]}] = g[t \ {c[t]}]
          BY <5>1, <3>3
        <5> QED BY <5>2, <4>2
      <4> QED BY <4>1, <4>2
    <3> HIDE DEF h
    <3>8. SetFoldUpto(W, f, b, c, S, k, h)
      BY <3>6, <3>7 DEF SetFoldUpto
    <3> QED BY <3>8, <2>3
  <2> QED BY <2>4, <2>5
<1>2. Cardinality(S) \in Nat
  BY FS_CardinalityType
<1>3. PICK g : SetFoldUpto(W, f, b, c, S, Cardinality(S), g)
  BY <1>1, <1>2
<1>4. \A t \in SUBSET S : Cardinality(t) <= Cardinality(S)
  BY FS_Subset
<1>5. SetFoldOf(W, f, b, c, S, g)
  BY <1>3, <1>4 DEF SetFoldOf, SetFoldUpto
<1> QED BY <1>5

\* What holds of the first value of a fold over a set and is kept by each step holds of the last.
LEMMA SetFoldEnds ==
  ASSUME NEW S, IsFiniteSet(S), NEW W, NEW g, g[{}] \in W,
         \A t \in SUBSET S : t # {} => \E x \in t : g[t \ {x}] \in W => g[t] \in W
  PROVE  g[S] \in W
<1> DEFINE Bad == {Cardinality(t) : t \in {r \in SUBSET S : g[r] \notin W}}
<1> SUFFICES ASSUME g[S] \notin W PROVE FALSE
  OBVIOUS
<1>1. \A t \in SUBSET S : Cardinality(t) \in Nat
  BY FS_Subset, FS_CardinalityType
<1>2. Bad \in SUBSET Nat /\ Bad # {}
  BY <1>1
<1>3. PICK k \in Bad : \A j \in Bad : k <= j
  BY <1>2, LeastExists
<1>4. PICK t \in SUBSET S : g[t] \notin W /\ Cardinality(t) = k
  BY <1>3
<1>5. t # {}
  BY <1>4
<1>6. PICK x \in t : g[t \ {x}] \in W => g[t] \in W
  BY <1>4, <1>5
<1>7. t \ {x} \in SUBSET S /\ Cardinality(t \ {x}) = k - 1 /\ k \in Nat
  BY <1>4, Smaller
<1>8. k - 1 \in Bad
  BY <1>4, <1>6, <1>7
<1> HIDE DEF Bad
<1> QED BY <1>3, <1>7, <1>8

\* A fold over a set is known by the values of its subsets.
LEMMA SetFoldIs ==
  ASSUME NEW S, IsFiniteSet(S), NEW g, NEW h, g[{}] = h[{}],
         \A t \in SUBSET S : t # {} => \E x \in t : g[t \ {x}] = h[t \ {x}] => g[t] = h[t]
  PROVE  g[S] = h[S]
<1> DEFINE d == [t \in SUBSET S |-> g[t] = h[t]]
           W == {TRUE}
<1>1. \A t \in SUBSET S : d[t] \in W <=> g[t] = h[t]
  OBVIOUS
<1>2. \A t \in SUBSET S : \A x \in t : t \ {x} \in SUBSET S
  OBVIOUS
<1>3. {} \in SUBSET S /\ S \in SUBSET S
  OBVIOUS
<1> HIDE DEF d, W
<1>4. d[{}] \in W
  BY <1>1, <1>3
<1>5. \A t \in SUBSET S : t # {} => \E x \in t : d[t \ {x}] \in W => d[t] \in W
  BY <1>1, <1>2
<1>6. d[S] \in W
  BY <1>4, <1>5, SetFoldEnds
<1> QED BY <1>1, <1>3, <1>6

\* Stages of a fold over a sequence.
LEMMA FoldStages ==
  ASSUME NEW n \in Nat, NEW g, NEW P, g[{}] \in P[0],
         \A k \in 1 .. n : g[1 .. k - 1] \in P[k - 1] => g[1 .. k] \in P[k]
  PROVE  g[1 .. n] \in P[n]
<1> DEFINE Bad == {k \in 0 .. n : g[1 .. k] \notin P[k]}
<1>1. SUFFICES ASSUME Bad # {} PROVE FALSE
  BY n \in 0 .. n
<1>2. PICK k \in Bad : \A j \in Bad : k <= j
  BY <1>1, LeastExists, Bad \in SUBSET Nat
<1>3. k # 0
  <2>1. 1 .. 0 = {}
    OBVIOUS
  <2> QED BY <2>1, <1>2
<1>4. k \in 1 .. n /\ k - 1 \in 0 .. n /\ k - 1 \notin Bad
  BY <1>2, <1>3
<1> QED BY <1>2, <1>4

\* A fold over the places of a sequence, the last one last.
PlaceFoldOf(W, f, b, n, g) ==
  /\ g \in [SUBSET (1 .. n) -> W]
  /\ \A t \in SUBSET (1 .. n) : g[t] = IF t = {} THEN b ELSE f[Max(t)][g[t \ {Max(t)}]]

LEMMA PlaceFoldExists ==
  ASSUME NEW n \in Nat, NEW W, NEW f \in [1 .. n -> [W -> W]], NEW b \in W
  PROVE  \E g : PlaceFoldOf(W, f, b, n, g)
<1> DEFINE S == 1 .. n
           c == [t \in SUBSET S |-> Max(t)]
<1>1. IsFiniteSet(S)
  BY FS_Interval
<1>2. \A t \in SUBSET S : c[t] = Max(t)
  OBVIOUS
<1>3. \A t \in SUBSET S : t # {} => c[t] \in t
  BY <1>2, MaxIsGreatest
<1> HIDE DEF c
<1>4. PICK g : SetFoldOf(W, f, b, c, S, g)
  <2> HIDE DEF S
  <2>1. f \in [S -> [W -> W]]
    BY DEF S
  <2> QED BY <1>1, <1>3, <2>1, SetFoldExists
<1>5. PlaceFoldOf(W, f, b, n, g)
  BY <1>2, <1>4 DEF SetFoldOf, PlaceFoldOf
<1> QED BY <1>5
-----------------------------------------------------------------------------
(* The elements of a sequence that are kept                                *)

\* t holds, in their order, the elements of the first k of s that are in S: t[i] is s[m[i]].
KeptTo(s, S, k, t, m) ==
  /\ m \in [1 .. Len(t) -> 1 .. k]
  /\ \A i, j \in 1 .. Len(t) : i < j => m[i] < m[j]
  /\ \A i \in 1 .. Len(t) : t[i] = s[m[i]] /\ t[i] \in S
  /\ \A j \in 1 .. k : s[j] \in S => \E i \in 1 .. Len(t) : m[i] = j

LEMMA KeptNext ==
  ASSUME NEW X, NEW s \in Seq(X), NEW S, NEW k \in 1 .. Len(s), NEW t \in Seq(X),
         \E m : KeptTo(s, S, k - 1, t, m)
  PROVE  LET u == IF s[k] \in S THEN Append(t, s[k]) ELSE t
         IN  u \in Seq(X) /\ \E m : KeptTo(s, S, k, u, m)
<1>0. Len(t) \in Nat /\ k \in Nat /\ s[k] \in X
  OBVIOUS
<1>m. PICK m : KeptTo(s, S, k - 1, t, m)
  OBVIOUS
<1>1. /\ m \in [1 .. Len(t) -> 1 .. k - 1]
      /\ \A i, j \in 1 .. Len(t) : i < j => m[i] < m[j]
      /\ \A i \in 1 .. Len(t) : t[i] = s[m[i]] /\ t[i] \in S
      /\ \A j \in 1 .. k - 1 : s[j] \in S => \E i \in 1 .. Len(t) : m[i] = j
  BY <1>m DEF KeptTo
<1>2. \A i \in 1 .. Len(t) : m[i] \in 1 .. k /\ m[i] < k
  BY <1>0, <1>1
<1>3. CASE s[k] \notin S
  <2>1. m \in [1 .. Len(t) -> 1 .. k]
    BY <1>1, <1>2
  <2>2. \A j \in 1 .. k : s[j] \in S => \E i \in 1 .. Len(t) : m[i] = j
    BY <1>1, <1>3, <1>0
  <2>3. KeptTo(s, S, k, t, m)
    BY <1>1, <2>1, <2>2 DEF KeptTo
  <2> QED BY <2>3, <1>3
<1>4. CASE s[k] \in S
  <2> DEFINE u == Append(t, s[k])
             l == Len(t)
             h == [i \in 1 .. l + 1 |-> IF i = l + 1 THEN k ELSE m[i]]
  <2>1. u \in Seq(X) /\ Len(u) = l + 1 /\ u[l + 1] = s[k] /\ \A i \in 1 .. l : u[i] = t[i]
    BY <1>0, AppendProperties
  <2> HIDE DEF u
  <2>2. h[l + 1] = k /\ \A i \in 1 .. l : h[i] = m[i]
    BY <1>0
  <2>3. h \in [1 .. l + 1 -> 1 .. k]
    BY <1>0, <1>2
  <2> HIDE DEF h
  <2>4. \A i \in 1 .. l + 1 : i = l + 1 \/ i \in 1 .. l
    BY <1>0
  <2>5. \A i, j \in 1 .. l + 1 : i < j => h[i] < h[j]
    BY <1>0, <1>1, <1>2, <2>2, <2>4
  <2>6. \A i \in 1 .. l + 1 : u[i] = s[h[i]] /\ u[i] \in S
    BY <1>1, <1>4, <2>1, <2>2, <2>4
  <2>7. \A j \in 1 .. k : s[j] \in S => \E i \in 1 .. l + 1 : h[i] = j
    <3>1. \A j \in 1 .. k : j = k \/ j \in 1 .. k - 1
      BY <1>0
    <3>2. \A i \in 1 .. l : i \in 1 .. l + 1
      BY <1>0
    <3>3. l + 1 \in 1 .. l + 1
      BY <1>0
    <3> QED BY <1>1, <2>2, <3>1, <3>2, <3>3
  <2>8. KeptTo(s, S, k, u, h)
    BY <2>1, <2>3, <2>5, <2>6, <2>7 DEF KeptTo
  <2> QED BY <2>1, <2>8, <1>4 DEF u
<1> QED BY <1>3, <1>4

LEMMA KeptElements ==
  ASSUME NEW X, NEW s \in Seq(X), NEW S
  PROVE  Kept(s, S) \in Seq(X) /\ \E m : KeptTo(s, S, Len(s), Kept(s, S), m)
<1> DEFINE n == Len(s)
           f == [i \in 1 .. n |-> [t \in Seq(X) |-> IF s[i] \in S THEN Append(t, s[i]) ELSE t]]
           Fold(g) == g = [t \in SUBSET (1 .. n) |->
                             IF t = {} THEN <<>>
                             ELSE IF s[Max(t)] \in S THEN Append(g[t \ {Max(t)}], s[Max(t)])
                                  ELSE g[t \ {Max(t)}]]
           fold == CHOOSE g : Fold(g)
           P == [k \in 0 .. n |-> {t \in Seq(X) : \E m : KeptTo(s, S, k, t, m)}]
<1>1. n \in Nat /\ DOMAIN s = 1 .. n /\ s \in [1 .. n -> X]
  OBVIOUS
<1>2. Kept(s, S) = fold[1 .. n]
  BY <1>1 DEF Kept, FoldLeft, MapThenFoldSet, Max
<1>3. /\ f \in [1 .. n -> [Seq(X) -> Seq(X)]]
      /\ \A i \in 1 .. n : \A t \in Seq(X) : f[i][t] = IF s[i] \in S THEN Append(t, s[i]) ELSE t
  BY <1>1
<1>4. \E g : PlaceFoldOf(Seq(X), f, <<>>, n, g)
  <2>1. <<>> \in Seq(X)
    OBVIOUS
  <2> HIDE DEF f, n
  <2> QED BY <1>1, <1>3, <2>1, PlaceFoldExists
<1>5. \E g : Fold(g)
  <2>1. PICK g : PlaceFoldOf(Seq(X), f, <<>>, n, g)
    BY <1>4
  <2> HIDE DEF f, n
  <2>2. /\ g \in [SUBSET (1 .. n) -> Seq(X)]
        /\ \A t \in SUBSET (1 .. n) :
             g[t] = IF t = {} THEN <<>> ELSE f[Max(t)][g[t \ {Max(t)}]]
    BY <2>1 DEF PlaceFoldOf
  <2>3. ASSUME NEW t \in SUBSET (1 .. n), t # {}
        PROVE  g[t \ {Max(t)}] \in Seq(X) /\ Max(t) \in 1 .. n
    <3>1. Max(t) \in 1 .. n
      BY <2>3, <1>1, MaxIsGreatest
    <3> QED BY <3>1, <2>2, <1>1
  <2>4. ASSUME NEW t \in SUBSET (1 .. n)
        PROVE  g[t] = IF t = {} THEN <<>>
                      ELSE IF s[Max(t)] \in S THEN Append(g[t \ {Max(t)}], s[Max(t)])
                           ELSE g[t \ {Max(t)}]
    <3>1. CASE t = {}
      BY <3>1, <2>2
    <3>2. CASE t # {}
      <4> DEFINE i == Max(t)
                 r == g[t \ {i}]
      <4>1. i \in 1 .. n /\ r \in Seq(X) /\ g[t] = f[i][r]
        BY <3>2, <2>2, <2>3
      <4>2. f[i][r] = IF s[i] \in S THEN Append(r, s[i]) ELSE r
        <5> HIDE DEF i, r
        <5> QED BY <4>1, <1>3
      <4> QED BY <4>1, <4>2, <3>2
    <3> QED BY <3>1, <3>2
  <2>5. Fold(g)
    BY <2>2, <2>4
  <2> QED BY <2>5
<1>6. Fold(fold)
  BY <1>5
<1> HIDE DEF fold
<1>7. fold[{}] = <<>>
  BY <1>6
<1>8. ASSUME NEW k \in 1 .. n
      PROVE  fold[1 .. k] = IF s[k] \in S THEN Append(fold[1 .. k - 1], s[k]) ELSE fold[1 .. k - 1]
  <2>1. 1 .. k \in SUBSET (1 .. n) /\ 1 .. k # {} /\ Max(1 .. k) = k /\ (1 .. k) \ {k} = 1 .. k - 1
    BY <1>1, LastPlace
  <2> DEFINE t == 1 .. k
  <2> HIDE DEF t
  <2>2. t \in SUBSET (1 .. n) /\ t # {} /\ Max(t) = k /\ t \ {k} = 1 .. k - 1
    BY <2>1 DEF t
  <2>3. fold[t] = IF s[Max(t)] \in S THEN Append(fold[t \ {Max(t)}], s[Max(t)]) ELSE fold[t \ {Max(t)}]
    BY <1>6, <2>2
  <2> QED BY <2>2, <2>3 DEF t
<1>9. <<>> \in P[0]
  <2> DEFINE m == [i \in 1 .. 0 |-> 0]
  <2>1. KeptTo(s, S, 0, <<>>, m)
    BY DEF KeptTo
  <2> HIDE DEF m
  <2>2. 0 \in 0 .. n /\ <<>> \in Seq(X)
    BY <1>1
  <2> QED BY <2>1, <2>2
<1>10. ASSUME NEW k \in 1 .. n, fold[1 .. k - 1] \in P[k - 1] PROVE fold[1 .. k] \in P[k]
  <2> DEFINE t == fold[1 .. k - 1]
             u == IF s[k] \in S THEN Append(t, s[k]) ELSE t
  <2> HIDE DEF t
  <2>0. k - 1 \in 0 .. n /\ k \in 0 .. n
    BY <1>1
  <2>1. t \in Seq(X) /\ \E m : KeptTo(s, S, k - 1, t, m)
    BY <1>10, <2>0 DEF t
  <2>2. u \in Seq(X) /\ \E m : KeptTo(s, S, k, u, m)
    BY <2>1, KeptNext
  <2>3. fold[1 .. k] = u
    BY <1>8 DEF t
  <2> HIDE DEF u
  <2> QED BY <2>0, <2>2, <2>3
<1>11. fold[1 .. n] \in P[n]
  <2> HIDE DEF P, n
  <2> QED BY <1>1, <1>7, <1>9, <1>10, FoldStages
<1>12. n \in 0 .. n
  BY <1>1
<1> HIDE DEF n
<1> QED BY <1>2, <1>11, <1>12 DEF n
-----------------------------------------------------------------------------
(* Transient buffers                                                       *)

Buffers == [id : Nat, size : Int, top : Int, tick : Int]
TransientStates ==
  [free : Seq(Buffers), used : Seq(Buffers), bytes : Int, average : Int, made : Nat]
BuffersOf(t) == Range(t.free) \cup Range(t.used)

\* Each buffer is in one place, and the next one is new.
BuffersApart(free, used, n) ==
  /\ \A i \in 1 .. Len(free) : free[i].id <= n
  /\ \A i \in 1 .. Len(used) : used[i].id <= n
  /\ \A i, j \in 1 .. Len(free) : free[i].id = free[j].id => i = j
  /\ \A i, j \in 1 .. Len(used) : used[i].id = used[j].id => i = j
  /\ \A i \in 1 .. Len(free), j \in 1 .. Len(used) : free[i].id # used[j].id

TransientSound(t) == t \in TransientStates /\ BuffersApart(t.free, t.used, t.made)

LEMMA BuffersTyped ==
  ASSUME NEW s \in Seq(Buffers)
  PROVE  /\ Len(s) \in Nat /\ DOMAIN s = 1 .. Len(s)
         /\ \A i \in 1 .. Len(s) : s[i] \in Buffers /\ s[i].id \in Nat /\ s[i].tick \in Int
                                   /\ s[i].size \in Int /\ s[i].top \in Int
<1>1. \A b \in Buffers : b.id \in Nat /\ b.tick \in Int /\ b.size \in Int /\ b.top \in Int
  BY DEF Buffers
<1> QED BY <1>1

TakenFree(free, k, b) == <<b>> \o SubSeq(free, k + 1, Len(free))
TakenUsed(free, used, p) == used \o SubSeq(free, 1, p)

\* The buffer b serves: those before it are done with, those behind it stay free.
LEMMA TakenApart ==
  ASSUME NEW free \in Seq(Buffers), NEW used \in Seq(Buffers), NEW n \in Nat,
         BuffersApart(free, used, n),
         NEW p \in 0 .. Len(free), NEW k \in p .. Len(free), NEW b \in Buffers, NEW m \in Nat,
         \/ b.id = n + 1 /\ m = n + 1
         \/ p + 1 = k /\ b.id = free[k].id /\ m = n
  PROVE  /\ TakenFree(free, k, b) \in Seq(Buffers) /\ TakenUsed(free, used, p) \in Seq(Buffers)
         /\ BuffersApart(TakenFree(free, k, b), TakenUsed(free, used, p), m)
         /\ \A x \in Range(TakenFree(free, k, b)) \cup Range(TakenUsed(free, used, p)) :
              x = b \/ (x.id # b.id /\ x \in Range(free) \cup Range(used))
         /\ b \in Range(TakenFree(free, k, b))
<1> DEFINE r == SubSeq(free, k + 1, Len(free))
           h == SubSeq(free, 1, p)
           f == <<b>> \o r
           u == used \o h
           l == Len(free)
           c == Len(used)
<1>1. /\ l \in Nat /\ c \in Nat /\ p \in 0 .. l /\ k \in 0 .. l /\ p <= k /\ p \in Nat /\ k \in Nat
      /\ DOMAIN free = 1 .. l /\ DOMAIN used = 1 .. c
      /\ \A i \in 1 .. l : free[i] \in Buffers /\ free[i].id \in Nat
      /\ \A i \in 1 .. c : used[i] \in Buffers /\ used[i].id \in Nat
      /\ b.id \in Nat
  <2>1. \A x \in Buffers : x.id \in Nat
    BY DEF Buffers
  <2> QED BY <2>1, BuffersTyped
<1>a. k \in 0 .. Len(free) /\ p \in 0 .. Len(free)
  BY <1>1
<1>2. r \in Seq(Buffers) /\ Len(r) = l - k /\ \A j \in 1 .. l - k : r[j] = free[k + j]
  BY <1>a, RestElements
<1>3. h \in Seq(Buffers) /\ Len(h) = p /\ \A j \in 1 .. p : h[j] = free[j]
  BY <1>a, PrefixElements
<1>b. l = Len(free) /\ c = Len(used)
  OBVIOUS
<1> HIDE DEF r, h, l, c
<1>4. <<b>> \in Seq(Buffers) /\ Len(<<b>>) = 1 /\ <<b>>[1] = b
  OBVIOUS
<1>5. /\ f \in Seq(Buffers) /\ Len(f) = 1 + (l - k) /\ DOMAIN f = 1 .. 1 + (l - k)
      /\ \A i \in 1 .. 1 + (l - k) : f[i] = IF i <= 1 THEN <<b>>[i] ELSE r[i - 1]
  <2>1. /\ f \in Seq(Buffers) /\ Len(f) = Len(<<b>>) + Len(r)
        /\ \A i \in 1 .. Len(<<b>>) + Len(r) : f[i] = IF i <= Len(<<b>>) THEN <<b>>[i] ELSE r[i - Len(<<b>>)]
    BY <1>2, <1>4, ConcatProperties
  <2>2. DOMAIN f = 1 .. Len(f)
    BY <2>1
  <2> QED BY <2>1, <2>2, <1>2, <1>4
<1>6. /\ u \in Seq(Buffers) /\ Len(u) = c + p /\ DOMAIN u = 1 .. c + p
      /\ \A i \in 1 .. c + p : u[i] = IF i <= c THEN used[i] ELSE h[i - c]
  <2>1. /\ u \in Seq(Buffers) /\ Len(u) = Len(used) + Len(h)
        /\ \A i \in 1 .. Len(used) + Len(h) : u[i] = IF i <= Len(used) THEN used[i] ELSE h[i - Len(used)]
    BY <1>3, ConcatProperties
  <2>2. DOMAIN u = 1 .. Len(u)
    BY <2>1
  <2> QED BY <2>1, <2>2, <1>3, <1>b
<1> HIDE DEF f, u
<1>7. \A i \in 1 .. 1 + (l - k) :
        \/ i = 1 /\ f[i] = b
        \/ i # 1 /\ f[i] = free[k + i - 1] /\ k + i - 1 \in 1 .. l /\ k + i - 1 > k
  <2> SUFFICES ASSUME NEW i \in 1 .. 1 + (l - k), i # 1
               PROVE  f[i] = free[k + i - 1] /\ k + i - 1 \in 1 .. l /\ k + i - 1 > k
    BY <1>4, <1>5
  <2>1. i - 1 \in 1 .. l - k /\ k + (i - 1) = k + i - 1 /\ ~ (i <= 1)
    BY <1>1
  <2>2. f[i] = r[i - 1]
    BY <1>5, <2>1
  <2> QED BY <2>1, <2>2, <1>1, <1>2
<1>8. \A i \in 1 .. c + p :
        \/ i \in 1 .. c /\ u[i] = used[i]
        \/ i \notin 1 .. c /\ i - c \in 1 .. p /\ u[i] = free[i - c]
  <2> SUFFICES ASSUME NEW i \in 1 .. c + p, i \notin 1 .. c PROVE i - c \in 1 .. p /\ u[i] = free[i - c]
    BY <1>1, <1>6
  <2>1. i - c \in 1 .. p /\ ~ (i <= c)
    BY <1>1
  <2> QED BY <2>1, <1>3, <1>6
<1>9. /\ \A i \in 1 .. l : free[i].id <= n
      /\ \A i \in 1 .. c : used[i].id <= n
      /\ \A i, j \in 1 .. l : free[i].id = free[j].id => i = j
      /\ \A i, j \in 1 .. c : used[i].id = used[j].id => i = j
      /\ \A i \in 1 .. l, j \in 1 .. c : free[i].id # used[j].id
  BY <1>b DEF BuffersApart
<1>10. \A i \in 1 .. p : i \in 1 .. l /\ i <= p
  BY <1>1
<1>11. (\A i \in 1 .. l : i <= p \/ i > k => free[i].id # b.id) /\ (\A i \in 1 .. c : used[i].id # b.id)
       /\ b.id <= m /\ n <= m
  <2>1. CASE b.id = n + 1 /\ m = n + 1
    BY <2>1, <1>1, <1>9
  <2>2. CASE p + 1 = k /\ b.id = free[k].id /\ m = n
    <3>1. k \in 1 .. l
      BY <2>2, <1>1
    <3>2. \A i \in 1 .. l : i <= p \/ i > k => i # k
      BY <2>2, <1>1
    <3> QED BY <2>2, <3>1, <3>2, <1>1, <1>9
  <2> QED BY <2>1, <2>2
<1>12. BuffersApart(f, u, m)
  <2>1. \A i \in 1 .. 1 + (l - k) : f[i].id <= m
    <3> SUFFICES ASSUME NEW i \in 1 .. 1 + (l - k) PROVE f[i].id <= m
      OBVIOUS
    <3>1. CASE f[i] = b
      BY <3>1, <1>11
    <3>2. CASE f[i] # b
      <4> DEFINE j == k + i - 1
      <4>1. f[i] = free[j] /\ j \in 1 .. l
        BY <3>2, <1>7
      <4> HIDE DEF j
      <4>2. f[i].id = free[j].id /\ free[j].id \in Nat /\ free[j].id <= n
        BY <4>1, <1>1, <1>9
      <4>3. n <= m
        BY <1>11
      <4> QED BY <4>2, <4>3
    <3> QED BY <3>1, <3>2
  <2>2. \A i \in 1 .. c + p : u[i].id <= m
    <3> SUFFICES ASSUME NEW i \in 1 .. c + p PROVE u[i].id <= m
      OBVIOUS
    <3>1. CASE i \in 1 .. c
      <4>1. u[i].id = used[i].id /\ used[i].id \in Nat /\ used[i].id <= n
        BY <3>1, <1>8, <1>1, <1>9
      <4>2. n <= m
        BY <1>11
      <4> QED BY <4>1, <4>2
    <3>2. CASE i \notin 1 .. c
      <4> DEFINE j == i - c
      <4>1. u[i] = free[j] /\ j \in 1 .. l
        BY <3>2, <1>8, <1>10
      <4> HIDE DEF j
      <4>2. u[i].id = free[j].id /\ free[j].id \in Nat /\ free[j].id <= n
        BY <4>1, <1>1, <1>9
      <4>3. n <= m
        BY <1>11
      <4> QED BY <4>2, <4>3
    <3> QED BY <3>1, <3>2
  <2>3. \A i, j \in 1 .. 1 + (l - k) : f[i].id = f[j].id => i = j
    <3> SUFFICES ASSUME NEW i \in 1 .. 1 + (l - k), NEW j \in 1 .. 1 + (l - k), f[i].id = f[j].id
                 PROVE  i = j
      OBVIOUS
    <3>1. CASE i = 1 \/ j = 1
      BY <3>1, <1>7, <1>11
    <3>2. CASE i # 1 /\ j # 1
      <4>1. k + i - 1 = k + j - 1
        <5> DEFINE a == k + i - 1
                   e == k + j - 1
        <5>1. f[i] = free[a] /\ f[j] = free[e] /\ a \in 1 .. l /\ e \in 1 .. l
          BY <3>2, <1>7
        <5> HIDE DEF a, e
        <5>2. a = e
          BY <5>1, <1>9
        <5> QED BY <5>2 DEF a, e
      <4> HIDE DEF f
      <4> QED BY <4>1, k \in Int, i \in Int, j \in Int
    <3> QED BY <3>1, <3>2
  <2>4. \A i, j \in 1 .. c + p : u[i].id = u[j].id => i = j
    <3> SUFFICES ASSUME NEW i \in 1 .. c + p, NEW j \in 1 .. c + p, u[i].id = u[j].id
                 PROVE  i = j
      OBVIOUS
    <3>1. CASE i \in 1 .. c /\ j \in 1 .. c
      BY <3>1, <1>8, <1>9
    <3>2. CASE i \notin 1 .. c /\ j \notin 1 .. c
      <4>1. i - c = j - c
        BY <3>2, <1>8, <1>9, <1>10
      <4>2. c \in Int /\ i \in Int /\ j \in Int
        BY <1>1
      <4> QED BY <4>1, <4>2
    <3>3. CASE i \in 1 .. c /\ j \notin 1 .. c
      <4>1. u[i] = used[i] /\ u[j] = free[j - c] /\ j - c \in 1 .. l
        BY <3>3, <1>8, <1>10
      <4> QED BY <3>3, <4>1, <1>9
    <3>4. CASE i \notin 1 .. c /\ j \in 1 .. c
      <4>1. u[j] = used[j] /\ u[i] = free[i - c] /\ i - c \in 1 .. l
        BY <3>4, <1>8, <1>10
      <4> QED BY <3>4, <4>1, <1>9
    <3> QED BY <3>1, <3>2, <3>3, <3>4
  <2>5. \A i \in 1 .. 1 + (l - k), j \in 1 .. c + p : f[i].id # u[j].id
    <3> SUFFICES ASSUME NEW i \in 1 .. 1 + (l - k), NEW j \in 1 .. c + p PROVE f[i].id # u[j].id
      OBVIOUS
    <3>1. CASE i = 1
      <4>1. f[i] = b
        BY <3>1, <1>7
      <4>2. CASE j \in 1 .. c
        BY <4>1, <4>2, <1>8, <1>11
      <4>3. CASE j \notin 1 .. c
        <5>1. u[j] = free[j - c] /\ j - c \in 1 .. l /\ j - c <= p
          BY <4>3, <1>8, <1>10
        <5> QED BY <4>1, <5>1, <1>11
      <4> QED BY <4>2, <4>3
    <3>2. CASE i # 1
      <4>1. f[i] = free[k + i - 1] /\ k + i - 1 \in 1 .. l /\ k + i - 1 > k
        BY <3>2, <1>7
      <4>2. CASE j \in 1 .. c
        BY <4>1, <4>2, <1>8, <1>9
      <4>3. CASE j \notin 1 .. c
        <5>1. u[j] = free[j - c] /\ j - c \in 1 .. l /\ j - c <= p
          BY <4>3, <1>8, <1>10
        <5>2. j - c # k + i - 1
          BY <5>1, <4>1, <1>1
        <5> QED BY <4>1, <5>1, <5>2, <1>9
      <4> QED BY <4>2, <4>3
    <3> QED BY <3>1, <3>2
  <2> QED BY <2>1, <2>2, <2>3, <2>4, <2>5, <1>5, <1>6 DEF BuffersApart
<1>13. \A x \in Range(f) \cup Range(u) : x = b \/ (x.id # b.id /\ x \in Range(free) \cup Range(used))
  <2> SUFFICES ASSUME NEW x \in Range(f) \cup Range(u), x # b
               PROVE  x.id # b.id /\ x \in Range(free) \cup Range(used)
    OBVIOUS
  <2>1. CASE x \in Range(f)
    <3>1. PICK i \in 1 .. 1 + (l - k) : x = f[i]
      BY <2>1, <1>5 DEF Range
    <3>2. x = free[k + i - 1] /\ k + i - 1 \in 1 .. l /\ k + i - 1 > k
      BY <3>1, <1>7
    <3> QED BY <3>2, <1>1, <1>11 DEF Range
  <2>2. CASE x \in Range(u)
    <3>1. PICK i \in 1 .. c + p : x = u[i]
      BY <2>2, <1>6 DEF Range
    <3> QED BY <3>1, <1>1, <1>8, <1>10, <1>11 DEF Range
  <2> QED BY <2>1, <2>2
<1>14. b \in Range(f)
  <2>1. 1 \in 1 .. 1 + (l - k)
    BY <1>1
  <2> QED BY <2>1, <1>5, <1>7 DEF Range
<1> QED BY <1>5, <1>6, <1>12, <1>13, <1>14 DEF TakenFree, TakenUsed, f, u, r, h

\* What a request leaves: the buffer that serves it has the tick, the others are as before.
Served(t, x, tick) ==
  /\ TransientSound(x.state)
  /\ \E n \in Nat : /\ x.res = BufferRes(n)
                    /\ \A b \in BuffersOf(x.state) : b.id = n => b.tick = tick
  /\ \A b \in BuffersOf(x.state) : b.tick = tick \/ b \in BuffersOf(t)

Retopped(b, top, tick) == [b EXCEPT !.top = top, !.tick = tick]
Reset(b) == [b EXCEPT !.top = b.size]

LEMMA BufferChanged ==
  ASSUME NEW b \in Buffers, NEW top \in Int, NEW tick \in Int
  PROVE  /\ Retopped(b, top, tick) \in Buffers
         /\ Retopped(b, top, tick).id = b.id /\ Retopped(b, top, tick).tick = tick
BY DEF Buffers, Retopped

LEMMA BufferReset ==
  ASSUME NEW b \in Buffers
  PROVE  Reset(b) \in Buffers /\ Reset(b).id = b.id /\ Reset(b).tick = b.tick
BY DEF Buffers, Reset

LEMMA TakenServes ==
  ASSUME NEW t, TransientSound(t), NEW size \in Nat, NEW tick \in Nat
  PROVE  Served(t, Taken(t, size, 1, tick), tick)
<1> DEFINE l == Len(t.free)
           fit == Fitting(t, size)
           passed_ == IF fit = {} THEN l ELSE Least(fit) - 1
           b == IF fit = {} THEN NewBuffer(t, size) ELSE t.free[Least(fit)]
           top == ((b.top - size) \div 1) * 1
           k == IF fit = {} THEN l ELSE Least(fit)
           rest == IF fit = {} THEN <<>> ELSE SubSeq(t.free, Least(fit) + 1, Len(t.free))
           b2 == [b EXCEPT !.top = top, !.tick = tick]
           m == IF fit = {} THEN b.id ELSE t.made
           f == TakenFree(t.free, k, b2)
           u == TakenUsed(t.free, t.used, passed_)
           bytes == t.bytes + b.top - top
           state == [free |-> f, used |-> u, bytes |-> bytes, average |-> t.average, made |-> m]
<1>1. /\ t.free \in Seq(Buffers) /\ t.used \in Seq(Buffers) /\ t.bytes \in Int /\ t.average \in Int
      /\ t.made \in Nat /\ BuffersApart(t.free, t.used, t.made)
  BY DEF TransientSound, TransientStates
<1>2. l \in Nat /\ DOMAIN t.free = 1 .. l /\ \A i \in 1 .. l : t.free[i] \in Buffers
  BY <1>1, BuffersTyped
<1>3. fit # {} => Least(fit) \in fit /\ fit \in SUBSET (1 .. l)
  <2>1. fit \in SUBSET (1 .. l) /\ fit \in SUBSET Nat
    BY <1>2 DEF Fitting
  <2>2. fit # {} => \E x \in fit : \A y \in fit : x <= y
    BY <2>1, LeastExists
  <2> HIDE DEF fit
  <2> QED BY <2>1, <2>2 DEF Least
<1>4. NewBuffer(t, size) \in Buffers /\ NewBuffer(t, size).id = t.made + 1
  <2> DEFINE a == Larger(Clamp(t.average, MIN_BUFFER_SIZE_TARGET, MAX_BUFFER_SIZE_TARGET), size)
             n == RoundUp(a, BUFFER_SIZE_STEP)
  <2>1. a \in Int
    BY <1>1, TransientAssumption DEF Larger, Clamp
  <2> HIDE DEF a
  <2>2. n \in Int
    <3>1. BUFFER_SIZE_STEP \in Nat /\ BUFFER_SIZE_STEP > 0
      BY TransientAssumption
    <3> DEFINE d == a + BUFFER_SIZE_STEP - 1
    <3>2. d \in Int
      BY <2>1, <3>1
    <3> HIDE DEF d
    <3>3. d \div BUFFER_SIZE_STEP \in Int
      BY <3>1, <3>2
    <3>4. n = (d \div BUFFER_SIZE_STEP) * BUFFER_SIZE_STEP
      BY DEF RoundUp, d
    <3> QED BY <3>1, <3>3, <3>4
  <2>3. NewBuffer(t, size) = [id |-> t.made + 1, size |-> n, top |-> n, tick |-> INVALID]
    BY DEF NewBuffer, a
  <2> HIDE DEF n
  <2>4. INVALID \in Int /\ t.made + 1 \in Nat
    BY <1>1 DEF INVALID
  <2> QED BY <2>2, <2>3, <2>4 DEF Buffers
<1>5. b \in Buffers
  BY <1>2, <1>3, <1>4
<1>6. rest = SubSeq(t.free, k + 1, Len(t.free))
  <2>1. CASE fit = {}
    <3>1. l \in 0 .. Len(t.free)
      BY <1>2
    <3>2. SubSeq(t.free, l + 1, Len(t.free)) \in Seq(Buffers) /\ Len(SubSeq(t.free, l + 1, Len(t.free))) = l - l
      BY <1>1, <3>1, RestElements
    <3>3. SubSeq(t.free, l + 1, Len(t.free)) = <<>>
      <4> DEFINE s == SubSeq(t.free, l + 1, Len(t.free))
      <4> HIDE DEF s
      <4>1. s \in Seq(Buffers) /\ Len(s) = 0 => s = <<>>
        OBVIOUS
      <4> QED BY <4>1, <3>2, <1>2 DEF s
    <3> QED BY <3>3, <2>1
  <2>2. CASE fit # {}
    BY <2>2
  <2> QED BY <2>1, <2>2
<1>7. Taken(t, size, 1, tick) = [res |-> BufferRes(b.id), state |-> state]
  <2>1. Taken(t, size, 1, tick) =
          [res |-> BufferRes(b.id),
           state |-> [free |-> <<b2>> \o rest, used |-> u, bytes |-> bytes, average |-> t.average, made |-> m]]
    BY DEF Taken, TakenUsed
  <2> HIDE DEF b2, u, bytes, m, b, k, rest
  <2> QED BY <2>1, <1>6 DEF TakenFree
<1>8. k \in passed_ .. l /\ passed_ \in 0 .. l
      /\ ((b.id = t.made + 1 /\ m = t.made + 1) \/ (passed_ + 1 = k /\ b.id = t.free[k].id /\ m = t.made))
  <2>1. CASE fit = {}
    BY <2>1, <1>2, <1>4
  <2>2. CASE fit # {}
    <3> DEFINE i == Least(fit)
    <3>1. i \in 1 .. l
      BY <2>2, <1>3
    <3>2. k = i /\ passed_ = i - 1 /\ b = t.free[i] /\ m = t.made
      BY <2>2
    <3> HIDE DEF i, k, passed_, b, m
    <3> QED BY <3>1, <3>2, <1>2
  <2> QED BY <2>1, <2>2
<1>9. m \in Nat
  <2> HIDE DEF m, b, k, passed_
  <2> QED BY <1>1, <1>8
<1>10. b2 \in Buffers /\ b2.id = b.id /\ b2.tick = tick /\ bytes \in Int
  <2> HIDE DEF b
  <2>1. b.top \in Int
    BY <1>5 DEF Buffers
  <2>2. top \in Int
    <3> DEFINE d == b.top - size
    <3>1. d \in Int
      BY <2>1
    <3> HIDE DEF d
    <3>2. d \div 1 \in Int
      BY <3>1
    <3>3. top = (d \div 1) * 1
      BY DEF d
    <3> QED BY <3>2, <3>3
  <2> HIDE DEF top
  <2>3. b2 \in Buffers /\ b2.id = b.id /\ b2.tick = tick
    <3> DEFINE c == b
               i == top
    <3>1. c \in Buffers /\ i \in Int /\ tick \in Int /\ b2 = Retopped(c, i, tick) /\ b.id = c.id
      BY <1>5, <2>2 DEF Retopped
    <3> HIDE DEF c, i, b2
    <3> QED BY <3>1, BufferChanged
  <2>4. t.bytes + b.top - top \in Int
    <3>1. \A i, j, n \in Int : i + j - n \in Int
      OBVIOUS
    <3> QED BY <3>1, <2>1, <2>2, <1>1
  <2> HIDE DEF b2
  <2> QED BY <2>3, <2>4
<1> HIDE DEF b2, m, k, passed_, b, bytes, top
<1>11. /\ f \in Seq(Buffers) /\ u \in Seq(Buffers) /\ BuffersApart(f, u, m)
       /\ \A x \in Range(f) \cup Range(u) : x = b2 \/ (x.id # b2.id /\ x \in Range(t.free) \cup Range(t.used))
       /\ b2 \in Range(f)
  <2>1. (b2.id = t.made + 1 /\ m = t.made + 1) \/ (passed_ + 1 = k /\ b2.id = t.free[k].id /\ m = t.made)
    BY <1>8, <1>10
  <2>2. passed_ \in 0 .. Len(t.free) /\ k \in passed_ .. Len(t.free)
    BY <1>8
  <2>3. BuffersApart(t.free, t.used, t.made) /\ b2 \in Buffers
    BY <1>1, <1>10
  <2> DEFINE free == t.free
             used == t.used
             n == t.made
  <2>4. /\ free \in Seq(Buffers) /\ used \in Seq(Buffers) /\ n \in Nat /\ BuffersApart(free, used, n)
        /\ passed_ \in 0 .. Len(free) /\ k \in passed_ .. Len(free) /\ b2 \in Buffers /\ m \in Nat
        /\ (b2.id = n + 1 /\ m = n + 1) \/ (passed_ + 1 = k /\ b2.id = free[k].id /\ m = n)
    BY <1>1, <1>9, <2>1, <2>2, <2>3
  <2> HIDE DEF free, used, n
  <2>5. /\ TakenFree(free, k, b2) \in Seq(Buffers) /\ TakenUsed(free, used, passed_) \in Seq(Buffers)
        /\ BuffersApart(TakenFree(free, k, b2), TakenUsed(free, used, passed_), m)
        /\ \A x \in Range(TakenFree(free, k, b2)) \cup Range(TakenUsed(free, used, passed_)) :
             x = b2 \/ (x.id # b2.id /\ x \in Range(free) \cup Range(used))
        /\ b2 \in Range(TakenFree(free, k, b2))
    BY <2>4, TakenApart
  <2> QED BY <2>5 DEF free, used, n
<1> HIDE DEF f, u
<1>12. TransientSound(state) /\ state.free = f /\ state.used = u
  BY <1>1, <1>9, <1>10, <1>11 DEF TransientSound, TransientStates
<1> HIDE DEF state
<1>13. \A x \in BuffersOf(state) : x = b2 \/ (x.id # b2.id /\ x \in BuffersOf(t))
  BY <1>11, <1>12 DEF BuffersOf
<1>14. b2.id \in Nat
  BY <1>10 DEF Buffers
<1> DEFINE x == Taken(t, size, 1, tick)
<1>15. x.state = state /\ x.res = BufferRes(b2.id)
  BY <1>7, <1>10
<1> HIDE DEF x
<1> QED BY <1>10, <1>12, <1>13, <1>14, <1>15 DEF Served, x

\* Resetting the buffers of a list.
ResetAll(s) == [i \in DOMAIN s |-> Reset(s[i])]

LEMMA ResetAllElements ==
  ASSUME NEW s \in Seq(Buffers)
  PROVE  /\ ResetAll(s) \in Seq(Buffers) /\ Len(ResetAll(s)) = Len(s)
         /\ \A i \in 1 .. Len(s) : ResetAll(s)[i].id = s[i].id /\ ResetAll(s)[i].tick = s[i].tick
<1> DEFINE r == ResetAll(s)
           l == Len(s)
<1>1. l \in Nat /\ DOMAIN s = 1 .. l /\ \A i \in 1 .. l : s[i] \in Buffers
  BY BuffersTyped
<1> HIDE DEF l
<1>2. r = [i \in 1 .. l |-> Reset(s[i])]
  BY <1>1 DEF ResetAll
<1>3. r \in [1 .. l -> Buffers] /\ \A i \in 1 .. l : r[i] = Reset(s[i])
  BY <1>1, <1>2, BufferReset
<1> HIDE DEF r
<1>4. r \in Seq(Buffers) /\ Len(r) = l
  BY <1>1, <1>3
<1>5. \A i \in 1 .. l : r[i].id = s[i].id /\ r[i].tick = s[i].tick
  BY <1>1, <1>3, BufferReset
<1> QED BY <1>4, <1>5 DEF r, l

\* A kept part of a list of buffers: places of the list, each once.
PartOf(s, S, k) ==
  /\ k \in Seq(Buffers)
  /\ \E m \in [1 .. Len(k) -> 1 .. Len(s)] :
       /\ \A i, j \in 1 .. Len(k) : m[i] = m[j] => i = j
       /\ \A i \in 1 .. Len(k) : k[i] = s[m[i]] /\ k[i] \in S

LEMMA KeptPart ==
  ASSUME NEW s \in Seq(Buffers), NEW S
  PROVE  PartOf(s, S, Kept(s, S))
<1> DEFINE k == Kept(s, S)
<1>1. k \in Seq(Buffers) /\ \E m : KeptTo(s, S, Len(s), k, m)
  BY KeptElements
<1> HIDE DEF k
<1>2. PICK m : KeptTo(s, S, Len(s), k, m)
  BY <1>1
<1>3. /\ m \in [1 .. Len(k) -> 1 .. Len(s)]
      /\ \A i, j \in 1 .. Len(k) : i < j => m[i] < m[j]
      /\ \A i \in 1 .. Len(k) : k[i] = s[m[i]] /\ k[i] \in S
  BY <1>2 DEF KeptTo
<1>4. Len(k) \in Nat /\ Len(s) \in Nat
  BY <1>1
<1>5. \A i, j \in 1 .. Len(k) : m[i] = m[j] => i = j
  <2> SUFFICES ASSUME NEW i \in 1 .. Len(k), NEW j \in 1 .. Len(k), i # j PROVE m[i] # m[j]
    OBVIOUS
  <2>1. m[i] \in Int /\ m[j] \in Int /\ (i < j \/ j < i)
    BY <1>3, <1>4
  <2> QED BY <2>1, <1>3
<1> QED BY <1>1, <1>3, <1>5 DEF PartOf, k

\* Parts of the lists put together again.
Rejoined(free, used, n, f, b, u) ==
  /\ f \o ResetAll(b) \in Seq(Buffers) /\ u \in Seq(Buffers)
  /\ BuffersApart(f \o ResetAll(b), u, n)
  /\ \A x \in Range(f \o ResetAll(b)) \cup Range(u) :
       \E y \in Range(free) \cup Range(used) : y.id = x.id /\ y.tick = x.tick

LEMMA PartsRejoin ==
  ASSUME NEW free \in Seq(Buffers), NEW used \in Seq(Buffers), NEW n \in Nat,
         BuffersApart(free, used, n),
         NEW A, NEW D, NEW E, D \cap E = {},
         NEW f, PartOf(free, A, f), NEW b, PartOf(used, D, b), NEW u, PartOf(used, E, u)
  PROVE  Rejoined(free, used, n, f, b, u)
<1> DEFINE r == ResetAll(b)
           w == f \o r
           a == Len(f)
           c == Len(b)
           l == Len(u)
           p == Len(free)
           q == Len(used)
<1>1. f \in Seq(Buffers) /\ b \in Seq(Buffers) /\ u \in Seq(Buffers)
  BY DEF PartOf
<1>2. /\ a \in Nat /\ c \in Nat /\ l \in Nat
      /\ DOMAIN free = 1 .. p /\ DOMAIN used = 1 .. q /\ DOMAIN u = 1 .. l
      /\ p \in Nat /\ q \in Nat
  BY <1>1
<1>b. a = Len(f) /\ c = Len(b) /\ l = Len(u) /\ p = Len(free) /\ q = Len(used)
  OBVIOUS
<1>3. PICK m1 \in [1 .. a -> 1 .. p] :
        /\ \A i, j \in 1 .. a : m1[i] = m1[j] => i = j
        /\ \A i \in 1 .. a : f[i] = free[m1[i]] /\ f[i] \in A
  BY DEF PartOf
<1>4. PICK m2 \in [1 .. c -> 1 .. q] :
        /\ \A i, j \in 1 .. c : m2[i] = m2[j] => i = j
        /\ \A i \in 1 .. c : b[i] = used[m2[i]] /\ b[i] \in D
  BY DEF PartOf
<1>5. PICK m3 \in [1 .. l -> 1 .. q] :
        /\ \A i, j \in 1 .. l : m3[i] = m3[j] => i = j
        /\ \A i \in 1 .. l : u[i] = used[m3[i]] /\ u[i] \in E
  BY DEF PartOf
<1> HIDE DEF a, c, l, p, q
<1>6. r \in Seq(Buffers) /\ Len(r) = c /\ \A i \in 1 .. c : r[i].id = b[i].id /\ r[i].tick = b[i].tick
  BY <1>1, <1>b, ResetAllElements
<1> HIDE DEF r
<1>7. /\ w \in Seq(Buffers) /\ Len(w) = a + c /\ DOMAIN w = 1 .. a + c
      /\ \A i \in 1 .. a + c : w[i] = IF i <= a THEN f[i] ELSE r[i - a]
  <2>1. w \in Seq(Buffers) /\ Len(w) = Len(f) + Len(r)
        /\ \A i \in 1 .. Len(f) + Len(r) : w[i] = IF i <= Len(f) THEN f[i] ELSE r[i - Len(f)]
    BY <1>1, <1>6, ConcatProperties
  <2>2. DOMAIN w = 1 .. Len(w)
    BY <2>1
  <2> QED BY <2>1, <2>2, <1>6, <1>b
<1> HIDE DEF w
<1>8. \A i \in 1 .. a + c :
        \/ i \in 1 .. a /\ w[i] = free[m1[i]] /\ m1[i] \in 1 .. p
        \/ /\ i \notin 1 .. a /\ i - a \in 1 .. c /\ m2[i - a] \in 1 .. q
           /\ w[i].id = used[m2[i - a]].id /\ w[i].tick = used[m2[i - a]].tick /\ used[m2[i - a]] \in D
  <2> SUFFICES ASSUME NEW i \in 1 .. a + c, i \notin 1 .. a
               PROVE  /\ i - a \in 1 .. c /\ m2[i - a] \in 1 .. q
                      /\ w[i].id = used[m2[i - a]].id /\ w[i].tick = used[m2[i - a]].tick
                      /\ used[m2[i - a]] \in D
    <3>1. \A i \in 1 .. a : i <= a /\ m1[i] \in 1 .. p
      BY <1>2, <1>3
    <3> QED BY <3>1, <1>3, <1>7
  <2>1. i - a \in 1 .. c /\ ~ (i <= a)
    BY <1>2
  <2>2. w[i] = r[i - a]
    BY <2>1, <1>7
  <2>3. r[i - a].id = b[i - a].id /\ r[i - a].tick = b[i - a].tick
    BY <2>1, <1>6
  <2>4. m2[i - a] \in 1 .. q /\ b[i - a] = used[m2[i - a]] /\ b[i - a] \in D
    BY <2>1, <1>4
  <2> QED BY <2>1, <2>2, <2>3, <2>4
<1>9. /\ \A i \in 1 .. p : free[i].id <= n
      /\ \A i \in 1 .. q : used[i].id <= n
      /\ \A i, j \in 1 .. p : free[i].id = free[j].id => i = j
      /\ \A i, j \in 1 .. q : used[i].id = used[j].id => i = j
      /\ \A i \in 1 .. p, j \in 1 .. q : free[i].id # used[j].id
  BY <1>b DEF BuffersApart
<1>10. BuffersApart(w, u, n)
  <2>1. \A i \in 1 .. a + c : w[i].id <= n
    BY <1>8, <1>9
  <2>u. \A i \in 1 .. l : m3[i] \in 1 .. q
    BY <1>5
  <2>2. \A i \in 1 .. l : u[i].id <= n
    BY <2>u, <1>5, <1>9
  <2>3. ASSUME NEW i \in 1 .. a + c, NEW j \in 1 .. a + c, w[i].id = w[j].id PROVE i = j
    <3>1. CASE i \in 1 .. a /\ j \in 1 .. a
      BY <3>1, <2>3, <1>3, <1>8, <1>9
    <3>2. CASE i \notin 1 .. a /\ j \notin 1 .. a
      <4>1. m2[i - a] = m2[j - a] /\ i - a \in 1 .. c /\ j - a \in 1 .. c
        BY <3>2, <2>3, <1>8, <1>9
      <4>2. i - a = j - a
        BY <4>1, <1>4
      <4> QED BY <4>2, <1>2
    <3>3. CASE i \in 1 .. a /\ j \notin 1 .. a
      BY <3>3, <2>3, <1>8, <1>9
    <3>4. CASE i \notin 1 .. a /\ j \in 1 .. a
      BY <3>4, <2>3, <1>8, <1>9
    <3> QED BY <3>1, <3>2, <3>3, <3>4
  <2>4. \A i, j \in 1 .. l : u[i].id = u[j].id => i = j
    BY <2>u, <1>5, <1>9
  <2>5. ASSUME NEW i \in 1 .. a + c, NEW j \in 1 .. l PROVE w[i].id # u[j].id
    <3>1. CASE i \in 1 .. a
      BY <3>1, <2>u, <1>5, <1>8, <1>9
    <3>2. CASE i \notin 1 .. a
      <4>1. m2[i - a] \in 1 .. q /\ w[i].id = used[m2[i - a]].id /\ used[m2[i - a]] \in D
        BY <3>2, <1>8
      <4>2. m3[j] \in 1 .. q /\ u[j] = used[m3[j]] /\ u[j] \in E
        BY <1>5
      <4>3. m2[i - a] # m3[j]
        BY <4>1, <4>2
      <4> QED BY <4>1, <4>2, <4>3, <1>9
    <3> QED BY <3>1, <3>2
  <2> QED BY <2>1, <2>2, <2>3, <2>4, <2>5, <1>7, <1>b DEF BuffersApart
<1>11. ASSUME NEW x \in Range(w) \cup Range(u)
       PROVE  \E y \in Range(free) \cup Range(used) : y.id = x.id /\ y.tick = x.tick
  <2>1. CASE x \in Range(w)
    <3>1. PICK i \in 1 .. a + c : x = w[i]
      BY <2>1, <1>7 DEF Range
    <3> QED BY <3>1, <1>2, <1>8 DEF Range
  <2>2. CASE x \in Range(u)
    <3>1. PICK i \in 1 .. l : x = u[i]
      BY <2>2, <1>2 DEF Range
    <3>2. m3[i] \in 1 .. q /\ u[i] = used[m3[i]]
      BY <1>5
    <3> QED BY <3>1, <3>2, <1>2 DEF Range
  <2> QED BY <2>1, <2>2
<1> QED BY <1>1, <1>7, <1>10, <1>11 DEF Rejoined, w, r

\* Recycling leaves buffers that were there, with the tick they had.
LEMMA RecycledKeeps ==
  ASSUME NEW t, TransientSound(t), NEW completed, NEW tick
  PROVE  /\ TransientSound(Recycled(t, completed, tick))
         /\ \A x \in BuffersOf(Recycled(t, completed, tick)) :
              \E y \in BuffersOf(t) : y.id = x.id /\ y.tick = x.tick
<1> DEFINE stale == {b \in Range(t.free) \cup Range(t.used) : Stale(b, completed, tick)}
           done == {b \in Range(t.used) : Recyclable(b, completed)}
           back == Kept(t.used, done \ stale)
           f == Kept(t.free, Range(t.free) \ stale)
           u == Kept(t.used, Range(t.used) \ done)
           free == f \o ResetAll(back)
<1>1. /\ t.free \in Seq(Buffers) /\ t.used \in Seq(Buffers) /\ t.made \in Nat
      /\ BuffersApart(t.free, t.used, t.made) /\ t \in TransientStates
  BY DEF TransientSound, TransientStates
<1>2. /\ PartOf(t.free, Range(t.free) \ stale, f) /\ PartOf(t.used, done \ stale, back)
      /\ PartOf(t.used, Range(t.used) \ done, u)
  BY <1>1, KeptPart
<1>3. (done \ stale) \cap (Range(t.used) \ done) = {}
  OBVIOUS
<1>4. Recycled(t, completed, tick) = [t EXCEPT !.free = free, !.used = u]
  BY DEF Recycled, ResetAll, Reset
<1> HIDE DEF f, u, back, stale, done
<1>5. /\ free \in Seq(Buffers) /\ u \in Seq(Buffers) /\ BuffersApart(free, u, t.made)
      /\ \A x \in Range(free) \cup Range(u) :
           \E y \in Range(t.free) \cup Range(t.used) : y.id = x.id /\ y.tick = x.tick
  <2> DEFINE a == t.free
             b == t.used
             n == t.made
             A == Range(t.free) \ stale
             D == done \ stale
             E == Range(t.used) \ done
  <2>1. /\ a \in Seq(Buffers) /\ b \in Seq(Buffers) /\ n \in Nat /\ BuffersApart(a, b, n)
        /\ PartOf(a, A, f) /\ PartOf(b, D, back) /\ PartOf(b, E, u) /\ D \cap E = {}
    BY <1>1, <1>2, <1>3
  <2> HIDE DEF a, b, n, A, D, E, free
  <2>2. Rejoined(a, b, n, f, back, u)
    BY <2>1, PartsRejoin
  <2> QED BY <2>2 DEF Rejoined, a, b, n, free
<1> HIDE DEF free
<1>6. /\ Recycled(t, completed, tick) \in TransientStates
      /\ Recycled(t, completed, tick).free = free /\ Recycled(t, completed, tick).used = u
      /\ Recycled(t, completed, tick).made = t.made
  BY <1>1, <1>4, <1>5 DEF TransientStates
<1> QED BY <1>5, <1>6 DEF TransientSound, BuffersOf
-----------------------------------------------------------------------------
(* Space in pools: h gives the allocation that each place holds, e the size *)
(* of its elements.                                                        *)

Allocs == [id : Nat, from : Nat, to : Nat, at : Nat]
PoolRecs ==
  [id : Nat, element : Nat, allocated : Nat, freed : Nat, exhausted : BOOLEAN,
   moving : BOOLEAN, allocation : Nat, access : Nat]

Within(n, element) == n * element <= POOL_SIZE_BYTES
Beside(a, b) == a.id = b.id => a.to <= b.from \/ b.to <= a.from
PlacedAt(a, element, p) ==
  p.id = a.id /\ a.from < a.to /\ a.to <= p.allocated /\ p.element = element /\ Within(a.to, element)
Placed(a, element, ps) == \E i \in 1 .. Len(ps) : PlacedAt(a, element, ps[i])
Cover(h, id) == {n \in Nat : \E x \in DOMAIN h : h[x].id = id /\ h[x].from <= n /\ n < h[x].to}

PoolsApart(ps, m) ==
  /\ \A i \in 1 .. Len(ps) : ps[i].id \in 1 .. m /\ (ps[i].element = 0 => ps[i].allocated = 0)
  /\ \A i, j \in 1 .. Len(ps) : ps[i].id = ps[j].id => i = j
AllPlaced(h, e, ps) == \A x \in DOMAIN h : h[x] = NoAllocation \/ Placed(h[x], e[x], ps)
AllBeside(h) == \A x, y \in DOMAIN h : x # y => Beside(h[x], h[y])
Counted(h, p) == p.allocated = p.freed + Cardinality(Cover(h, p.id))
AllCounted(h, ps) == \A i \in 1 .. Len(ps) : Counted(h, ps[i])

Space(h, e, ps, m) ==
  /\ ps \in Seq(PoolRecs) /\ m \in Nat
  /\ PoolsApart(ps, m) /\ AllPlaced(h, e, ps) /\ AllBeside(h) /\ AllCounted(h, ps)

LEMMA PoolTyped ==
  ASSUME NEW p \in PoolRecs
  PROVE  /\ p.id \in Nat /\ p.element \in Nat /\ p.allocated \in Nat /\ p.freed \in Nat
         /\ p.exhausted \in BOOLEAN /\ p.moving \in BOOLEAN /\ p.allocation \in Nat /\ p.access \in Nat
BY DEF PoolRecs

LEMMA PoolsTyped ==
  ASSUME NEW ps \in Seq(PoolRecs)
  PROVE  /\ Len(ps) \in Nat /\ DOMAIN ps = 1 .. Len(ps)
         /\ \A i \in 1 .. Len(ps) :
              /\ ps[i] \in PoolRecs /\ ps[i].id \in Nat /\ ps[i].element \in Nat
              /\ ps[i].allocated \in Nat /\ ps[i].freed \in Nat
BY PoolTyped

LEMMA AllocTyped ==
  ASSUME NEW a \in Allocs
  PROVE  a.id \in Nat /\ a.from \in Nat /\ a.to \in Nat /\ a.at \in Nat
BY DEF Allocs

LEMMA NothingTyped ==
  NoAllocation \in Allocs /\ NoAllocation.id = 0 /\ NoAllocation.from = 0 /\ NoAllocation.to = 0
  /\ NoAllocation.at = 0
BY DEF NoAllocation, Allocs

\* What covers a pool lies below what was allocated.
LEMMA CoverFinite ==
  ASSUME NEW S, NEW h \in [S -> Allocs], NEW e, NEW ps, NEW m, Space(h, e, ps, m), NEW i \in 1 .. Len(ps)
  PROVE  /\ \A n \in Cover(h, ps[i].id) : n \in Nat /\ n < ps[i].allocated
         /\ IsFiniteSet(Cover(h, ps[i].id))
         /\ Cardinality(Cover(h, ps[i].id)) \in Nat
<1> DEFINE C == Cover(h, ps[i].id)
<1>1. ps \in Seq(PoolRecs) /\ PoolsApart(ps, m) /\ AllPlaced(h, e, ps)
  BY DEF Space
<1>2. ps[i].allocated \in Nat /\ ps[i].id \in 1 .. m
  BY <1>1, PoolsTyped DEF PoolsApart
<1>3. ASSUME NEW n \in C PROVE n \in Nat /\ n < ps[i].allocated
  <2>1. PICK x \in S : n \in Nat /\ h[x].id = ps[i].id /\ h[x].from <= n /\ n < h[x].to
    BY DEF Cover
  <2>2. h[x] # NoAllocation
    BY <2>1, <1>2, NothingTyped
  <2>3. PICK j \in 1 .. Len(ps) : PlacedAt(h[x], e[x], ps[j])
    BY <2>2, <1>1 DEF AllPlaced, Placed
  <2>4. j = i /\ h[x].to <= ps[i].allocated /\ h[x].to \in Nat
    BY <2>1, <2>3, <1>1, AllocTyped DEF PlacedAt, PoolsApart
  <2> QED BY <2>1, <2>4, <1>2
<1> HIDE DEF C
<1>4. C \in SUBSET Nat /\ \A n \in C : n <= ps[i].allocated
  BY <1>3, <1>2
<1>5. IsFiniteSet(C) /\ Cardinality(C) \in Nat
  BY <1>4, <1>2, FS_BoundedSetOfNaturals, FS_CardinalityType
<1> QED BY <1>3, <1>5 DEF C

\* The pool of an allocation.
LEMMA PlacedPool ==
  ASSUME NEW S, NEW h \in [S -> Allocs], NEW e, NEW ps, NEW m, Space(h, e, ps, m),
         NEW x \in S, h[x] # NoAllocation
  PROVE  \E i \in 1 .. Len(ps) :
           /\ ps[i].id = h[x].id /\ h[x].from < h[x].to /\ h[x].to <= ps[i].allocated
           /\ ps[i].element = e[x] /\ Within(h[x].to, e[x])
           /\ \A j \in 1 .. Len(ps) : ps[j].id = h[x].id => j = i
           /\ h[x].id \in 1 .. m
<1>1. PoolsApart(ps, m) /\ AllPlaced(h, e, ps)
  BY DEF Space
<1>2. PICK i \in 1 .. Len(ps) : PlacedAt(h[x], e[x], ps[i])
  BY <1>1 DEF AllPlaced, Placed
<1> QED BY <1>1, <1>2 DEF PlacedAt, PoolsApart

\* Pools as an allocation leaves them.
SameSpace(p, q) ==
  q.id = p.id /\ q.element = p.element /\ q.allocated = p.allocated /\ q.freed = p.freed

GivenAt(ps, m, ps2, m2, a, element, i) ==
  /\ \A j \in 1 .. Len(ps2) : j # i => j \in 1 .. Len(ps) /\ SameSpace(ps[j], ps2[j])
  /\ \A j \in 1 .. Len(ps) : j \in 1 .. Len(ps2)
  /\ ps2[i].id = a.id /\ ps2[i].element = element /\ ps2[i].allocated = a.to
  /\ a.from < a.to /\ Within(a.to, element)
  /\ \/ /\ i \in 1 .. Len(ps) /\ m2 = m
        /\ ps[i].id = a.id /\ ps[i].element \in {0, element}
        /\ ps[i].allocated = a.from /\ ps2[i].freed = ps[i].freed
     \/ i \notin 1 .. Len(ps) /\ m2 = m + 1 /\ a.id = m + 1 /\ a.from = 0 /\ ps2[i].freed = 0
Given(ps, m, ps2, m2, a, element) ==
  /\ ps2 \in Seq(PoolRecs) /\ a \in Allocs
  /\ \E i \in 1 .. Len(ps2) : GivenAt(ps, m, ps2, m2, a, element, i)

\* A place that held nothing gets space of its own.
LEMMA SpaceGiven ==
  ASSUME NEW S, NEW h \in [S -> Allocs], NEW e \in [S -> Nat \ {0}], NEW ps, NEW m, Space(h, e, ps, m),
         NEW x \in S, h[x] = NoAllocation, NEW ps2, NEW m2, NEW a,
         Given(ps, m, ps2, m2, a, e[x])
  PROVE  Space([h EXCEPT ![x] = a], e, ps2, m2)
<1> DEFINE g == [h EXCEPT ![x] = a]
           el == e[x]
           c == Len(ps)
           d == Len(ps2)
<1>1. /\ ps \in Seq(PoolRecs) /\ m \in Nat
      /\ PoolsApart(ps, m) /\ AllPlaced(h, e, ps) /\ AllBeside(h) /\ AllCounted(h, ps)
  BY DEF Space
<1>2. /\ ps2 \in Seq(PoolRecs) /\ a \in Allocs /\ el \in Nat /\ el # 0
      /\ a.id \in Nat /\ a.from \in Nat /\ a.to \in Nat
  BY AllocTyped DEF Given
<1>3. PICK i \in 1 .. d : GivenAt(ps, m, ps2, m2, a, el, i)
  BY DEF Given
<1>4. /\ c \in Nat /\ d \in Nat
      /\ \A j \in 1 .. c : ps[j].id \in Nat /\ ps[j].element \in Nat /\ ps[j].allocated \in Nat /\ ps[j].freed \in Nat
      /\ \A j \in 1 .. d : ps2[j].id \in Nat /\ ps2[j].element \in Nat /\ ps2[j].allocated \in Nat /\ ps2[j].freed \in Nat
  BY <1>1, <1>2, PoolsTyped
<1>5. g \in [S -> Allocs] /\ g[x] = a /\ \A y \in S : y # x => g[y] = h[y]
  BY <1>2
<1>d. DOMAIN g = S /\ DOMAIN h = S
  OBVIOUS
<1>6. /\ \A j \in 1 .. d : j # i => j \in 1 .. c /\ SameSpace(ps[j], ps2[j])
      /\ \A j \in 1 .. c : j \in 1 .. d
      /\ ps2[i].id = a.id /\ ps2[i].element = el /\ ps2[i].allocated = a.to
      /\ a.from < a.to /\ Within(a.to, el)
      /\ \/ /\ i \in 1 .. c /\ m2 = m
            /\ ps[i].id = a.id /\ ps[i].element \in {0, el}
            /\ ps[i].allocated = a.from /\ ps2[i].freed = ps[i].freed
         \/ i \notin 1 .. c /\ m2 = m + 1 /\ a.id = m + 1 /\ a.from = 0 /\ ps2[i].freed = 0
  BY <1>3 DEF GivenAt
<1>7. /\ \A j \in 1 .. c : ps[j].id \in 1 .. m /\ (ps[j].element = 0 => ps[j].allocated = 0)
      /\ \A j, k \in 1 .. c : ps[j].id = ps[k].id => j = k
  BY <1>1 DEF PoolsApart
<1> HIDE DEF g, el, c, d
<1>8. m2 \in Nat /\ m <= m2 /\ a.id \in 1 .. m2
  BY <1>1, <1>6, <1>7
<1>9. PoolsApart(ps2, m2)
  <2>1. ASSUME NEW j \in 1 .. d PROVE ps2[j].id \in 1 .. m2 /\ (ps2[j].element = 0 => ps2[j].allocated = 0)
    <3>1. CASE j = i
      BY <3>1, <1>2, <1>6, <1>8
    <3>2. CASE j # i
      <4>1. j \in 1 .. c /\ ps2[j].id = ps[j].id /\ ps2[j].element = ps[j].element
            /\ ps2[j].allocated = ps[j].allocated
        BY <3>2, <1>6 DEF SameSpace
      <4>2. ps[j].id \in 1 .. m /\ (ps[j].element = 0 => ps[j].allocated = 0)
        BY <4>1, <1>7
      <4> QED BY <4>1, <4>2, <1>1, <1>8
    <3> QED BY <3>1, <3>2
  <2>2. ASSUME NEW j \in 1 .. d, j # i PROVE ps2[j].id # ps2[i].id
    <3>1. j \in 1 .. c /\ ps2[j].id = ps[j].id /\ ps[j].id \in 1 .. m
      BY <2>2, <1>6, <1>7 DEF SameSpace
    <3> QED BY <3>1, <2>2, <1>1, <1>6, <1>7
  <2>3. ASSUME NEW j \in 1 .. d, NEW k \in 1 .. d, ps2[j].id = ps2[k].id PROVE j = k
    BY <2>2, <2>3, <1>6, <1>7 DEF SameSpace
  <2> QED BY <2>1, <2>3 DEF PoolsApart, d
<1>10. ASSUME NEW y \in S, y # x, h[y] # NoAllocation
       PROVE  \E k \in 1 .. c : /\ PlacedAt(h[y], e[y], ps[k])
                                /\ k = i => h[y].to <= a.from /\ e[y] = el
                                /\ h[y].id = a.id => k = i
                                /\ h[y].from < h[y].to
  <2>1. PICK k \in 1 .. c : PlacedAt(h[y], e[y], ps[k])
    BY <1>1, <1>10, <1>d DEF AllPlaced, Placed, c
  <2>2. /\ ps[k].id = h[y].id /\ h[y].from < h[y].to /\ h[y].to <= ps[k].allocated /\ ps[k].element = e[y]
        /\ h[y].from \in Nat /\ h[y].to \in Nat /\ e[y] \in Nat /\ e[y] # 0
    BY <2>1, AllocTyped DEF PlacedAt
  <2>3. k = i => h[y].to <= a.from /\ e[y] = el
    BY <2>2, <1>6
  <2>4. h[y].id = a.id => k = i
    BY <2>2, <1>1, <1>6, <1>7
  <2> QED BY <2>1, <2>2, <2>3, <2>4
<1>11. AllPlaced(g, e, ps2)
  <2> SUFFICES ASSUME NEW y \in S, g[y] # NoAllocation PROVE Placed(g[y], e[y], ps2)
    BY <1>d DEF AllPlaced
  <2>1. CASE y = x
    <3>1. PlacedAt(a, el, ps2[i])
      BY <1>2, <1>6 DEF PlacedAt
    <3>2. Placed(a, el, ps2)
      BY <3>1 DEF Placed, d
    <3>3. g[y] = a /\ e[y] = el
      BY <2>1, <1>5 DEF el
    <3> QED BY <3>2, <3>3
  <2>2. CASE y # x
    <3>1. PICK k \in 1 .. c : PlacedAt(h[y], e[y], ps[k]) /\ (k = i => h[y].to <= a.from /\ e[y] = el)
      BY <2>2, <1>5, <1>10
    <3>2. k \in 1 .. d /\ PlacedAt(h[y], e[y], ps2[k])
      <4>1. CASE k = i
        <5>1. h[y].to <= a.to
          BY <3>1, <4>1, <1>2, <1>6, AllocTyped
        <5> QED BY <3>1, <4>1, <5>1, <1>6 DEF PlacedAt
      <4>2. CASE k # i
        BY <3>1, <4>2, <1>6 DEF PlacedAt, SameSpace
      <4> QED BY <4>1, <4>2
    <3> QED BY <3>2, <2>2, <1>5 DEF Placed, d
  <2> QED BY <2>1, <2>2
<1>12. AllBeside(g)
  <2>1. ASSUME NEW y \in S, y # x PROVE Beside(h[y], a) /\ Beside(a, h[y])
    <3>1. CASE h[y] = NoAllocation
      BY <3>1, <1>8, NothingTyped DEF Beside
    <3>2. CASE h[y] # NoAllocation
      BY <3>2, <2>1, <1>10 DEF Beside
    <3> QED BY <3>1, <3>2
  <2> QED BY <2>1, <1>1, <1>5, <1>d DEF AllBeside
<1>13. ASSUME NEW k \in 1 .. d PROVE Counted(g, ps2[k])
  <2>1. CASE k # i
    <3>1. k \in 1 .. c /\ ps2[k].id = ps[k].id /\ ps2[k].allocated = ps[k].allocated /\ ps2[k].freed = ps[k].freed
      BY <2>1, <1>6 DEF SameSpace
    <3>2. ps[k].id # a.id /\ ps[k].id # 0
      <4>1. ps2[k].id # ps2[i].id
        BY <2>1, <1>9 DEF PoolsApart, d
      <4> QED BY <4>1, <3>1, <1>6, <1>7
    <3>3. Cover(g, ps[k].id) = Cover(h, ps[k].id)
      <4>1. \A y \in S : g[y].id = ps[k].id => y # x /\ g[y] = h[y]
        BY <3>2, <1>5
      <4>2. \A y \in S : h[y].id = ps[k].id => y # x /\ g[y] = h[y]
        BY <3>2, <1>5, NothingTyped
      <4> QED BY <4>1, <4>2, <1>d DEF Cover
    <3>4. Counted(h, ps[k])
      BY <3>1, <1>1 DEF AllCounted, c
    <3> QED BY <3>1, <3>3, <3>4 DEF Counted
  <2>2. CASE k = i
    <3> DEFINE C == Cover(h, a.id)
               D == a.from .. a.to - 1
    <3>1. Cover(g, a.id) = C \cup D
      <4>1. \A n \in Nat : n \in D <=> a.from <= n /\ n < a.to
        BY <1>2
      <4>2. ASSUME NEW n \in Cover(g, a.id) PROVE n \in C \cup D
        <5>1. PICK y \in S : n \in Nat /\ g[y].id = a.id /\ g[y].from <= n /\ n < g[y].to
          BY <4>2, <1>d DEF Cover
        <5>2. CASE y = x
          BY <5>1, <5>2, <4>1, <1>5
        <5>3. CASE y # x
          BY <5>1, <5>3, <1>5, <1>d DEF Cover
        <5> QED BY <5>2, <5>3
      <4>3. ASSUME NEW n \in C PROVE n \in Cover(g, a.id)
        <5>1. PICK y \in S : n \in Nat /\ h[y].id = a.id /\ h[y].from <= n /\ n < h[y].to
          BY <4>3, <1>d DEF Cover
        <5>2. y # x
          BY <5>1, <1>8, NothingTyped
        <5> QED BY <5>1, <5>2, <1>5, <1>d DEF Cover
      <4>4. ASSUME NEW n \in D PROVE n \in Cover(g, a.id)
        <5>1. n \in Nat
          BY <1>2
        <5> QED BY <5>1, <4>1, <1>5, <1>d DEF Cover
      <4> HIDE DEF C, D
      <4> QED BY <4>2, <4>3, <4>4
    <3>2. /\ \A n \in C : n \in Nat /\ n < a.from
          /\ IsFiniteSet(C) /\ Cardinality(C) \in Nat
          /\ a.from = ps2[i].freed + Cardinality(C)
      <4>1. CASE i \in 1 .. c
        <5>1. ps[i].id = a.id /\ ps[i].allocated = a.from /\ ps2[i].freed = ps[i].freed
          BY <4>1, <1>6
        <5>2. (\A n \in Cover(h, ps[i].id) : n \in Nat /\ n < ps[i].allocated)
              /\ IsFiniteSet(Cover(h, ps[i].id)) /\ Cardinality(Cover(h, ps[i].id)) \in Nat
          BY <4>1, CoverFinite DEF c
        <5>3. Counted(h, ps[i])
          BY <4>1, <1>1 DEF AllCounted, c
        <5> QED BY <5>1, <5>2, <5>3 DEF Counted
      <4>2. CASE i \notin 1 .. c
        <5>1. a.id = m + 1 /\ a.from = 0 /\ ps2[i].freed = 0
          BY <4>2, <1>6
        <5>2. C = {}
          <6> SUFFICES ASSUME NEW y \in S, h[y].id = a.id PROVE FALSE
            BY <1>d DEF Cover
          <6>1. y # x /\ h[y] # NoAllocation
            BY <1>8, NothingTyped
          <6>2. PICK k2 \in 1 .. c : PlacedAt(h[y], e[y], ps[k2])
            BY <6>1, <1>10
          <6> QED BY <6>2, <5>1, <1>1, <1>7 DEF PlacedAt
        <5> HIDE DEF C
        <5> QED BY <5>1, <5>2, FS_EmptySet
      <4> QED BY <4>1, <4>2
    <3>3. IsFiniteSet(D) /\ Cardinality(D) = a.to - a.from
      <4>1. a.from \in Int /\ a.to - 1 \in Int /\ ~ (a.from > a.to - 1)
        BY <1>2, <1>6
      <4>2. \A i1, j1 \in Nat : (j1 - 1) - i1 + 1 = j1 - i1
        OBVIOUS
      <4>3. (a.to - 1) - a.from + 1 = a.to - a.from
        BY <4>2, <1>2
      <4>4. IsFiniteSet(D) /\ Cardinality(D) = (IF a.from > a.to - 1 THEN 0 ELSE (a.to - 1) - a.from + 1)
        BY <4>1, FS_Interval
      <4> QED BY <4>1, <4>3, <4>4
    <3>4. C \cap D = {}
      BY <3>2, <1>2
    <3> HIDE DEF C, D
    <3>5. Cardinality(C \cup D) = Cardinality(C) + (a.to - a.from)
      <4>1. Cardinality(C \cup D) = Cardinality(C) + Cardinality(D) - Cardinality(C \cap D)
        BY <3>2, <3>3, FS_Union
      <4>2. Cardinality(C \cap D) = 0
        BY <3>4, FS_EmptySet
      <4>3. Cardinality(D) = a.to - a.from /\ Cardinality(C) \in Nat /\ a.to - a.from \in Int
        BY <3>2, <3>3, <1>2
      <4>4. \A i1, j1 \in Int : i1 + j1 - 0 = i1 + j1
        OBVIOUS
      <4> QED BY <4>1, <4>2, <4>3, <4>4
    <3>6. ps2[i].id = a.id /\ ps2[i].allocated = a.to /\ ps2[i].freed \in Nat
      BY <1>4, <1>6
    <3>7. a.to = ps2[i].freed + Cardinality(C \cup D)
      <4>1. \A i1, j1, k1, l1 \in Int : i1 = k1 + l1 => j1 = k1 + (l1 + (j1 - i1))
        OBVIOUS
      <4>2. a.from \in Int /\ a.to \in Int /\ ps2[i].freed \in Int /\ Cardinality(C) \in Int
        BY <3>2, <3>6, <1>2
      <4> QED BY <4>1, <4>2, <3>2, <3>5
    <3> QED BY <2>2, <3>1, <3>6, <3>7 DEF Counted
  <2> QED BY <2>1, <2>2
<1>14. Space(g, e, ps2, m2)
  BY <1>2, <1>8, <1>9, <1>11, <1>12, <1>13 DEF Space, AllCounted, d
<1> QED BY <1>14 DEF g

\* What freeing the allocations of all streams adds to the count of a pool.
Span(a) == {n \in Nat : a.from <= n /\ n < a.to}
SpanIn(al, id, t) == {n \in Nat : \E s \in t : al[s].id = id /\ al[s].from <= n /\ n < al[s].to}
FreedSum(al, id, base) ==
  FoldFunction(LAMBDA a, n : IF a.id = id THEN n + Size(a) ELSE n, base, al)

LEMMA SpanSize ==
  ASSUME NEW a \in Allocs, a.from <= a.to
  PROVE  IsFiniteSet(Span(a)) /\ Cardinality(Span(a)) = Size(a) /\ Size(a) \in Nat
<1>1. a.from \in Nat /\ a.to \in Nat
  BY AllocTyped
<1> DEFINE i == a.from
           j == a.to
<1>2. i \in Nat /\ j \in Nat /\ i <= j
  BY <1>1
<1>3. Span(a) = {n \in Nat : i <= n /\ n < j} /\ Size(a) = j - i
  BY DEF Span, Size
<1> HIDE DEF i, j
<1>4. {n \in Nat : i <= n /\ n < j} = i .. j - 1
  BY <1>2
<1>5. IsFiniteSet(i .. j - 1) /\ Cardinality(i .. j - 1) = (IF i > j - 1 THEN 0 ELSE (j - 1) - i + 1)
  BY <1>2, FS_Interval
<1>6. (IF i > j - 1 THEN 0 ELSE (j - 1) - i + 1) = j - i /\ j - i \in Nat
  BY <1>2
<1> QED BY <1>3, <1>4, <1>5, <1>6

\* One more stream.
LEMMA SpanMore ==
  ASSUME NEW al \in [Streams -> Allocs], NEW id \in Nat, NEW t \in SUBSET Streams, NEW x \in t,
         \A s, r \in Streams : s # r => Beside(al[s], al[r]), al[x].from <= al[x].to,
         IsFiniteSet(SpanIn(al, id, t \ {x}))
  PROVE  /\ IsFiniteSet(SpanIn(al, id, t))
         /\ Cardinality(SpanIn(al, id, t)) =
              Cardinality(SpanIn(al, id, t \ {x})) + (IF al[x].id = id THEN Size(al[x]) ELSE 0)
<1> DEFINE C == SpanIn(al, id, t \ {x})
           D == Span(al[x])
<1>0. IsFiniteSet(C) /\ Cardinality(C) \in Nat
  BY FS_CardinalityType
<1>1. CASE al[x].id # id
  <2>1. SpanIn(al, id, t) = C
    BY <1>1 DEF SpanIn
  <2> HIDE DEF C
  <2>2. Cardinality(C) = Cardinality(C) + 0
    BY <1>0
  <2> QED BY <2>1, <2>2, <1>0, <1>1 DEF C
<1>2. CASE al[x].id = id
  <2>1. SpanIn(al, id, t) = C \cup D
    BY <1>2 DEF SpanIn, Span
  <2>2. C \cap D = {}
    <3> SUFFICES ASSUME NEW n \in C, n \in D PROVE FALSE
      OBVIOUS
    <3>1. PICK s \in t \ {x} : al[s].id = id /\ al[s].from <= n /\ n < al[s].to
      BY DEF SpanIn
    <3>2. n \in Nat /\ al[x].from <= n /\ n < al[x].to
      BY DEF Span
    <3>3. al[s].to <= al[x].from \/ al[x].to <= al[s].from
      BY <3>1, <1>2 DEF Beside
    <3>4. /\ al[s].from \in Nat /\ al[s].to \in Nat
          /\ al[x].from \in Nat /\ al[x].to \in Nat
      BY <3>1, AllocTyped
    <3> QED BY <3>1, <3>2, <3>3, <3>4
  <2>3. IsFiniteSet(D) /\ Cardinality(D) = Size(al[x]) /\ Size(al[x]) \in Nat
    BY SpanSize
  <2> HIDE DEF C, D
  <2>4. IsFiniteSet(C \cup D) /\ Cardinality(C \cup D) = Cardinality(C) + Cardinality(D) - Cardinality(C \cap D)
    BY <1>0, <2>3, FS_Union
  <2>5. Cardinality(C \cap D) = 0
    BY <2>2, FS_EmptySet
  <2>6. Cardinality(C \cup D) = Cardinality(C) + Size(al[x])
    BY <1>0, <2>3, <2>4, <2>5
  <2> QED BY <1>2, <2>1, <2>4, <2>6 DEF C
<1> QED BY <1>1, <1>2

SumFold(al, id, base, S, g) ==
  g = [t \in SUBSET S |->
         IF t = {} THEN base
         ELSE IF al[CHOOSE x \in t : TRUE].id = id
              THEN g[t \ {CHOOSE x \in t : TRUE}] + Size(al[CHOOSE x \in t : TRUE])
              ELSE g[t \ {CHOOSE x \in t : TRUE}]]

LEMMA FreedCount ==
  ASSUME NEW al \in [Streams -> Allocs], NEW id \in Nat, NEW base \in Nat,
         \A s, r \in Streams : s # r => Beside(al[s], al[r]),
         \A s \in Streams : al[s].from <= al[s].to
  PROVE  /\ FreedSum(al, id, base) = base + Cardinality(Cover(al, id))
         /\ IsFiniteSet(Cover(al, id)) /\ Cardinality(Cover(al, id)) \in Nat
<1> DEFINE S == Streams
           add == [s \in S |-> IF al[s].id = id THEN Size(al[s]) ELSE 0]
           f == [s \in S |-> [n \in Nat |-> n + add[s]]]
           c == [t \in SUBSET S |-> CHOOSE x \in t : TRUE]
           fold == CHOOSE g : SumFold(al, id, base, S, g)
<1>1. IsFiniteSet(S) /\ DOMAIN al = S
  BY MeshesAssumption
<1>2. FreedSum(al, id, base) = fold[S]
  BY <1>1 DEF FreedSum, FoldFunction, FoldFunctionOnSet, MapThenFoldSet, SumFold
<1>3. \A s \in S : Size(al[s]) \in Nat
  BY SpanSize
<1>4. add \in [S -> Nat] /\ \A s \in S : add[s] = IF al[s].id = id THEN Size(al[s]) ELSE 0
  BY <1>3
<1> HIDE DEF add
<1>5. f \in [S -> [Nat -> Nat]] /\ \A s \in S : \A n \in Nat : f[s][n] = n + add[s]
  BY <1>4
<1>6. \A t \in SUBSET S : /\ c[t] = (CHOOSE x \in t : TRUE)
                          /\ t # {} => c[t] \in t
  OBVIOUS
<1> HIDE DEF f, c, S
<1>7. PICK g0 : SetFoldOf(Nat, f, base, c, S, g0)
  BY <1>1, <1>5, <1>6, SetFoldExists
<1>8. g0 \in [SUBSET S -> Nat] /\ \A t \in SUBSET S : g0[t] = IF t = {} THEN base ELSE f[c[t]][g0[t \ {c[t]}]]
  BY <1>7 DEF SetFoldOf
<1>9. ASSUME NEW t \in SUBSET S, t # {}
      PROVE  LET x == CHOOSE x \in t : TRUE
             IN  g0[t] = IF al[x].id = id THEN g0[t \ {x}] + Size(al[x]) ELSE g0[t \ {x}]
  <2> DEFINE x == c[t]
  <2>0. x = (CHOOSE y \in t : TRUE) /\ x \in t /\ x \in S /\ t \ {x} \in SUBSET S
    BY <1>6, <1>9
  <2>1. g0[t] = f[x][g0[t \ {x}]]
    BY <1>8, <1>9
  <2> HIDE DEF x
  <2> DEFINE n == g0[t \ {x}]
  <2>2. n \in Nat
    BY <2>0, <1>8
  <2>3. g0[t] = f[x][n]
    BY <2>1
  <2> HIDE DEF n
  <2>4. g0[t] = n + (IF al[x].id = id THEN Size(al[x]) ELSE 0)
    BY <2>0, <2>2, <2>3, <1>4, <1>5
  <2>5. g0[t] = IF al[x].id = id THEN n + Size(al[x]) ELSE n
    BY <2>2, <2>4
  <2> QED BY <2>0, <2>5 DEF n
<1>10. SumFold(al, id, base, S, g0)
  BY <1>8, <1>9 DEF SumFold
<1>11. SumFold(al, id, base, S, fold)
  BY <1>10
<1> HIDE DEF fold
<1> DEFINE h == [t \in SUBSET S |-> base + Cardinality(SpanIn(al, id, t))]
<1>12. \A t \in SUBSET S : h[t] = base + Cardinality(SpanIn(al, id, t))
  OBVIOUS
<1> HIDE DEF h
<1>13. SpanIn(al, id, {}) = {} /\ SpanIn(al, id, S) = Cover(al, id)
  BY <1>1 DEF SpanIn, Cover
<1>e. {} \in SUBSET S /\ S \in SUBSET S
  OBVIOUS
<1>14. \A t \in SUBSET S : IsFiniteSet(SpanIn(al, id, t))
  <2> DEFINE d == [t \in SUBSET S |-> IsFiniteSet(SpanIn(al, id, t))]
             W == {TRUE}
  <2> SUFFICES ASSUME NEW r \in SUBSET S PROVE IsFiniteSet(SpanIn(al, id, r))
    OBVIOUS
  <2>0. \A t \in SUBSET S : d[t] \in W <=> IsFiniteSet(SpanIn(al, id, t))
    OBVIOUS
  <2> HIDE DEF d, W
  <2>1. IsFiniteSet(r) /\ \A t \in SUBSET r : t \in SUBSET S /\ (d[t] \in W <=> IsFiniteSet(SpanIn(al, id, t)))
    BY <1>1, <2>0, FS_Subset
  <2>2. d[{}] \in W
    BY <1>13, <1>e, <2>0, FS_EmptySet
  <2>3. ASSUME NEW t \in SUBSET r, t # {} PROVE \E x \in t : d[t \ {x}] \in W => d[t] \in W
    <3>1. PICK x \in t : TRUE
      BY <2>3
    <3>2. t \in SUBSET S /\ t \ {x} \in SUBSET r
      BY <2>1
    <3>3. IsFiniteSet(SpanIn(al, id, t \ {x})) => IsFiniteSet(SpanIn(al, id, t))
      BY <3>1, <3>2, SpanMore DEF S
    <3> QED BY <3>1, <3>2, <3>3, <2>1
  <2>4. d[r] \in W
    BY <2>1, <2>2, <2>3, SetFoldEnds
  <2> QED BY <2>1, <2>4
<1>15. fold[{}] = h[{}]
  <2>1. fold[{}] = base
    BY <1>11, <1>e DEF SumFold
  <2>2. h[{}] = base
    <3>1. Cardinality(SpanIn(al, id, {})) = 0
      BY <1>13, FS_EmptySet
    <3> QED BY <3>1, <1>12, <1>e
  <2> QED BY <2>1, <2>2
<1>16. ASSUME NEW t \in SUBSET S, t # {} PROVE \E x \in t : fold[t \ {x}] = h[t \ {x}] => fold[t] = h[t]
  <2> DEFINE x == CHOOSE x \in t : TRUE
  <2>1. fold[t] = IF al[x].id = id THEN fold[t \ {x}] + Size(al[x]) ELSE fold[t \ {x}]
    BY <1>11, <1>16 DEF SumFold
  <2>2. x \in t
    BY <1>16
  <2> HIDE DEF x
  <2>3. x \in S /\ t \ {x} \in SUBSET S
    BY <2>2
  <2>4. Cardinality(SpanIn(al, id, t)) =
          Cardinality(SpanIn(al, id, t \ {x})) + (IF al[x].id = id THEN Size(al[x]) ELSE 0)
    BY <2>2, <2>3, <1>14, SpanMore DEF S
  <2>5. Cardinality(SpanIn(al, id, t \ {x})) \in Nat /\ Size(al[x]) \in Nat
    BY <2>3, <1>3, <1>14, FS_CardinalityType
  <2>6. h[t] = base + Cardinality(SpanIn(al, id, t)) /\ h[t \ {x}] = base + Cardinality(SpanIn(al, id, t \ {x}))
    BY <1>12, <2>3
  <2>7. fold[t \ {x}] = h[t \ {x}] => fold[t] = h[t]
    BY <2>1, <2>4, <2>5, <2>6
  <2> QED BY <2>2, <2>7
<1>17. fold[S] = h[S]
  BY <1>1, <1>15, <1>16, SetFoldIs
<1>18. IsFiniteSet(SpanIn(al, id, S)) /\ h[S] = base + Cardinality(SpanIn(al, id, S))
  BY <1>12, <1>14, <1>e
<1> QED BY <1>2, <1>13, <1>17, <1>18, FS_CardinalityType

\* Pools of which space was freed.
FreedPool(p, al) == [p EXCEPT !.freed = FreedSum(al, p.id, p.freed)]
Kin(p, q) == q.id = p.id /\ q.element = p.element /\ q.allocated = p.allocated /\ q.access = p.access

LEMMA FreedPools ==
  ASSUME NEW ps \in Seq(PoolRecs), NEW al \in [Streams -> Allocs],
         \A s, r \in Streams : s # r => Beside(al[s], al[r]),
         \A s \in Streams : al[s].from <= al[s].to
  PROVE  /\ Freed(ps, al) \in Seq(PoolRecs) /\ Len(Freed(ps, al)) = Len(ps)
         /\ \A i \in 1 .. Len(ps) :
              /\ Kin(ps[i], Freed(ps, al)[i])
              /\ Freed(ps, al)[i].freed = ps[i].freed + Cardinality(Cover(al, ps[i].id))
              /\ IsFiniteSet(Cover(al, ps[i].id)) /\ Cardinality(Cover(al, ps[i].id)) \in Nat
<1> DEFINE c == Len(ps)
           f == Freed(ps, al)
<1>1. c \in Nat /\ DOMAIN ps = 1 .. c /\ \A i \in 1 .. c : ps[i] \in PoolRecs
  BY PoolsTyped
<1> HIDE DEF c
<1>2. f = [i \in 1 .. c |-> FreedPool(ps[i], al)]
  <2>1. f = [i \in DOMAIN ps |-> FreedPool(ps[i], al)]
    BY DEF Freed, FreedPool, FreedSum, FoldFunction, FoldFunctionOnSet, MapThenFoldSet
  <2> HIDE DEF f
  <2> QED BY <1>1, <2>1
<1> HIDE DEF f
<1>3. ASSUME NEW p \in PoolRecs
      PROVE  /\ FreedPool(p, al) \in PoolRecs /\ Kin(p, FreedPool(p, al))
             /\ FreedPool(p, al).freed = p.freed + Cardinality(Cover(al, p.id))
             /\ IsFiniteSet(Cover(al, p.id)) /\ Cardinality(Cover(al, p.id)) \in Nat
  <2>1. p.id \in Nat /\ p.freed \in Nat
    BY PoolTyped
  <2>2. /\ FreedSum(al, p.id, p.freed) = p.freed + Cardinality(Cover(al, p.id))
        /\ IsFiniteSet(Cover(al, p.id)) /\ Cardinality(Cover(al, p.id)) \in Nat
    BY <2>1, FreedCount
  <2> DEFINE n == FreedSum(al, p.id, p.freed)
  <2>3. n \in Nat /\ FreedPool(p, al) = [p EXCEPT !.freed = n]
    BY <2>1, <2>2 DEF FreedPool
  <2> HIDE DEF n
  <2>4. FreedPool(p, al) \in PoolRecs /\ Kin(p, FreedPool(p, al)) /\ FreedPool(p, al).freed = n
    BY <2>3 DEF PoolRecs, Kin
  <2> QED BY <2>2, <2>4 DEF n
<1>4. f \in [1 .. c -> PoolRecs] /\ \A i \in 1 .. c : f[i] = FreedPool(ps[i], al)
  BY <1>1, <1>2, <1>3
<1>5. f \in Seq(PoolRecs) /\ Len(f) = c
  BY <1>1, <1>4
<1> QED BY <1>1, <1>3, <1>4, <1>5 DEF f, c

\* The places of the allocations of all streams.
Points(h, al, pl) ==
  /\ al \in [Streams -> Allocs] /\ pl \in [Streams -> DOMAIN h]
  /\ \A s, r \in Streams : pl[s] = pl[r] => s = r
  /\ \A s \in Streams : al[s] = h[pl[s]]
Without(h, X) == [y \in DOMAIN h |-> IF y \in X THEN NoAllocation ELSE h[y]]
Pointed(pl) == {pl[s] : s \in Streams}

LEMMA PointsApart ==
  ASSUME NEW S, NEW h \in [S -> Allocs], NEW e, NEW ps, NEW m, Space(h, e, ps, m),
         NEW al, NEW pl, Points(h, al, pl)
  PROVE  /\ al \in [Streams -> Allocs]
         /\ \A s, r \in Streams : s # r => Beside(al[s], al[r])
         /\ \A s \in Streams : al[s].from <= al[s].to
<1>1. AllBeside(h) /\ DOMAIN h = S
  BY DEF Space
<1>2. ASSUME NEW x \in S PROVE h[x].from <= h[x].to
  <2>1. CASE h[x] = NoAllocation
    BY <2>1, NothingTyped
  <2>2. CASE h[x] # NoAllocation
    <3>1. h[x].from < h[x].to
      BY <2>2, PlacedPool
    <3>2. h[x].from \in Nat /\ h[x].to \in Nat
      BY AllocTyped
    <3> QED BY <3>1, <3>2
  <2> QED BY <2>1, <2>2
<1>3. /\ al \in [Streams -> Allocs] /\ pl \in [Streams -> S]
      /\ \A s, r \in Streams : pl[s] = pl[r] => s = r
      /\ \A s \in Streams : al[s] = h[pl[s]]
  BY <1>1 DEF Points
<1>4. \A s, r \in Streams : s # r => Beside(al[s], al[r])
  BY <1>1, <1>3 DEF AllBeside
<1>5. \A s \in Streams : al[s].from <= al[s].to
  BY <1>2, <1>3
<1> QED BY <1>3, <1>4, <1>5

\* Freeing takes the allocations away and counts their space.
LEMMA SpaceFreed ==
  ASSUME NEW S, NEW h \in [S -> Allocs], NEW e, NEW ps, NEW m, Space(h, e, ps, m),
         NEW al, NEW pl, Points(h, al, pl)
  PROVE  Space(Without(h, Pointed(pl)), e, Freed(ps, al), m)
<1> DEFINE X == Pointed(pl)
           g == Without(h, X)
           ps2 == Freed(ps, al)
           c == Len(ps)
<1>1. /\ ps \in Seq(PoolRecs) /\ m \in Nat
      /\ PoolsApart(ps, m) /\ AllPlaced(h, e, ps) /\ AllBeside(h) /\ AllCounted(h, ps)
  BY DEF Space
<1>2. /\ al \in [Streams -> Allocs]
      /\ \A s, r \in Streams : s # r => Beside(al[s], al[r])
      /\ \A s \in Streams : al[s].from <= al[s].to
  BY PointsApart
<1>3. /\ ps2 \in Seq(PoolRecs) /\ Len(ps2) = c
      /\ \A i \in 1 .. c :
           /\ Kin(ps[i], ps2[i])
           /\ ps2[i].freed = ps[i].freed + Cardinality(Cover(al, ps[i].id))
           /\ IsFiniteSet(Cover(al, ps[i].id)) /\ Cardinality(Cover(al, ps[i].id)) \in Nat
  BY <1>1, <1>2, FreedPools
<1>4. /\ c \in Nat
      /\ \A j \in 1 .. c : ps[j].id \in Nat /\ ps[j].element \in Nat /\ ps[j].allocated \in Nat /\ ps[j].freed \in Nat
      /\ \A j \in 1 .. c : ps2[j].id \in Nat /\ ps2[j].element \in Nat /\ ps2[j].allocated \in Nat /\ ps2[j].freed \in Nat
  BY <1>1, <1>3, PoolsTyped
<1>5. /\ DOMAIN h = S /\ DOMAIN g = S /\ g \in [S -> Allocs]
      /\ \A y \in S : g[y] = IF y \in X THEN NoAllocation ELSE h[y]
  BY NothingTyped DEF Without
<1>6. /\ pl \in [Streams -> S] /\ DOMAIN al = Streams
      /\ \A s \in Streams : pl[s] \in X /\ al[s] = h[pl[s]]
      /\ \A y \in X : \E s \in Streams : y = pl[s]
  BY <1>5 DEF Points, Pointed
<1>c. c = Len(ps)
  OBVIOUS
<1> HIDE DEF X, g, ps2, c
<1>7. PoolsApart(ps2, m)
  BY <1>1, <1>3, <1>c DEF PoolsApart, Kin
<1>8. AllPlaced(g, e, ps2)
  <2> SUFFICES ASSUME NEW y \in S, g[y] # NoAllocation PROVE Placed(g[y], e[y], ps2)
    BY <1>5 DEF AllPlaced
  <2>1. g[y] = h[y]
    BY <1>5
  <2>2. PICK k \in 1 .. c : PlacedAt(h[y], e[y], ps[k])
    BY <2>1, <1>1, <1>5, <1>c DEF AllPlaced, Placed
  <2>3. PlacedAt(h[y], e[y], ps2[k])
    BY <2>2, <1>3 DEF PlacedAt, Kin
  <2> QED BY <2>1, <2>3, <1>3 DEF Placed
<1>9. AllBeside(g)
  <2> SUFFICES ASSUME NEW y \in S, NEW z \in S, y # z, g[y].id = g[z].id
               PROVE  g[y].to <= g[z].from \/ g[z].to <= g[y].from
    BY <1>5 DEF AllBeside, Beside
  <2>1. CASE g[y] = h[y] /\ g[z] = h[z]
    BY <2>1, <1>1, <1>5 DEF AllBeside, Beside
  <2>2. CASE g[y] = NoAllocation \/ g[z] = NoAllocation
    <3>1. g[y].to \in Nat /\ g[y].from \in Nat /\ g[z].to \in Nat /\ g[z].from \in Nat
      BY <1>5, AllocTyped
    <3>2. ASSUME NEW x \in S, g[x].id = 0 PROVE g[x] = NoAllocation
      <4>1. g[x] # NoAllocation => g[x] = h[x] /\ h[x] # NoAllocation
        BY <1>5
      <4>2. g[x] # NoAllocation => h[x].id \in 1 .. m
        BY <4>1, PlacedPool
      <4> QED BY <3>2, <4>1, <4>2
    <3>3. g[y] = NoAllocation /\ g[z] = NoAllocation
      BY <2>2, <3>2, NothingTyped
    <3> QED BY <3>3, NothingTyped
  <2> QED BY <2>1, <2>2, <1>5
<1>10. ASSUME NEW i \in 1 .. c PROVE Counted(g, ps2[i])
  <2> DEFINE id == ps[i].id
             C == Cover(h, id)
             D == Cover(g, id)
             E == Cover(al, id)
  <2>1. Kin(ps[i], ps2[i]) /\ ps2[i].freed = ps[i].freed + Cardinality(E) /\ IsFiniteSet(E) /\ Cardinality(E) \in Nat
    BY <1>3
  <2>2. IsFiniteSet(C) /\ Cardinality(C) \in Nat
    BY CoverFinite, <1>c
  <2>3. ps[i].allocated = ps[i].freed + Cardinality(C)
    BY <1>1, <1>c DEF AllCounted, Counted
  <2>4. id # 0
    BY <1>1, <1>c DEF PoolsApart
  <2> HIDE DEF id
  <2>5. C = D \cup E
    <3>1. ASSUME NEW n \in C PROVE n \in D \cup E
      <4>1. PICK y \in S : n \in Nat /\ h[y].id = id /\ h[y].from <= n /\ n < h[y].to
        BY <3>1, <1>5 DEF Cover
      <4>2. CASE y \in X
        <5>1. PICK s \in Streams : y = pl[s]
          BY <4>2, <1>6
        <5>2. al[s] = h[y]
          BY <5>1, <1>6
        <5>3. n \in E
          BY <5>2, <4>1, <1>6 DEF Cover
        <5> QED BY <5>3
      <4>3. CASE y \notin X
        <5>1. g[y] = h[y]
          BY <4>3, <1>5
        <5>2. n \in D
          BY <5>1, <4>1, <1>5 DEF Cover
        <5> QED BY <5>2
      <4> QED BY <4>2, <4>3
    <3>2. ASSUME NEW n \in D PROVE n \in C
      <4>1. PICK y \in S : n \in Nat /\ g[y].id = id /\ g[y].from <= n /\ n < g[y].to
        BY <3>2, <1>5 DEF Cover
      <4>2. g[y] = h[y]
        BY <4>1, <2>4, <1>5, NothingTyped
      <4> QED BY <4>1, <4>2, <1>5 DEF Cover
    <3>3. ASSUME NEW n \in E PROVE n \in C
      <4>1. PICK s \in Streams : n \in Nat /\ al[s].id = id /\ al[s].from <= n /\ n < al[s].to
        BY <3>3, <1>6 DEF Cover
      <4>2. pl[s] \in S /\ h[pl[s]] = al[s]
        BY <1>6
      <4> QED BY <4>1, <4>2, <1>5 DEF Cover
    <3> HIDE DEF C, D, E
    <3> QED BY <3>1, <3>2, <3>3
  <2>6. D \cap E = {}
    <3> SUFFICES ASSUME NEW n \in D, n \in E PROVE FALSE
      OBVIOUS
    <3>1. PICK y \in S : n \in Nat /\ g[y].id = id /\ g[y].from <= n /\ n < g[y].to
      BY <1>5 DEF Cover
    <3>2. PICK s \in Streams : al[s].id = id /\ al[s].from <= n /\ n < al[s].to
      BY <1>6 DEF Cover
    <3>3. g[y] = h[y] /\ y \notin X
      BY <3>1, <2>4, <1>5, NothingTyped
    <3>4. pl[s] \in S /\ pl[s] # y /\ h[pl[s]] = al[s]
      BY <3>3, <1>6
    <3>5. h[y].to <= al[s].from \/ al[s].to <= h[y].from
      BY <3>1, <3>2, <3>3, <3>4, <1>1, <1>5 DEF AllBeside, Beside
    <3>6. h[y].from \in Nat /\ h[y].to \in Nat /\ al[s].from \in Nat /\ al[s].to \in Nat
      BY <3>4, AllocTyped
    <3> QED BY <3>1, <3>2, <3>3, <3>5, <3>6
  <2> HIDE DEF C, D, E
  <2>7. IsFiniteSet(D) /\ Cardinality(D) \in Nat
    BY <2>2, <2>5, FS_Subset, FS_CardinalityType
  <2>8. Cardinality(C) = Cardinality(D) + Cardinality(E)
    <3>1. Cardinality(D \cup E) = Cardinality(D) + Cardinality(E) - Cardinality(D \cap E)
      BY <2>1, <2>7, FS_Union
    <3>2. Cardinality(D \cap E) = 0
      BY <2>6, FS_EmptySet
    <3>3. \A i1, j1 \in Nat : i1 + j1 - 0 = i1 + j1
      OBVIOUS
    <3> QED BY <3>1, <3>2, <3>3, <2>1, <2>5, <2>7
  <2>9. ps2[i].id = id /\ ps2[i].allocated = ps[i].allocated
    BY <2>1 DEF Kin, id
  <2>10. ps2[i].allocated = ps2[i].freed + Cardinality(D)
    <3>1. \A i1, j1, k1 \in Nat : i1 + (j1 + k1) = (i1 + k1) + j1
      OBVIOUS
    <3> QED BY <3>1, <2>1, <2>3, <2>7, <2>8, <2>9, <1>4
  <2> QED BY <2>9, <2>10 DEF Counted, D
<1>11. Space(g, e, ps2, m)
  BY <1>1, <1>3, <1>7, <1>8, <1>9, <1>10 DEF Space, AllCounted
<1> QED BY <1>11 DEF g, ps2, X

\* The same allocations, held by other places: re[y] held what y holds.
Renamed(h, e, g, d, re) ==
  /\ \A y \in DOMAIN g :
       g[y] # NoAllocation => re[y] \in DOMAIN h /\ g[y] = h[re[y]] /\ d[y] = e[re[y]]
  /\ \A y, z \in DOMAIN g :
       g[y] # NoAllocation /\ g[z] # NoAllocation /\ re[y] = re[z] => y = z
  /\ \A x \in DOMAIN h : h[x] # NoAllocation => \E y \in DOMAIN g : g[y] # NoAllocation /\ re[y] = x

LEMMA SpaceRenamed ==
  ASSUME NEW S, NEW h \in [S -> Allocs], NEW e, NEW ps, NEW m, Space(h, e, ps, m),
         NEW T, NEW g \in [T -> Allocs], NEW d, NEW re, Renamed(h, e, g, d, re)
  PROVE  Space(g, d, ps, m)
<1>1. /\ ps \in Seq(PoolRecs) /\ m \in Nat
      /\ PoolsApart(ps, m) /\ AllPlaced(h, e, ps) /\ AllBeside(h) /\ AllCounted(h, ps)
  BY DEF Space
<1>d. DOMAIN h = S /\ DOMAIN g = T
  OBVIOUS
<1>2. /\ \A y \in T : g[y] # NoAllocation => re[y] \in S /\ g[y] = h[re[y]] /\ d[y] = e[re[y]]
      /\ \A y, z \in T : g[y] # NoAllocation /\ g[z] # NoAllocation /\ re[y] = re[z] => y = z
      /\ \A x \in S : h[x] # NoAllocation => \E y \in T : g[y] # NoAllocation /\ re[y] = x
  BY <1>d DEF Renamed
<1>3. ASSUME NEW y \in T, g[y] # NoAllocation PROVE g[y].id \in 1 .. m
  <2>1. re[y] \in S /\ g[y] = h[re[y]]
    BY <1>2, <1>3
  <2> DEFINE x == re[y]
  <2> HIDE DEF x
  <2>2. x \in S /\ g[y] = h[x] /\ h[x] # NoAllocation
    BY <2>1, <1>3 DEF x
  <2> QED BY <2>2, PlacedPool
<1>4. AllPlaced(g, d, ps)
  BY <1>1, <1>2, <1>d DEF AllPlaced
<1>5. AllBeside(g)
  <2> SUFFICES ASSUME NEW y \in T, NEW z \in T, y # z, g[y].id = g[z].id
               PROVE  g[y].to <= g[z].from \/ g[z].to <= g[y].from
    BY <1>d DEF AllBeside, Beside
  <2>1. CASE g[y] # NoAllocation /\ g[z] # NoAllocation
    <3>1. re[y] \in S /\ re[z] \in S /\ re[y] # re[z] /\ g[y] = h[re[y]] /\ g[z] = h[re[z]]
      BY <2>1, <1>2
    <3> QED BY <3>1, <1>1, <1>d DEF AllBeside, Beside
  <2>2. CASE g[y] = NoAllocation \/ g[z] = NoAllocation
    <3>1. g[y] = NoAllocation /\ g[z] = NoAllocation
      BY <2>2, <1>3, NothingTyped
    <3> QED BY <3>1, NothingTyped
  <2> QED BY <2>1, <2>2
<1>6. ASSUME NEW i \in 1 .. Len(ps) PROVE Cover(g, ps[i].id) = Cover(h, ps[i].id)
  <2> DEFINE id == ps[i].id
  <2>1. id # 0
    BY <1>1 DEF PoolsApart
  <2> HIDE DEF id
  <2>2. ASSUME NEW n \in Cover(g, id) PROVE n \in Cover(h, id)
    <3>1. PICK y \in T : n \in Nat /\ g[y].id = id /\ g[y].from <= n /\ n < g[y].to
      BY <2>2, <1>d DEF Cover
    <3>2. re[y] \in S /\ g[y] = h[re[y]]
      BY <3>1, <2>1, <1>2, NothingTyped
    <3> QED BY <3>1, <3>2, <1>d DEF Cover
  <2>3. ASSUME NEW n \in Cover(h, id) PROVE n \in Cover(g, id)
    <3>1. PICK x \in S : n \in Nat /\ h[x].id = id /\ h[x].from <= n /\ n < h[x].to
      BY <2>3, <1>d DEF Cover
    <3>2. PICK y \in T : g[y] # NoAllocation /\ re[y] = x
      BY <3>1, <2>1, <1>2, NothingTyped
    <3>3. g[y] = h[x]
      BY <3>2, <1>2
    <3> QED BY <3>1, <3>3, <1>d DEF Cover
  <2>4. Cover(g, id) = Cover(h, id)
    BY <2>2, <2>3
  <2> QED BY <2>4 DEF id
<1>7. AllCounted(g, ps)
  BY <1>1, <1>6 DEF AllCounted, Counted
<1> QED BY <1>1, <1>4, <1>5, <1>7 DEF Space

\* Pools in another order or with other marks; those that are gone or start anew held nothing.
Anew(p, q) == q.id = p.id /\ q.element = 0 /\ q.allocated = 0 /\ q.freed = 0
Resettled(h, ps, ps2, mm) ==
  /\ ps2 \in Seq(PoolRecs) /\ mm \in [1 .. Len(ps2) -> 1 .. Len(ps)]
  /\ \A i, j \in 1 .. Len(ps2) : mm[i] = mm[j] => i = j
  /\ \A i \in 1 .. Len(ps2) :
       \/ SameSpace(ps[mm[i]], ps2[i])
       \/ Anew(ps[mm[i]], ps2[i]) /\ Cover(h, ps[mm[i]].id) = {}
  /\ \A j \in 1 .. Len(ps) : Cover(h, ps[j].id) # {} => \E i \in 1 .. Len(ps2) : mm[i] = j

LEMMA SpaceResettled ==
  ASSUME NEW S, NEW h \in [S -> Allocs], NEW e, NEW ps, NEW m, Space(h, e, ps, m),
         NEW ps2, NEW mm, Resettled(h, ps, ps2, mm)
  PROVE  Space(h, e, ps2, m)
<1> DEFINE c == Len(ps)
           d == Len(ps2)
<1>1. /\ ps \in Seq(PoolRecs) /\ m \in Nat
      /\ PoolsApart(ps, m) /\ AllPlaced(h, e, ps) /\ AllBeside(h) /\ AllCounted(h, ps)
  BY DEF Space
<1>d. DOMAIN h = S /\ c = Len(ps) /\ d = Len(ps2)
  OBVIOUS
<1>2. /\ ps2 \in Seq(PoolRecs) /\ mm \in [1 .. d -> 1 .. c]
      /\ \A i, j \in 1 .. d : mm[i] = mm[j] => i = j
      /\ \A i \in 1 .. d : \/ SameSpace(ps[mm[i]], ps2[i])
                           \/ Anew(ps[mm[i]], ps2[i]) /\ Cover(h, ps[mm[i]].id) = {}
      /\ \A j \in 1 .. c : Cover(h, ps[j].id) # {} => \E i \in 1 .. d : mm[i] = j
  BY DEF Resettled
<1> HIDE DEF c, d
<1>3. \A i \in 1 .. d : mm[i] \in 1 .. c /\ ps2[i].id = ps[mm[i]].id
  BY <1>2 DEF SameSpace, Anew
<1>4. PoolsApart(ps2, m)
  <2>1. /\ \A i \in 1 .. c : ps[i].id \in 1 .. m /\ (ps[i].element = 0 => ps[i].allocated = 0)
        /\ \A i, j \in 1 .. c : ps[i].id = ps[j].id => i = j
    BY <1>1, <1>d DEF PoolsApart
  <2>2. ASSUME NEW i \in 1 .. d PROVE ps2[i].id \in 1 .. m /\ (ps2[i].element = 0 => ps2[i].allocated = 0)
    BY <2>1, <1>2, <1>3 DEF SameSpace, Anew
  <2>3. \A i, j \in 1 .. d : ps2[i].id = ps2[j].id => i = j
    BY <2>1, <1>2, <1>3
  <2> QED BY <2>2, <2>3, <1>d DEF PoolsApart
<1>5. AllPlaced(h, e, ps2)
  <2> SUFFICES ASSUME NEW x \in S, h[x] # NoAllocation PROVE Placed(h[x], e[x], ps2)
    BY <1>d DEF AllPlaced
  <2>1. PICK j \in 1 .. c : PlacedAt(h[x], e[x], ps[j])
    BY <1>1, <1>d DEF AllPlaced, Placed
  <2>2. h[x].from \in Cover(h, ps[j].id)
    BY <2>1, <1>d, AllocTyped DEF Cover, PlacedAt
  <2>3. PICK i \in 1 .. d : mm[i] = j
    BY <2>2, <1>2
  <2>4. SameSpace(ps[j], ps2[i])
    BY <2>2, <2>3, <1>2
  <2>5. PlacedAt(h[x], e[x], ps2[i])
    BY <2>1, <2>4 DEF PlacedAt, SameSpace
  <2> QED BY <2>5, <1>d DEF Placed
<1>6. ASSUME NEW i \in 1 .. d PROVE Counted(h, ps2[i])
  <2> DEFINE p == ps[mm[i]]
  <2>1. Counted(h, p) /\ p.id = ps2[i].id
    BY <1>1, <1>3, <1>d DEF AllCounted
  <2>2. SameSpace(p, ps2[i]) \/ (Anew(p, ps2[i]) /\ Cover(h, p.id) = {})
    BY <1>2
  <2> HIDE DEF p
  <2>3. CASE SameSpace(p, ps2[i])
    BY <2>1, <2>3 DEF SameSpace, Counted
  <2>4. CASE Anew(p, ps2[i]) /\ Cover(h, p.id) = {}
    <3>1. Cardinality(Cover(h, ps2[i].id)) = 0
      BY <2>1, <2>4, FS_EmptySet
    <3> QED BY <3>1, <2>4 DEF Counted, Anew
  <2> QED BY <2>2, <2>3, <2>4
<1>7. AllCounted(h, ps2)
  BY <1>6, <1>d DEF AllCounted
<1> QED BY <1>1, <1>2, <1>4, <1>5, <1>7 DEF Space

LEMMA SpaceTouched ==
  ASSUME NEW S, NEW h \in [S -> Allocs], NEW e, NEW ps, NEW m, Space(h, e, ps, m),
         NEW ps2 \in Seq(PoolRecs), Len(ps2) = Len(ps),
         \A i \in 1 .. Len(ps) : SameSpace(ps[i], ps2[i])
  PROVE  Space(h, e, ps2, m)
<1> DEFINE mm == [i \in 1 .. Len(ps) |-> i]
<1>1. /\ mm \in [1 .. Len(ps2) -> 1 .. Len(ps)]
      /\ \A i \in 1 .. Len(ps) : mm[i] = i
  OBVIOUS
<1> HIDE DEF mm
<1>2. Resettled(h, ps, ps2, mm)
  BY <1>1 DEF Resettled
<1> QED BY <1>2, SpaceResettled

\* A pool all of whose space was freed, or of which none was given, is held by nobody.
LEMMA Vacant ==
  ASSUME NEW S, NEW h \in [S -> Allocs], NEW e, NEW ps, NEW m, Space(h, e, ps, m),
         NEW i \in 1 .. Len(ps), ps[i].allocated = ps[i].freed \/ ps[i].allocated = 0
  PROVE  Cover(h, ps[i].id) = {} /\ \A x \in S : h[x].id # ps[i].id
<1>1. Counted(h, ps[i]) /\ ps \in Seq(PoolRecs) /\ PoolsApart(ps, m)
  BY DEF Space, AllCounted
<1>2. ps[i].allocated \in Nat /\ ps[i].freed \in Nat /\ ps[i].id # 0
  BY <1>1, PoolsTyped DEF PoolsApart
<1>3. IsFiniteSet(Cover(h, ps[i].id)) /\ Cardinality(Cover(h, ps[i].id)) \in Nat
  BY CoverFinite
<1>4. Cardinality(Cover(h, ps[i].id)) = 0
  BY <1>1, <1>2, <1>3 DEF Counted
<1>5. Cover(h, ps[i].id) = {}
  BY <1>3, <1>4, FS_EmptySet
<1>6. ASSUME NEW x \in S, h[x].id = ps[i].id PROVE FALSE
  <2>1. h[x] # NoAllocation
    BY <1>2, <1>6, NothingTyped
  <2>2. h[x].from < h[x].to /\ h[x].from \in Nat
    BY <2>1, PlacedPool, AllocTyped
  <2>3. h[x].from \in Cover(h, ps[i].id)
    BY <2>2, <1>6 DEF Cover
  <2> QED BY <2>3, <1>5
<1> QED BY <1>5, <1>6
-----------------------------------------------------------------------------
(* Who holds space: the known keys, the transfers, and the operation in hand. *)

Hand == <<"hand", 0>>
Owners == ({"info"} \X Keys) \cup ({"tx"} \X Nat) \cup {Hand}
MeshAllocs == [Streams -> Allocs]
Flat(F) == [x \in Owners \X Streams |-> F[x[1]][x[2]]]
ElementOf == [x \in Owners \X Streams |-> ElementSize[x[2]]]
Housed(F, ps, m) == F \in [Owners -> MeshAllocs] /\ Space(Flat(F), ElementOf, ps, m)

LEMMA FlatTyped ==
  ASSUME NEW F \in [Owners -> MeshAllocs]
  PROVE  /\ Flat(F) \in [Owners \X Streams -> Allocs]
         /\ \A o \in Owners, s \in Streams : Flat(F)[<<o, s>>] = F[o][s] /\ F[o][s] \in Allocs
         /\ \A x \in Owners \X Streams :
              x[1] \in Owners /\ x[2] \in Streams /\ x = <<x[1], x[2]>> /\ Flat(F)[x] = F[x[1]][x[2]]
<1>1. \A o \in Owners, s \in Streams : F[o][s] \in Allocs
  BY DEF MeshAllocs
<1>2. \A x \in Owners \X Streams : x[1] \in Owners /\ x[2] \in Streams /\ x = <<x[1], x[2]>>
  OBVIOUS
<1>3. \A x \in Owners \X Streams : Flat(F)[x] = F[x[1]][x[2]] /\ F[x[1]][x[2]] \in Allocs
  BY <1>1, <1>2 DEF Flat
<1>4. Flat(F) \in [Owners \X Streams -> Allocs]
  BY <1>2, <1>3 DEF Flat
<1>5. ASSUME NEW o \in Owners, NEW s \in Streams PROVE Flat(F)[<<o, s>>] = F[o][s]
  <2>1. <<o, s>> \in Owners \X Streams /\ <<o, s>>[1] = o /\ <<o, s>>[2] = s
    OBVIOUS
  <2> QED BY <2>1, <1>3
<1> QED BY <1>1, <1>2, <1>3, <1>4, <1>5

LEMMA ElementTyped ==
  /\ ElementOf \in [Owners \X Streams -> Nat \ {0}]
  /\ \A o \in Owners, s \in Streams : ElementOf[<<o, s>>] = ElementSize[s]
<1>1. \A x \in Owners \X Streams : ElementOf[x] = ElementSize[x[2]] /\ x[2] \in Streams
  BY DEF ElementOf
<1>2. ElementSize \in [Streams -> Nat \ {0}]
  BY MeshesAssumption
<1>3. ElementOf \in [Owners \X Streams -> Nat \ {0}]
  BY <1>1, <1>2 DEF ElementOf
<1>4. ASSUME NEW o \in Owners, NEW s \in Streams PROVE ElementOf[<<o, s>>] = ElementSize[s]
  <2>1. <<o, s>> \in Owners \X Streams /\ <<o, s>>[2] = s
    OBVIOUS
  <2> QED BY <2>1, <1>1
<1> QED BY <1>3, <1>4

LEMMA HousedPool ==
  ASSUME NEW F, NEW ps, NEW m, Housed(F, ps, m), NEW o \in Owners, NEW s \in Streams,
         F[o][s] # NoAllocation
  PROVE  \E i \in 1 .. Len(ps) :
           /\ ps[i].id = F[o][s].id /\ F[o][s].from < F[o][s].to /\ F[o][s].to <= ps[i].allocated
           /\ ps[i].element = ElementSize[s] /\ Within(F[o][s].to, ElementSize[s])
           /\ \A j \in 1 .. Len(ps) : ps[j].id = F[o][s].id => j = i
           /\ F[o][s].id \in 1 .. m
<1> DEFINE S == Owners \X Streams
           h == Flat(F)
           e == ElementOf
           x == <<o, s>>
<1>1. F \in [Owners -> MeshAllocs] /\ Space(h, e, ps, m)
  BY DEF Housed
<1>2. h \in [S -> Allocs] /\ h[x] = F[o][s] /\ x \in S /\ e[x] = ElementSize[s]
  BY <1>1, FlatTyped, ElementTyped
<1> HIDE DEF S, h, e, x
<1>3. h[x] # NoAllocation
  BY <1>2
<1>4. \E i \in 1 .. Len(ps) :
           /\ ps[i].id = h[x].id /\ h[x].from < h[x].to /\ h[x].to <= ps[i].allocated
           /\ ps[i].element = e[x] /\ Within(h[x].to, e[x])
           /\ \A j \in 1 .. Len(ps) : ps[j].id = h[x].id => j = i
           /\ h[x].id \in 1 .. m
  BY <1>1, <1>2, <1>3, PlacedPool
<1> QED BY <1>2, <1>4

\* The operation in hand gets space for a stream.
Handed(F, s, a) == [F EXCEPT ![Hand] = [F[Hand] EXCEPT ![s] = a]]

LEMMA HousedGiven ==
  ASSUME NEW F, NEW ps, NEW m, Housed(F, ps, m), NEW s \in Streams, F[Hand][s] = NoAllocation,
         NEW ps2, NEW m2, NEW a, Given(ps, m, ps2, m2, a, ElementSize[s])
  PROVE  Housed(Handed(F, s, a), ps2, m2)
<1> DEFINE S == Owners \X Streams
           h == Flat(F)
           e == ElementOf
           x == <<Hand, s>>
           G == Handed(F, s, a)
<1>0. Hand \in Owners
  BY DEF Owners
<1>1. F \in [Owners -> MeshAllocs] /\ Space(h, e, ps, m)
  BY DEF Housed
<1>2. h \in [S -> Allocs] /\ h[x] = NoAllocation /\ x \in S /\ e[x] = ElementSize[s] /\ e \in [S -> Nat \ {0}]
  BY <1>0, <1>1, FlatTyped, ElementTyped
<1>3. a \in Allocs
  BY DEF Given
<1>4. /\ G \in [Owners -> MeshAllocs]
      /\ \A o \in Owners, r \in Streams : G[o][r] = IF o = Hand /\ r = s THEN a ELSE F[o][r]
  BY <1>0, <1>1, <1>3 DEF Handed, MeshAllocs
<1>5. Flat(G) \in [S -> Allocs] /\ \A y \in S : Flat(G)[y] = IF y = x THEN a ELSE h[y]
  <2>1. Flat(G) \in [S -> Allocs] /\ \A y \in S : Flat(G)[y] = G[y[1]][y[2]] /\ h[y] = F[y[1]][y[2]]
                                              /\ y[1] \in Owners /\ y[2] \in Streams /\ y = <<y[1], y[2]>>
    BY <1>1, <1>4, FlatTyped
  <2>2. x[1] = Hand /\ x[2] = s
    OBVIOUS
  <2> HIDE DEF G, h, S
  <2> QED BY <1>4, <2>1, <2>2
<1> HIDE DEF S, h, e, x, G
<1>6. Space([h EXCEPT ![x] = a], e, ps2, m2)
  BY <1>1, <1>2, SpaceGiven
<1>7. Flat(G) = [h EXCEPT ![x] = a]
  BY <1>2, <1>5
<1> QED BY <1>4, <1>6, <1>7 DEF Housed, G, e

\* What an owner holds is freed.
Dropped(F, o) == [F EXCEPT ![o] = Unallocated]

LEMMA UnallocatedTyped ==
  Unallocated \in MeshAllocs /\ \A s \in Streams : Unallocated[s] = NoAllocation
BY NothingTyped DEF Unallocated, MeshAllocs

LEMMA HousedFreed ==
  ASSUME NEW F, NEW ps, NEW m, Housed(F, ps, m), NEW o \in Owners
  PROVE  Housed(Dropped(F, o), Freed(ps, F[o]), m)
<1> DEFINE S == Owners \X Streams
           h == Flat(F)
           al == F[o]
           pl == [s \in Streams |-> <<o, s>>]
           G == Dropped(F, o)
<1>1. F \in [Owners -> MeshAllocs] /\ Space(h, ElementOf, ps, m)
  BY DEF Housed
<1>2. /\ h \in [S -> Allocs] /\ \A s \in Streams : h[<<o, s>>] = F[o][s]
      /\ \A y \in S : h[y] = F[y[1]][y[2]] /\ y[1] \in Owners /\ y[2] \in Streams /\ y = <<y[1], y[2]>>
  BY <1>1, FlatTyped
<1>3. al \in [Streams -> Allocs]
  BY <1>1 DEF MeshAllocs
<1>4. pl \in [Streams -> S] /\ \A s \in Streams : pl[s] = <<o, s>>
  OBVIOUS
<1>5. /\ G \in [Owners -> MeshAllocs]
      /\ \A p \in Owners : G[p] = IF p = o THEN Unallocated ELSE F[p]
  BY <1>1, UnallocatedTyped DEF Dropped
<1>6. Flat(G) \in [S -> Allocs] /\ \A y \in S : Flat(G)[y] = G[y[1]][y[2]]
  BY <1>5, FlatTyped
<1> HIDE DEF S, h, pl, G
<1>7. Points(h, al, pl)
  <2>1. DOMAIN h = S
    BY <1>2
  <2>2. \A s, r \in Streams : <<o, s>> = <<o, r>> => s = r
    OBVIOUS
  <2>3. \A s, r \in Streams : pl[s] = pl[r] => s = r
    BY <1>4, <2>2
  <2>4. \A s \in Streams : al[s] = h[pl[s]]
    BY <1>2, <1>4
  <2> QED BY <1>3, <1>4, <2>1, <2>3, <2>4 DEF Points
<1>8. Space(Without(h, Pointed(pl)), ElementOf, Freed(ps, al), m)
  BY <1>1, <1>2, <1>7, SpaceFreed
<1>9. \A y \in S : y \in Pointed(pl) <=> y[1] = o
  <2>1. \A s \in Streams : pl[s][1] = o
    BY <1>4
  <2>2. ASSUME NEW y \in S, y[1] = o PROVE y \in Pointed(pl)
    <3>1. y[2] \in Streams /\ y = pl[y[2]]
      BY <2>2, <1>2, <1>4
    <3> QED BY <3>1 DEF Pointed
  <2> QED BY <2>1, <2>2 DEF Pointed
<1>10. Flat(G) = Without(h, Pointed(pl))
  <2>1. DOMAIN h = S
    BY <1>2
  <2>2. \A y \in S : Flat(G)[y] = IF y \in Pointed(pl) THEN NoAllocation ELSE h[y]
    BY <1>2, <1>5, <1>6, <1>9, UnallocatedTyped
  <2> QED BY <2>1, <2>2, <1>6 DEF Without
<1> QED BY <1>5, <1>8, <1>10 DEF Housed, G

\* Owners that change: re[o] held what o holds.
Rehoused(F, G, re) ==
  /\ G \in [Owners -> MeshAllocs]
  /\ \A o \in Owners : G[o] # Unallocated => re[o] \in Owners /\ G[o] = F[re[o]]
  /\ \A o, p \in Owners : G[o] # Unallocated /\ G[p] # Unallocated /\ re[o] = re[p] => o = p
  /\ \A o \in Owners : F[o] # Unallocated => \E p \in Owners : G[p] # Unallocated /\ re[p] = o

LEMMA HousedRenamed ==
  ASSUME NEW F, NEW ps, NEW m, Housed(F, ps, m), NEW G, NEW re, Rehoused(F, G, re)
  PROVE  Housed(G, ps, m)
<1> DEFINE S == Owners \X Streams
           h == Flat(F)
           g == Flat(G)
           e == ElementOf
           r2 == [x \in S |-> <<re[x[1]], x[2]>>]
<1>1. F \in [Owners -> MeshAllocs] /\ Space(h, e, ps, m)
  BY DEF Housed
<1>2. /\ G \in [Owners -> MeshAllocs]
      /\ \A o \in Owners : G[o] # Unallocated => re[o] \in Owners /\ G[o] = F[re[o]]
      /\ \A o, p \in Owners : G[o] # Unallocated /\ G[p] # Unallocated /\ re[o] = re[p] => o = p
      /\ \A o \in Owners : F[o] # Unallocated => \E p \in Owners : G[p] # Unallocated /\ re[p] = o
  BY DEF Rehoused
<1>3. /\ h \in [S -> Allocs] /\ g \in [S -> Allocs]
      /\ \A y \in S : /\ h[y] = F[y[1]][y[2]] /\ g[y] = G[y[1]][y[2]]
                      /\ y[1] \in Owners /\ y[2] \in Streams /\ y = <<y[1], y[2]>>
      /\ \A o \in Owners, s \in Streams : /\ <<o, s>> \in S /\ <<o, s>>[1] = o /\ <<o, s>>[2] = s
                                          /\ h[<<o, s>>] = F[o][s] /\ g[<<o, s>>] = G[o][s]
                                          /\ e[<<o, s>>] = ElementSize[s]
  BY <1>1, <1>2, FlatTyped, ElementTyped
<1>4. \A y \in S : r2[y] = <<re[y[1]], y[2]>>
  OBVIOUS
<1> HIDE DEF S, h, g, e, r2
<1>5. \A y \in S : (g[y] # NoAllocation => G[y[1]] # Unallocated) /\ (h[y] # NoAllocation => F[y[1]] # Unallocated)
  BY <1>3, UnallocatedTyped
<1>6. DOMAIN h = S /\ DOMAIN g = S
  BY <1>3
<1>7. ASSUME NEW y \in S, g[y] # NoAllocation PROVE r2[y] \in S /\ g[y] = h[r2[y]] /\ e[y] = e[r2[y]]
  <2>1. y[1] \in Owners /\ y[2] \in Streams /\ G[y[1]] # Unallocated
    BY <1>3, <1>5, <1>7
  <2>2. re[y[1]] \in Owners /\ G[y[1]] = F[re[y[1]]]
    BY <1>2, <2>1
  <2>3. <<re[y[1]], y[2]>> \in S /\ h[<<re[y[1]], y[2]>>] = F[re[y[1]]][y[2]] /\ e[<<re[y[1]], y[2]>>] = ElementSize[y[2]]
    BY <1>3, <2>1, <2>2
  <2>4. e[y] = ElementSize[y[2]] /\ g[y] = G[y[1]][y[2]]
    BY <1>3, <2>1
  <2> QED BY <1>4, <2>2, <2>3, <2>4
<1>8. ASSUME NEW y \in S, NEW z \in S, g[y] # NoAllocation, g[z] # NoAllocation, r2[y] = r2[z] PROVE y = z
  <2>1. re[y[1]] = re[z[1]] /\ y[2] = z[2]
    BY <1>4, <1>8
  <2>2. y[1] = z[1]
    BY <2>1, <1>2, <1>3, <1>5, <1>8
  <2> QED BY <2>1, <2>2, <1>3
<1>9. ASSUME NEW x \in S, h[x] # NoAllocation PROVE \E y \in S : g[y] # NoAllocation /\ r2[y] = x
  <2>1. PICK p \in Owners : G[p] # Unallocated /\ re[p] = x[1]
    BY <1>2, <1>3, <1>5, <1>9
  <2> DEFINE y == <<p, x[2]>>
  <2>2. y \in S /\ g[y] = G[p][x[2]] /\ y[1] = p /\ y[2] = x[2]
    BY <1>3, <1>9
  <2>3. G[p] = F[x[1]]
    BY <2>1, <1>2
  <2>4. g[y] = h[x]
    BY <2>2, <2>3, <1>3, <1>9
  <2>5. r2[y] = <<re[p], x[2]>>
    BY <2>2, <1>4
  <2>6. r2[y] = x
    BY <2>1, <2>5, <1>3, <1>9
  <2> HIDE DEF y
  <2> QED BY <2>2, <2>4, <2>6, <1>9
<1>10. Renamed(h, e, g, e, r2)
  BY <1>6, <1>7, <1>8, <1>9 DEF Renamed
<1>11. Space(g, e, ps, m)
  BY <1>1, <1>3, <1>10, SpaceRenamed
<1> QED BY <1>2, <1>11 DEF Housed, g, e

LEMMA HousedTouched ==
  ASSUME NEW F, NEW ps, NEW m, Housed(F, ps, m), NEW ps2 \in Seq(PoolRecs), Len(ps2) = Len(ps),
         \A i \in 1 .. Len(ps) : SameSpace(ps[i], ps2[i])
  PROVE  Housed(F, ps2, m)
<1> DEFINE S == Owners \X Streams
           h == Flat(F)
<1>1. F \in [Owners -> MeshAllocs] /\ Space(h, ElementOf, ps, m) /\ h \in [S -> Allocs]
  BY FlatTyped DEF Housed
<1> HIDE DEF S, h
<1>2. Space(h, ElementOf, ps2, m)
  BY <1>1, SpaceTouched
<1> QED BY <1>1, <1>2 DEF Housed, h

LEMMA Grown ==
  \A a, b, c \in Nat : (a > 0 /\ b >= a => b > 0) /\ (b >= a /\ c >= b => c >= a)
OBVIOUS

LEMMA HousedVacant ==
  ASSUME NEW F, NEW ps, NEW m, Housed(F, ps, m),
         NEW i \in 1 .. Len(ps), ps[i].allocated = ps[i].freed \/ ps[i].allocated = 0
  PROVE  /\ Cover(Flat(F), ps[i].id) = {}
         /\ \A o \in Owners, s \in Streams : F[o][s].id # ps[i].id
<1> DEFINE S == Owners \X Streams
           h == Flat(F)
<1>1. F \in [Owners -> MeshAllocs] /\ Space(h, ElementOf, ps, m) /\ h \in [S -> Allocs]
      /\ \A o \in Owners, s \in Streams : <<o, s>> \in S /\ h[<<o, s>>] = F[o][s]
  BY FlatTyped DEF Housed
<1> DEFINE e == ElementOf
<1>e. e = ElementOf
  OBVIOUS
<1> HIDE DEF S, h, e
<1>2. Cover(h, ps[i].id) = {} /\ \A x \in S : h[x].id # ps[i].id
  <2>1. Space(h, e, ps, m) /\ h \in [S -> Allocs]
    BY <1>1, <1>e
  <2>2. CASE ps[i].allocated = ps[i].freed
    <3>1. Cover(h, ps[i].id) = {}
      BY <2>1, <2>2, Vacant
    <3>2. \A x \in S : h[x].id # ps[i].id
      BY <2>1, <2>2, Vacant
    <3> QED BY <3>1, <3>2
  <2>3. CASE ps[i].allocated = 0
    <3>1. Cover(h, ps[i].id) = {}
      BY <2>1, <2>3, Vacant
    <3>2. \A x \in S : h[x].id # ps[i].id
      BY <2>1, <2>3, Vacant
    <3> QED BY <3>1, <3>2
  <2> QED BY <2>2, <2>3
<1> QED BY <1>1, <1>2 DEF h

\* Pools as the operations of a tick leave them: those used in the tick are accessed in it.
LaterPool(p, q, tick) ==
  q.id = p.id /\ q.access \in {p.access, tick} /\ q.allocated >= p.allocated
Later(ps, ps2, tick) ==
  /\ \A j \in 1 .. Len(ps2) :
       (j \in 1 .. Len(ps) /\ LaterPool(ps[j], ps2[j], tick)) \/ (ps2[j].access = tick /\ ps2[j].allocated > 0)
  /\ \A j \in 1 .. Len(ps) : j \in 1 .. Len(ps2)

\* The pools of a list are in use in the tick.
Touched(ps, R, tick) ==
  \A j \in 1 .. Len(ps) : PoolRes(ps[j].id) \in R => ps[j].access = tick /\ ps[j].allocated > 0
UsedBy(U, ps) ==
  \A j \in 1 .. Len(ps), u \in U :
    u.res = PoolRes(ps[j].id) => u.tick <= ps[j].access /\ ps[j].allocated > 0
PoolsUsed(ps) == UsedBy(uses, ps)

LEMMA LaterKeeps ==
  ASSUME NEW ps \in Seq(PoolRecs), NEW ps2 \in Seq(PoolRecs), NEW tick \in Nat, NEW R,
         Later(ps, ps2, tick), Touched(ps, R, tick), PoolsUsed(ps),
         \A u \in uses : u.tick \in Nat /\ u.tick <= tick
  PROVE  Touched(ps2, R, tick) /\ PoolsUsed(ps2)
<1>1. /\ \A i \in 1 .. Len(ps) : ps[i].allocated \in Nat /\ ps[i] \in PoolRecs
      /\ \A i \in 1 .. Len(ps2) : ps2[i].allocated \in Nat
  BY PoolsTyped
<1>2. \A i \in 1 .. Len(ps) : ps[i].access \in Nat
  BY <1>1, PoolTyped
<1>3. ASSUME NEW j \in 1 .. Len(ps2), PoolRes(ps2[j].id) \in R PROVE ps2[j].access = tick /\ ps2[j].allocated > 0
  <2>1. CASE ps2[j].access = tick /\ ps2[j].allocated > 0
    BY <2>1
  <2>2. CASE j \in 1 .. Len(ps) /\ LaterPool(ps[j], ps2[j], tick)
    <3>1. ps[j].access = tick /\ ps[j].allocated > 0
      BY <1>3, <2>2 DEF LaterPool, Touched
    <3>2. ps2[j].access = tick /\ ps2[j].allocated >= ps[j].allocated
      BY <3>1, <2>2 DEF LaterPool
    <3>3. ps[j].allocated \in Nat /\ ps2[j].allocated \in Nat
      BY <2>2, <1>1
    <3> QED BY <3>1, <3>2, <3>3, Grown
  <2> QED BY <2>1, <2>2 DEF Later
<1>4. ASSUME NEW j \in 1 .. Len(ps2), NEW u \in uses, u.res = PoolRes(ps2[j].id)
      PROVE  u.tick <= ps2[j].access /\ ps2[j].allocated > 0
  <2>1. CASE ps2[j].access = tick /\ ps2[j].allocated > 0
    BY <2>1
  <2>2. CASE j \in 1 .. Len(ps) /\ LaterPool(ps[j], ps2[j], tick)
    <3>1. u.tick <= ps[j].access /\ ps[j].allocated > 0
      BY <1>4, <2>2 DEF LaterPool, PoolsUsed, UsedBy
    <3>2. ps2[j].allocated >= ps[j].allocated /\ (ps2[j].access = ps[j].access \/ ps2[j].access = tick)
      BY <2>2 DEF LaterPool
    <3>3. ps[j].allocated \in Nat /\ ps2[j].allocated \in Nat /\ u.tick <= tick
      BY <2>2, <1>1
    <3>4. ps2[j].allocated > 0
      BY <3>1, <3>2, <3>3, Grown
    <3> QED BY <3>1, <3>2, <3>3, <3>4
  <2> QED BY <2>1, <2>2 DEF Later
<1> QED BY <1>3, <1>4 DEF Touched, PoolsUsed, UsedBy

LEMMA LaterTogether ==
  ASSUME NEW ps \in Seq(PoolRecs), NEW ps2 \in Seq(PoolRecs), NEW ps3 \in Seq(PoolRecs), NEW tick,
         Later(ps, ps2, tick), Later(ps2, ps3, tick)
  PROVE  Later(ps, ps3, tick)
<1>1. /\ \A i \in 1 .. Len(ps) : ps[i].allocated \in Nat
      /\ \A i \in 1 .. Len(ps2) : ps2[i].allocated \in Nat
      /\ \A i \in 1 .. Len(ps3) : ps3[i].allocated \in Nat
  BY PoolsTyped
<1>2. ASSUME NEW j \in 1 .. Len(ps3)
      PROVE  (j \in 1 .. Len(ps) /\ LaterPool(ps[j], ps3[j], tick)) \/ (ps3[j].access = tick /\ ps3[j].allocated > 0)
  <2>1. CASE j \in 1 .. Len(ps2) /\ LaterPool(ps2[j], ps3[j], tick)
    <3>1. CASE j \in 1 .. Len(ps) /\ LaterPool(ps[j], ps2[j], tick)
      <4>1. ps2[j].allocated >= ps[j].allocated /\ ps3[j].allocated >= ps2[j].allocated
        BY <2>1, <3>1 DEF LaterPool
      <4>2. ps3[j].allocated >= ps[j].allocated
        BY <4>1, <1>1, <2>1, <3>1, Grown
      <4>3. ps3[j].id = ps[j].id /\ ps3[j].access \in {ps[j].access, tick}
        BY <2>1, <3>1 DEF LaterPool
      <4> QED BY <3>1, <4>2, <4>3 DEF LaterPool
    <3>2. CASE ps2[j].access = tick /\ ps2[j].allocated > 0
      <4>1. ps3[j].access = tick /\ ps3[j].allocated >= ps2[j].allocated
        BY <2>1, <3>2 DEF LaterPool
      <4> QED BY <4>1, <3>2, <2>1, <1>1
    <3> QED BY <2>1, <3>1, <3>2 DEF Later
  <2>2. CASE ps3[j].access = tick /\ ps3[j].allocated > 0
    BY <2>2
  <2> QED BY <2>1, <2>2 DEF Later
<1> QED BY <1>2 DEF Later

\* Pools accessed.
Marked(ps, al, tick) ==
  \A i \in 1 .. Len(ps) : (\E s \in Streams : al[s].id = ps[i].id) => ps[i].access = tick

LEMMA AccessedPools ==
  ASSUME NEW ps \in Seq(PoolRecs), NEW al, NEW tick \in Nat
  PROVE  /\ Accessed(ps, al, tick) \in Seq(PoolRecs) /\ Len(Accessed(ps, al, tick)) = Len(ps)
         /\ \A i \in 1 .. Len(ps) : SameSpace(ps[i], Accessed(ps, al, tick)[i])
         /\ Later(ps, Accessed(ps, al, tick), tick) /\ Marked(Accessed(ps, al, tick), al, tick)
<1> DEFINE c == Len(ps)
           f == Accessed(ps, al, tick)
           in == [i \in 1 .. c |-> \E s \in Streams : al[s].id = ps[i].id]
<1>1. c \in Nat /\ DOMAIN ps = 1 .. c /\ \A i \in 1 .. c : ps[i] \in PoolRecs /\ ps[i].allocated \in Nat
  BY PoolsTyped
<1>2. f = [i \in 1 .. c |-> IF in[i] THEN [ps[i] EXCEPT !.access = tick] ELSE ps[i]]
  BY <1>1 DEF Accessed
<1>i. \A i \in 1 .. c : in[i] <=> \E s \in Streams : al[s].id = ps[i].id
  OBVIOUS
<1> HIDE DEF c, f, in
<1>3. ASSUME NEW p \in PoolRecs
      PROVE  /\ [p EXCEPT !.access = tick] \in PoolRecs /\ SameSpace(p, [p EXCEPT !.access = tick])
             /\ [p EXCEPT !.access = tick].access = tick
  BY DEF PoolRecs, SameSpace
<1>4. \A i \in 1 .. c : f[i] \in PoolRecs /\ SameSpace(ps[i], f[i]) /\ f[i].access = (IF in[i] THEN tick ELSE ps[i].access)
  BY <1>1, <1>2, <1>3 DEF SameSpace
<1>5. f \in [1 .. c -> PoolRecs]
  BY <1>2, <1>4
<1>6. f \in Seq(PoolRecs) /\ Len(f) = c
  BY <1>1, <1>5
<1>7. Later(ps, f, tick)
  <2>1. \A i \in 1 .. c : LaterPool(ps[i], f[i], tick)
    BY <1>1, <1>4 DEF LaterPool, SameSpace
  <2> QED BY <2>1, <1>6 DEF Later, c
<1>8. Marked(f, al, tick)
  BY <1>4, <1>6, <1>i DEF Marked, SameSpace
<1> QED BY <1>4, <1>6, <1>7, <1>8 DEF f, c

\* An allocation: of the first pool that fits, or of a new one.
TakenPool(p, element, n, tick) ==
  [p EXCEPT !.element = element, !.allocated = @ + n, !.allocation = tick, !.access = tick]
ExhaustedPool(p) == [p EXCEPT !.exhausted = TRUE]
NewPool(id, element, tick) ==
  [id |-> id, element |-> element, allocated |-> 0, freed |-> 0,
   exhausted |-> FALSE, moving |-> FALSE, allocation |-> tick, access |-> tick]

TakenFrom(p, q, element, n, tick) ==
  /\ q \in PoolRecs /\ q.id = p.id /\ q.element = element /\ q.allocated = p.allocated + n
  /\ q.freed = p.freed /\ q.access = tick

LEMMA TakenPoolIs ==
  ASSUME NEW p \in PoolRecs, NEW element \in Nat, NEW n \in Nat, NEW tick \in Nat
  PROVE  TakenFrom(p, TakenPool(p, element, n, tick), element, n, tick)
<1>1. p.allocated + n \in Nat
  BY PoolTyped
<1> DEFINE k == p.allocated + n
<1>2. TakenPool(p, element, n, tick) =
        [p EXCEPT !.element = element, !.allocated = k, !.allocation = tick, !.access = tick]
  BY DEF TakenPool
<1>3. k \in Nat
  BY <1>1
<1> HIDE DEF k
<1>4. /\ TakenPool(p, element, n, tick) \in PoolRecs
      /\ TakenPool(p, element, n, tick).id = p.id /\ TakenPool(p, element, n, tick).element = element
      /\ TakenPool(p, element, n, tick).allocated = k /\ TakenPool(p, element, n, tick).freed = p.freed
      /\ TakenPool(p, element, n, tick).access = tick
  BY <1>2, <1>3 DEF PoolRecs
<1> QED BY <1>4 DEF k, TakenFrom

LEMMA ExhaustedPoolIs ==
  ASSUME NEW p \in PoolRecs
  PROVE  /\ ExhaustedPool(p) \in PoolRecs /\ SameSpace(p, ExhaustedPool(p))
         /\ ExhaustedPool(p).access = p.access
BY DEF PoolRecs, ExhaustedPool, SameSpace

Empty(q, id) == q \in PoolRecs /\ q.id = id /\ q.allocated = 0 /\ q.freed = 0

LEMMA NewPoolIs ==
  ASSUME NEW id \in Nat, NEW element \in Nat, NEW tick \in Nat
  PROVE  Empty(NewPool(id, element, tick), id)
BY DEF PoolRecs, NewPool, Empty

\* What an allocation returns.
Makes(room, ps, m, element, tick) ==
  /\ Given(ps, m, room.pools, room.made, room.alloc, element)
  /\ room.alloc.at = device.submitted["dma"] + 1
  /\ Later(ps, room.pools, tick) /\ Touched(room.pools, {PoolRes(room.alloc.id)}, tick)
  /\ room.made \in Nat

LEMMA PoolResIs == \A i, j : PoolRes(i) = PoolRes(j) => i = j
BY DEF PoolRes

LEMMA AllocateMakes ==
  ASSUME NEW w, w.pools \in Seq(PoolRecs), w.made \in Nat, PoolsApart(w.pools, w.made),
         device.submitted["dma"] \in Nat,
         NEW n \in Nat, n > 0, NEW element \in Nat, element # 0, Within(n, element), NEW tick \in Nat
  PROVE  Makes(Allocate(w, n, element, tick), w.pools, w.made, element, tick)
<1> DEFINE ps == w.pools
           m == w.made
           c == Len(ps)
           fit == {i \in DOMAIN ps : Eligible(ps[i], element) /\ Fits(ps[i], n, element)}
           i == IF fit = {} THEN c + 1 ELSE Least(fit)
           p == IF fit = {} THEN NewPool(m + 1, element, tick) ELSE ps[i]
           taken == TakenPool(p, element, n, tick)
           d == Larger(c, i)
           m2 == IF fit = {} THEN m + 1 ELSE m
           ps2 == [j \in 1 .. d |-> IF j = i THEN taken
                                    ELSE IF j < i /\ Eligible(ps[j], element) THEN ExhaustedPool(ps[j]) ELSE ps[j]]
           at == device.submitted["dma"] + 1
           a == [id |-> p.id, from |-> p.allocated, to |-> p.allocated + n, at |-> at]
<1>1. /\ ps \in Seq(PoolRecs) /\ m \in Nat /\ PoolsApart(ps, m)
      /\ c \in Nat /\ DOMAIN ps = 1 .. c /\ c = Len(ps) /\ at \in Nat
      /\ \A j \in 1 .. c : ps[j] \in PoolRecs
  BY PoolsTyped
<1>2. fit # {} => i \in fit
  <2>1. fit \in SUBSET Nat
    BY <1>1
  <2>2. fit # {} => \E x \in fit : \A y \in fit : x <= y
    BY <2>1, LeastExists
  <2> HIDE DEF fit
  <2> QED BY <2>2 DEF Least
<1>3. /\ fit = {} => i = c + 1 /\ p = NewPool(m + 1, element, tick) /\ m2 = m + 1
      /\ fit # {} => /\ i \in 1 .. c /\ p = ps[i] /\ m2 = m
                     /\ Eligible(ps[i], element) /\ Fits(ps[i], n, element)
  BY <1>1, <1>2
<1>5. Allocate(w, n, element, tick) = [alloc |-> a, made |-> m2, pools |-> ps2]
  BY DEF Allocate, TakenPool, NewPool, ExhaustedPool
<1>f. /\ d = Larger(c, i) /\ taken = TakenPool(p, element, n, tick)
      /\ a = [id |-> p.id, from |-> p.allocated, to |-> p.allocated + n, at |-> at]
      /\ ps2 = [j \in 1 .. d |-> IF j = i THEN taken
                                 ELSE IF j < i /\ Eligible(ps[j], element) THEN ExhaustedPool(ps[j]) ELSE ps[j]]
  OBVIOUS
<1> HIDE DEF ps, m, c, fit, i, p, taken, d, m2, ps2, at, a
<1>g. /\ c \in Nat /\ m \in Nat /\ m + 1 \in Nat
      /\ fit = {} => i = c + 1 /\ p = NewPool(m + 1, element, tick) /\ m2 = m + 1
      /\ fit # {} => i \in 1 .. c /\ p = ps[i] /\ m2 = m /\ p \in PoolRecs
  BY <1>1, <1>3
<1>h. NewPool(m + 1, element, tick) \in PoolRecs /\ NewPool(m + 1, element, tick).id = m + 1
      /\ NewPool(m + 1, element, tick).allocated = 0 /\ NewPool(m + 1, element, tick).freed = 0
  <2> DEFINE id == m + 1
             q == NewPool(id, element, tick)
  <2>1. id \in Nat
    BY <1>g
  <2> HIDE DEF id
  <2>2. Empty(q, id)
    BY <2>1, NewPoolIs
  <2>3. q \in PoolRecs /\ q.id = id /\ q.allocated = 0 /\ q.freed = 0
    BY <2>2 DEF Empty
  <2> QED BY <2>3 DEF id
<1>4. i \in Nat /\ i > 0 /\ d = IF i > c THEN i ELSE c
  <2>1. d = IF c > i THEN c ELSE i
    BY <1>f DEF Larger
  <2>2. i \in Nat /\ i > 0
    <3>1. CASE fit = {}
      BY <3>1, <1>g
    <3>2. CASE fit # {}
      BY <3>2, <1>g
    <3> QED BY <3>1, <3>2
  <2> QED BY <2>1, <2>2, <1>g
<1>6. p \in PoolRecs
  BY <1>g, <1>h
<1>7. /\ taken \in PoolRecs /\ taken.id = p.id /\ taken.element = element
      /\ taken.allocated = p.allocated + n /\ taken.freed = p.freed /\ taken.access = tick
  <2> DEFINE q == TakenPool(p, element, n, tick)
  <2>1. TakenFrom(p, q, element, n, tick)
    BY <1>6, TakenPoolIs
  <2>2. q = taken
    BY <1>f
  <2> HIDE DEF q
  <2> QED BY <2>1, <2>2 DEF TakenFrom
<1>8. a \in Allocs /\ a.id = p.id /\ a.from = p.allocated /\ a.to = p.allocated + n /\ a.at = at
  <2>1. p.id \in Nat /\ p.allocated \in Nat /\ p.allocated + n \in Nat
    BY <1>6, PoolTyped
  <2> QED BY <2>1, <1>1, <1>f DEF Allocs
<1>9. /\ \A j \in 1 .. d : ps2[j] = IF j = i THEN taken
                                     ELSE IF j < i /\ Eligible(ps[j], element) THEN ExhaustedPool(ps[j]) ELSE ps[j]
      /\ DOMAIN ps2 = 1 .. d
  BY <1>f
<1>10. p.allocated \in Nat /\ a.from \in Nat /\ a.to \in Nat /\ a.from < a.to /\ Within(a.to, element)
  <2>1. p.allocated \in Nat
    BY <1>6, PoolTyped
  <2>2. Within(p.allocated + n, element)
    <3>1. CASE fit = {}
      <4>1. p.allocated = 0
        BY <3>1, <1>g, <1>h
      <4>2. 0 + n = n
        OBVIOUS
      <4> QED BY <4>1, <4>2
    <3>2. CASE fit # {}
      BY <3>2, <1>3 DEF Fits, Within
    <3> QED BY <3>1, <3>2
  <2> QED BY <2>1, <2>2, <1>8
<1>11. /\ \A j \in 1 .. d : j = i \/ j \in 1 .. c
       /\ \A j \in 1 .. c : j \in 1 .. d
       /\ i \in 1 .. d /\ d \in Nat
  <2>1. CASE fit = {}
    <3>1. i = c + 1 /\ d = c + 1
      BY <2>1, <1>g, <1>4
    <3> QED BY <3>1, <1>g
  <2>2. CASE fit # {}
    <3>1. i \in 1 .. c /\ d = c
      BY <2>2, <1>g, <1>4
    <3> QED BY <3>1, <1>g
  <2> QED BY <2>1, <2>2
<1>12. ASSUME NEW j \in 1 .. d, j # i
       PROVE  j \in 1 .. c /\ ps2[j] \in PoolRecs /\ SameSpace(ps[j], ps2[j]) /\ ps2[j].access = ps[j].access
  <2>1. j \in 1 .. c /\ ps[j] \in PoolRecs
    BY <1>1, <1>11, <1>12
  <2>2. ps2[j] = ExhaustedPool(ps[j]) \/ ps2[j] = ps[j]
    BY <1>9, <1>12
  <2>3. CASE ps2[j] = ExhaustedPool(ps[j])
    BY <2>1, <2>3, ExhaustedPoolIs
  <2>4. CASE ps2[j] = ps[j]
    BY <2>1, <2>4 DEF SameSpace
  <2> QED BY <2>1, <2>2, <2>3, <2>4
<1>13. ps2[i] = taken
  BY <1>9, <1>11
<1>14. ps2 \in Seq(PoolRecs) /\ Len(ps2) = d
  <2>1. \A j \in 1 .. d : ps2[j] \in PoolRecs
    BY <1>7, <1>12, <1>13
  <2>2. ps2 \in [1 .. d -> PoolRecs]
    BY <2>1, <1>9, <1>f
  <2> QED BY <2>2, <1>11
<1>15. Given(ps, m, ps2, m2, a, element)
  <2>1. GivenAt(ps, m, ps2, m2, a, element, i)
    <3>1. CASE fit = {}
      <4>1. i \notin 1 .. c /\ m2 = m + 1 /\ a.id = m + 1 /\ a.from = 0 /\ ps2[i].freed = 0
        BY <3>1, <1>g, <1>h, <1>7, <1>8, <1>13
      <4> QED BY <4>1, <1>1, <1>7, <1>8, <1>10, <1>11, <1>12, <1>13, <1>14 DEF GivenAt
    <3>2. CASE fit # {}
      <4>1. /\ i \in 1 .. c /\ m2 = m /\ ps[i].id = a.id /\ ps[i].element \in {0, element}
            /\ ps[i].allocated = a.from /\ ps2[i].freed = ps[i].freed
        BY <3>2, <1>3, <1>7, <1>8, <1>13 DEF Eligible
      <4> QED BY <4>1, <1>1, <1>7, <1>8, <1>10, <1>11, <1>12, <1>13, <1>14 DEF GivenAt
    <3> QED BY <3>1, <3>2
  <2> QED BY <2>1, <1>8, <1>11, <1>14 DEF Given
<1>16. ps2[i].access = tick /\ ps2[i].allocated > 0
  BY <1>7, <1>10, <1>8, <1>13
<1>17. Later(ps, ps2, tick)
  <2>1. ASSUME NEW j \in 1 .. d
        PROVE  (j \in 1 .. c /\ LaterPool(ps[j], ps2[j], tick)) \/ (ps2[j].access = tick /\ ps2[j].allocated > 0)
    <3>1. CASE j = i
      BY <3>1, <1>16
    <3>2. CASE j # i
      <4>1. j \in 1 .. c /\ SameSpace(ps[j], ps2[j]) /\ ps2[j].access = ps[j].access /\ ps[j].allocated \in Nat
        BY <3>2, <1>1, <1>12, PoolTyped
      <4> QED BY <4>1 DEF LaterPool, SameSpace
    <3> QED BY <3>1, <3>2
  <2> QED BY <2>1, <1>1, <1>11, <1>14 DEF Later
<1>18. Touched(ps2, {PoolRes(a.id)}, tick)
  <2>1. ASSUME NEW j \in 1 .. d, PoolRes(ps2[j].id) = PoolRes(a.id) PROVE j = i
    <3>1. ps2[j].id = a.id
      BY <2>1, PoolResIs
    <3>2. CASE j # i
      <4>1. j \in 1 .. c /\ ps[j].id = a.id
        BY <3>1, <3>2, <1>12 DEF SameSpace
      <4>2. /\ \A k \in 1 .. c : ps[k].id \in 1 .. m
            /\ \A k, l \in 1 .. c : ps[k].id = ps[l].id => k = l
        BY <1>1 DEF PoolsApart
      <4>3. CASE fit = {}
        <5>1. a.id = m + 1
          BY <4>3, <1>g, <1>h, <1>8
        <5> QED BY <5>1, <4>1, <4>2, <1>1
      <4>4. CASE fit # {}
        <5>1. i \in 1 .. c /\ ps[i].id = a.id
          BY <4>4, <1>3, <1>8
        <5> QED BY <5>1, <4>1, <4>2, <3>2
      <4> QED BY <4>3, <4>4
    <3> QED BY <3>2
  <2> QED BY <2>1, <1>14, <1>16 DEF Touched
<1>19. m2 \in Nat
  BY <1>1, <1>3
<1> DEFINE room == [alloc |-> a, made |-> m2, pools |-> ps2]
<1>20. room.alloc = a /\ room.made = m2 /\ room.pools = ps2
  OBVIOUS
<1>21. Allocate(w, n, element, tick) = room
  BY <1>5
<1> HIDE DEF room
<1>22. Makes(room, ps, m, element, tick)
  BY <1>8, <1>15, <1>17, <1>18, <1>19, <1>20 DEF Makes, at
<1> QED BY <1>21, <1>22 DEF ps, m

\* Sweeping.
LEMMA SweptIs ==
  ASSUME NEW p \in PoolRecs, NEW completed
  PROVE  /\ Swept(p, completed) \in PoolRecs /\ Swept(p, completed).access = p.access
         /\ Emptied(p, completed) => Anew(p, Swept(p, completed))
         /\ ~ Emptied(p, completed) => SameSpace(p, Swept(p, completed))
<1> DEFINE q == IF Emptied(p, completed)
                THEN [p EXCEPT !.allocated = 0, !.freed = 0, !.exhausted = FALSE, !.moving = FALSE,
                               !.element = 0]
                ELSE p
<1>1. /\ q \in PoolRecs /\ q.access = p.access
      /\ Emptied(p, completed) => Anew(p, q)
      /\ ~ Emptied(p, completed) => SameSpace(p, q)
  BY DEF PoolRecs, Anew, SameSpace
<1>2. Swept(p, completed) = IF Wasteful(q) THEN [q EXCEPT !.moving = TRUE] ELSE q
  BY DEF Swept
<1> HIDE DEF q
<1> DEFINE r == [q EXCEPT !.moving = TRUE]
<1>3. r \in PoolRecs /\ r.access = q.access /\ r.id = q.id /\ r.element = q.element
      /\ r.allocated = q.allocated /\ r.freed = q.freed
  BY <1>1 DEF PoolRecs
<1> HIDE DEF r
<1>4. Swept(p, completed) = r \/ Swept(p, completed) = q
  BY <1>2 DEF r
<1>5. CASE Swept(p, completed) = r
  BY <1>1, <1>3, <1>5 DEF Anew, SameSpace
<1>6. CASE Swept(p, completed) = q
  BY <1>1, <1>6
<1> QED BY <1>4, <1>5, <1>6

SweptAll(ps, completed) == [i \in DOMAIN ps |-> Swept(ps[i], completed)]
Left(ps, completed) ==
  Kept(SweptAll(ps, completed), {p \in Range(SweptAll(ps, completed)) : ~StalePool(p, completed)})
Comes(ps, ps2, i, j, completed) ==
  /\ ps2[i] = Swept(ps[j], completed) /\ ~StalePool(Swept(ps[j], completed), completed)
  /\ ps2[i].id = ps[j].id /\ ps2[i].access = ps[j].access
  /\ Emptied(ps[j], completed) \/ SameSpace(ps[j], ps2[i])

LEMMA SweptPools ==
  ASSUME NEW F, NEW ps, NEW m, Housed(F, ps, m), NEW completed
  PROVE  /\ Left(ps, completed) \in Seq(PoolRecs) /\ Housed(F, Left(ps, completed), m)
         /\ \A i \in 1 .. Len(Left(ps, completed)) : \E j \in 1 .. Len(ps) :
              Comes(ps, Left(ps, completed), i, j, completed)
<1> DEFINE c == Len(ps)
           h == Flat(F)
           S == Owners \X Streams
           a == SweptAll(ps, completed)
           K == {p \in Range(a) : ~StalePool(p, completed)}
           b == Left(ps, completed)
<1>1. /\ F \in [Owners -> MeshAllocs] /\ Space(h, ElementOf, ps, m) /\ ps \in Seq(PoolRecs)
      /\ h \in [S -> Allocs]
  BY FlatTyped DEF Housed, Space
<1>2. c \in Nat /\ DOMAIN ps = 1 .. c /\ c = Len(ps)
      /\ \A i \in 1 .. c : ps[i] \in PoolRecs /\ ps[i].allocated \in Nat /\ ps[i].freed \in Nat
  BY <1>1, PoolsTyped
<1>3. a = [i \in 1 .. c |-> Swept(ps[i], completed)]
  BY <1>2 DEF SweptAll
<1>4. b = Kept(a, K)
  BY DEF Left
<1> HIDE DEF c, h, S, a, b
<1>5. a \in Seq(PoolRecs) /\ Len(a) = c /\ \A i \in 1 .. c : a[i] = Swept(ps[i], completed)
  <2>1. a \in [1 .. c -> PoolRecs]
    BY <1>2, <1>3, SweptIs
  <2> QED BY <2>1, <1>2, <1>3
<1>6. b \in Seq(PoolRecs) /\ \E mm : KeptTo(a, K, Len(a), b, mm)
  <2> HIDE DEF K
  <2> QED BY <1>4, <1>5, KeptElements
<1>7. PICK mm : KeptTo(a, K, c, b, mm)
  BY <1>5, <1>6
<1>8. /\ mm \in [1 .. Len(b) -> 1 .. c]
      /\ \A i, j \in 1 .. Len(b) : i < j => mm[i] < mm[j]
      /\ \A i \in 1 .. Len(b) : b[i] = a[mm[i]] /\ b[i] \in K
      /\ \A j \in 1 .. c : a[j] \in K => \E i \in 1 .. Len(b) : mm[i] = j
  BY <1>7 DEF KeptTo
<1>9. \A j \in 1 .. c : a[j] \in K <=> ~ StalePool(a[j], completed)
  BY <1>5 DEF Range
<1> HIDE DEF K
<1>10. Len(b) \in Nat
  BY <1>6
<1>11. \A i, j \in 1 .. Len(b) : mm[i] = mm[j] => i = j
  <2> SUFFICES ASSUME NEW i \in 1 .. Len(b), NEW j \in 1 .. Len(b), i # j PROVE mm[i] # mm[j]
    OBVIOUS
  <2>1. mm[i] \in Int /\ mm[j] \in Int /\ (i < j \/ j < i)
    BY <1>8, <1>10, <1>2
  <2> QED BY <2>1, <1>8
<1>12. ASSUME NEW j \in 1 .. c
       PROVE  /\ a[j] \in PoolRecs /\ a[j].access = ps[j].access /\ a[j].id = ps[j].id
              /\ SameSpace(ps[j], a[j]) \/ (Anew(ps[j], a[j]) /\ Emptied(ps[j], completed) /\ Cover(h, ps[j].id) = {})
  <2>0. ps[j] \in PoolRecs /\ a[j] = Swept(ps[j], completed)
    BY <1>2, <1>5
  <2>1. CASE Emptied(ps[j], completed)
    <3>1. Anew(ps[j], a[j]) /\ a[j] \in PoolRecs /\ a[j].access = ps[j].access
      BY <2>0, <2>1, SweptIs
    <3>2. ps[j].allocated = ps[j].freed /\ j \in 1 .. Len(ps)
      BY <2>1, <1>2 DEF Emptied
    <3>3. Cover(h, ps[j].id) = {}
      BY <3>2, HousedVacant DEF h
    <3> QED BY <3>1, <3>3, <2>1 DEF Anew
  <2>2. CASE ~ Emptied(ps[j], completed)
    <3>1. SameSpace(ps[j], a[j]) /\ a[j] \in PoolRecs /\ a[j].access = ps[j].access
      BY <2>0, <2>2, SweptIs
    <3> QED BY <3>1 DEF SameSpace
  <2> QED BY <2>1, <2>2
<1>13. ASSUME NEW j \in 1 .. c, Cover(h, ps[j].id) # {} PROVE \E i \in 1 .. Len(b) : mm[i] = j
  <2>1. SameSpace(ps[j], a[j])
    BY <1>12, <1>13
  <2>2. ~ (ps[j].allocated = 0)
    <3>1. j \in 1 .. Len(ps)
      BY <1>2
    <3>2. ps[j].allocated = 0 => Cover(h, ps[j].id) = {}
      BY <3>1, HousedVacant DEF h
    <3> QED BY <3>2, <1>13
  <2>3. ~ StalePool(a[j], completed)
    BY <2>1, <2>2 DEF StalePool, SameSpace
  <2> QED BY <2>3, <1>8, <1>9
<1>14. Resettled(h, ps, b, mm)
  <2>1. \A i \in 1 .. Len(b) : SameSpace(ps[mm[i]], b[i]) \/ (Anew(ps[mm[i]], b[i]) /\ Cover(h, ps[mm[i]].id) = {})
    BY <1>8, <1>12
  <2> QED BY <2>1, <1>2, <1>6, <1>8, <1>11, <1>13 DEF Resettled
<1>15. Space(h, ElementOf, b, m)
  <2> DEFINE e == ElementOf
  <2>1. Space(h, e, ps, m)
    BY <1>1
  <2> HIDE DEF e
  <2>2. Space(h, e, b, m)
    BY <2>1, <1>1, <1>14, SpaceResettled
  <2> QED BY <2>2 DEF e
<1>16. Housed(F, b, m)
  BY <1>1, <1>15 DEF Housed, h
<1>17. ASSUME NEW i \in 1 .. Len(b) PROVE \E j \in 1 .. c : Comes(ps, b, i, j, completed)
  <2> DEFINE j == mm[i]
  <2>1. j \in 1 .. c /\ b[i] = a[j] /\ a[j] \in K
    BY <1>8
  <2> HIDE DEF j
  <2>2. b[i] = Swept(ps[j], completed) /\ ~StalePool(a[j], completed) /\ a[j] = Swept(ps[j], completed)
    BY <2>1, <1>5, <1>9
  <2>3. Comes(ps, b, i, j, completed)
    BY <2>1, <2>2, <1>12 DEF Comes
  <2> QED BY <2>1, <2>3
<1> QED BY <1>2, <1>6, <1>16, <1>17 DEF b

\* Nothing in use is reset or destroyed, and what is left is as used as before.
LEMMA SweptUsed ==
  ASSUME NEW F, NEW ps, NEW m, Housed(F, ps, m), NEW completed \in Nat,
         NEW U, UsedBy(U, ps), \A u \in U : u.tick \in Nat /\ u.tick > completed
  PROVE  /\ UsedBy(U, Left(ps, completed))
         /\ \A j \in 1 .. Len(ps), u \in U :
              u.res = PoolRes(ps[j].id) => ~ Emptied(ps[j], completed)
                                           /\ ~ StalePool(Swept(ps[j], completed), completed)
<1>1. ps \in Seq(PoolRecs)
  BY DEF Housed, Space
<1>2. \A j \in 1 .. Len(ps) : ps[j] \in PoolRecs /\ ps[j].access \in Nat /\ ps[j].allocated \in Nat
  BY <1>1, PoolsTyped, PoolTyped
<1>3. ASSUME NEW j \in 1 .. Len(ps), NEW u \in U, u.res = PoolRes(ps[j].id)
      PROVE  /\ ~ Emptied(ps[j], completed) /\ u.tick <= ps[j].access /\ ps[j].allocated > 0
             /\ SameSpace(ps[j], Swept(ps[j], completed))
             /\ ~ StalePool(Swept(ps[j], completed), completed)
  <2>1. u.tick <= ps[j].access /\ ps[j].allocated > 0
    BY <1>3 DEF UsedBy
  <2>2. ~ (ps[j].access <= completed)
    BY <2>1, <1>2
  <2>3. ~ Emptied(ps[j], completed)
    BY <2>2 DEF Emptied
  <2>4. SameSpace(ps[j], Swept(ps[j], completed))
    BY <2>3, <1>2, SweptIs
  <2>5. ps[j].allocated # 0
    BY <2>1, <1>2
  <2>6. ~ StalePool(Swept(ps[j], completed), completed)
    BY <2>4, <2>5 DEF SameSpace, StalePool
  <2> QED BY <2>1, <2>3, <2>4, <2>6
<1> DEFINE b == Left(ps, completed)
<1>4. \A i \in 1 .. Len(b) : \E j \in 1 .. Len(ps) : Comes(ps, b, i, j, completed)
  BY SweptPools
<1> HIDE DEF b
<1>5. ASSUME NEW i \in 1 .. Len(b), NEW u \in U, u.res = PoolRes(b[i].id)
      PROVE  u.tick <= b[i].access /\ b[i].allocated > 0
  <2>1. PICK j \in 1 .. Len(ps) : Comes(ps, b, i, j, completed)
    BY <1>4
  <2>2. u.res = PoolRes(ps[j].id) /\ b[i].access = ps[j].access /\ b[i] = Swept(ps[j], completed)
    BY <2>1, <1>5 DEF Comes
  <2> QED BY <2>2, <1>3 DEF SameSpace
<1>6. UsedBy(U, b)
  BY <1>5 DEF UsedBy
<1> QED BY <1>3, <1>6 DEF b
-----------------------------------------------------------------------------
(* What the operations of the mesh streamer work on.                       *)

InfoRecs == [access : Nat, ready : Int, allocs : MeshAllocs, pending : Int]
Infos == UNION {[K -> InfoRecs] : K \in SUBSET Keys}
Visits == UNION {[K -> Nat] : K \in SUBSET Keys}
TransferRecs == [key : Keys, tick : Nat, version : Int, allocs : MeshAllocs]
DmaPool == Pool(CommandsForDma(commands), CommandsForDma(commands).set, "dma")
MeshRes == {"meshes"} \X Nat
CopyRes == ({"meshes", "transient"} \X Nat) \cup {DmaPool}
Works ==
  [infos : Infos, visits : Visits, transfers : Seq(TransferRecs), pools : Seq(PoolRecs),
   made : Nat, transient : TransientStates, drawn : SUBSET MeshRes, copied : SUBSET CopyRes]

HeldBy(i, x, hand) ==
  [o \in Owners |->
     IF o[1] = "info" THEN IF o[2] \in DOMAIN i THEN i[o[2]].allocs ELSE Unallocated
     ELSE IF o[1] = "tx" THEN IF o[2] \in 1 .. Len(x) THEN x[o[2]].allocs ELSE Unallocated
     ELSE hand]

BuffersUsed(t, C) ==
  /\ TransientSound(t)
  /\ \A b \in BuffersOf(t), u \in uses : u.res = BufferRes(b.id) => u.tick <= b.tick
  /\ \A b \in BuffersOf(t) : BufferRes(b.id) \in C => b.tick = ticks.current

\* The copy of an allocation is complete, or recorded or submitted in some tick up to t.
Written(at, t, C) ==
  \/ at <= finished["dma"]
  \/ \E u \in uses \cup Recorded(C, "dma") : u.queue = "dma" /\ u.at = at /\ u.tick <= t
CopiesKnown(i, x, hand, C) ==
  /\ \A k \in DOMAIN i, s \in Streams : i[k].allocs[s].at <= finished["dma"]
  /\ \A j \in 1 .. Len(x), s \in Streams : Written(x[j].allocs[s].at, x[j].tick, C)
  /\ \A s \in Streams : Written(hand[s].at, ticks.current, C)
  /\ \A k \in DOMAIN i : i[k].pending # INVALID =>
       \E j \in 1 .. Len(x) : x[j].key = k /\ x[j].version = i[k].pending

\* An operation has the allocations `hand` in hand; R are pools that are about to be drawn from.
Good(w, hand, R) ==
  /\ w \in Works /\ hand \in MeshAllocs
  /\ Housed(HeldBy(w.infos, w.transfers, hand), w.pools, w.made)
  /\ PoolsUsed(w.pools) /\ Touched(w.pools, R \cup w.drawn \cup w.copied, ticks.current)
  /\ BuffersUsed(w.transient, w.copied)
  /\ CopiesKnown(w.infos, w.transfers, hand, w.copied)

Now ==
  /\ device.submitted["dma"] \in Nat /\ finished["dma"] \in Nat /\ ticks.current \in Nat
  /\ \A u \in uses : u.tick \in Nat /\ u.tick <= ticks.current

LEMMA WorksTyped ==
  ASSUME NEW w \in Works
  PROVE  /\ w.infos \in Infos /\ w.visits \in Visits /\ w.transfers \in Seq(TransferRecs)
         /\ w.pools \in Seq(PoolRecs) /\ w.made \in Nat /\ w.transient \in TransientStates
         /\ w.drawn \in SUBSET MeshRes /\ w.copied \in SUBSET CopyRes
BY DEF Works

LEMMA InfosTyped ==
  ASSUME NEW i \in Infos
  PROVE  /\ DOMAIN i \in SUBSET Keys /\ i \in [DOMAIN i -> InfoRecs]
         /\ \A k \in DOMAIN i : /\ i[k] \in InfoRecs /\ i[k].access \in Nat /\ i[k].ready \in Int
                                /\ i[k].allocs \in MeshAllocs /\ i[k].pending \in Int
<1>1. PICK K \in SUBSET Keys : i \in [K -> InfoRecs]
  BY DEF Infos
<1>2. \A r \in InfoRecs : r.access \in Nat /\ r.ready \in Int /\ r.allocs \in MeshAllocs /\ r.pending \in Int
  BY DEF InfoRecs
<1> QED BY <1>1, <1>2

LEMMA TransfersTyped ==
  ASSUME NEW x \in Seq(TransferRecs)
  PROVE  /\ Len(x) \in Nat /\ DOMAIN x = 1 .. Len(x)
         /\ \A j \in 1 .. Len(x) : /\ x[j] \in TransferRecs /\ x[j].key \in Keys /\ x[j].tick \in Nat
                                   /\ x[j].version \in Int /\ x[j].allocs \in MeshAllocs
<1>1. \A r \in TransferRecs : r.key \in Keys /\ r.tick \in Nat /\ r.version \in Int /\ r.allocs \in MeshAllocs
  BY DEF TransferRecs
<1> QED BY <1>1

LEMMA OwnersAre ==
  /\ Hand \in Owners
  /\ \A k \in Keys : <<"info", k>> \in Owners
  /\ \A j \in Nat : <<"tx", j>> \in Owners
  /\ \A o \in Owners : \/ o = Hand
                       \/ \E k \in Keys : o = <<"info", k>>
                       \/ \E j \in Nat : o = <<"tx", j>>
  /\ \A k : <<"info", k>> # Hand
  /\ \A j : <<"tx", j>> # Hand
  /\ \A k, j : <<"info", k>> # <<"tx", j>>
BY DEF Owners, Hand

\* What the owners hold, for short.
HeldAs(F, i, x, hand) ==
  /\ F \in [Owners -> MeshAllocs] /\ F[Hand] = hand
  /\ \A k \in Keys : F[<<"info", k>>] = IF k \in DOMAIN i THEN i[k].allocs ELSE Unallocated
  /\ \A j \in Nat : F[<<"tx", j>>] = IF j \in 1 .. Len(x) THEN x[j].allocs ELSE Unallocated

LEMMA HeldTyped ==
  ASSUME NEW i \in Infos, NEW x \in Seq(TransferRecs), NEW hand \in MeshAllocs
  PROVE  HeldAs(HeldBy(i, x, hand), i, x, hand)
<1> DEFINE H == HeldBy(i, x, hand)
           l == Len(x)
<1>0. /\ \A k \in DOMAIN i : i[k].allocs \in MeshAllocs
      /\ \A j \in 1 .. l : x[j].allocs \in MeshAllocs
      /\ Unallocated \in MeshAllocs
  BY InfosTyped, TransfersTyped, UnallocatedTyped
<1>1. \A o \in Owners : H[o] =
        IF o[1] = "info" THEN IF o[2] \in DOMAIN i THEN i[o[2]].allocs ELSE Unallocated
        ELSE IF o[1] = "tx" THEN IF o[2] \in 1 .. l THEN x[o[2]].allocs ELSE Unallocated
        ELSE hand
  BY DEF HeldBy
<1>d. DOMAIN H = Owners /\ H = [o \in Owners |-> H[o]]
  BY DEF HeldBy
<1> HIDE DEF H, l
<1>2. H[Hand] = hand
  <2>1. Hand \in Owners /\ Hand[1] = "hand"
    BY OwnersAre DEF Hand
  <2> QED BY <2>1, <1>1
<1>3. ASSUME NEW k \in Keys PROVE H[<<"info", k>>] = IF k \in DOMAIN i THEN i[k].allocs ELSE Unallocated
  <2>1. <<"info", k>> \in Owners /\ <<"info", k>>[1] = "info" /\ <<"info", k>>[2] = k
    BY OwnersAre
  <2> QED BY <2>1, <1>1
<1>4. ASSUME NEW j \in Nat PROVE H[<<"tx", j>>] = IF j \in 1 .. l THEN x[j].allocs ELSE Unallocated
  <2>1. <<"tx", j>> \in Owners /\ <<"tx", j>>[1] = "tx" /\ <<"tx", j>>[2] = j
    BY OwnersAre
  <2> QED BY <2>1, <1>1
<1>5. \A o \in Owners : H[o] \in MeshAllocs
  BY <1>0, <1>2, <1>3, <1>4, OwnersAre
<1>6. H \in [Owners -> MeshAllocs]
  BY <1>5, <1>d
<1> QED BY <1>2, <1>3, <1>4, <1>6 DEF HeldAs, H, l

\* Two ways to hold are the same when they are for each owner.
LEMMA SameHolding ==
  ASSUME NEW F \in [Owners -> MeshAllocs], NEW G \in [Owners -> MeshAllocs], F[Hand] = G[Hand],
         \A k \in Keys : F[<<"info", k>>] = G[<<"info", k>>],
         \A j \in Nat : F[<<"tx", j>>] = G[<<"tx", j>>]
  PROVE  F = G
<1>1. \A o \in Owners : F[o] = G[o]
  BY OwnersAre
<1> QED BY <1>1

LEMMA WrittenMore ==
  ASSUME NEW at, NEW t, NEW C, NEW D, C \subseteq D, Written(at, t, C)
  PROVE  Written(at, t, D)
<1>1. Recorded(C, "dma") \subseteq Recorded(D, "dma")
  BY DEF Recorded
<1> QED BY <1>1 DEF Written

\* Touched is about single resources.
LEMMA TouchedSplit ==
  ASSUME NEW ps, NEW A, NEW B, NEW tick, Touched(ps, A, tick), Touched(ps, B, tick)
  PROVE  Touched(ps, A \cup B, tick)
BY DEF Touched

LEMMA TouchedPart ==
  ASSUME NEW ps, NEW A, NEW B, NEW tick, Touched(ps, B, tick), A \subseteq B
  PROVE  Touched(ps, A, tick)
BY DEF Touched

LEMMA DmaPoolTouched ==
  ASSUME NEW ps, NEW tick
  PROVE  Touched(ps, {DmaPool}, tick)
BY DEF Touched, DmaPool, Pool, PoolRes

\* One stream of an operation gets space and its copy is recorded.
GiveStep(w, w2, room, src) ==
  /\ w2 \in Works /\ w2.infos = w.infos /\ w2.transfers = w.transfers
  /\ w2.pools = room.pools /\ w2.made = room.made /\ w2.drawn = w.drawn
  /\ w2.copied = w.copied \cup {src, PoolRes(room.alloc.id), DmaPool}
  /\ BuffersUsed(w2.transient, w2.copied)
  /\ Touched(w.pools, {src}, ticks.current)
GivenHand(hand, s, a) == [hand EXCEPT ![s] = a]

LEMMA GiveKeeps ==
  ASSUME Now, NEW w, NEW hand, NEW R, Good(w, hand, R), NEW s \in Streams, hand[s] = NoAllocation,
         NEW room, Makes(room, w.pools, w.made, ElementSize[s], ticks.current),
         NEW w2, NEW src, GiveStep(w, w2, room, src)
  PROVE  Good(w2, GivenHand(hand, s, room.alloc), R)
<1> DEFINE a == room.alloc
           hand2 == GivenHand(hand, s, a)
           F == HeldBy(w.infos, w.transfers, hand)
           G == HeldBy(w2.infos, w2.transfers, hand2)
           tick == ticks.current
           C == w.copied
           D == w2.copied
<1>1. /\ w \in Works /\ hand \in MeshAllocs /\ Housed(F, w.pools, w.made)
      /\ PoolsUsed(w.pools) /\ Touched(w.pools, R \cup w.drawn \cup C, tick)
      /\ CopiesKnown(w.infos, w.transfers, hand, C)
  BY DEF Good
<1>2. /\ w2 \in Works /\ w2.infos = w.infos /\ w2.transfers = w.transfers
      /\ w2.pools = room.pools /\ w2.made = room.made /\ w2.drawn = w.drawn
      /\ D = C \cup {src, PoolRes(a.id), DmaPool}
      /\ BuffersUsed(w2.transient, D) /\ Touched(w.pools, {src}, tick)
  BY DEF GiveStep
<1>3. /\ Given(w.pools, w.made, room.pools, room.made, a, ElementSize[s])
      /\ a.at = device.submitted["dma"] + 1
      /\ Later(w.pools, room.pools, tick) /\ Touched(room.pools, {PoolRes(a.id)}, tick)
  BY DEF Makes
<1>4. a \in Allocs /\ room.pools \in Seq(PoolRecs)
  BY <1>3 DEF Given
<1>5. hand2 \in MeshAllocs /\ \A r \in Streams : hand2[r] = IF r = s THEN a ELSE hand[r]
  BY <1>1, <1>4 DEF MeshAllocs, GivenHand
<1>6. /\ w.infos \in Infos /\ w.transfers \in Seq(TransferRecs) /\ w.pools \in Seq(PoolRecs)
      /\ w2.infos \in Infos /\ w2.transfers \in Seq(TransferRecs) /\ w2.pools \in Seq(PoolRecs)
  BY <1>1, <1>2, WorksTyped
<1>7. tick \in Nat /\ \A u \in uses : u.tick \in Nat /\ u.tick <= tick
  BY DEF Now
<1>8. G = Handed(F, s, a)
  <2>1. HeldAs(F, w.infos, w.transfers, hand) /\ HeldAs(G, w.infos, w.transfers, hand2)
    BY <1>1, <1>2, <1>5, <1>6, HeldTyped
  <2> DEFINE E == Handed(F, s, a)
  <2>3. E \in [Owners -> MeshAllocs] /\ \A o \in Owners : E[o] = IF o = Hand THEN hand2 ELSE F[o]
    <3> HIDE DEF F
    <3>1. E = [F EXCEPT ![Hand] = hand2]
      BY <2>1 DEF Handed, GivenHand, HeldAs
    <3> HIDE DEF E, hand2
    <3> QED BY <3>1, <2>1, <1>5 DEF HeldAs
  <2> HIDE DEF E, F, G
  <2>4. /\ E[Hand] = G[Hand]
        /\ \A k \in Keys : E[<<"info", k>>] = G[<<"info", k>>]
        /\ \A j \in Nat : E[<<"tx", j>>] = G[<<"tx", j>>]
    BY <2>1, <2>3, OwnersAre DEF HeldAs
  <2>5. E = G
    BY <2>1, <2>3, <2>4, SameHolding DEF HeldAs
  <2> QED BY <2>5 DEF E
<1>9. Housed(G, w2.pools, w2.made)
  <2>1. F[Hand][s] = NoAllocation
    BY <1>1, <1>6, HeldTyped DEF HeldAs
  <2> HIDE DEF F, G, a
  <2>2. Housed(Handed(F, s, a), room.pools, room.made)
    BY <1>1, <1>3, <2>1, HousedGiven
  <2> QED BY <2>2, <1>2, <1>8
<1>10. PoolsUsed(w2.pools) /\ Touched(w2.pools, R \cup w2.drawn \cup D, tick)
  <2> DEFINE A == R \cup w.drawn \cup C
             B == A \cup {src}
             p == w.pools
             q == room.pools
  <2>1. Touched(p, B, tick)
    BY <1>1, <1>2, TouchedSplit
  <2>2. p \in Seq(PoolRecs) /\ q \in Seq(PoolRecs) /\ Later(p, q, tick) /\ PoolsUsed(p)
    BY <1>1, <1>3, <1>4, <1>6
  <2> HIDE DEF B, p, q, tick
  <2>3. Touched(q, B, tick) /\ PoolsUsed(q)
    BY <2>1, <2>2, <1>7, LaterKeeps
  <2>4. Touched(q, {PoolRes(a.id)}, tick) /\ Touched(q, {DmaPool}, tick)
    BY <1>3, DmaPoolTouched DEF q
  <2>5. Touched(q, R \cup w2.drawn \cup D, tick)
    <3>1. R \cup w2.drawn \cup D = B \cup {PoolRes(a.id)} \cup {DmaPool}
      BY <1>2 DEF B
    <3> QED BY <3>1, <2>3, <2>4, TouchedSplit
  <2> QED BY <2>3, <2>5, <1>2 DEF q
<1>11. CopiesKnown(w2.infos, w2.transfers, hand2, D)
  <2>1. C \subseteq D
    BY <1>2
  <2>2. \A at, t : Written(at, t, C) => Written(at, t, D)
    BY <2>1, WrittenMore
  <2>3. Written(a.at, tick, D)
    <3> DEFINE u == [res |-> DmaPool, queue |-> "dma", at |-> device.submitted["dma"] + 1, tick |-> tick]
    <3>1. DmaPool \in D
      BY <1>2
    <3> HIDE DEF D
    <3>2. u \in Recorded(D, "dma")
      BY <3>1 DEF Recorded
    <3>3. u.queue = "dma" /\ u.at = a.at /\ u.tick <= tick
      BY <1>3, <1>7
    <3> HIDE DEF u
    <3> QED BY <3>2, <3>3 DEF Written
  <2> HIDE DEF a, C, D, tick
  <2>4. \A r \in Streams : Written(hand2[r].at, tick, D)
    <3> SUFFICES ASSUME NEW r \in Streams PROVE Written(hand2[r].at, tick, D)
      OBVIOUS
    <3>1. CASE r = s
      BY <3>1, <1>5, <2>3
    <3>2. CASE r # s
      BY <3>2, <1>1, <1>5, <2>2 DEF CopiesKnown, tick
    <3> QED BY <3>1, <3>2
  <2> HIDE DEF hand2
  <2>5. /\ \A k \in DOMAIN w.infos, r \in Streams : w.infos[k].allocs[r].at <= finished["dma"]
        /\ \A j \in 1 .. Len(w.transfers), r \in Streams : Written(w.transfers[j].allocs[r].at, w.transfers[j].tick, C)
        /\ \A k \in DOMAIN w.infos : w.infos[k].pending # INVALID =>
             \E j \in 1 .. Len(w.transfers) : w.transfers[j].key = k /\ w.transfers[j].version = w.infos[k].pending
    BY <1>1 DEF CopiesKnown
  <2>6. \A j \in 1 .. Len(w.transfers), r \in Streams : Written(w.transfers[j].allocs[r].at, w.transfers[j].tick, D)
    BY <2>2, <2>5
  <2>7. CopiesKnown(w.infos, w.transfers, hand2, D)
    BY <2>4, <2>5, <2>6 DEF CopiesKnown, tick
  <2> QED BY <2>7, <1>2
<1> QED BY <1>2, <1>5, <1>9, <1>10, <1>11 DEF Good
-----------------------------------------------------------------------------
(* The operations of the mesh streamer keep what is good.                  *)

\* The pools that allocations lie in.
Asked(al) == {PoolRes(al[s].id) : s \in {x \in Streams : al[x] # NoAllocation}}

\* An operation that changes nothing but space, staging memory and recorded copies.
Spaced(w, ps, m, t, C) ==
  [w EXCEPT !.pools = ps, !.made = m, !.transient = t, !.copied = C]
Respaced(w2, w, ps, m, t, C) ==
  /\ w2 \in Works /\ w2.infos = w.infos /\ w2.visits = w.visits /\ w2.transfers = w.transfers
  /\ w2.pools = ps /\ w2.made = m /\ w2.transient = t /\ w2.drawn = w.drawn /\ w2.copied = C

LEMMA SpacedIs ==
  ASSUME NEW w \in Works, NEW ps \in Seq(PoolRecs), NEW m \in Nat, NEW t \in TransientStates,
         NEW C \in SUBSET CopyRes
  PROVE  Respaced(Spaced(w, ps, m, t, C), w, ps, m, t, C)
BY DEF Works, Spaced, Respaced

\* What is known of a work apart from its pools.
SameRest(w2, w) ==
  /\ w2.infos = w.infos /\ w2.transfers = w.transfers /\ w2.made = w.made
  /\ w2.transient = w.transient /\ w2.drawn = w.drawn /\ w2.copied = w.copied

LEMMA AccessKeeps ==
  ASSUME Now, NEW w, NEW hand, NEW R, Good(w, hand, R), NEW al, NEW o \in Owners,
         \A s \in Streams :
           al[s] # NoAllocation => al[s] = HeldBy(w.infos, w.transfers, hand)[o][s],
         NEW w2 \in Works, SameRest(w2, w), w2.pools = Accessed(w.pools, al, ticks.current)
  PROVE  Good(w2, hand, R \cup Asked(al))
<1> DEFINE F == HeldBy(w.infos, w.transfers, hand)
           ps == w.pools
           ps2 == w2.pools
           tick == ticks.current
           A == R \cup w.drawn \cup w.copied
<1>1. /\ w \in Works /\ hand \in MeshAllocs /\ Housed(F, ps, w.made)
      /\ PoolsUsed(ps) /\ Touched(ps, A, tick)
      /\ BuffersUsed(w.transient, w.copied)
      /\ CopiesKnown(w.infos, w.transfers, hand, w.copied)
  BY DEF Good
<1>2. ps \in Seq(PoolRecs)
  BY <1>1, WorksTyped
<1>3. tick \in Nat /\ \A u \in uses : u.tick \in Nat /\ u.tick <= tick
  BY DEF Now
<1>4. ps2 = Accessed(ps, al, tick)
  OBVIOUS
<1>a. \A s \in Streams : al[s] # NoAllocation => al[s] = F[o][s]
  OBVIOUS
<1> HIDE DEF F, ps, ps2, tick, A
<1>5. /\ ps2 \in Seq(PoolRecs) /\ Len(ps2) = Len(ps)
      /\ \A i \in 1 .. Len(ps) : SameSpace(ps[i], ps2[i])
      /\ Later(ps, ps2, tick) /\ Marked(ps2, al, tick)
  BY <1>2, <1>3, <1>4, AccessedPools
<1>6. Housed(F, ps2, w.made)
  BY <1>1, <1>5, HousedTouched
<1>7. Touched(ps2, A, tick) /\ PoolsUsed(ps2)
  BY <1>1, <1>2, <1>3, <1>5, LaterKeeps
<1>8. Touched(ps2, Asked(al), tick)
  <2> SUFFICES ASSUME NEW j \in 1 .. Len(ps2), PoolRes(ps2[j].id) \in Asked(al)
               PROVE  ps2[j].access = tick /\ ps2[j].allocated > 0
    BY DEF Touched
  <2>1. PICK s \in Streams : al[s] # NoAllocation /\ PoolRes(ps2[j].id) = PoolRes(al[s].id)
    BY DEF Asked
  <2>2. ps2[j].id = al[s].id
    BY <2>1, PoolResIs
  <2>3. ps2[j].access = tick
    BY <2>2, <1>5 DEF Marked
  <2>4. al[s] = F[o][s] /\ F[o][s] # NoAllocation
    BY <2>1, <1>a
  <2>5. PICK i \in 1 .. Len(ps2) :
           /\ ps2[i].id = F[o][s].id /\ F[o][s].from < F[o][s].to /\ F[o][s].to <= ps2[i].allocated
           /\ \A l \in 1 .. Len(ps2) : ps2[l].id = F[o][s].id => l = i
    BY <1>6, <2>4, HousedPool
  <2>6. j = i
    BY <2>2, <2>4, <2>5
  <2>7. F[o][s].from \in Nat /\ F[o][s].to \in Nat /\ ps2[i].allocated \in Nat
    BY <1>5, <1>6, PoolsTyped, AllocTyped DEF Housed, MeshAllocs
  <2>8. \A a, b, c \in Nat : a < b /\ b <= c => c > 0
    OBVIOUS
  <2>9. ps2[i].allocated > 0
    BY <2>5, <2>7, <2>8
  <2> QED BY <2>3, <2>6, <2>9
<1>9. Touched(ps2, R \cup Asked(al) \cup w.drawn \cup w.copied, tick)
  <2>1. R \cup Asked(al) \cup w.drawn \cup w.copied = A \cup Asked(al)
    BY DEF A
  <2> QED BY <2>1, <1>7, <1>8, TouchedSplit
<1> QED BY <1>1, <1>6, <1>7, <1>9 DEF Good, SameRest, F, ps2, tick

\* A stream of an operation: `y` is what the operation became, of the streams T nothing yet.
Doing(y, w, R, T) ==
  /\ Good(y.w, y.allocs, R) /\ w \in Works
  /\ y.w.infos = w.infos /\ y.w.visits = w.visits /\ y.w.transfers = w.transfers
  /\ y.w.drawn = w.drawn /\ w.copied \subseteq y.w.copied
  /\ \A s \in T : y.allocs[s] = NoAllocation

LEMMA CopyUsesAre ==
  \A src, dst : CopyUses(CommandsForDma(commands), src, dst) = {src, dst, DmaPool}
BY DEF CopyUses, DmaPool

LEMMA ResTyped ==
  /\ \A n \in Nat : PoolRes(n) \in MeshRes /\ PoolRes(n) \in CopyRes /\ BufferRes(n) \in CopyRes
  /\ DmaPool \in CopyRes
  /\ \A n, m : BufferRes(n) # PoolRes(m) /\ BufferRes(n) # DmaPool /\ PoolRes(n) # DmaPool
  /\ \A n, m : BufferRes(n) = BufferRes(m) => n = m
BY DEF PoolRes, BufferRes, MeshRes, CopyRes, DmaPool, Pool

LEMMA StagedKeeps ==
  ASSUME Now, NEW t, NEW C, BuffersUsed(t, C), NEW x, Served(t, x, ticks.current), NEW id
  PROVE  BuffersUsed(x.state, C \cup {x.res, PoolRes(id), DmaPool})
<1> DEFINE tick == ticks.current
           D == C \cup {x.res, PoolRes(id), DmaPool}
<1>1. /\ TransientSound(t)
      /\ \A b \in BuffersOf(t), u \in uses : u.res = BufferRes(b.id) => u.tick <= b.tick
      /\ \A b \in BuffersOf(t) : BufferRes(b.id) \in C => b.tick = tick
  BY DEF BuffersUsed
<1>2. /\ TransientSound(x.state)
      /\ \A b \in BuffersOf(x.state) : b.tick = tick \/ b \in BuffersOf(t)
  BY DEF Served
<1>3. PICK n \in Nat : x.res = BufferRes(n) /\ \A b \in BuffersOf(x.state) : b.id = n => b.tick = tick
  BY DEF Served
<1>4. tick \in Nat /\ \A u \in uses : u.tick \in Nat /\ u.tick <= tick
  BY DEF Now
<1> HIDE DEF tick
<1>5. \A b \in BuffersOf(x.state), u \in uses : u.res = BufferRes(b.id) => u.tick <= b.tick
  BY <1>1, <1>2, <1>4
<1>6. \A b \in BuffersOf(x.state) : BufferRes(b.id) \in D => b.tick = tick
  <2> SUFFICES ASSUME NEW b \in BuffersOf(x.state), BufferRes(b.id) \in D PROVE b.tick = tick
    OBVIOUS
  <2>1. BufferRes(b.id) \in C \/ BufferRes(b.id) = BufferRes(n)
    BY <1>3, ResTyped
  <2>2. CASE BufferRes(b.id) \in C
    BY <2>2, <1>1, <1>2
  <2>3. CASE BufferRes(b.id) = BufferRes(n)
    BY <2>3, <1>3, ResTyped
  <2> QED BY <2>1, <2>2, <2>3
<1> QED BY <1>2, <1>5, <1>6 DEF BuffersUsed, tick

\* A step that gives space goes on doing.
LEMMA GiveDoing ==
  ASSUME Now, NEW y, NEW w, NEW R, NEW T \in SUBSET Streams, Doing(y, w, R, T), NEW s \in T,
         NEW v, Good(v, y.allocs, R), SameRest(v, y.w), v.visits = y.w.visits,
         NEW room, Makes(room, v.pools, v.made, ElementSize[s], ticks.current),
         NEW w2, NEW src, GiveStep(v, w2, room, src), w2.visits = v.visits
  PROVE  Doing([w |-> w2, allocs |-> GivenHand(y.allocs, s, room.alloc)], w, R, T \ {s})
<1> DEFINE hand2 == GivenHand(y.allocs, s, room.alloc)
           z == [w |-> w2, allocs |-> hand2]
<1>1. /\ w \in Works /\ y.w.infos = w.infos /\ y.w.visits = w.visits /\ y.w.transfers = w.transfers
      /\ y.w.drawn = w.drawn /\ w.copied \subseteq y.w.copied
      /\ \A r \in T : y.allocs[r] = NoAllocation
  BY DEF Doing
<1>2. s \in Streams /\ y.allocs[s] = NoAllocation
  BY <1>1
<1>3. Good(w2, hand2, R)
  BY <1>2, GiveKeeps
<1>4. /\ w2.infos = v.infos /\ w2.transfers = v.transfers /\ w2.drawn = v.drawn
      /\ v.copied \subseteq w2.copied
  BY DEF GiveStep
<1>5. y.allocs \in MeshAllocs
  BY DEF Good
<1>6. \A r \in T \ {s} : hand2[r] = y.allocs[r]
  BY <1>5 DEF GivenHand, MeshAllocs
<1>7. z.w = w2 /\ z.allocs = hand2
  OBVIOUS
<1> HIDE DEF z, hand2
<1>8. Doing(z, w, R, T \ {s})
  BY <1>1, <1>3, <1>4, <1>6, <1>7 DEF Doing, SameRest
<1> QED BY <1>8 DEF z, hand2

LEMMA UploadKeeps ==
  ASSUME Now, NEW y, NEW w, NEW R, NEW T \in SUBSET Streams, Doing(y, w, R, T), NEW s \in T,
         NEW n \in Nat, n > 0, n * ElementSize[s] <= POOL_SIZE_BYTES
  PROVE  Doing(UploadStream(y.w, y.allocs, s, n, ticks.current), w, R, T \ {s})
<1> DEFINE v == y.w
           tick == ticks.current
           e == ElementSize[s]
           room == Allocate(v, n, e, tick)
           size == n * e
           staging == Taken(v.transient, size, 1, tick)
           C == v.copied \cup {staging.res, PoolRes(room.alloc.id), DmaPool}
           w2 == Spaced(v, room.pools, room.made, staging.state, C)
<1>1. Good(v, y.allocs, R)
  BY DEF Doing
<1>2. /\ v \in Works /\ v.pools \in Seq(PoolRecs) /\ v.made \in Nat /\ v.transient \in TransientStates
      /\ v.copied \in SUBSET CopyRes /\ PoolsApart(v.pools, v.made)
      /\ BuffersUsed(v.transient, v.copied)
  BY <1>1, WorksTyped DEF Good, Housed, Space
<1>3. tick \in Nat /\ device.submitted["dma"] \in Nat /\ \A u \in uses : u.tick \in Nat /\ u.tick <= tick
  BY DEF Now
<1>4. e \in Nat /\ e # 0
  BY MeshesAssumption
<1>5. size \in Nat /\ Within(n, e)
  BY <1>4 DEF Within
<1> HIDE DEF e, size
<1>6. Makes(room, v.pools, v.made, e, tick)
  BY <1>2, <1>3, <1>4, <1>5, AllocateMakes
<1>7. /\ room.pools \in Seq(PoolRecs) /\ room.made \in Nat /\ room.alloc.id \in Nat
  BY <1>6, AllocTyped DEF Makes, Given
<1>8. Served(v.transient, staging, tick)
  BY <1>2, <1>3, <1>5, TakenServes DEF BuffersUsed
<1>9. staging.state \in TransientStates /\ \E i \in Nat : staging.res = BufferRes(i)
  BY <1>8 DEF Served, TransientSound
<1>u. UploadStream(y.w, y.allocs, s, n, ticks.current) = [w |-> w2, allocs |-> GivenHand(y.allocs, s, room.alloc)]
  BY CopyUsesAre DEF UploadStream, Spaced, GivenHand, e, size
<1> HIDE DEF room, staging
<1>10. C \in SUBSET CopyRes
  <2>1. staging.res \in CopyRes /\ PoolRes(room.alloc.id) \in CopyRes /\ DmaPool \in CopyRes
    BY <1>7, <1>9, ResTyped
  <2> QED BY <2>1, <1>2
<1>11. Respaced(w2, v, room.pools, room.made, staging.state, C)
  <2> HIDE DEF C
  <2> QED BY <1>2, <1>7, <1>9, <1>10, SpacedIs
<1>12. GiveStep(v, w2, room, staging.res)
  <2> HIDE DEF w2, tick
  <2>1. BuffersUsed(staging.state, C)
    BY <1>2, <1>8, StagedKeeps DEF tick
  <2>2. Touched(v.pools, {staging.res}, tick)
    BY <1>9, ResTyped DEF Touched
  <2> HIDE DEF v
  <2> QED BY <1>11, <2>1, <2>2 DEF GiveStep, Respaced, tick
<1>13. SameRest(v, y.w) /\ v.visits = y.w.visits /\ w2.visits = v.visits
  BY <1>11 DEF SameRest, Respaced
<1> HIDE DEF w2, C
<1>14. Doing([w |-> w2, allocs |-> GivenHand(y.allocs, s, room.alloc)], w, R, T \ {s})
  BY <1>1, <1>6, <1>12, <1>13, GiveDoing DEF e
<1> QED BY <1>14, <1>u

LEMMA GoodLess ==
  ASSUME NEW w, NEW hand, NEW R, Good(w, hand, R), NEW S, S \subseteq R
  PROVE  Good(w, hand, S)
BY DEF Good, Touched

LEMMA Multiple ==
  ASSUME NEW a \in Nat, NEW b \in Nat, NEW c \in Nat, a <= b
  PROVE  a * c <= b * c
<1>1. PICK d \in Nat : b = a + d
  <2>1. b - a \in Nat /\ b = a + (b - a)
    OBVIOUS
  <2> QED BY <2>1
<1>2. b * c = a * c + d * c
  BY <1>1
<1>3. a * c \in Nat /\ d * c \in Nat
  OBVIOUS
<1> QED BY <1>2, <1>3

\* What is moved lies in a pool that counts as accessed.
MovedFrom(s, a) == [Unallocated EXCEPT ![s] = a]

LEMMA MovedFromIs ==
  ASSUME NEW s \in Streams, NEW a, a # NoAllocation
  PROVE  /\ Asked(MovedFrom(s, a)) = {PoolRes(a.id)}
         /\ \A r \in Streams : MovedFrom(s, a)[r] # NoAllocation => r = s /\ MovedFrom(s, a)[r] = a
<1>1. \A r \in Streams : MovedFrom(s, a)[r] = IF r = s THEN a ELSE NoAllocation
  BY DEF MovedFrom, Unallocated
<1>2. {x \in Streams : MovedFrom(s, a)[x] # NoAllocation} = {s} /\ MovedFrom(s, a)[s] = a
  BY <1>1
<1> HIDE DEF MovedFrom
<1>3. Asked(MovedFrom(s, a)) = {PoolRes(a.id)}
  BY <1>2 DEF Asked
<1> QED BY <1>1, <1>3

LEMMA MoveKeeps ==
  ASSUME Now, NEW y, NEW w, NEW R, NEW T \in SUBSET Streams, Doing(y, w, R, T), NEW s \in T,
         NEW k \in DOMAIN w.infos, w.infos[k].allocs[s] # NoAllocation
  PROVE  Doing(MoveStream(y.w, y.allocs, s, w.infos[k].allocs[s], ticks.current), w, R, T \ {s})
<1> DEFINE x == y.w
           from == w.infos[k].allocs[s]
           tick == ticks.current
           e == ElementSize[s]
           al == MovedFrom(s, from)
           v == [x EXCEPT !.pools = Accessed(x.pools, al, tick)]
           n == Size(from)
           room == Allocate(v, n, e, tick)
           src == PoolRes(from.id)
           C == v.copied \cup {src, PoolRes(room.alloc.id), DmaPool}
           w2 == Spaced(v, room.pools, room.made, v.transient, C)
           F == HeldBy(x.infos, x.transfers, y.allocs)
           o == <<"info", k>>
<1>u. MoveStream(y.w, y.allocs, s, w.infos[k].allocs[s], ticks.current)
        = [w |-> [v EXCEPT !.pools = room.pools, !.made = room.made, !.copied = C],
           allocs |-> GivenHand(y.allocs, s, room.alloc)]
  BY CopyUsesAre DEF MoveStream, GivenHand, MovedFrom
<1>1. Good(x, y.allocs, R) /\ x.infos = w.infos /\ w \in Works
  BY DEF Doing
<1>2. /\ x \in Works /\ x.pools \in Seq(PoolRecs) /\ x.infos \in Infos /\ x.transfers \in Seq(TransferRecs)
      /\ y.allocs \in MeshAllocs
      /\ Housed(F, x.pools, x.made) /\ Touched(x.pools, R \cup x.drawn \cup x.copied, tick)
  BY <1>1, WorksTyped DEF Good
<1>3. tick \in Nat /\ device.submitted["dma"] \in Nat /\ \A u \in uses : u.tick \in Nat /\ u.tick <= tick
  BY DEF Now
<1>4. e \in Nat /\ e # 0
  BY MeshesAssumption
<1>5. k \in Keys /\ o \in Owners /\ F[o] = w.infos[k].allocs
  <2>1. k \in Keys
    BY <1>1, <1>2, InfosTyped
  <2>2. o \in Owners
    BY <2>1, OwnersAre
  <2>3. HeldAs(F, x.infos, x.transfers, y.allocs)
    BY <1>2, HeldTyped
  <2> QED BY <2>1, <2>2, <2>3, <1>1 DEF HeldAs
<1>6. from = F[o][s] /\ from # NoAllocation /\ from \in Allocs
  BY <1>1, <1>2, <1>5, InfosTyped DEF MeshAllocs
<1>7. /\ from.id \in Nat /\ from.from \in Nat /\ from.to \in Nat /\ from.from < from.to
      /\ Within(from.to, e)
  <2>1. from.id \in Nat /\ from.from \in Nat /\ from.to \in Nat
    BY <1>6, AllocTyped
  <2>2. F[o][s] # NoAllocation
    BY <1>6
  <2>3. \E i \in 1 .. Len(x.pools) :
           F[o][s].from < F[o][s].to /\ Within(F[o][s].to, e)
    <3> HIDE DEF F, o, e
    <3>1. \E i \in 1 .. Len(x.pools) :
           /\ x.pools[i].id = F[o][s].id /\ F[o][s].from < F[o][s].to /\ F[o][s].to <= x.pools[i].allocated
           /\ x.pools[i].element = ElementSize[s] /\ Within(F[o][s].to, ElementSize[s])
           /\ \A j \in 1 .. Len(x.pools) : x.pools[j].id = F[o][s].id => j = i
           /\ F[o][s].id \in 1 .. x.made
      BY <1>2, <1>5, <2>2, HousedPool
    <3> QED BY <3>1 DEF e
  <2> QED BY <2>1, <2>3, <1>6
<1> HIDE DEF e, from
<1>8. n \in Nat /\ n > 0 /\ n <= from.to
  BY <1>7 DEF Size
<1>9. Within(n, e)
  <2>1. n * e <= from.to * e
    BY <1>4, <1>7, <1>8, Multiple
  <2>2. n * e \in Nat /\ from.to * e \in Nat /\ POOL_SIZE_BYTES \in Nat
    BY <1>4, <1>7, <1>8, MeshesAssumption
  <2> HIDE DEF n
  <2> QED BY <2>1, <2>2, <1>7 DEF Within
<1> HIDE DEF n
<1>10. v \in Works /\ SameRest(v, x) /\ v.visits = x.visits /\ v.pools = Accessed(x.pools, al, tick)
  <2>1. Accessed(x.pools, al, tick) \in Seq(PoolRecs)
    BY <1>2, <1>3, AccessedPools
  <2> HIDE DEF al, x
  <2> QED BY <2>1, <1>2 DEF Works, SameRest
<1>a. /\ Asked(al) = {src}
      /\ \A r \in Streams : al[r] # NoAllocation => r = s /\ al[r] = from
  BY <1>6, MovedFromIs
<1>h. \A r \in Streams : al[r] # NoAllocation => al[r] = F[o][r]
  BY <1>a, <1>6
<1> HIDE DEF v, al
<1>11. Good(v, y.allocs, R \cup Asked(al))
  <2> HIDE DEF x, o, tick
  <2> QED BY <1>1, <1>5, <1>10, <1>h, AccessKeeps DEF tick
<1>12. Good(v, y.allocs, R) /\ Touched(v.pools, {src}, tick)
  <2>1. Good(v, y.allocs, R)
    BY <1>11, GoodLess
  <2>2. Touched(v.pools, {src}, tick)
    BY <1>11, <1>a DEF Good, Touched
  <2> QED BY <2>1, <2>2
<1>13. /\ v.pools \in Seq(PoolRecs) /\ v.made \in Nat /\ v.transient \in TransientStates
       /\ v.copied \in SUBSET CopyRes /\ PoolsApart(v.pools, v.made)
       /\ BuffersUsed(v.transient, v.copied)
  BY <1>10, <1>12, WorksTyped DEF Good, Housed, Space
<1>14. Makes(room, v.pools, v.made, e, tick)
  BY <1>3, <1>4, <1>8, <1>9, <1>13, AllocateMakes
<1>15. room.pools \in Seq(PoolRecs) /\ room.made \in Nat /\ room.alloc.id \in Nat
  BY <1>14, AllocTyped DEF Makes, Given
<1> HIDE DEF room
<1>16. C \in SUBSET CopyRes
  BY <1>7, <1>13, <1>15, ResTyped
<1>17. Respaced(w2, v, room.pools, room.made, v.transient, C)
  <2> HIDE DEF C
  <2> QED BY <1>10, <1>13, <1>15, <1>16, SpacedIs
<1>18. w2 = [v EXCEPT !.pools = room.pools, !.made = room.made, !.copied = C]
  <2> HIDE DEF C
  <2> QED BY <1>10 DEF Spaced, Works
<1>19. BuffersUsed(v.transient, C)
  <2>1. \A i : BufferRes(i) \in C => BufferRes(i) \in v.copied
    BY ResTyped
  <2> HIDE DEF C
  <2> QED BY <2>1, <1>13 DEF BuffersUsed
<1>20. GiveStep(v, w2, room, src)
  <2> HIDE DEF w2, tick, src
  <2> QED BY <1>12, <1>17, <1>19 DEF GiveStep, Respaced, tick
<1>21. SameRest(v, y.w) /\ v.visits = y.w.visits /\ w2.visits = v.visits
  BY <1>10, <1>17 DEF Respaced
<1>22. Doing([w |-> w2, allocs |-> GivenHand(y.allocs, s, room.alloc)], w, R, T \ {s})
  <2> HIDE DEF w2, src, C
  <2> QED BY <1>12, <1>14, <1>20, <1>21, GiveDoing DEF e
<1> QED BY <1>18, <1>22, <1>u
-----------------------------------------------------------------------------
(* Folds whose values go through stages                                    *)

LEMMA StagesHold ==
  ASSUME NEW S, IsFiniteSet(S), NEW P, NEW g, g[{}] \in P[{}],
         \A t \in SUBSET S : t # {} => \E x \in t : g[t \ {x}] \in P[t \ {x}] => g[t] \in P[t]
  PROVE  \A r \in SUBSET S : g[r] \in P[r]
<1> SUFFICES ASSUME NEW r \in SUBSET S PROVE g[r] \in P[r]
  OBVIOUS
<1> DEFINE d == [t \in SUBSET r |-> g[t] \in P[t]]
           W == {TRUE}
<1>1. \A t \in SUBSET r : d[t] \in W <=> g[t] \in P[t]
  OBVIOUS
<1>2. \A t \in SUBSET r : t \in SUBSET S /\ \A x \in t : t \ {x} \in SUBSET r
  OBVIOUS
<1>3. {} \in SUBSET r /\ r \in SUBSET r /\ IsFiniteSet(r)
  BY FS_Subset
<1> HIDE DEF d, W
<1>4. d[{}] \in W
  BY <1>1, <1>3
<1>5. \A t \in SUBSET r : t # {} => \E x \in t : d[t \ {x}] \in W => d[t] \in W
  BY <1>1, <1>2
<1>6. d[r] \in W
  BY <1>3, <1>4, <1>5, SetFoldEnds
<1> QED BY <1>1, <1>3, <1>6

\* A fold over a set each value of which is in the stage of its subset.
StageFoldOf(P, f, b, c, S, g) ==
  /\ g \in [SUBSET S -> UNION {P[t] : t \in SUBSET S}]
  /\ \A t \in SUBSET S : g[t] \in P[t] /\ g[t] = IF t = {} THEN b ELSE f[c[t]][g[t \ {c[t]}]]

LEMMA StageFoldExists ==
  ASSUME NEW S, IsFiniteSet(S), NEW P, NEW b \in P[{}], NEW f,
         NEW c, \A t \in SUBSET S : t # {} => c[t] \in t,
         \A t \in SUBSET S : t # {} => \A v \in P[t \ {c[t]}] : f[c[t]][v] \in P[t]
  PROVE  \E g : StageFoldOf(P, f, b, c, S, g)
<1> DEFINE Y == UNION {P[t] : t \in SUBSET S}
           h == [x \in S |-> [v \in Y |-> IF f[x][v] \in Y THEN f[x][v] ELSE b]]
<1>1. \A t \in SUBSET S : P[t] \subseteq Y
  OBVIOUS
<1>2. {} \in SUBSET S /\ b \in Y
  BY <1>1
<1> HIDE DEF Y
<1>3. h \in [S -> [Y -> Y]]
  BY <1>2
<1>4. \A x \in S, v \in Y : f[x][v] \in Y => h[x][v] = f[x][v]
  OBVIOUS
<1> HIDE DEF h
<1>5. PICK g : SetFoldOf(Y, h, b, c, S, g)
  BY <1>2, <1>3, SetFoldExists
<1>6. /\ g \in [SUBSET S -> Y]
      /\ \A t \in SUBSET S : g[t] = IF t = {} THEN b ELSE h[c[t]][g[t \ {c[t]}]]
  BY <1>5 DEF SetFoldOf
<1>7. ASSUME NEW t \in SUBSET S, t # {}, g[t \ {c[t]}] \in P[t \ {c[t]}]
      PROVE  g[t] \in P[t] /\ g[t] = f[c[t]][g[t \ {c[t]}]]
  <2> DEFINE r == t \ {c[t]}
             x == c[t]
  <2>1. r \in SUBSET S /\ x \in S /\ g[r] \in P[r] /\ g[r] \in Y /\ f[x][g[r]] \in P[t]
    BY <1>1, <1>7
  <2>2. g[t] = h[x][g[r]]
    BY <1>6, <1>7
  <2> HIDE DEF r, x
  <2>3. g[t] = f[x][g[r]]
    BY <1>1, <1>4, <2>1, <2>2
  <2> QED BY <2>1, <2>3 DEF r, x
<1>8. g[{}] \in P[{}] /\ g[{}] = b
  BY <1>2, <1>6
<1>9. \A t \in SUBSET S : t # {} => \E x \in t : g[t \ {x}] \in P[t \ {x}] => g[t] \in P[t]
  BY <1>7
<1>10. \A r \in SUBSET S : g[r] \in P[r]
  BY <1>8, <1>9, StagesHold
<1>11. \A t \in SUBSET S : g[t] = IF t = {} THEN b ELSE f[c[t]][g[t \ {c[t]}]]
  <2> SUFFICES ASSUME NEW t \in SUBSET S, t # {} PROVE g[t] = f[c[t]][g[t \ {c[t]}]]
    BY <1>8
  <2>1. t \ {c[t]} \in SUBSET S
    OBVIOUS
  <2> QED BY <2>1, <1>7, <1>10
<1> QED BY <1>6, <1>10, <1>11 DEF StageFoldOf, Y

\* A finite set as a sequence has each of its elements at one place.
LEMMA SetToSeqPlaces ==
  ASSUME NEW S, IsFiniteSet(S)
  PROVE  /\ SetToSeq(S) \in Seq(S)
         /\ \A i, j \in 1 .. Len(SetToSeq(S)) : SetToSeq(S)[i] = SetToSeq(S)[j] => i = j
<1> DEFINE n == Cardinality(S)
           s == SetToSeq(S)
<1>1. n \in Nat /\ ExistsBijection(1 .. n, S)
  BY FS_CardinalityType
<1>2. Cardinality(S) = n
  BY DEF Cardinality, Cardinality
<1> HIDE DEF n
<1>3. PICK f \in [1 .. n -> S] : \A a, b \in 1 .. n : f[a] = f[b] => a = b
  BY <1>1 DEF ExistsBijection, Bijection, Injection, IsInjective
<1>4. IsInjective(f)
  BY <1>3 DEF IsInjective
<1>5. s = CHOOSE g \in [1 .. n -> S] : IsInjective(g)
  BY <1>2 DEF SetToSeq
<1> HIDE DEF s
<1>6. s \in [1 .. n -> S] /\ IsInjective(s)
  BY <1>3, <1>4, <1>5
<1>7. s \in Seq(S) /\ Len(s) = n /\ \A i, j \in 1 .. n : s[i] = s[j] => i = j
  BY <1>1, <1>6 DEF IsInjective
<1> QED BY <1>7 DEF s

\* Places of a sequence, the last one last.
LEMMA LastPlaces ==
  ASSUME NEW n \in Nat
  PROVE  /\ IsFiniteSet(1 .. n)
         /\ \A t \in SUBSET (1 .. n) : t # {} => Max(t) \in t
<1>1. IsFiniteSet(1 .. n)
  BY FS_Interval
<1>2. ASSUME NEW t \in SUBSET (1 .. n), t # {} PROVE Max(t) \in t
  BY <1>2, MaxIsGreatest
<1> QED BY <1>1, <1>2

\* What a list of streams has become when those at the places t are done.
Undone(s, n, t) == {s[i] : i \in (1 .. n) \ t}

UndoneOne(s, n, t, i, S) ==
  /\ s[i] \in Undone(s, n, t \ {i}) /\ Undone(s, n, t) = Undone(s, n, t \ {i}) \ {s[i]}
  /\ Undone(s, n, t \ {i}) \in SUBSET S

LEMMA UndoneNext ==
  ASSUME NEW S, NEW s, NEW n, \A j \in 1 .. n : s[j] \in S, \A i, j \in 1 .. n : s[i] = s[j] => i = j
  PROVE  \A t \in SUBSET (1 .. n), i \in 1 .. n : i \in t => UndoneOne(s, n, t, i, S)
<1> SUFFICES ASSUME NEW t \in SUBSET (1 .. n), NEW i \in t PROVE UndoneOne(s, n, t, i, S)
  OBVIOUS
<1>1. (1 .. n) \ (t \ {i}) = ((1 .. n) \ t) \cup {i} /\ i \in 1 .. n
  OBVIOUS
<1> QED BY <1>1 DEF Undone, UndoneOne

\* Every stream of an operation gets its space.
LEMMA TransferUploadKeeps ==
  ASSUME Now, NEW w, NEW R, Good(w, Unallocated, R), NEW n \in [Streams -> Nat],
         \A s \in Streams : n[s] * ElementSize[s] <= POOL_SIZE_BYTES
  PROVE  Doing(transferUpload(w, n, ticks.current), w, R, {})
<1> DEFINE tick == ticks.current
           S == {s \in Streams : n[s] > 0}
           q == SetToSeq(S)
           l == Len(q)
           b == [w |-> w, allocs |-> Unallocated]
           Y == [w : Works, allocs : MeshAllocs]
           P == [t \in SUBSET (1 .. l) |-> {y \in Y : Doing(y, w, R, Undone(q, l, t))}]
           f == [i \in 1 .. l |-> [y \in Y |-> UploadStream(y.w, y.allocs, q[i], n[q[i]], tick)]]
           c == [t \in SUBSET (1 .. l) |-> Max(t)]
           Fold(g) == g = [t \in SUBSET (1 .. l) |->
                             IF t = {} THEN b
                             ELSE UploadStream(g[t \ {Max(t)}].w, g[t \ {Max(t)}].allocs, q[Max(t)],
                                               n[q[Max(t)]], tick)]
           fold == CHOOSE g : Fold(g)
<1>1. IsFiniteSet(S) /\ S \in SUBSET Streams
  BY MeshesAssumption, FS_Subset
<1> HIDE DEF S
<1>2. q \in Seq(S) /\ \A i, j \in 1 .. l : q[i] = q[j] => i = j
  BY <1>1, SetToSeqPlaces
<1>3. l \in Nat /\ DOMAIN q = 1 .. l /\ q \in Seq(Streams) /\ \A i \in 1 .. l : q[i] \in S
  BY <1>1, <1>2
<1>4. transferUpload(w, n, tick) = fold[1 .. l]
  <2> HIDE DEF tick
  <2> QED BY <1>3 DEF transferUpload, FoldLeft, MapThenFoldSet, Max, S
<1>5. ASSUME NEW y \in Y, NEW T \in SUBSET Streams, NEW i \in 1 .. l, q[i] \in T, Doing(y, w, R, T)
      PROVE  Doing(UploadStream(y.w, y.allocs, q[i], n[q[i]], tick), w, R, T \ {q[i]})
  <2>1. n[q[i]] \in Nat /\ n[q[i]] > 0 /\ n[q[i]] * ElementSize[q[i]] <= POOL_SIZE_BYTES
    BY <1>1, <1>3 DEF S
  <2> DEFINE s == q[i]
             m == n[q[i]]
  <2>2. s \in T /\ m \in Nat /\ m > 0 /\ m * ElementSize[s] <= POOL_SIZE_BYTES
    BY <2>1, <1>5
  <2> HIDE DEF s, m
  <2>3. Doing(UploadStream(y.w, y.allocs, s, m, tick), w, R, T \ {s})
    BY <2>2, <1>5, UploadKeeps
  <2> QED BY <2>3 DEF s, m
<1>6. ASSUME NEW y, NEW T, Doing(y, w, R, T), NEW v, NEW al, y = [w |-> v, allocs |-> al] PROVE y \in Y
  <2>1. v \in Works /\ al \in MeshAllocs
    BY <1>6 DEF Doing, Good
  <2> QED BY <2>1, <1>6
<1> HIDE DEF l, q
<1>n. \A t \in SUBSET (1 .. l), i \in 1 .. l : i \in t => UndoneOne(q, l, t, i, Streams)
  <2>1. \A j \in 1 .. l : q[j] \in Streams
    BY <1>1, <1>3
  <2> QED BY <1>2, <2>1, UndoneNext
<1>7. b \in P[{}]
  <2>1. Doing(b, w, R, Undone(q, l, {}))
    <3>1. \A s \in Undone(q, l, {}) : s \in Streams
      BY <1>1, <1>3 DEF Undone
    <3> QED BY <3>1, UnallocatedTyped DEF Doing, Good
  <2>2. b \in Y
    BY <2>1, <1>6
  <2> HIDE DEF Y, b
  <2> QED BY <2>1, <2>2
<1>8. ASSUME NEW t \in SUBSET (1 .. l), t # {}, NEW y \in P[t \ {Max(t)}]
      PROVE  f[Max(t)][y] \in P[t] /\ f[Max(t)][y] = UploadStream(y.w, y.allocs, q[Max(t)], n[q[Max(t)]], tick)
  <2> DEFINE i == Max(t)
             T == Undone(q, l, t \ {i})
             z == UploadStream(y.w, y.allocs, q[i], n[q[i]], tick)
  <2>1. i \in t /\ i \in 1 .. l /\ t \ {i} \in SUBSET (1 .. l)
    BY <1>3, <1>8, LastPlaces
  <2>2. y \in Y /\ Doing(y, w, R, T)
    <3> HIDE DEF Y, T
    <3>1. P[t \ {i}] = {x \in Y : Doing(x, w, R, Undone(q, l, t \ {i}))}
      BY <2>1
    <3> QED BY <3>1, <1>8 DEF T
  <2>3. /\ q[i] \in T /\ Undone(q, l, t) = T \ {q[i]} /\ T \in SUBSET Streams
    <3> HIDE DEF i
    <3> QED BY <2>1, <1>n DEF UndoneOne
  <2> HIDE DEF i, T
  <2>4. Doing(z, w, R, Undone(q, l, t))
    BY <1>5, <2>1, <2>2, <2>3
  <2>5. z \in Y
    <3>1. \E v, al : z = [w |-> v, allocs |-> al]
      BY DEF UploadStream
    <3> HIDE DEF z, Y
    <3> QED BY <3>1, <2>4, <1>6
  <2> HIDE DEF z, Y
  <2>6. z \in P[t]
    BY <2>4, <2>5
  <2>7. f[i][y] = z
    BY <2>1, <2>2 DEF z
  <2> QED BY <2>6, <2>7 DEF i, z
<1>9. \A t \in SUBSET (1 .. l) : c[t] = Max(t)
  OBVIOUS
<1>10. \E g : StageFoldOf(P, f, b, c, 1 .. l, g)
  <2>1. \A t \in SUBSET (1 .. l) : t # {} => c[t] \in t
    BY <1>3, <1>9, LastPlaces
  <2>2. \A t \in SUBSET (1 .. l) : t # {} => \A v \in P[t \ {c[t]}] : f[c[t]][v] \in P[t]
    <3> HIDE DEF f, c, P
    <3> QED BY <1>8, <1>9
  <2>3. IsFiniteSet(1 .. l)
    BY <1>3, LastPlaces
  <2> HIDE DEF f, c, P, b
  <2> QED BY <1>7, <2>1, <2>2, <2>3, StageFoldExists
<1>11. \E g : Fold(g) /\ \A t \in SUBSET (1 .. l) : g[t] \in P[t]
  <2> HIDE DEF f, c, P, b
  <2>1. PICK g : StageFoldOf(P, f, b, c, 1 .. l, g)
    BY <1>10
  <2>2. ASSUME NEW t \in SUBSET (1 .. l), t # {} PROVE g[t \ {Max(t)}] \in P[t \ {Max(t)}]
    <3>1. t \ {Max(t)} \in SUBSET (1 .. l)
      OBVIOUS
    <3> QED BY <3>1, <2>1 DEF StageFoldOf
  <2>3. ASSUME NEW t \in SUBSET (1 .. l)
        PROVE  g[t] = IF t = {} THEN b
                      ELSE UploadStream(g[t \ {Max(t)}].w, g[t \ {Max(t)}].allocs, q[Max(t)],
                                               n[q[Max(t)]], tick)
    <3>1. CASE t = {}
      BY <3>1, <2>1 DEF StageFoldOf
    <3>2. CASE t # {}
      <4>1. g[t] = f[c[t]][g[t \ {c[t]}]]
        BY <3>2, <2>1 DEF StageFoldOf
      <4> DEFINE y == g[t \ {Max(t)}]
      <4>2. y \in P[t \ {Max(t)}] /\ g[t] = f[Max(t)][y]
        BY <2>2, <3>2, <4>1, <1>9
      <4> HIDE DEF y
      <4>3. g[t] = UploadStream(y.w, y.allocs, q[Max(t)], n[q[Max(t)]], tick)
        BY <4>2, <3>2, <1>8
      <4> QED BY <4>3, <3>2 DEF y
    <3> QED BY <3>1, <3>2
  <2>4. Fold(g)
    BY <2>1, <2>3 DEF StageFoldOf
  <2> QED BY <2>1, <2>4 DEF StageFoldOf
<1>12. Fold(fold)
  <2> HIDE DEF P
  <2> QED BY <1>11
<1> HIDE DEF fold
<1>13. fold[1 .. l] \in P[1 .. l]
  <2>1. fold[{}] = b
    BY <1>12
  <2>2. ASSUME NEW t \in SUBSET (1 .. l), t # {}
        PROVE  \E x \in t : fold[t \ {x}] \in P[t \ {x}] => fold[t] \in P[t]
    <3> DEFINE i == Max(t)
               y == fold[t \ {i}]
    <3>1. i \in t
      BY <1>3, <2>2, LastPlaces
    <3>2. fold[t] = UploadStream(y.w, y.allocs, q[i], n[q[i]], tick)
      BY <1>12, <2>2
    <3>3. ASSUME y \in P[t \ {i}] PROVE fold[t] \in P[t]
      <4> HIDE DEF f, P, b, y
      <4>1. f[i][y] \in P[t] /\ f[i][y] = UploadStream(y.w, y.allocs, q[i], n[q[i]], tick)
        BY <3>3, <2>2, <1>8
      <4> QED BY <4>1, <3>2
    <3> QED BY <3>1, <3>3
  <2> HIDE DEF P, b
  <2>3. fold[{}] \in P[{}] /\ IsFiniteSet(1 .. l) /\ 1 .. l \in SUBSET (1 .. l)
    BY <2>1, <1>3, <1>7, LastPlaces
  <2>4. \A r \in SUBSET (1 .. l) : fold[r] \in P[r]
    BY <2>2, <2>3, StagesHold
  <2> QED BY <2>3, <2>4
<1>14. Doing(fold[1 .. l], w, R, Undone(q, l, 1 .. l)) /\ Undone(q, l, 1 .. l) = {}
  <2>1. P[1 .. l] = {y \in Y : Doing(y, w, R, Undone(q, l, 1 .. l))}
    OBVIOUS
  <2> HIDE DEF P, Y
  <2> QED BY <2>1, <1>13 DEF Undone
<1> QED BY <1>4, <1>14

LEMMA TransferDefragmentKeeps ==
  ASSUME Now, NEW w, NEW R, Good(w, Unallocated, R), NEW k \in DOMAIN w.infos
  PROVE  Doing(transferDefragment(w, w.infos[k].allocs, ticks.current), w, R, {})
<1> DEFINE tick == ticks.current
           from == w.infos[k].allocs
           S == {s \in Streams : from[s] # NoAllocation}
           q == SetToSeq(S)
           l == Len(q)
           b == [w |-> w, allocs |-> Unallocated]
           Y == [w : Works, allocs : MeshAllocs]
           P == [t \in SUBSET (1 .. l) |-> {y \in Y : Doing(y, w, R, Undone(q, l, t))}]
           f == [i \in 1 .. l |-> [y \in Y |-> MoveStream(y.w, y.allocs, q[i], from[q[i]], tick)]]
           c == [t \in SUBSET (1 .. l) |-> Max(t)]
           Fold(g) == g = [t \in SUBSET (1 .. l) |->
                             IF t = {} THEN b
                             ELSE MoveStream(g[t \ {Max(t)}].w, g[t \ {Max(t)}].allocs, q[Max(t)],
                                               from[q[Max(t)]], tick)]
           fold == CHOOSE g : Fold(g)
<1>1. IsFiniteSet(S) /\ S \in SUBSET Streams
  BY MeshesAssumption, FS_Subset
<1> HIDE DEF S
<1>2. q \in Seq(S) /\ \A i, j \in 1 .. l : q[i] = q[j] => i = j
  BY <1>1, SetToSeqPlaces
<1>3. l \in Nat /\ DOMAIN q = 1 .. l /\ q \in Seq(Streams) /\ \A i \in 1 .. l : q[i] \in S
  BY <1>1, <1>2
<1>4. transferDefragment(w, from, tick) = fold[1 .. l]
  <2> HIDE DEF tick, from
  <2> QED BY <1>3 DEF transferDefragment, FoldLeft, MapThenFoldSet, Max, S
<1>5. ASSUME NEW y \in Y, NEW T \in SUBSET Streams, NEW i \in 1 .. l, q[i] \in T, Doing(y, w, R, T)
      PROVE  Doing(MoveStream(y.w, y.allocs, q[i], from[q[i]], tick), w, R, T \ {q[i]})
  <2>1. from[q[i]] # NoAllocation
    BY <1>1, <1>3 DEF S
  <2> DEFINE s == q[i]
  <2>2. s \in T /\ w.infos[k].allocs[s] # NoAllocation
    BY <2>1, <1>5
  <2> HIDE DEF s
  <2>3. Doing(MoveStream(y.w, y.allocs, s, w.infos[k].allocs[s], tick), w, R, T \ {s})
    BY <2>2, <1>5, MoveKeeps
  <2> QED BY <2>3 DEF s
<1>6. ASSUME NEW y, NEW T, Doing(y, w, R, T), NEW v, NEW al, y = [w |-> v, allocs |-> al] PROVE y \in Y
  <2>1. v \in Works /\ al \in MeshAllocs
    BY <1>6 DEF Doing, Good
  <2> QED BY <2>1, <1>6
<1> HIDE DEF l, q, from
<1>n. \A t \in SUBSET (1 .. l), i \in 1 .. l : i \in t => UndoneOne(q, l, t, i, Streams)
  <2>1. \A j \in 1 .. l : q[j] \in Streams
    BY <1>1, <1>3
  <2> QED BY <1>2, <2>1, UndoneNext
<1>7. b \in P[{}]
  <2>1. Doing(b, w, R, Undone(q, l, {}))
    <3>1. \A s \in Undone(q, l, {}) : s \in Streams
      BY <1>1, <1>3 DEF Undone
    <3> QED BY <3>1, UnallocatedTyped DEF Doing, Good
  <2>2. b \in Y
    BY <2>1, <1>6
  <2> HIDE DEF Y, b
  <2> QED BY <2>1, <2>2
<1>8. ASSUME NEW t \in SUBSET (1 .. l), t # {}, NEW y \in P[t \ {Max(t)}]
      PROVE  f[Max(t)][y] \in P[t] /\ f[Max(t)][y] = MoveStream(y.w, y.allocs, q[Max(t)], from[q[Max(t)]], tick)
  <2> DEFINE i == Max(t)
             T == Undone(q, l, t \ {i})
             z == MoveStream(y.w, y.allocs, q[i], from[q[i]], tick)
  <2>1. i \in t /\ i \in 1 .. l /\ t \ {i} \in SUBSET (1 .. l)
    BY <1>3, <1>8, LastPlaces
  <2>2. y \in Y /\ Doing(y, w, R, T)
    <3> HIDE DEF Y, T
    <3>1. P[t \ {i}] = {x \in Y : Doing(x, w, R, Undone(q, l, t \ {i}))}
      BY <2>1
    <3> QED BY <3>1, <1>8 DEF T
  <2>3. /\ q[i] \in T /\ Undone(q, l, t) = T \ {q[i]} /\ T \in SUBSET Streams
    <3> HIDE DEF i
    <3> QED BY <2>1, <1>n DEF UndoneOne
  <2> HIDE DEF i, T
  <2>4. Doing(z, w, R, Undone(q, l, t))
    <3> HIDE DEF Y, P, tick
    <3>1. Doing(z, w, R, T \ {q[i]})
      BY <1>5, <2>1, <2>2, <2>3
    <3> QED BY <3>1, <2>3
  <2>5. z \in Y
    <3>1. \E v, al : z = [w |-> v, allocs |-> al]
      BY DEF MoveStream
    <3> HIDE DEF z, Y
    <3> QED BY <3>1, <2>4, <1>6
  <2> HIDE DEF z, Y
  <2>6. z \in P[t]
    BY <2>4, <2>5
  <2>7. f[i][y] = z
    BY <2>1, <2>2 DEF z
  <2> QED BY <2>6, <2>7 DEF i, z
<1>9. \A t \in SUBSET (1 .. l) : c[t] = Max(t)
  OBVIOUS
<1>10. \E g : StageFoldOf(P, f, b, c, 1 .. l, g)
  <2>1. \A t \in SUBSET (1 .. l) : t # {} => c[t] \in t
    BY <1>3, <1>9, LastPlaces
  <2>2. \A t \in SUBSET (1 .. l) : t # {} => \A v \in P[t \ {c[t]}] : f[c[t]][v] \in P[t]
    <3> HIDE DEF f, c, P
    <3> QED BY <1>8, <1>9
  <2>3. IsFiniteSet(1 .. l)
    BY <1>3, LastPlaces
  <2> HIDE DEF f, c, P, b
  <2> QED BY <1>7, <2>1, <2>2, <2>3, StageFoldExists
<1>11. \E g : Fold(g) /\ \A t \in SUBSET (1 .. l) : g[t] \in P[t]
  <2> HIDE DEF f, c, P, b
  <2>1. PICK g : StageFoldOf(P, f, b, c, 1 .. l, g)
    BY <1>10
  <2>2. ASSUME NEW t \in SUBSET (1 .. l), t # {} PROVE g[t \ {Max(t)}] \in P[t \ {Max(t)}]
    <3>1. t \ {Max(t)} \in SUBSET (1 .. l)
      OBVIOUS
    <3> QED BY <3>1, <2>1 DEF StageFoldOf
  <2>3. ASSUME NEW t \in SUBSET (1 .. l)
        PROVE  g[t] = IF t = {} THEN b
                      ELSE MoveStream(g[t \ {Max(t)}].w, g[t \ {Max(t)}].allocs, q[Max(t)],
                                               from[q[Max(t)]], tick)
    <3>1. CASE t = {}
      BY <3>1, <2>1 DEF StageFoldOf
    <3>2. CASE t # {}
      <4>1. g[t] = f[c[t]][g[t \ {c[t]}]]
        BY <3>2, <2>1 DEF StageFoldOf
      <4> DEFINE y == g[t \ {Max(t)}]
      <4>2. y \in P[t \ {Max(t)}] /\ g[t] = f[Max(t)][y]
        BY <2>2, <3>2, <4>1, <1>9
      <4> HIDE DEF y
      <4>3. g[t] = MoveStream(y.w, y.allocs, q[Max(t)], from[q[Max(t)]], tick)
        BY <4>2, <3>2, <1>8
      <4> QED BY <4>3, <3>2 DEF y
    <3> QED BY <3>1, <3>2
  <2>4. Fold(g)
    BY <2>1, <2>3 DEF StageFoldOf
  <2> QED BY <2>1, <2>4 DEF StageFoldOf
<1>12. Fold(fold)
  <2> HIDE DEF P
  <2> QED BY <1>11
<1> HIDE DEF fold
<1>13. fold[1 .. l] \in P[1 .. l]
  <2>1. fold[{}] = b
    BY <1>12
  <2>2. ASSUME NEW t \in SUBSET (1 .. l), t # {}
        PROVE  \E x \in t : fold[t \ {x}] \in P[t \ {x}] => fold[t] \in P[t]
    <3> DEFINE i == Max(t)
               y == fold[t \ {i}]
    <3>1. i \in t
      BY <1>3, <2>2, LastPlaces
    <3>2. fold[t] = MoveStream(y.w, y.allocs, q[i], from[q[i]], tick)
      BY <1>12, <2>2
    <3>3. ASSUME y \in P[t \ {i}] PROVE fold[t] \in P[t]
      <4> HIDE DEF f, P, b, y
      <4>1. f[i][y] \in P[t] /\ f[i][y] = MoveStream(y.w, y.allocs, q[i], from[q[i]], tick)
        BY <3>3, <2>2, <1>8
      <4> QED BY <4>1, <3>2
    <3> QED BY <3>1, <3>3
  <2> HIDE DEF P, b
  <2>3. fold[{}] \in P[{}] /\ IsFiniteSet(1 .. l) /\ 1 .. l \in SUBSET (1 .. l)
    BY <2>1, <1>3, <1>7, LastPlaces
  <2>4. \A r \in SUBSET (1 .. l) : fold[r] \in P[r]
    BY <2>2, <2>3, StagesHold
  <2> QED BY <2>3, <2>4
<1>14. Doing(fold[1 .. l], w, R, Undone(q, l, 1 .. l)) /\ Undone(q, l, 1 .. l) = {}
  <2>1. P[1 .. l] = {y \in Y : Doing(y, w, R, Undone(q, l, 1 .. l))}
    OBVIOUS
  <2> HIDE DEF P, Y
  <2> QED BY <2>1, <1>13 DEF Undone
<1> QED BY <1>4, <1>14 DEF from
-----------------------------------------------------------------------------
(* A transfer is recorded                                                  *)

LEMMA InfoSet ==
  ASSUME NEW i \in Infos, NEW k \in DOMAIN i, NEW r \in InfoRecs
  PROVE  /\ [i EXCEPT ![k] = r] \in Infos /\ DOMAIN [i EXCEPT ![k] = r] = DOMAIN i
         /\ \A j \in DOMAIN i : [i EXCEPT ![k] = r][j] = IF j = k THEN r ELSE i[j]
<1>1. PICK K \in SUBSET Keys : i \in [K -> InfoRecs]
  BY DEF Infos
<1>2. [i EXCEPT ![k] = r] \in [K -> InfoRecs]
  BY <1>1
<1> QED BY <1>1, <1>2 DEF Infos

\* The transfer that takes what is in hand.
TransferOf(k, tick, version, al) == [key |-> k, tick |-> tick, version |-> version, allocs |-> al]
Pended(r, version) == [r EXCEPT !.pending = version]

Sent(w2, v, k, version, tick, al) ==
  /\ w2 \in Works /\ DOMAIN w2.infos = DOMAIN v.infos
  /\ \A j \in DOMAIN v.infos : w2.infos[j] = IF j = k THEN Pended(v.infos[j], version) ELSE v.infos[j]
  /\ w2.transfers = Append(v.transfers, TransferOf(k, tick, version, al))
  /\ w2.visits = v.visits /\ w2.pools = v.pools /\ w2.made = v.made /\ w2.transient = v.transient
  /\ w2.drawn = v.drawn /\ w2.copied = v.copied

LEMMA PendedIs ==
  ASSUME NEW r \in InfoRecs, NEW version \in Int
  PROVE  /\ Pended(r, version) \in InfoRecs /\ Pended(r, version).allocs = r.allocs
         /\ Pended(r, version).pending = version /\ Pended(r, version).ready = r.ready
         /\ Pended(r, version).access = r.access
BY DEF InfoRecs, Pended

LEMMA TransferIs ==
  ASSUME NEW v \in Works, NEW al \in MeshAllocs, NEW k \in DOMAIN v.infos, NEW version \in Int, NEW tick \in Nat
  PROVE  Sent(Transfer([w |-> v, allocs |-> al], k, version, tick), v, k, version, tick, al)
<1> DEFINE x == TransferOf(k, tick, version, al)
           r == Pended(v.infos[k], version)
           i == [v.infos EXCEPT ![k] = r]
           q == Append(v.transfers, x)
           w2 == [v EXCEPT !.transfers = q, !.infos = i]
<1>1. v.infos \in Infos /\ v.transfers \in Seq(TransferRecs) /\ k \in Keys /\ v.infos[k] \in InfoRecs
  BY WorksTyped, InfosTyped
<1>2. Transfer([w |-> v, allocs |-> al], k, version, tick) = w2
  BY DEF Transfer, TransferOf, Pended
<1>3. x \in TransferRecs
  BY <1>1 DEF TransferRecs, TransferOf
<1>4. q \in Seq(TransferRecs)
  BY <1>1, <1>3
<1>5. r \in InfoRecs
  BY <1>1, PendedIs
<1> HIDE DEF r
<1>6. /\ i \in Infos /\ DOMAIN i = DOMAIN v.infos
      /\ \A j \in DOMAIN v.infos : i[j] = IF j = k THEN r ELSE v.infos[j]
  BY <1>1, <1>5, InfoSet
<1> HIDE DEF q, i
<1>7. /\ w2 \in Works /\ w2.infos = i /\ w2.transfers = q
      /\ w2.visits = v.visits /\ w2.pools = v.pools /\ w2.made = v.made /\ w2.transient = v.transient
      /\ w2.drawn = v.drawn /\ w2.copied = v.copied
  BY <1>4, <1>6 DEF Works
<1> HIDE DEF w2
<1>8. Sent(w2, v, k, version, tick, al)
  BY <1>6, <1>7 DEF Sent, q, r
<1> QED BY <1>2, <1>8

LEMMA SentHolds ==
  ASSUME NEW v, NEW al, NEW R, Good(v, al, R), NEW k \in DOMAIN v.infos, NEW version \in Int, NEW tick \in Nat,
         NEW w2, Sent(w2, v, k, version, tick, al)
  PROVE  Housed(HeldBy(w2.infos, w2.transfers, Unallocated), v.pools, v.made)
<1> DEFINE F == HeldBy(v.infos, v.transfers, al)
           G == HeldBy(w2.infos, w2.transfers, Unallocated)
           l == Len(v.transfers)
           n == <<"tx", l + 1>>
           re == [o \in Owners |-> IF o = n THEN Hand ELSE o]
<1>1. v \in Works /\ al \in MeshAllocs /\ Housed(F, v.pools, v.made)
  BY DEF Good
<1>2. /\ w2 \in Works /\ DOMAIN w2.infos = DOMAIN v.infos
      /\ \A j \in DOMAIN v.infos : w2.infos[j] = IF j = k THEN Pended(v.infos[j], version) ELSE v.infos[j]
      /\ w2.transfers = Append(v.transfers, TransferOf(k, tick, version, al))
  BY DEF Sent
<1>3. /\ v.infos \in Infos /\ v.transfers \in Seq(TransferRecs)
      /\ w2.infos \in Infos /\ w2.transfers \in Seq(TransferRecs) /\ l \in Nat
  BY <1>1, <1>2, WorksTyped
<1>4. \A j \in DOMAIN v.infos : w2.infos[j].allocs = v.infos[j].allocs
  <2>1. \A j \in DOMAIN v.infos : v.infos[j] \in InfoRecs
    BY <1>3, InfosTyped
  <2>2. \A r \in InfoRecs : Pended(r, version).allocs = r.allocs
    BY PendedIs
  <2> QED BY <2>1, <2>2, <1>2
<1>5. /\ Len(w2.transfers) = l + 1 /\ w2.transfers[l + 1].allocs = al
      /\ \A j \in 1 .. l : w2.transfers[j] = v.transfers[j]
  BY <1>2, <1>3 DEF TransferOf
<1>6. HeldAs(F, v.infos, v.transfers, al) /\ HeldAs(G, w2.infos, w2.transfers, Unallocated)
  BY <1>1, <1>3, HeldTyped, UnallocatedTyped
<1>7. n \in Owners /\ n # Hand /\ Hand \in Owners /\ l + 1 \in Nat
  BY <1>3, OwnersAre
<1> HIDE DEF F, G, l
<1>8. F[n] = Unallocated /\ G[n] = al /\ F[Hand] = al /\ G[Hand] = Unallocated
  BY <1>3, <1>5, <1>6, <1>7 DEF HeldAs, l
<1>9. \A o \in Owners : o # n /\ o # Hand => G[o] = F[o]
  <2>1. \A j \in Keys : G[<<"info", j>>] = F[<<"info", j>>]
    BY <1>2, <1>4, <1>6 DEF HeldAs
  <2>2. \A j \in Nat : <<"tx", j>> # n => G[<<"tx", j>>] = F[<<"tx", j>>]
    <3> SUFFICES ASSUME NEW j \in Nat, <<"tx", j>> # n PROVE G[<<"tx", j>>] = F[<<"tx", j>>]
      OBVIOUS
    <3>1. j # l + 1 /\ (j \in 1 .. l + 1 <=> j \in 1 .. l)
      BY <1>3
    <3> QED BY <3>1, <1>5, <1>6 DEF HeldAs, l
  <2> HIDE DEF n
  <2> QED BY <2>1, <2>2, OwnersAre
<1>10. \A o \in Owners : re[o] = IF o = n THEN Hand ELSE o
  OBVIOUS
<1>11. G \in [Owners -> MeshAllocs]
  BY <1>6 DEF HeldAs
<1> HIDE DEF n, re
<1>12. Rehoused(F, G, re)
  BY <1>7, <1>8, <1>9, <1>10, <1>11 DEF Rehoused
<1> QED BY <1>1, <1>12, HousedRenamed DEF G

LEMMA TransferKeeps ==
  ASSUME Now, NEW v, NEW al, NEW R, Good(v, al, R), NEW k \in DOMAIN v.infos, NEW version \in Int
  PROVE  Good(Transfer([w |-> v, allocs |-> al], k, version, ticks.current), Unallocated, R)
<1> DEFINE w2 == Transfer([w |-> v, allocs |-> al], k, version, ticks.current)
           tick == ticks.current
           x == TransferOf(k, tick, version, al)
           l == Len(v.transfers)
           C == v.copied
<1>1. /\ v \in Works /\ al \in MeshAllocs
      /\ PoolsUsed(v.pools) /\ Touched(v.pools, R \cup v.drawn \cup v.copied, tick)
      /\ BuffersUsed(v.transient, v.copied) /\ CopiesKnown(v.infos, v.transfers, al, C)
  BY DEF Good
<1>2. tick \in Nat /\ finished["dma"] \in Nat
  BY DEF Now
<1>3. Sent(w2, v, k, version, tick, al)
  BY <1>1, <1>2, TransferIs
<1> HIDE DEF w2
<1>4. Housed(HeldBy(w2.infos, w2.transfers, Unallocated), v.pools, v.made)
  BY <1>2, <1>3, SentHolds
<1>5. /\ w2 \in Works /\ DOMAIN w2.infos = DOMAIN v.infos
      /\ \A j \in DOMAIN v.infos : w2.infos[j] = IF j = k THEN Pended(v.infos[j], version) ELSE v.infos[j]
      /\ w2.transfers = Append(v.transfers, x)
      /\ w2.pools = v.pools /\ w2.made = v.made /\ w2.transient = v.transient
      /\ w2.drawn = v.drawn /\ w2.copied = C
  BY <1>3 DEF Sent
<1>6. v.infos \in Infos /\ v.transfers \in Seq(TransferRecs) /\ l \in Nat
  BY <1>1, WorksTyped
<1>7. /\ \A j \in DOMAIN v.infos : w2.infos[j].allocs = v.infos[j].allocs
      /\ \A j \in DOMAIN v.infos : j # k => w2.infos[j].pending = v.infos[j].pending
      /\ w2.infos[k].pending = version
  <2>1. \A j \in DOMAIN v.infos : v.infos[j] \in InfoRecs
    BY <1>6, InfosTyped
  <2>2. \A r \in InfoRecs : Pended(r, version).allocs = r.allocs /\ Pended(r, version).pending = version
    BY PendedIs
  <2> QED BY <2>1, <2>2, <1>5
<1>x. x.key = k /\ x.tick = tick /\ x.version = version /\ x.allocs = al
  BY DEF TransferOf
<1> HIDE DEF x
<1>8. /\ Len(w2.transfers) = l + 1 /\ w2.transfers[l + 1] = x
      /\ \A j \in 1 .. l : w2.transfers[j] = v.transfers[j]
  BY <1>5, <1>6
<1>9. /\ \A j \in DOMAIN v.infos, s \in Streams : v.infos[j].allocs[s].at <= finished["dma"]
      /\ \A j \in 1 .. l, s \in Streams : Written(v.transfers[j].allocs[s].at, v.transfers[j].tick, C)
      /\ \A s \in Streams : Written(al[s].at, tick, C)
      /\ \A j \in DOMAIN v.infos : v.infos[j].pending # INVALID =>
           \E m \in 1 .. l : v.transfers[m].key = j /\ v.transfers[m].version = v.infos[j].pending
  BY <1>1 DEF CopiesKnown
<1> HIDE DEF l, tick, C
<1>10. CopiesKnown(w2.infos, w2.transfers, Unallocated, C)
  <2>1. \A j \in DOMAIN w2.infos, s \in Streams : w2.infos[j].allocs[s].at <= finished["dma"]
    BY <1>5, <1>7, <1>9
  <2>2. \A j \in 1 .. l + 1, s \in Streams : Written(w2.transfers[j].allocs[s].at, w2.transfers[j].tick, C)
    <3> SUFFICES ASSUME NEW j \in 1 .. l + 1, NEW s \in Streams
                 PROVE  Written(w2.transfers[j].allocs[s].at, w2.transfers[j].tick, C)
      OBVIOUS
    <3>1. CASE j = l + 1
      BY <3>1, <1>8, <1>9, <1>x
    <3>2. CASE j # l + 1
      <4>1. j \in 1 .. l
        BY <3>2, <1>6 DEF l
      <4> QED BY <4>1, <1>8, <1>9
    <3> QED BY <3>1, <3>2
  <2>3. \A s \in Streams : Written(Unallocated[s].at, tick, C)
    BY <1>2, UnallocatedTyped, NothingTyped DEF Written
  <2>4. ASSUME NEW j \in DOMAIN w2.infos, w2.infos[j].pending # INVALID
        PROVE  \E m \in 1 .. l + 1 : w2.transfers[m].key = j /\ w2.transfers[m].version = w2.infos[j].pending
    <3>1. CASE j = k
      <4>1. l + 1 \in 1 .. l + 1
        BY <1>6 DEF l
      <4> QED BY <4>1, <3>1, <1>7, <1>8, <1>x
    <3>2. CASE j # k
      <4>1. PICK m \in 1 .. l : v.transfers[m].key = j /\ v.transfers[m].version = v.infos[j].pending
        BY <3>2, <2>4, <1>5, <1>7, <1>9
      <4>2. m \in 1 .. l + 1
        BY <1>6 DEF l
      <4> QED BY <4>1, <4>2, <3>2, <1>5, <1>7, <1>8
    <3> QED BY <3>1, <3>2
  <2> QED BY <2>1, <2>2, <2>3, <2>4, <1>8 DEF CopiesKnown, tick
<1> QED BY <1>1, <1>4, <1>5, <1>10, UnallocatedTyped DEF Good, w2, C, tick
-----------------------------------------------------------------------------
(* What a frame asks of the meshes                                         *)

\* An operation that keeps what its keys hold and have on its way.
Reinformed(w2, w) ==
  /\ w2 \in Works /\ w2.transfers = w.transfers /\ w2.pools = w.pools /\ w2.made = w.made
  /\ w2.transient = w.transient /\ w2.drawn = w.drawn /\ w2.copied = w.copied
  /\ DOMAIN w.infos \subseteq DOMAIN w2.infos
  /\ \A k \in DOMAIN w.infos : w2.infos[k].allocs = w.infos[k].allocs /\ w2.infos[k].pending = w.infos[k].pending
  /\ \A k \in DOMAIN w2.infos :
       k \notin DOMAIN w.infos => w2.infos[k].allocs = Unallocated /\ w2.infos[k].pending = INVALID

LEMMA ReinformedKeeps ==
  ASSUME Now, NEW w, NEW hand, NEW R, Good(w, hand, R), NEW w2, Reinformed(w2, w)
  PROVE  Good(w2, hand, R)
<1> DEFINE F == HeldBy(w.infos, w.transfers, hand)
           G == HeldBy(w2.infos, w2.transfers, hand)
<1>1. /\ w \in Works /\ hand \in MeshAllocs /\ Housed(F, w.pools, w.made)
      /\ PoolsUsed(w.pools) /\ Touched(w.pools, R \cup w.drawn \cup w.copied, ticks.current)
      /\ BuffersUsed(w.transient, w.copied) /\ CopiesKnown(w.infos, w.transfers, hand, w.copied)
  BY DEF Good
<1>2. /\ w2 \in Works /\ w2.transfers = w.transfers /\ w2.pools = w.pools /\ w2.made = w.made
      /\ w2.transient = w.transient /\ w2.drawn = w.drawn /\ w2.copied = w.copied
      /\ DOMAIN w.infos \subseteq DOMAIN w2.infos
      /\ \A k \in DOMAIN w.infos : w2.infos[k].allocs = w.infos[k].allocs /\ w2.infos[k].pending = w.infos[k].pending
      /\ \A k \in DOMAIN w2.infos :
           k \notin DOMAIN w.infos => w2.infos[k].allocs = Unallocated /\ w2.infos[k].pending = INVALID
  BY DEF Reinformed
<1>3. /\ w.infos \in Infos /\ w.transfers \in Seq(TransferRecs) /\ w2.infos \in Infos
  BY <1>1, <1>2, WorksTyped
<1>4. HeldAs(F, w.infos, w.transfers, hand) /\ HeldAs(G, w2.infos, w.transfers, hand)
  BY <1>1, <1>2, <1>3, HeldTyped
<1> HIDE DEF F, G
<1>5. \A k \in Keys : F[<<"info", k>>] = G[<<"info", k>>]
  BY <1>2, <1>4 DEF HeldAs
<1>6. F = G
  <2>1. /\ F \in [Owners -> MeshAllocs] /\ G \in [Owners -> MeshAllocs] /\ F[Hand] = G[Hand]
        /\ \A j \in Nat : F[<<"tx", j>>] = G[<<"tx", j>>]
    BY <1>4 DEF HeldAs
  <2> QED BY <2>1, <1>5, SameHolding
<1>7. CopiesKnown(w2.infos, w.transfers, hand, w.copied)
  <2>1. finished["dma"] \in Nat
    BY DEF Now
  <2>2. \A k \in DOMAIN w2.infos, s \in Streams : w2.infos[k].allocs[s].at <= finished["dma"]
    <3> SUFFICES ASSUME NEW k \in DOMAIN w2.infos, NEW s \in Streams
                 PROVE  w2.infos[k].allocs[s].at <= finished["dma"]
      OBVIOUS
    <3>1. CASE k \in DOMAIN w.infos
      BY <3>1, <1>1, <1>2 DEF CopiesKnown
    <3>2. CASE k \notin DOMAIN w.infos
      <4>1. w2.infos[k].allocs = Unallocated
        BY <3>2, <1>2
      <4>2. Unallocated[s].at = 0
        BY UnallocatedTyped, NothingTyped
      <4> QED BY <4>1, <4>2, <2>1
    <3> QED BY <3>1, <3>2
  <2> QED BY <2>2, <1>1, <1>2 DEF CopiesKnown
<1> QED BY <1>1, <1>2, <1>6, <1>7 DEF Good, F, G

LEMMA PutIs ==
  ASSUME NEW f, NEW k, NEW v
  PROVE  /\ DOMAIN Put(f, k, v) = DOMAIN f \cup {k}
         /\ \A x \in DOMAIN f \cup {k} : Put(f, k, v)[x] = IF x = k THEN v ELSE f[x]
BY DEF Put

LEMMA PutTyped ==
  /\ \A i \in Infos, k \in Keys, r \in InfoRecs : Put(i, k, r) \in Infos
  /\ \A i \in Visits, k \in Keys, r \in Nat : Put(i, k, r) \in Visits
<1>1. ASSUME NEW i \in Infos, NEW k \in Keys, NEW r \in InfoRecs PROVE Put(i, k, r) \in Infos
  <2>1. PICK K \in SUBSET Keys : i \in [K -> InfoRecs]
    BY DEF Infos
  <2>2. Put(i, k, r) \in [K \cup {k} -> InfoRecs]
    BY <2>1 DEF Put
  <2>3. K \cup {k} \in SUBSET Keys
    OBVIOUS
  <2> QED BY <2>2, <2>3 DEF Infos
<1>2. ASSUME NEW i \in Visits, NEW k \in Keys, NEW r \in Nat PROVE Put(i, k, r) \in Visits
  <2>1. PICK K \in SUBSET Keys : i \in [K -> Nat]
    BY DEF Visits
  <2>2. Put(i, k, r) \in [K \cup {k} -> Nat]
    BY <2>1 DEF Put
  <2>3. K \cup {k} \in SUBSET Keys
    OBVIOUS
  <2> QED BY <2>2, <2>3 DEF Visits
<1> QED BY <1>1, <1>2

\* A key is known from its first mesh on.
NewInfo(tick) == [access |-> tick, ready |-> INVALID, allocs |-> Unallocated, pending |-> INVALID]
Noted(r, tick) == [r EXCEPT !.access = tick]

LEMMA NotedIs ==
  /\ \A r \in InfoRecs, tick \in Nat :
       Noted(r, tick) \in InfoRecs /\ Noted(r, tick).allocs = r.allocs /\ Noted(r, tick).pending = r.pending
  /\ \A tick \in Nat : NewInfo(tick) \in InfoRecs
  /\ \A tick : NewInfo(tick).allocs = Unallocated /\ NewInfo(tick).pending = INVALID
<1>1. \A r \in InfoRecs, tick \in Nat :
       Noted(r, tick) \in InfoRecs /\ Noted(r, tick).allocs = r.allocs /\ Noted(r, tick).pending = r.pending
  BY DEF Noted, InfoRecs
<1>2. INVALID \in Int
  BY DEF INVALID
<1>3. \A tick \in Nat : NewInfo(tick) \in InfoRecs
  BY <1>2, UnallocatedTyped DEF NewInfo, InfoRecs
<1>4. \A tick : NewInfo(tick).allocs = Unallocated /\ NewInfo(tick).pending = INVALID
  BY DEF NewInfo
<1> QED BY <1>1, <1>3, <1>4

LEMMA AddKeeps ==
  ASSUME Now, NEW w, NEW R, Good(w, Unallocated, R), NEW k \in Keys, NEW version \in Int,
         NEW n \in [Streams -> Nat], \A s \in Streams : n[s] * ElementSize[s] <= POOL_SIZE_BYTES
  PROVE  Good(AddMesh(w, k, version, n, ticks.current), Unallocated, R)
<1> DEFINE tick == ticks.current
           known == k \in DOMAIN w.infos
           info == IF known THEN Noted(w.infos[k], tick) ELSE NewInfo(tick)
           i == Put(w.infos, k, info)
           u == IF known THEN w.visits ELSE Put(w.visits, k, tick + STALE_KEY_AGE_THRESHOLD)
           v == [w EXCEPT !.infos = i, !.visits = u]
           all == transferUpload(v, n, tick)
<1>u. AddMesh(w, k, version, n, tick) = Transfer([w |-> all.w, allocs |-> all.allocs], k, version, tick)
  <2> HIDE DEF tick
  <2>1. AddMesh(w, k, version, n, tick) = Transfer(all, k, version, tick)
    BY DEF AddMesh, Noted, NewInfo
  <2> HIDE DEF all
  <2> QED BY <2>1 DEF Transfer
<1>1. w \in Works /\ w.infos \in Infos /\ w.visits \in Visits
  BY WorksTyped DEF Good
<1>2. tick \in Nat /\ STALE_KEY_AGE_THRESHOLD \in Nat
  BY MeshesAssumption DEF Now
<1>3. \A j \in DOMAIN w.infos : w.infos[j] \in InfoRecs
  BY <1>1, InfosTyped
<1>4. /\ info \in InfoRecs
      /\ known => info.allocs = w.infos[k].allocs /\ info.pending = w.infos[k].pending
      /\ ~ known => info.allocs = Unallocated /\ info.pending = INVALID
  <2>1. CASE known
    <3>1. info = Noted(w.infos[k], tick)
      BY <2>1
    <3> HIDE DEF info
    <3> QED BY <3>1, <2>1, <1>2, <1>3, NotedIs
  <2>2. CASE ~ known
    <3>1. info = NewInfo(tick)
      BY <2>2
    <3> HIDE DEF info
    <3> QED BY <3>1, <2>2, <1>2, NotedIs
  <2> QED BY <2>1, <2>2
<1> HIDE DEF info
<1>5. i \in Infos /\ u \in Visits
  <2>1. tick + STALE_KEY_AGE_THRESHOLD \in Nat
    BY <1>2
  <2> QED BY <2>1, <1>1, <1>4, PutTyped
<1>6. /\ DOMAIN i = DOMAIN w.infos \cup {k}
      /\ \A x \in DOMAIN w.infos \cup {k} : i[x] = IF x = k THEN info ELSE w.infos[x]
  <2>1. DOMAIN i = DOMAIN w.infos \cup {k}
    BY PutIs
  <2>2. \A x \in DOMAIN w.infos \cup {k} : i[x] = IF x = k THEN info ELSE w.infos[x]
    BY DEF Put
  <2> QED BY <2>1, <2>2
<1> HIDE DEF i, u
<1>7. /\ v \in Works /\ v.infos = i /\ v.transfers = w.transfers /\ v.pools = w.pools /\ v.made = w.made
      /\ v.transient = w.transient /\ v.drawn = w.drawn /\ v.copied = w.copied
  BY <1>1, <1>5 DEF Works
<1> HIDE DEF v
<1>8. Reinformed(v, w)
  BY <1>4, <1>6, <1>7 DEF Reinformed
<1>9. Good(v, Unallocated, R)
  BY <1>8, ReinformedKeeps
<1>10. Doing(all, v, R, {})
  BY <1>9, TransferUploadKeeps
<1> HIDE DEF all
<1>11. Good(all.w, all.allocs, R) /\ k \in DOMAIN all.w.infos
  BY <1>6, <1>7, <1>10 DEF Doing
<1>12. Good(Transfer([w |-> all.w, allocs |-> all.allocs], k, version, tick), Unallocated, R)
  BY <1>11, TransferKeeps
<1> QED BY <1>12, <1>u

\* What a key may be drawn from: the pools of its ready version.
Drawable(w, k) ==
  IF k \in DOMAIN w.infos /\ w.infos[k].ready # INVALID THEN PoolsOf(w, k) ELSE {}

LEMMA DrawableIs ==
  ASSUME NEW w \in Works, NEW k
  PROVE  /\ Drawable(w, k) \in SUBSET MeshRes
         /\ k \in DOMAIN w.infos /\ w.infos[k].ready # INVALID => Drawable(w, k) = Asked(w.infos[k].allocs)
         /\ ~ (k \in DOMAIN w.infos /\ w.infos[k].ready # INVALID) => Drawable(w, k) = {}
<1>1. k \in DOMAIN w.infos => PoolsOf(w, k) = Asked(w.infos[k].allocs)
  BY DEF PoolsOf, Asked
<1>2. ASSUME k \in DOMAIN w.infos PROVE Asked(w.infos[k].allocs) \in SUBSET MeshRes
  <2>1. w.infos[k].allocs \in MeshAllocs
    BY <1>2, WorksTyped, InfosTyped
  <2>2. \A s \in Streams : w.infos[k].allocs[s].id \in Nat
    BY <2>1, AllocTyped DEF MeshAllocs
  <2> QED BY <2>2, ResTyped DEF Asked
<1> QED BY <1>1, <1>2 DEF Drawable

LEMMA QueryKeeps ==
  ASSUME Now, NEW w, Good(w, Unallocated, {}), NEW k \in DOMAIN w.infos
  PROVE  Good(QueryMesh(w, k, ticks.current), Unallocated, Drawable(w, k))
<1> DEFINE tick == ticks.current
           al == w.infos[k].allocs
           r == Noted(w.infos[k], tick)
           i == [w.infos EXCEPT ![k] = r]
           v == [w EXCEPT !.infos = i]
           ps == Accessed(w.pools, al, tick)
           x == [v EXCEPT !.pools = ps]
           o == <<"info", k>>
<1>1. w \in Works /\ w.infos \in Infos /\ w.pools \in Seq(PoolRecs) /\ w.transfers \in Seq(TransferRecs)
  BY WorksTyped DEF Good
<1>2. tick \in Nat
  BY DEF Now
<1>3. w.infos[k] \in InfoRecs /\ k \in Keys
  BY <1>1, InfosTyped
<1>u. /\ w.infos[k].ready = INVALID => QueryMesh(w, k, tick) = v
      /\ w.infos[k].ready # INVALID => QueryMesh(w, k, tick) = x
  <2> HIDE DEF tick
  <2>1. v = [w EXCEPT !.infos[k].access = tick]
    BY DEF Noted
  <2>2. x = [w EXCEPT !.infos[k].access = tick, !.pools = ps]
    BY DEF Noted
  <2>3. QueryMesh(w, k, tick) =
          [w EXCEPT !.infos[k].access = tick,
                    !.pools = IF w.infos[k].ready = INVALID THEN w.pools ELSE ps]
    BY DEF QueryMesh
  <2>4. [w EXCEPT !.infos[k].access = tick, !.pools = w.pools] = [w EXCEPT !.infos[k].access = tick]
    BY <1>1 DEF Works
  <2> HIDE DEF v, x, ps
  <2> QED BY <2>1, <2>2, <2>3, <2>4
<1>4. r \in InfoRecs /\ r.allocs = al /\ r.pending = w.infos[k].pending
  BY <1>2, <1>3, NotedIs
<1> HIDE DEF r
<1>5. /\ i \in Infos /\ DOMAIN i = DOMAIN w.infos
      /\ \A j \in DOMAIN w.infos : i[j] = IF j = k THEN r ELSE w.infos[j]
  BY <1>1, <1>4, InfoSet
<1> HIDE DEF i
<1>6. /\ v \in Works /\ v.infos = i /\ v.transfers = w.transfers /\ v.pools = w.pools /\ v.made = w.made
      /\ v.transient = w.transient /\ v.drawn = w.drawn /\ v.copied = w.copied
  BY <1>1, <1>5 DEF Works
<1> HIDE DEF v
<1>7. Reinformed(v, w)
  BY <1>4, <1>5, <1>6 DEF Reinformed
<1>8. Good(v, Unallocated, {})
  BY <1>7, ReinformedKeeps
<1>9. CASE w.infos[k].ready = INVALID
  <2>1. Drawable(w, k) = {}
    BY <1>9, <1>1, DrawableIs
  <2> QED BY <2>1, <1>8, <1>9, <1>u
<1>10. CASE w.infos[k].ready # INVALID
  <2>1. Drawable(w, k) = Asked(al)
    BY <1>10, <1>1, DrawableIs
  <2>2. ps \in Seq(PoolRecs)
    BY <1>1, <1>2, AccessedPools
  <2>3. x \in Works /\ SameRest(x, v) /\ x.pools = Accessed(v.pools, al, tick)
    <3> HIDE DEF ps
    <3>1. x \in Works /\ SameRest(x, v) /\ x.pools = ps
      BY <1>6, <2>2 DEF Works, SameRest
    <3> QED BY <3>1, <1>6 DEF ps
  <2>4. o \in Owners /\ HeldBy(v.infos, v.transfers, Unallocated)[o] = al
    <3>1. HeldAs(HeldBy(v.infos, v.transfers, Unallocated), v.infos, v.transfers, Unallocated)
      BY <1>1, <1>5, <1>6, HeldTyped, UnallocatedTyped
    <3> QED BY <3>1, <1>3, <1>4, <1>5, <1>6, OwnersAre DEF HeldAs
  <2> HIDE DEF x, al, o
  <2>5. \A s \in Streams : al[s] # NoAllocation => al[s] = HeldBy(v.infos, v.transfers, Unallocated)[o][s]
    BY <2>4
  <2>6. Good(x, Unallocated, {} \cup Asked(al))
    BY <1>8, <2>3, <2>4, <2>5, AccessKeeps
  <2>7. {} \cup Asked(al) = Asked(al)
    OBVIOUS
  <2> QED BY <2>1, <2>6, <2>7, <1>10, <1>u
<1> QED BY <1>9, <1>10

SameSpaces(v, w) ==
  /\ v.infos = w.infos /\ v.transfers = w.transfers /\ v.pools = w.pools /\ v.made = w.made
  /\ v.transient = w.transient /\ v.copied = w.copied

LEMMA DrawnMore ==
  ASSUME NEW w, NEW D \in SUBSET MeshRes, Good(w, Unallocated, D)
  PROVE  Good([w EXCEPT !.drawn = w.drawn \cup D], Unallocated, {})
<1> DEFINE v == [w EXCEPT !.drawn = w.drawn \cup D]
<1>1. w \in Works
  BY DEF Good
<1>2. v \in Works /\ SameSpaces(v, w) /\ v.drawn = w.drawn \cup D
  BY <1>1 DEF Works, SameSpaces
<1> HIDE DEF v
<1>3. {} \cup v.drawn \cup v.copied = D \cup w.drawn \cup w.copied
  BY <1>2 DEF SameSpaces
<1>4. Good(v, Unallocated, {})
  BY <1>2, <1>3 DEF Good, SameSpaces
<1> QED BY <1>4 DEF v

LEMMA MakeDrawKeeps ==
  ASSUME Now, NEW w, Good(w, Unallocated, {}), NEW k \in Keys, NEW version \in Int,
         NEW n \in [Streams -> Nat], \A s \in Streams : n[s] * ElementSize[s] <= POOL_SIZE_BYTES
  PROVE  Good(MakeDrawCommand(w, k, version, n, ticks.current), Unallocated, {})
<1> DEFINE tick == ticks.current
           asked == IF k \in DOMAIN w.infos THEN QueryMesh(w, k, tick) ELSE w
           sent == IF NewestVersion(w, k) < version THEN AddMesh(asked, k, version, n, tick) ELSE asked
           D == Drawable(w, k)
<1>1. MakeDrawCommand(w, k, version, n, tick) = [sent EXCEPT !.drawn = sent.drawn \cup D]
  BY DEF MakeDrawCommand, Drawable
<1>2. w \in Works
  BY DEF Good
<1>3. D \in SUBSET MeshRes
  BY <1>2, DrawableIs
<1>4. Good(asked, Unallocated, D)
  <2>1. CASE k \in DOMAIN w.infos
    BY <2>1, QueryKeeps
  <2>2. CASE k \notin DOMAIN w.infos
    <3>1. D = {}
      BY <2>2, <1>2, DrawableIs
    <3> HIDE DEF D
    <3> QED BY <3>1, <2>2
  <2> QED BY <2>1, <2>2
<1> HIDE DEF asked, D
<1>5. Good(sent, Unallocated, D)
  <2>1. CASE NewestVersion(w, k) < version
    BY <2>1, <1>4, AddKeeps
  <2>2. CASE ~ (NewestVersion(w, k) < version)
    BY <2>2, <1>4
  <2> QED BY <2>1, <2>2
<1> HIDE DEF sent
<1> QED BY <1>1, <1>3, <1>5, DrawnMore
-----------------------------------------------------------------------------
(* Transfers complete                                                      *)

\* The GPU is done with what was recorded up to a tick.
Behind(completed) ==
  completed \in Nat /\ completed < ticks.current /\ \A u \in uses : u.tick > completed

LEMMA WrittenDone ==
  ASSUME Now, NEW completed, Behind(completed), NEW at, NEW t \in Nat, t <= completed, NEW C, Written(at, t, C)
  PROVE  at <= finished["dma"]
<1> SUFFICES ASSUME NEW u \in uses \cup Recorded(C, "dma"), u.tick <= t PROVE FALSE
  BY DEF Written
<1>1. completed \in Nat /\ ticks.current \in Nat /\ completed < ticks.current
  BY DEF Behind, Now
<1>2. u.tick \in Nat /\ u.tick > completed
  <2>1. CASE u \in uses
    BY <2>1 DEF Behind, Now
  <2>2. CASE u \in Recorded(C, "dma")
    BY <2>2, <1>1 DEF Recorded
  <2> QED BY <2>1, <2>2
<1> QED BY <1>1, <1>2

\* What an owner holds does not overlap itself.
Tidy(al) ==
  /\ al \in [Streams -> Allocs]
  /\ \A s, r \in Streams : s # r => Beside(al[s], al[r])
  /\ \A s \in Streams : al[s].from <= al[s].to

LEMMA HousedTidy ==
  ASSUME NEW F, NEW ps, NEW m, Housed(F, ps, m), NEW o \in Owners
  PROVE  Tidy(F[o])
<1> DEFINE S == Owners \X Streams
           h == Flat(F)
           al == F[o]
           pl == [s \in Streams |-> <<o, s>>]
<1>1. F \in [Owners -> MeshAllocs] /\ Space(h, ElementOf, ps, m)
  BY DEF Housed
<1>2. /\ h \in [S -> Allocs] /\ \A s \in Streams : h[<<o, s>>] = F[o][s]
  BY <1>1, FlatTyped
<1>3. al \in [Streams -> Allocs]
  BY <1>1 DEF MeshAllocs
<1>4. pl \in [Streams -> S] /\ \A s \in Streams : pl[s] = <<o, s>>
  OBVIOUS
<1> HIDE DEF S, h, pl
<1>5. Points(h, al, pl)
  <2>1. DOMAIN h = S
    BY <1>2
  <2>2. \A s, r \in Streams : <<o, s>> = <<o, r>> => s = r
    OBVIOUS
  <2>3. \A s, r \in Streams : pl[s] = pl[r] => s = r
    BY <1>4, <2>2
  <2>4. \A s \in Streams : al[s] = h[pl[s]]
    BY <1>2, <1>4
  <2> QED BY <1>3, <1>4, <2>1, <2>3, <2>4 DEF Points
<1> DEFINE e == ElementOf
<1>6. Space(h, e, ps, m)
  BY <1>1
<1> HIDE DEF al, e
<1>7. \A s, r \in Streams : s # r => Beside(al[s], al[r])
  BY <1>2, <1>5, <1>6, PointsApart
<1>8. \A s \in Streams : al[s].from <= al[s].to
  BY <1>2, <1>5, <1>6, PointsApart
<1> QED BY <1>3, <1>7, <1>8 DEF Tidy, al

\* Freeing changes nothing that is asked of the use of pools.
LEMMA FreedUse ==
  ASSUME NEW ps \in Seq(PoolRecs), NEW al, Tidy(al), NEW R, NEW tick,
         Touched(ps, R, tick), PoolsUsed(ps)
  PROVE  Freed(ps, al) \in Seq(PoolRecs) /\ Touched(Freed(ps, al), R, tick) /\ PoolsUsed(Freed(ps, al))
<1> DEFINE q == Freed(ps, al)
<1>1. q \in Seq(PoolRecs) /\ Len(q) = Len(ps) /\ \A i \in 1 .. Len(ps) : Kin(ps[i], q[i])
  BY FreedPools DEF Tidy
<1> HIDE DEF q
<1>2. \A i \in 1 .. Len(ps) : q[i].id = ps[i].id /\ q[i].access = ps[i].access /\ q[i].allocated = ps[i].allocated
  BY <1>1 DEF Kin
<1>3. Touched(q, R, tick)
  BY <1>1, <1>2 DEF Touched
<1>4. PoolsUsed(q)
  BY <1>1, <1>2 DEF PoolsUsed, UsedBy
<1> QED BY <1>1, <1>3, <1>4 DEF q

LEMMA ReadiedIs ==
  ASSUME NEW r \in InfoRecs, NEW tx \in TransferRecs
  PROVE  /\ Readied(r, tx) \in InfoRecs /\ Readied(r, tx).allocs = tx.allocs
         /\ Readied(r, tx).pending = IF r.pending = tx.version THEN INVALID ELSE r.pending
<1>1. INVALID \in Int /\ r.pending \in Int
  BY DEF INVALID, InfoRecs
<1>2. \A p \in Int : LET x == [r EXCEPT !.ready = tx.version, !.allocs = tx.allocs, !.pending = p]
                     IN  x \in InfoRecs /\ x.allocs = tx.allocs /\ x.pending = p
  BY DEF InfoRecs, TransferRecs
<1>3. (IF r.pending = tx.version THEN INVALID ELSE r.pending) \in Int
  BY <1>1
<1> QED BY <1>2, <1>3 DEF Readied

LEMMA TailIs ==
  ASSUME NEW X, NEW s \in Seq(X), NEW l, l = Len(s), l > 0
  PROVE  /\ Tail(s) \in Seq(X) /\ Len(Tail(s)) = l - 1 /\ l \in Nat /\ Head(s) = s[1] /\ s[1] \in X
         /\ \A j \in 1 .. l - 1 : Tail(s)[j] = s[j + 1]
OBVIOUS

\* What is known after the oldest transfer completed.
Completed(w2, w, tx, known) ==
  /\ w2 \in Works /\ w2.transfers = Tail(w.transfers)
  /\ w2.pools = Freed(w.pools, IF known THEN w.infos[tx.key].allocs ELSE tx.allocs)
  /\ w2.visits = w.visits /\ w2.made = w.made /\ w2.transient = w.transient
  /\ w2.drawn = w.drawn /\ w2.copied = w.copied
  /\ DOMAIN w2.infos = DOMAIN w.infos
  /\ \A k \in DOMAIN w.infos : w2.infos[k] = IF known /\ k = tx.key THEN Readied(w.infos[k], tx) ELSE w.infos[k]

LEMMA CompleteIs ==
  ASSUME NEW w \in Works, NEW tx, tx = Head(w.transfers), Len(w.transfers) > 0,
         NEW known, known \in BOOLEAN, known <=> tx.key \in DOMAIN w.infos,
         Freed(w.pools, IF known THEN w.infos[tx.key].allocs ELSE tx.allocs) \in Seq(PoolRecs)
  PROVE  Completed(CompleteTransfer(w), w, tx, known)
<1> DEFINE al == IF known THEN w.infos[tx.key].allocs ELSE tx.allocs
           ps == Freed(w.pools, al)
           q == Tail(w.transfers)
           i == IF known THEN [w.infos EXCEPT ![tx.key] = Readied(w.infos[tx.key], tx)] ELSE w.infos
           w2 == [w EXCEPT !.transfers = q, !.pools = ps, !.infos = i]
<1>1. w.infos \in Infos /\ w.pools \in Seq(PoolRecs) /\ w.transfers \in Seq(TransferRecs)
  BY WorksTyped
<1>2. q \in Seq(TransferRecs) /\ tx \in TransferRecs
  BY <1>1, TailIs
<1>3. \A k \in DOMAIN w.infos : w.infos[k] \in InfoRecs /\ w.infos[k].allocs \in MeshAllocs
  BY <1>1, InfosTyped
<1>5. ps \in Seq(PoolRecs)
  OBVIOUS
<1>6. /\ i \in Infos /\ DOMAIN i = DOMAIN w.infos
      /\ \A k \in DOMAIN w.infos : i[k] = IF known /\ k = tx.key THEN Readied(w.infos[k], tx) ELSE w.infos[k]
  <2>1. CASE known
    <3> DEFINE k == tx.key
               r == Readied(w.infos[k], tx)
    <3>1. k \in DOMAIN w.infos /\ r \in InfoRecs
      BY <2>1, <1>2, <1>3, ReadiedIs
    <3>2. i = [w.infos EXCEPT ![k] = r]
      BY <2>1
    <3> HIDE DEF r, i, k
    <3>3. /\ i \in Infos /\ DOMAIN i = DOMAIN w.infos
          /\ \A j \in DOMAIN w.infos : i[j] = IF j = k THEN r ELSE w.infos[j]
      BY <3>1, <3>2, <1>1, InfoSet
    <3> QED BY <3>3, <2>1 DEF r, k
  <2>2. CASE ~ known
    BY <2>2, <1>1
  <2> QED BY <2>1, <2>2
<1>7. CompleteTransfer(w) = w2
  BY DEF CompleteTransfer
<1> HIDE DEF ps, q, i
<1>8. /\ w2 \in Works /\ w2.infos = i /\ w2.pools = ps /\ w2.transfers = q
      /\ w2.visits = w.visits /\ w2.made = w.made /\ w2.transient = w.transient
      /\ w2.drawn = w.drawn /\ w2.copied = w.copied
  BY <1>2, <1>5, <1>6 DEF Works
<1> HIDE DEF w2
<1>9. Completed(w2, w, tx, known)
  BY <1>6, <1>8 DEF Completed, ps, q
<1> QED BY <1>7, <1>9

\* What the owners hold when the transfer at the head is gone: the later ones move up.
MovedUp(F, G, o, key, known) ==
  /\ G \in [Owners -> MeshAllocs] /\ key \in Keys /\ known \in BOOLEAN
  /\ o = IF known THEN <<"info", key>> ELSE <<"tx", 1>>
  /\ F[Hand] = Unallocated /\ G[Hand] = Unallocated
  /\ \A k \in Keys : G[<<"info", k>>] = IF known /\ k = key THEN F[<<"tx", 1>>] ELSE F[<<"info", k>>]
  /\ F[<<"tx", 0>>] = Unallocated /\ G[<<"tx", 0>>] = Unallocated
  /\ \A j \in Nat : j > 0 => G[<<"tx", j>>] = F[<<"tx", j + 1>>]

LEMMA MovedUpHoused ==
  ASSUME NEW F, NEW ps, NEW m, Housed(F, ps, m), NEW G, NEW o, NEW key, NEW known, MovedUp(F, G, o, key, known)
  PROVE  Housed(G, Freed(ps, F[o]), m)
<1> DEFINE E == Dropped(F, o)
           i == <<"info", key>>
           one == <<"tx", 1>>
           re == [p \in Owners |-> IF p[1] = "tx" THEN <<"tx", p[2] + 1>>
                                   ELSE IF known /\ p = i THEN one ELSE p]
<1>1. /\ G \in [Owners -> MeshAllocs] /\ key \in Keys /\ known \in BOOLEAN
      /\ o = IF known THEN i ELSE one
      /\ F[Hand] = Unallocated /\ G[Hand] = Unallocated
      /\ \A k \in Keys : G[<<"info", k>>] = IF known /\ k = key THEN F[one] ELSE F[<<"info", k>>]
      /\ F[<<"tx", 0>>] = Unallocated /\ G[<<"tx", 0>>] = Unallocated
      /\ \A j \in Nat : j > 0 => G[<<"tx", j>>] = F[<<"tx", j + 1>>]
  BY DEF MovedUp
<1>2. F \in [Owners -> MeshAllocs] /\ o \in Owners /\ i \in Owners /\ one \in Owners
  BY <1>1, OwnersAre DEF Housed
<1>3. Housed(E, Freed(ps, F[o]), m)
  BY <1>2, HousedFreed
<1>4. \A p \in Owners : E[p] = IF p = o THEN Unallocated ELSE F[p]
  BY <1>2 DEF Dropped
<1>5. /\ re[Hand] = Hand
      /\ \A k \in Keys : re[<<"info", k>>] = IF known /\ k = key THEN one ELSE <<"info", k>>
      /\ \A j \in Nat : re[<<"tx", j>>] = <<"tx", j + 1>>
  <2>1. re[Hand] = Hand
    BY OwnersAre DEF Hand
  <2>2. ASSUME NEW k \in Keys PROVE re[<<"info", k>>] = IF known /\ k = key THEN one ELSE <<"info", k>>
    BY OwnersAre
  <2>3. ASSUME NEW j \in Nat PROVE re[<<"tx", j>>] = <<"tx", j + 1>>
    BY OwnersAre
  <2> QED BY <2>1, <2>2, <2>3
<1>6. /\ \A j \in Nat : <<"tx", j>> \in Owners /\ <<"tx", j>> # Hand /\ <<"tx", j>> # i
      /\ \A k \in Keys : <<"info", k>> \in Owners /\ <<"info", k>> # Hand /\ <<"info", k>> # one
      /\ \A j, k : <<"tx", j>> # <<"info", k>>
      /\ \A j, k : <<"tx", j>> = <<"tx", k>> => j = k
      /\ \A j, k : <<"info", j>> = <<"info", k>> => j = k
      /\ Hand \in Owners
      /\ \A p \in Owners : p = Hand \/ (\E k \in Keys : p = <<"info", k>>) \/ (\E j \in Nat : p = <<"tx", j>>)
  <2>1. /\ \A j, k : <<"tx", j>> # <<"info", k>>
        /\ \A j, k : <<"tx", j>> = <<"tx", k>> => j = k
        /\ \A j, k : <<"info", j>> = <<"info", k>> => j = k
    OBVIOUS
  <2>2. \A p \in Owners : p = Hand \/ (\E k \in Keys : p = <<"info", k>>) \/ (\E j \in Nat : p = <<"tx", j>>)
    BY OwnersAre
  <2>3. \A j \in Nat : <<"tx", j>> \in Owners /\ <<"tx", j>> # Hand
    BY OwnersAre
  <2>4. \A k \in Keys : <<"info", k>> \in Owners /\ <<"info", k>> # Hand
    BY OwnersAre
  <2>5. Hand \in Owners
    BY OwnersAre
  <2>6. (\A j \in Nat : <<"tx", j>> # i) /\ \A k \in Keys : <<"info", k>> # one
    BY <2>1
  <2> HIDE DEF i, one
  <2> QED BY <2>1, <2>2, <2>3, <2>4, <2>5, <2>6
<1> HIDE DEF E, re
<1>7. ASSUME NEW p \in Owners, G[p] # Unallocated
      PROVE  /\ re[p] \in Owners /\ re[p] # o /\ G[p] = F[re[p]] /\ G[p] = E[re[p]]
             /\ \/ \E k \in Keys : p = <<"info", k>> /\ ~ (known /\ k = key) /\ re[p] = p
                \/ known /\ p = i /\ re[p] = one
                \/ \E j \in Nat : j > 0 /\ p = <<"tx", j>> /\ re[p] = <<"tx", j + 1>>
  <2>1. CASE \E k \in Keys : p = <<"info", k>>
    <3>1. PICK k \in Keys : p = <<"info", k>>
      BY <2>1
    <3>2. CASE known /\ k = key
      BY <3>1, <3>2, <1>1, <1>4, <1>5, <1>6
    <3>3. CASE ~ (known /\ k = key)
      <4>1. p # o
        BY <3>1, <3>3, <1>1, <1>6
      <4> QED BY <3>1, <3>3, <4>1, <1>1, <1>4, <1>5, <1>6
    <3> QED BY <3>2, <3>3
  <2>2. CASE \E j \in Nat : p = <<"tx", j>>
    <3>1. PICK j \in Nat : p = <<"tx", j>>
      BY <2>2
    <3>2. j > 0
      BY <3>1, <1>1, <1>7
    <3>3. j + 1 \in Nat /\ j + 1 # 1
      BY <3>2
    <3>4. <<"tx", j + 1>> # o
      BY <3>3, <1>1, <1>6
    <3>5. re[p] = <<"tx", j + 1>> /\ re[p] \in Owners /\ re[p] # one /\ p # i
      BY <3>1, <3>3, <1>5, <1>6
    <3>6. G[p] = F[re[p]] /\ G[p] = E[re[p]]
      BY <3>1, <3>3, <3>4, <3>5, <1>1, <1>4
    <3> QED BY <3>1, <3>2, <3>4, <3>5, <3>6
  <2> QED BY <2>1, <2>2, <1>1, <1>6, <1>7
<1>8. ASSUME NEW p \in Owners, NEW q \in Owners, G[p] # Unallocated, G[q] # Unallocated, re[p] = re[q]
      PROVE  p = q
  <2> DEFINE A(x) == \E k \in Keys : x = <<"info", k>> /\ ~ (known /\ k = key) /\ re[x] = x
             B(x) == known /\ x = i /\ re[x] = one
             C(x) == \E j \in Nat : j > 0 /\ x = <<"tx", j>> /\ re[x] = <<"tx", j + 1>>
  <2>1. (A(p) \/ B(p) \/ C(p)) /\ (A(q) \/ B(q) \/ C(q))
    BY <1>7, <1>8
  <2>2. \A j \in Nat : j > 0 => j + 1 # 1
    OBVIOUS
  <2>3. \A j, k \in Nat : j + 1 = k + 1 => j = k
    OBVIOUS
  <2>4. CASE A(p)
    BY <2>1, <2>4, <1>6, <1>8
  <2>5. CASE B(p)
    BY <2>1, <2>2, <2>5, <1>6, <1>8
  <2>6. CASE C(p)
    <3>1. ~ A(q) /\ ~ B(q)
      BY <2>2, <2>6, <1>6, <1>8
    <3> QED BY <3>1, <2>1, <2>3, <2>6, <1>6, <1>8
  <2> QED BY <2>1, <2>4, <2>5, <2>6
<1>9. ASSUME NEW q \in Owners, E[q] # Unallocated
      PROVE  \E p \in Owners : G[p] # Unallocated /\ re[p] = q
  <2>1. q # o /\ E[q] = F[q] /\ q # Hand
    BY <1>1, <1>4, <1>9
  <2>2. CASE \E k \in Keys : q = <<"info", k>>
    <3>1. PICK k \in Keys : q = <<"info", k>>
      BY <2>2
    <3>2. ~ (known /\ k = key)
      BY <3>1, <2>1, <1>1
    <3>3. G[q] = F[q] /\ re[q] = q
      BY <3>1, <3>2, <1>1, <1>5
    <3> QED BY <3>3, <2>1, <1>9
  <2>3. CASE \E j \in Nat : q = <<"tx", j>>
    <3>1. PICK j \in Nat : q = <<"tx", j>>
      BY <2>3
    <3>2. j # 0
      BY <3>1, <2>1, <1>1, <1>9
    <3>3. CASE j = 1
      <4>1. known
        BY <3>1, <3>3, <2>1, <1>1
      <4>2. G[i] = F[q] /\ re[i] = q
        BY <4>1, <3>1, <3>3, <1>1, <1>5
      <4> QED BY <4>2, <2>1, <1>2, <1>9
    <3>4. CASE j # 1
      <4>1. PICK n \in Nat : j = n + 1 /\ n > 0
        <5>1. j - 1 \in Nat /\ j = (j - 1) + 1 /\ j - 1 > 0
          BY <3>2, <3>4
        <5> QED BY <5>1
      <4>2. G[<<"tx", n>>] = F[q] /\ re[<<"tx", n>>] = q
        BY <4>1, <3>1, <1>1, <1>5
      <4> QED BY <4>2, <2>1, <1>6, <1>9
    <3> QED BY <3>3, <3>4
  <2> QED BY <2>1, <2>2, <2>3, <1>6
<1>10. Rehoused(E, G, re)
  BY <1>1, <1>7, <1>8, <1>9 DEF Rehoused
<1> QED BY <1>3, <1>10, HousedRenamed

\* A transfer whose tick has completed becomes the ready version of its key.
LEMMA CompleteKeeps ==
  ASSUME Now, NEW completed, Behind(completed), NEW w, Good(w, Unallocated, {}),
         Len(w.transfers) > 0, w.transfers[1].tick <= completed
  PROVE  /\ Good(CompleteTransfer(w), Unallocated, {})
         /\ CompleteTransfer(w).transfers = Tail(w.transfers)
<1> DEFINE tx == w.transfers[1]
           key == tx.key
           known == key \in DOMAIN w.infos
           o == IF known THEN <<"info", key>> ELSE <<"tx", 1>>
           al == IF known THEN w.infos[key].allocs ELSE tx.allocs
           w2 == CompleteTransfer(w)
           l == Len(w.transfers)
           ps == w.pools
           C == w.copied
           tick == ticks.current
           F == HeldBy(w.infos, w.transfers, Unallocated)
           G == HeldBy(w2.infos, w2.transfers, Unallocated)
<1>1. /\ w \in Works /\ Housed(F, ps, w.made)
      /\ PoolsUsed(ps) /\ Touched(ps, {} \cup w.drawn \cup C, tick)
      /\ BuffersUsed(w.transient, C) /\ CopiesKnown(w.infos, w.transfers, Unallocated, C)
  BY DEF Good
<1>2. w.infos \in Infos /\ w.transfers \in Seq(TransferRecs) /\ ps \in Seq(PoolRecs)
  BY <1>1, WorksTyped
<1>3. /\ l \in Nat /\ l > 0 /\ Tail(w.transfers) \in Seq(TransferRecs) /\ Len(Tail(w.transfers)) = l - 1
      /\ Head(w.transfers) = tx
      /\ \A j \in 1 .. l - 1 : Tail(w.transfers)[j] = w.transfers[j + 1]
  <2>1. l \in Nat /\ l > 0
    BY <1>2
  <2> HIDE DEF l
  <2>2. Len(w.transfers) = l
    BY DEF l
  <2>3. Tail(w.transfers) \in Seq(TransferRecs) /\ Len(Tail(w.transfers)) = l - 1 /\ Head(w.transfers) = tx
    BY <1>2, <2>1, <2>2, TailIs
  <2>4. \A j \in 1 .. l - 1 : Tail(w.transfers)[j] = w.transfers[j + 1]
    BY <1>2, <2>1, <2>2, TailIs
  <2> QED BY <2>1, <2>3, <2>4
<1>4. tx \in TransferRecs /\ key \in Keys /\ tx.tick \in Nat /\ tx.version \in Int /\ tx.allocs \in MeshAllocs
  <2>1. 1 \in 1 .. Len(w.transfers)
    BY <1>3
  <2> QED BY <2>1, <1>2, TransfersTyped
<1>5. HeldAs(F, w.infos, w.transfers, Unallocated)
  BY <1>2, UnallocatedTyped, HeldTyped
<1>6. F[o] = al /\ o \in Owners
  <2> HIDE DEF F, tx
  <2>1. CASE known
    BY <2>1, <1>4, <1>5, OwnersAre DEF HeldAs
  <2>2. CASE ~ known
    <3>1. 1 \in 1 .. Len(w.transfers) /\ 1 \in Nat
      BY <1>3
    <3> QED BY <2>2, <3>1, <1>5, OwnersAre DEF HeldAs, tx
  <2> QED BY <2>1, <2>2
<1>7. Tidy(al)
  <2> HIDE DEF F, al, o
  <2> QED BY <1>1, <1>6, HousedTidy
<1>8. Freed(ps, al) \in Seq(PoolRecs) /\ PoolsUsed(Freed(ps, al)) /\ Touched(Freed(ps, al), {} \cup w.drawn \cup C, tick)
  <2> DEFINE R == {} \cup w.drawn \cup C
  <2> HIDE DEF al, tick, R
  <2>1. Touched(ps, R, tick)
    BY <1>1 DEF R, tick
  <2>2. Freed(ps, al) \in Seq(PoolRecs) /\ PoolsUsed(Freed(ps, al))
    BY <1>1, <1>2, <1>7, <2>1, FreedUse
  <2>3. Touched(Freed(ps, al), R, tick)
    BY <1>1, <1>2, <1>7, <2>1, FreedUse
  <2> QED BY <2>2, <2>3 DEF R
<1>9. Completed(w2, w, tx, known)
  <2> DEFINE b == known
  <2>1. b \in BOOLEAN /\ (b <=> tx.key \in DOMAIN w.infos) /\ tx = Head(w.transfers)
        /\ Freed(w.pools, IF b THEN w.infos[tx.key].allocs ELSE tx.allocs) \in Seq(PoolRecs)
    BY <1>3, <1>8
  <2> HIDE DEF b, tx
  <2>2. Completed(CompleteTransfer(w), w, tx, b)
    BY <1>1, <1>3, <2>1, CompleteIs
  <2> QED BY <2>2 DEF b, tx
<1> HIDE DEF w2
<1>10. /\ w2 \in Works /\ w2.transfers = Tail(w.transfers) /\ w2.pools = Freed(ps, al)
       /\ w2.made = w.made /\ w2.transient = w.transient /\ w2.drawn = w.drawn /\ w2.copied = C
       /\ DOMAIN w2.infos = DOMAIN w.infos
       /\ \A k \in DOMAIN w.infos : w2.infos[k] = IF known /\ k = key THEN Readied(w.infos[k], tx) ELSE w.infos[k]
  BY <1>9 DEF Completed
<1>11. w2.infos \in Infos /\ w2.transfers \in Seq(TransferRecs)
  BY <1>10, WorksTyped
<1>12. HeldAs(G, w2.infos, w2.transfers, Unallocated)
  BY <1>11, UnallocatedTyped, HeldTyped
<1>13. \A k \in DOMAIN w.infos :
         /\ w2.infos[k].allocs = IF known /\ k = key THEN tx.allocs ELSE w.infos[k].allocs
         /\ w2.infos[k].pending = IF known /\ k = key /\ w.infos[k].pending = tx.version THEN INVALID
                                  ELSE w.infos[k].pending
  <2>1. \A k \in DOMAIN w.infos : w.infos[k] \in InfoRecs
    BY <1>2, InfosTyped
  <2> HIDE DEF tx
  <2>2. \A r \in InfoRecs :
          /\ Readied(r, tx).allocs = tx.allocs
          /\ Readied(r, tx).pending = IF r.pending = tx.version THEN INVALID ELSE r.pending
    BY <1>4, ReadiedIs
  <2> HIDE DEF known, key
  <2> QED BY <2>1, <2>2, <1>10
<1> HIDE DEF F, G, tx, key, l
<1>14. MovedUp(F, G, o, key, known)
  <2>1. G \in [Owners -> MeshAllocs] /\ F[Hand] = Unallocated /\ G[Hand] = Unallocated
    BY <1>5, <1>12 DEF HeldAs
  <2>2. F[<<"tx", 1>>] = tx.allocs
    <3>1. 1 \in 1 .. Len(w.transfers) /\ 1 \in Nat
      BY <1>3 DEF l
    <3> QED BY <3>1, <1>5 DEF HeldAs, tx
  <2>3. \A k \in Keys : G[<<"info", k>>] = IF known /\ k = key THEN F[<<"tx", 1>>] ELSE F[<<"info", k>>]
    <3> SUFFICES ASSUME NEW k \in Keys
                 PROVE  G[<<"info", k>>] = IF known /\ k = key THEN F[<<"tx", 1>>] ELSE F[<<"info", k>>]
      OBVIOUS
    <3>1. G[<<"info", k>>] = IF k \in DOMAIN w2.infos THEN w2.infos[k].allocs ELSE Unallocated
      BY <1>12 DEF HeldAs
    <3>2. F[<<"info", k>>] = IF k \in DOMAIN w.infos THEN w.infos[k].allocs ELSE Unallocated
      BY <1>5 DEF HeldAs
    <3>3. DOMAIN w2.infos = DOMAIN w.infos /\ (known /\ k = key => k \in DOMAIN w.infos)
      BY <1>10, <1>3
    <3> QED BY <3>1, <3>2, <3>3, <2>2, <1>13
  <2>4. F[<<"tx", 0>>] = Unallocated /\ G[<<"tx", 0>>] = Unallocated
    <3>1. 0 \in Nat /\ \A n : 0 \notin 1 .. n
      OBVIOUS
    <3> QED BY <3>1, <1>5, <1>12 DEF HeldAs
  <2>5. ASSUME NEW j \in Nat, j > 0 PROVE G[<<"tx", j>>] = F[<<"tx", j + 1>>]
    <3>1. j + 1 \in Nat /\ (j \in 1 .. l - 1 <=> j + 1 \in 1 .. l)
      BY <2>5, <1>3
    <3>2. Len(w2.transfers) = l - 1 /\ Len(w.transfers) = l
      BY <1>3, <1>10 DEF l
    <3>3. j \in 1 .. l - 1 => w2.transfers[j] = w.transfers[j + 1]
      BY <1>3, <1>10
    <3> QED BY <3>1, <3>2, <3>3, <1>5, <1>12 DEF HeldAs
  <2> HIDE DEF o, known
  <2> QED BY <2>1, <2>3, <2>4, <2>5, <1>4 DEF MovedUp, o, known
<1>15. Housed(G, w2.pools, w2.made)
  <2> DEFINE b == known
  <2> HIDE DEF o, b, al
  <2>1. MovedUp(F, G, o, key, b)
    BY <1>14 DEF b
  <2>2. Housed(G, Freed(ps, F[o]), w.made)
    BY <2>1, <1>1, MovedUpHoused
  <2> QED BY <2>2, <1>6, <1>10
<1>16. CopiesKnown(w2.infos, w2.transfers, Unallocated, C)
  <2>1. /\ \A k \in DOMAIN w.infos, s \in Streams : w.infos[k].allocs[s].at <= finished["dma"]
        /\ \A j \in 1 .. l, s \in Streams : Written(w.transfers[j].allocs[s].at, w.transfers[j].tick, C)
        /\ \A s \in Streams : Written(Unallocated[s].at, tick, C)
        /\ \A k \in DOMAIN w.infos : w.infos[k].pending # INVALID =>
             \E m \in 1 .. l : w.transfers[m].key = k /\ w.transfers[m].version = w.infos[k].pending
    BY <1>1 DEF CopiesKnown, l
  <2>2. ASSUME NEW s \in Streams PROVE tx.allocs[s].at <= finished["dma"]
    <3> DEFINE at == tx.allocs[s].at
               t == tx.tick
    <3>1. Written(at, t, C)
      <4>1. 1 \in 1 .. l
        BY <1>3
      <4> QED BY <4>1, <2>1 DEF tx
    <3>2. t \in Nat /\ t <= completed
      BY <1>4 DEF tx
    <3> HIDE DEF at, t
    <3>3. at <= finished["dma"]
      BY <3>1, <3>2, WrittenDone
    <3> QED BY <3>3 DEF at
  <2>3. \A k \in DOMAIN w2.infos, s \in Streams : w2.infos[k].allocs[s].at <= finished["dma"]
    BY <2>1, <2>2, <1>10, <1>13
  <2>4. \A j \in 1 .. l - 1 : j + 1 \in 1 .. l /\ w2.transfers[j] = w.transfers[j + 1]
    <3>1. \A j \in 1 .. l - 1 : j + 1 \in 1 .. l
      BY <1>3
    <3> QED BY <3>1, <1>3, <1>10
  <2>5. \A j \in 1 .. l - 1, s \in Streams : Written(w2.transfers[j].allocs[s].at, w2.transfers[j].tick, C)
    BY <2>1, <2>4
  <2>6. ASSUME NEW k \in DOMAIN w2.infos, w2.infos[k].pending # INVALID
        PROVE  \E j \in 1 .. l - 1 : w2.transfers[j].key = k /\ w2.transfers[j].version = w2.infos[k].pending
    <3>1. k \in DOMAIN w.infos /\ w2.infos[k].pending = w.infos[k].pending /\ w.infos[k].pending # INVALID
      BY <2>6, <1>10, <1>13
    <3>2. ~ (known /\ k = key /\ w.infos[k].pending = tx.version)
      BY <3>1, <2>6, <1>13
    <3>3. PICK m \in 1 .. l : w.transfers[m].key = k /\ w.transfers[m].version = w.infos[k].pending
      BY <3>1, <2>1
    <3>4. m # 1
      BY <3>1, <3>2, <3>3 DEF tx, key, known
    <3>5. PICK j \in 1 .. l - 1 : m = j + 1
      <4>1. m - 1 \in 1 .. l - 1 /\ m = (m - 1) + 1
        BY <3>4, <1>3
      <4> QED BY <4>1
    <3> QED BY <3>1, <3>3, <3>5, <2>4
  <2>7. Len(w2.transfers) = l - 1
    BY <1>3, <1>10
  <2> QED BY <2>1, <2>3, <2>5, <2>6, <2>7 DEF CopiesKnown, tick
<1>17. Good(w2, Unallocated, {})
  BY <1>1, <1>8, <1>10, <1>15, <1>16, UnallocatedTyped DEF Good, tick, G
<1> QED BY <1>10, <1>17 DEF w2

\* The transfers left when the first c are gone.
Shifted(x, y, c) ==
  /\ Len(y) = Len(x) - c
  /\ \A j \in 1 .. Len(x) - c : y[j] = x[j + c]

LEMMA CompleteNext ==
  ASSUME Now, NEW completed, Behind(completed), NEW x \in Seq(TransferRecs), NEW n \in 0 .. Len(x),
         \A i \in 1 .. n : x[i].tick <= completed,
         NEW y, Good(y, Unallocated, {}), NEW c \in Nat, c < n, Shifted(x, y.transfers, c)
  PROVE  /\ Good(CompleteTransfer(y), Unallocated, {})
         /\ Shifted(x, CompleteTransfer(y).transfers, c + 1)
<1> DEFINE l == Len(x)
           z == y.transfers
           m == Len(z)
<1>1. /\ l \in Nat /\ n \in Nat /\ n <= l
  OBVIOUS
<1>2. m = l - c /\ \A j \in 1 .. l - c : z[j] = x[j + c]
  BY DEF Shifted
<1>3. z \in Seq(TransferRecs)
  BY WorksTyped DEF Good
<1>4. m > 0 /\ 1 \in 1 .. l - c /\ 1 + c \in 1 .. n
  BY <1>1, <1>2
<1>5. z[1].tick <= completed
  BY <1>2, <1>4
<1>6. Good(CompleteTransfer(y), Unallocated, {}) /\ CompleteTransfer(y).transfers = Tail(z)
  BY <1>4, <1>5, CompleteKeeps
<1> HIDE DEF l, z, m
<1>7. Len(Tail(z)) = m - 1 /\ \A j \in 1 .. m - 1 : Tail(z)[j] = z[j + 1]
  <2>1. m = Len(z) /\ m > 0
    BY <1>4 DEF m
  <2> QED BY <2>1, <1>3, TailIs
<1>8. Shifted(x, Tail(z), c + 1)
  <2>1. Len(Tail(z)) = l - (c + 1)
    BY <1>1, <1>2, <1>7
  <2>2. ASSUME NEW j \in 1 .. l - (c + 1) PROVE Tail(z)[j] = x[j + (c + 1)]
    <3>0. m = l - c
      BY <1>2
    <3>1. j \in 1 .. m - 1 /\ j + 1 \in 1 .. l - c /\ (j + 1) + c = j + (c + 1)
      BY <1>1, <3>0
    <3> QED BY <3>1, <1>2, <1>7
  <2> QED BY <2>1, <2>2 DEF Shifted, l
<1> QED BY <1>6, <1>8 DEF z

LEMMA CompleteTransfersKeep ==
  ASSUME Now, NEW completed, Behind(completed), NEW w, Good(w, Unallocated, {})
  PROVE  Good(CompleteTransfers(w, completed), Unallocated, {})
<1> DEFINE x == w.transfers
           late == {i \in DOMAIN x : ~TransferDone(x[i], completed)}
           n == IF late = {} THEN Len(x) ELSE Least(late) - 1
           q == [i \in 1 .. n |-> i]
           W == {y \in Works : Good(y, Unallocated, {})}
           P == [t \in SUBSET (1 .. n) |-> {y \in W : Shifted(x, y.transfers, Cardinality(t))}]
           f == [i \in 1 .. n |-> [y \in W |-> CompleteTransfer(y)]]
           c == [t \in SUBSET (1 .. n) |-> Max(t)]
           Fold(g) == g = [t \in SUBSET (1 .. n) |->
                             IF t = {} THEN w ELSE CompleteTransfer(g[t \ {Max(t)}])]
           fold == CHOOSE g : Fold(g)
<1>1. x \in Seq(TransferRecs) /\ w \in W
  BY WorksTyped DEF Good
<1>2. n \in 0 .. Len(x) /\ \A i \in 1 .. n : x[i].tick <= completed
  <2> DEFINE l == Len(x)
  <2>1. l \in Nat /\ DOMAIN x = 1 .. l
    BY <1>1
  <2> HIDE DEF l
  <2>2. late = {i \in 1 .. l : ~(x[i].tick <= completed)}
    BY <2>1 DEF TransferDone
  <2> HIDE DEF late
  <2>3. CASE late = {}
    BY <2>1, <2>2, <2>3 DEF l
  <2>4. CASE late # {}
    <3>1. Least(late) \in late /\ \A j \in late : Least(late) <= j
      <4>1. late \in SUBSET Nat
        BY <2>1, <2>2
      <4>2. \E i \in late : \A j \in late : i <= j
        BY <2>4, <4>1, LeastExists
      <4> QED BY <4>2 DEF Least
    <3> DEFINE k == Least(late)
    <3> HIDE DEF k
    <3>2. k \in 1 .. l /\ \A j \in late : k <= j
      BY <3>1, <2>2 DEF k
    <3>3. n = k - 1
      BY <2>4 DEF k
    <3> HIDE DEF n
    <3>4. \A i \in 1 .. n : i \in 1 .. l /\ ~ (k <= i)
      BY <2>1, <3>2, <3>3
    <3>5. \A i \in 1 .. n : x[i].tick <= completed
      BY <3>2, <3>4, <2>2
    <3> QED BY <2>1, <3>2, <3>3, <3>5 DEF l
  <2> QED BY <2>3, <2>4
<1>3. CompleteTransfers(w, completed) = fold[1 .. n]
  <2>1. CompleteTransfers(w, completed) = FoldLeft(LAMBDA y, i : CompleteTransfer(y), w, [i \in 1 .. n |-> i])
    BY DEF CompleteTransfers
  <2>2. n \in Nat
    BY <1>2
  <2> HIDE DEF n
  <2>3. DOMAIN [i \in 1 .. n |-> i] = 1 .. n
    OBVIOUS
  <2>4. FoldLeft(LAMBDA y, i : CompleteTransfer(y), w, [i \in 1 .. n |-> i]) = fold[1 .. n]
    BY <2>2, <2>3 DEF FoldLeft, MapThenFoldSet, Max
  <2> HIDE DEF fold
  <2> QED BY <2>1, <2>4
<1>4. n \in Nat /\ IsFiniteSet(1 .. n) /\ \A t \in SUBSET (1 .. n) : t # {} => Max(t) \in t
  <2>1. n \in Nat
    BY <1>2
  <2> HIDE DEF n
  <2> QED BY <2>1, LastPlaces
<1> HIDE DEF n, x
<1>5. ASSUME NEW t \in SUBSET (1 .. n), t # {}, NEW y, y \in P[t \ {Max(t)}]
      PROVE  y \in W /\ CompleteTransfer(y) \in P[t]
  <2> DEFINE i == Max(t)
             d == Cardinality(t \ {i})
             z == CompleteTransfer(y)
  <2>1. i \in t /\ i \in 1 .. n /\ t \ {i} \in SUBSET (1 .. n)
    BY <1>4, <1>5
  <2>2. d \in Nat /\ Cardinality(t) = d + 1 /\ Cardinality(t) <= Cardinality(1 .. n)
    <3> HIDE DEF i
    <3>1. Cardinality(t) \in Nat /\ Cardinality(t \ {i}) \in Nat /\ Cardinality(t \ {i}) = Cardinality(t) - 1
      BY <2>1, <1>4, Smaller
    <3>2. Cardinality(t) <= Cardinality(1 .. n)
      BY <2>1, <1>4, Smaller
    <3> QED BY <3>1, <3>2
  <2>3. Cardinality(1 .. n) = n
    BY <1>4, FS_Interval
  <2>4. y \in W /\ Shifted(x, y.transfers, d)
    <3> HIDE DEF W
    <3>1. P[t \ {i}] = {v \in W : Shifted(x, v.transfers, Cardinality(t \ {i}))}
      BY <2>1
    <3> QED BY <3>1, <1>5
  <2>5. Good(y, Unallocated, {})
    BY <2>4
  <2> HIDE DEF d, i, z
  <2>6. d < n
    BY <1>4, <2>2, <2>3
  <2>7. Good(z, Unallocated, {}) /\ Shifted(x, z.transfers, d + 1)
    BY <1>1, <1>2, <2>2, <2>4, <2>5, <2>6, CompleteNext DEF z
  <2>8. z \in W
    BY <2>7 DEF Good
  <2>9. P[t] = {v \in W : Shifted(x, v.transfers, Cardinality(t))}
    OBVIOUS
  <2> HIDE DEF W, P
  <2>10. z \in P[t]
    BY <2>2, <2>7, <2>8, <2>9
  <2> QED BY <2>4, <2>10 DEF z
<1>6. w \in P[{}]
  <2>1. Shifted(x, w.transfers, 0)
    <3>1. x = w.transfers /\ Len(x) \in Nat
      BY <1>1 DEF x
    <3>2. Len(x) - 0 = Len(x) /\ \A j \in Nat : j + 0 = j
      BY <3>1
    <3> HIDE DEF W
    <3> QED BY <3>1, <3>2 DEF Shifted
  <2>2. Cardinality({}) = 0
    BY FS_EmptySet
  <2> HIDE DEF W
  <2>3. P[{}] = {v \in W : Shifted(x, v.transfers, Cardinality({}))}
    OBVIOUS
  <2> QED BY <2>1, <2>2, <2>3, <1>1
<1>p. /\ \A t \in SUBSET (1 .. n) : c[t] = Max(t) /\ P[t] \subseteq W
      /\ \A i \in 1 .. n, y \in W : f[i][y] = CompleteTransfer(y)
  <2> HIDE DEF W
  <2> QED OBVIOUS
<1> HIDE DEF W, P, f, c
<1>8. ASSUME NEW t \in SUBSET (1 .. n), t # {}
      PROVE  Max(t) \in t /\ Max(t) \in 1 .. n /\ t \ {Max(t)} \in SUBSET (1 .. n)
  BY <1>8, <1>4
<1>10. \E g : StageFoldOf(P, f, w, c, 1 .. n, g)
  <2>1. \A t \in SUBSET (1 .. n) : t # {} => c[t] \in t
    BY <1>p, <1>8
  <2>2. \A t \in SUBSET (1 .. n) : t # {} => \A v \in P[t \ {c[t]}] : f[c[t]][v] \in P[t]
    BY <1>p, <1>5, <1>8
  <2> QED BY <1>4, <1>6, <2>1, <2>2, StageFoldExists
<1>11. \E g : Fold(g)
  <2>1. PICK g : StageFoldOf(P, f, w, c, 1 .. n, g)
    BY <1>10
  <2>2. ASSUME NEW t \in SUBSET (1 .. n)
        PROVE  g[t] \in P[t] /\ g[t] = IF t = {} THEN w ELSE f[c[t]][g[t \ {c[t]}]]
    BY <2>1 DEF StageFoldOf
  <2>3. ASSUME NEW t \in SUBSET (1 .. n), t # {}
        PROVE  g[t] = CompleteTransfer(g[t \ {Max(t)}])
    <3> DEFINE y == g[t \ {Max(t)}]
    <3>1. y \in P[t \ {Max(t)}] /\ g[t] = f[Max(t)][y]
      BY <2>2, <2>3, <1>8, <1>p
    <3> HIDE DEF y
    <3>2. y \in W
      BY <3>1, <2>3, <1>5
    <3> QED BY <3>1, <3>2, <2>3, <1>8, <1>p DEF y
  <2>4. DOMAIN g = SUBSET (1 .. n) /\ g = [t \in DOMAIN g |-> g[t]]
    BY <2>1 DEF StageFoldOf
  <2>5. \A t \in SUBSET (1 .. n) : g[t] = IF t = {} THEN w ELSE CompleteTransfer(g[t \ {Max(t)}])
    BY <2>2, <2>3
  <2>6. Fold(g)
    BY <2>4, <2>5
  <2> QED BY <2>6
<1>12. Fold(fold)
  BY <1>11
<1> HIDE DEF fold
<1>14. ASSUME NEW t \in SUBSET (1 .. n), t # {}
       PROVE  \E i \in t : fold[t \ {i}] \in P[t \ {i}] => fold[t] \in P[t]
  <2>1. fold[t] = CompleteTransfer(fold[t \ {Max(t)}])
    BY <1>12, <1>14
  <2> QED BY <2>1, <1>5, <1>8, <1>14
<1>15. \A r \in SUBSET (1 .. n) : fold[r] \in P[r]
  <2>1. fold[{}] \in P[{}]
    BY <1>6, <1>12
  <2> QED BY <2>1, <1>4, <1>14, StagesHold
<1>16. fold[1 .. n] \in W
  BY <1>15, <1>p
<1> QED BY <1>3, <1>16 DEF W
-----------------------------------------------------------------------------
(* Keys are visited                                                        *)

LEMMA LatestExists ==
  ASSUME NEW S, IsFiniteSet(S), NEW v \in [S -> Nat], S # {}
  PROVE  LatestVisit(v, S) \in S
<1> DEFINE d == [t \in SUBSET S |-> t = {} \/ \E k \in t : \A j \in t : v[j] <= v[k]]
           W == {TRUE}
<1>1. \A t \in SUBSET S : d[t] \in W <=> (t = {} \/ \E k \in t : \A j \in t : v[j] <= v[k])
  OBVIOUS
<1>2. {} \in SUBSET S /\ S \in SUBSET S
  OBVIOUS
<1> HIDE DEF d, W
<1>3. ASSUME NEW t \in SUBSET S, t # {} PROVE \E x \in t : d[t \ {x}] \in W => d[t] \in W
  <2>1. PICK x \in t : TRUE
    BY <1>3
  <2>2. ASSUME d[t \ {x}] \in W PROVE \E k \in t : \A j \in t : v[j] <= v[k]
    <3>1. CASE t \ {x} = {}
      <4>1. \A j \in t : j = x
        BY <3>1
      <4> QED BY <4>1, <2>1
    <3>2. CASE t \ {x} # {}
      <4>1. t \ {x} \in SUBSET S
        OBVIOUS
      <4>2. PICK k \in t \ {x} : \A j \in t \ {x} : v[j] <= v[k]
        BY <4>1, <3>2, <2>2, <1>1
      <4>3. \A j \in t : v[j] \in Nat
        OBVIOUS
      <4>4. CASE v[x] <= v[k]
        BY <4>2, <4>4
      <4>5. CASE ~ (v[x] <= v[k])
        <5>1. \A j \in t \ {x} : v[j] <= v[x]
          BY <4>2, <4>3, <4>5, <2>1
        <5> QED BY <5>1, <4>3, <2>1
      <4> QED BY <4>4, <4>5
    <3> QED BY <3>1, <3>2
  <2> QED BY <2>1, <2>2, <1>1
<1>4. d[{}] \in W
  BY <1>1, <1>2
<1>5. d[S] \in W
  BY <1>3, <1>4, SetFoldEnds
<1>6. \E k \in S : \A j \in S : v[j] <= v[k]
  BY <1>1, <1>2, <1>5
<1> QED BY <1>6 DEF LatestVisit

\* A key that was not asked for is forgotten with the space it has.
Forgotten(w2, w, k, known) ==
  /\ w2 \in Works /\ w2.transfers = w.transfers
  /\ w2.pools = IF known THEN Freed(w.pools, w.infos[k].allocs) ELSE w.pools
  /\ w2.made = w.made /\ w2.transient = w.transient
  /\ w2.drawn = w.drawn /\ w2.copied = w.copied
  /\ DOMAIN w2.infos = DOMAIN w.infos \ {k}
  /\ \A j \in DOMAIN w2.infos : w2.infos[j] = w.infos[j]

LEMMA ForgottenKeeps ==
  ASSUME Now, NEW w, Good(w, Unallocated, {}), NEW k \in Keys, NEW known, known \in BOOLEAN,
         known <=> k \in DOMAIN w.infos, NEW w2, Forgotten(w2, w, k, known)
  PROVE  Good(w2, Unallocated, {})
<1> DEFINE o == <<"info", k>>
           ps == w.pools
           C == w.copied
           tick == ticks.current
           F == HeldBy(w.infos, w.transfers, Unallocated)
           G == HeldBy(w2.infos, w2.transfers, Unallocated)
           R == {} \cup w.drawn \cup C
<1>1. /\ w \in Works /\ Housed(F, ps, w.made)
      /\ PoolsUsed(ps) /\ Touched(ps, R, tick)
      /\ BuffersUsed(w.transient, C) /\ CopiesKnown(w.infos, w.transfers, Unallocated, C)
  BY DEF Good
<1>2. /\ w2 \in Works /\ w2.transfers = w.transfers
      /\ w2.pools = IF known THEN Freed(ps, w.infos[k].allocs) ELSE ps
      /\ w2.made = w.made /\ w2.transient = w.transient /\ w2.drawn = w.drawn /\ w2.copied = C
      /\ DOMAIN w2.infos = DOMAIN w.infos \ {k}
      /\ \A j \in DOMAIN w2.infos : w2.infos[j] = w.infos[j]
  BY DEF Forgotten
<1>3. /\ w.infos \in Infos /\ w.transfers \in Seq(TransferRecs) /\ ps \in Seq(PoolRecs)
      /\ w2.infos \in Infos
  BY <1>1, <1>2, WorksTyped
<1>4. HeldAs(F, w.infos, w.transfers, Unallocated) /\ HeldAs(G, w2.infos, w.transfers, Unallocated)
  BY <1>2, <1>3, UnallocatedTyped, HeldTyped
<1>5. o \in Owners
  BY OwnersAre
<1> HIDE DEF F, G, o, R
<1>6. F[o] = IF known THEN w.infos[k].allocs ELSE Unallocated
  BY <1>4 DEF HeldAs, o
<1>7. G = Dropped(F, o)
  <2> DEFINE E == Dropped(F, o)
  <2>1. E \in [Owners -> MeshAllocs] /\ \A p \in Owners : E[p] = IF p = o THEN Unallocated ELSE F[p]
    BY <1>4, <1>5, UnallocatedTyped DEF Dropped, HeldAs
  <2> HIDE DEF E
  <2>2. /\ Hand # o /\ \A j \in Keys : <<"info", j>> = o <=> j = k
        /\ \A j \in Nat : <<"tx", j>> # o
    BY OwnersAre DEF o
  <2>3. E[Hand] = G[Hand]
    BY <2>1, <2>2, <1>4, OwnersAre DEF HeldAs
  <2>4. \A j \in Keys : E[<<"info", j>>] = G[<<"info", j>>]
    <3> SUFFICES ASSUME NEW j \in Keys PROVE E[<<"info", j>>] = G[<<"info", j>>]
      OBVIOUS
    <3> DEFINE p == <<"info", j>>
    <3>1. p \in Owners /\ (p = o <=> j = k)
      BY <2>2, OwnersAre
    <3>2. F[p] = IF j \in DOMAIN w.infos THEN w.infos[j].allocs ELSE Unallocated
      BY <1>4 DEF HeldAs
    <3>3. G[p] = IF j \in DOMAIN w2.infos THEN w2.infos[j].allocs ELSE Unallocated
      BY <1>4 DEF HeldAs
    <3>4. j \in DOMAIN w2.infos <=> j \in DOMAIN w.infos /\ j # k
      BY <1>2
    <3>5. j \in DOMAIN w2.infos => w2.infos[j].allocs = w.infos[j].allocs
      BY <1>2
    <3>6. E[p] = IF p = o THEN Unallocated ELSE F[p]
      BY <3>1, <2>1
    <3> HIDE DEF p
    <3>7. CASE j = k
      BY <3>1, <3>3, <3>4, <3>6, <3>7 DEF p
    <3>8. CASE j # k
      BY <3>1, <3>2, <3>3, <3>4, <3>5, <3>6, <3>8 DEF p
    <3> QED BY <3>7, <3>8
  <2>5. \A j \in Nat : E[<<"tx", j>>] = G[<<"tx", j>>]
    <3>1. \A j \in Nat : <<"tx", j>> \in Owners
      BY OwnersAre
    <3> QED BY <3>1, <2>1, <2>2, <1>4 DEF HeldAs
  <2>6. E = G
    BY <2>1, <2>3, <2>4, <2>5, <1>4, SameHolding DEF HeldAs
  <2> QED BY <2>6 DEF E
<1>8. /\ w2.pools \in Seq(PoolRecs) /\ Housed(G, w2.pools, w2.made)
      /\ PoolsUsed(w2.pools) /\ Touched(w2.pools, R, tick)
  <2>1. CASE known
    <3> DEFINE al == F[o]
    <3>1. Tidy(al) /\ w2.pools = Freed(ps, al)
      BY <2>1, <1>1, <1>2, <1>5, <1>6, HousedTidy
    <3>2. Housed(G, Freed(ps, al), w.made)
      BY <1>1, <1>5, <1>7, HousedFreed
    <3> HIDE DEF al, ps, tick
    <3>3. Freed(ps, al) \in Seq(PoolRecs) /\ PoolsUsed(Freed(ps, al))
      BY <1>1, <1>3, <3>1, FreedUse
    <3>4. Touched(Freed(ps, al), R, tick)
      BY <1>1, <1>3, <3>1, FreedUse
    <3> QED BY <3>1, <3>2, <3>3, <3>4, <1>2
  <2>2. CASE ~ known
    <3>1. w2.pools = ps /\ F[o] = Unallocated
      BY <2>2, <1>2, <1>6
    <3>2. G = F
      BY <3>1, <1>4, <1>5, <1>7 DEF Dropped, HeldAs
    <3> QED BY <3>1, <3>2, <1>1, <1>2, <1>3
  <2> QED BY <2>1, <2>2
<1>9. CopiesKnown(w2.infos, w2.transfers, Unallocated, C)
  BY <1>1, <1>2 DEF CopiesKnown
<1> QED BY <1>1, <1>2, <1>8, <1>9, UnallocatedTyped DEF Good, G, R

LEMMA VisitsTyped ==
  /\ \A x \in Visits, n \in Nat : \A k : [x EXCEPT ![k] = n] \in Visits
  /\ \A x \in Visits : \A k : Restrict(x, DOMAIN x \ {k}) \in Visits
  /\ \A i \in Infos : \A k : /\ Restrict(i, DOMAIN i \ {k}) \in Infos
                           /\ DOMAIN Restrict(i, DOMAIN i \ {k}) = DOMAIN i \ {k}
                           /\ \A j \in DOMAIN i \ {k} : Restrict(i, DOMAIN i \ {k})[j] = i[j]
<1>1. ASSUME NEW x \in Visits, NEW k, NEW n \in Nat PROVE [x EXCEPT ![k] = n] \in Visits
  <2>1. PICK K \in SUBSET Keys : x \in [K -> Nat]
    BY DEF Visits
  <2>2. [x EXCEPT ![k] = n] \in [K -> Nat]
    BY <2>1
  <2> QED BY <2>2 DEF Visits
<1>2. ASSUME NEW x \in Visits, NEW k PROVE Restrict(x, DOMAIN x \ {k}) \in Visits
  <2>1. PICK K \in SUBSET Keys : x \in [K -> Nat]
    BY DEF Visits
  <2>2. Restrict(x, DOMAIN x \ {k}) \in [K \ {k} -> Nat] /\ K \ {k} \in SUBSET Keys
    BY <2>1 DEF Restrict
  <2> QED BY <2>2 DEF Visits
<1>3. ASSUME NEW i \in Infos, NEW k
      PROVE  /\ Restrict(i, DOMAIN i \ {k}) \in Infos
             /\ DOMAIN Restrict(i, DOMAIN i \ {k}) = DOMAIN i \ {k}
             /\ \A j \in DOMAIN i \ {k} : Restrict(i, DOMAIN i \ {k})[j] = i[j]
  <2>1. PICK K \in SUBSET Keys : i \in [K -> InfoRecs]
    BY DEF Infos
  <2>2. Restrict(i, DOMAIN i \ {k}) \in [K \ {k} -> InfoRecs] /\ K \ {k} \in SUBSET Keys
    BY <2>1 DEF Restrict
  <2>3. Restrict(i, DOMAIN i \ {k}) \in Infos
    BY <2>2 DEF Infos
  <2> QED BY <2>3 DEF Restrict
<1> QED BY <1>1, <1>2, <1>3

LEMMA RevisitedKeeps ==
  ASSUME Now, NEW w, NEW R, Good(w, Unallocated, R), NEW u \in Visits
  PROVE  Good([w EXCEPT !.visits = u], Unallocated, R)
<1> DEFINE v == [w EXCEPT !.visits = u]
<1>1. w \in Works
  BY DEF Good
<1>2. /\ v \in Works /\ v.infos = w.infos /\ v.transfers = w.transfers /\ v.pools = w.pools /\ v.made = w.made
      /\ v.transient = w.transient /\ v.drawn = w.drawn /\ v.copied = w.copied
  BY <1>1 DEF Works
<1> HIDE DEF v
<1>3. Reinformed(v, w)
  BY <1>2 DEF Reinformed
<1>4. Good(v, Unallocated, R)
  BY <1>3, ReinformedKeeps
<1> QED BY <1>4 DEF v

LEMMA MoveKeyKeeps ==
  ASSUME Now, NEW w, Good(w, Unallocated, {}), NEW k \in DOMAIN w.infos
  PROVE  Good(Transfer(transferDefragment(w, w.infos[k].allocs, ticks.current), k, w.infos[k].ready, ticks.current),
              Unallocated, {})
<1> DEFINE tick == ticks.current
           version == w.infos[k].ready
           all == transferDefragment(w, w.infos[k].allocs, tick)
<1>1. Doing(all, w, {}, {})
  BY TransferDefragmentKeeps
<1>2. version \in Int
  BY WorksTyped, InfosTyped DEF Good
<1>3. Transfer(all, k, version, tick) = Transfer([w |-> all.w, allocs |-> all.allocs], k, version, tick)
  <2> HIDE DEF all
  <2> QED BY DEF Transfer
<1> HIDE DEF all, version
<1>4. Good(all.w, all.allocs, {}) /\ k \in DOMAIN all.w.infos
  BY <1>1 DEF Doing
<1>5. Good(Transfer([w |-> all.w, allocs |-> all.allocs], k, version, tick), Unallocated, {})
  BY <1>2, <1>4, TransferKeeps
<1> QED BY <1>3, <1>5 DEF all, version

LEMMA VisitKeyKeeps ==
  ASSUME Now, NEW completed, NEW w, Good(w, Unallocated, {}), NEW k \in Keys
  PROVE  Good(VisitKey(w, k, completed, ticks.current), Unallocated, {})
<1> DEFINE tick == ticks.current
           known == k \in DOMAIN w.infos
           w2 == VisitKey(w, k, completed, tick)
<1>1. w \in Works /\ w.infos \in Infos /\ w.visits \in Visits /\ w.pools \in Seq(PoolRecs)
  BY WorksTyped DEF Good
<1>2. CASE known /\ ~StaleKey(w.infos[k], completed)
  <2> DEFINE moved == IF MustMove(w, k)
                      THEN Transfer(transferDefragment(w, w.infos[k].allocs, tick), k, w.infos[k].ready, tick)
                      ELSE w
             n == w.infos[k].access + STALE_KEY_AGE_THRESHOLD
             u == [moved.visits EXCEPT ![k] = n]
  <2>1. w2 = [moved EXCEPT !.visits = u]
    BY <1>2 DEF VisitKey
  <2>2. Good(moved, Unallocated, {})
    BY <1>2, MoveKeyKeeps
  <2>3. n \in Nat
    BY <1>1, <1>2, InfosTyped, MeshesAssumption
  <2> HIDE DEF moved, n, w2
  <2>4. moved.visits \in Visits
    BY <2>2, WorksTyped DEF Good
  <2>5. u \in Visits
    BY <2>3, <2>4, VisitsTyped
  <2> HIDE DEF u
  <2>6. Good([moved EXCEPT !.visits = u], Unallocated, {})
    BY <2>2, <2>5, RevisitedKeeps
  <2> QED BY <2>1, <2>6 DEF w2
<1>3. CASE ~ (known /\ ~StaleKey(w.infos[k], completed))
  <2> DEFINE o == <<"info", k>>
             u == Restrict(w.visits, DOMAIN w.visits \ {k})
             i == Restrict(w.infos, DOMAIN w.infos \ {k})
             ps == IF known THEN Freed(w.pools, w.infos[k].allocs) ELSE w.pools
             v == [w EXCEPT !.visits = u, !.pools = ps, !.infos = i]
  <2>1. w2 = v
    BY <1>3 DEF VisitKey
  <2>2. ps \in Seq(PoolRecs)
    <3>1. CASE known
      <4> DEFINE F == HeldBy(w.infos, w.transfers, Unallocated)
                 al == w.infos[k].allocs
      <4>1. Housed(F, w.pools, w.made) /\ w.transfers \in Seq(TransferRecs)
        BY <1>1, WorksTyped DEF Good
      <4>2. HeldAs(F, w.infos, w.transfers, Unallocated)
        BY <4>1, <1>1, UnallocatedTyped, HeldTyped
      <4> HIDE DEF F
      <4>3. F[o] = al /\ o \in Owners
        BY <3>1, <4>2, OwnersAre DEF HeldAs
      <4> HIDE DEF o
      <4>4. Tidy(F[o])
        BY <4>1, <4>3, HousedTidy
      <4> HIDE DEF al
      <4>5. Freed(w.pools, al) \in Seq(PoolRecs)
        BY <4>3, <4>4, <1>1, FreedPools DEF Tidy
      <4> QED BY <3>1, <4>5 DEF al
    <3>2. CASE ~ known
      BY <3>2, <1>1
    <3> QED BY <3>1, <3>2
  <2>3. u \in Visits
    BY <1>1, VisitsTyped
  <2>4. i \in Infos /\ DOMAIN i = DOMAIN w.infos \ {k} /\ \A j \in DOMAIN i : i[j] = w.infos[j]
    <3>1. i \in Infos
      BY <1>1, VisitsTyped
    <3>2. DOMAIN i = DOMAIN w.infos \ {k} /\ \A j \in DOMAIN i : i[j] = w.infos[j]
      BY DEF Restrict
    <3> QED BY <3>1, <3>2
  <2> HIDE DEF u, i, ps, w2
  <2>5. /\ v \in Works /\ v.infos = i /\ v.transfers = w.transfers /\ v.pools = ps /\ v.made = w.made
        /\ v.transient = w.transient /\ v.drawn = w.drawn /\ v.copied = w.copied
    BY <1>1, <2>2, <2>3, <2>4 DEF Works
  <2> HIDE DEF v
  <2> DEFINE b == known
  <2>6. Forgotten(v, w, k, b)
    BY <2>4, <2>5 DEF Forgotten, ps
  <2>7. b \in BOOLEAN /\ (b <=> k \in DOMAIN w.infos)
    OBVIOUS
  <2> HIDE DEF b
  <2>8. Good(v, Unallocated, {})
    BY <2>6, <2>7, ForgottenKeeps
  <2> QED BY <2>1, <2>8 DEF w2
<1> QED BY <1>2, <1>3

LEMMA VisitKeysKeep ==
  ASSUME Now, NEW completed, NEW w, Good(w, Unallocated, {})
  PROVE  Good(VisitKeys(w, completed, ticks.current), Unallocated, {})
<1> DEFINE tick == ticks.current
           S == {k \in DOMAIN w.visits : w.visits[k] <= completed}
           W == {y \in Works : Good(y, Unallocated, {})}
           P == [t \in SUBSET S |-> W]
           f == [k \in S |-> [y \in W |-> VisitKey(y, k, completed, tick)]]
           c == [t \in SUBSET S |-> LatestVisit(w.visits, t)]
           Fold(g) == g = [t \in SUBSET S |->
                             IF t = {} THEN w
                             ELSE VisitKey(g[t \ {LatestVisit(w.visits, t)}], LatestVisit(w.visits, t),
                                           completed, tick)]
           fold == CHOOSE g : Fold(g)
<1>1. w \in W /\ w.visits \in Visits
  BY WorksTyped DEF Good
<1>2. PICK K \in SUBSET Keys : w.visits \in [K -> Nat]
  BY <1>1 DEF Visits
<1>3. S \in SUBSET Keys /\ IsFiniteSet(S) /\ \A k \in S : w.visits[k] \in Nat
  <2>1. S \in SUBSET Keys
    BY <1>2
  <2> QED BY <2>1, <1>2, MeshesAssumption, FS_Subset
<1>4. VisitKeys(w, completed, tick) = fold[S]
  <2> HIDE DEF tick
  <2> QED BY DEF VisitKeys, MapThenFoldSet
<1> HIDE DEF S
<1>5. ASSUME NEW y \in W, NEW k \in S PROVE VisitKey(y, k, completed, tick) \in W
  <2> DEFINE z == VisitKey(y, k, completed, tick)
  <2>1. k \in Keys
    BY <1>3
  <2>2. Good(z, Unallocated, {})
    BY <2>1, VisitKeyKeeps
  <2>3. z \in Works
    BY <2>2 DEF Good
  <2> HIDE DEF z
  <2>4. z \in W
    BY <2>2, <2>3
  <2> QED BY <2>4 DEF z
<1>6. ASSUME NEW t \in SUBSET S, t # {}
      PROVE  /\ LatestVisit(w.visits, t) \in t /\ LatestVisit(w.visits, t) \in S
             /\ t \ {LatestVisit(w.visits, t)} \in SUBSET S
  <2> DEFINE v == [k \in t |-> w.visits[k]]
             k == LatestVisit(w.visits, t)
  <2>1. IsFiniteSet(t) /\ v \in [t -> Nat]
    BY <1>3, FS_Subset
  <2>2. LatestVisit(v, t) = k
    BY DEF LatestVisit
  <2> HIDE DEF v, k
  <2>3. k \in t
    BY <2>1, <2>2, <1>6, LatestExists
  <2> QED BY <2>3 DEF k
<1>p. /\ \A t \in SUBSET S : P[t] = W /\ c[t] = LatestVisit(w.visits, t)
      /\ \A k \in S, y \in W : f[k][y] = VisitKey(y, k, completed, tick)
  <2> HIDE DEF W
  <2> QED OBVIOUS
<1> HIDE DEF W, P, f, c
<1>10. \E g : StageFoldOf(P, f, w, c, S, g)
  <2>1. \A t \in SUBSET S : t # {} => c[t] \in t
    BY <1>p, <1>6
  <2>2. \A t \in SUBSET S : t # {} => \A v \in P[t \ {c[t]}] : f[c[t]][v] \in P[t]
    BY <1>p, <1>5, <1>6
  <2>3. w \in P[{}]
    BY <1>1, <1>p
  <2> QED BY <1>3, <2>1, <2>2, <2>3, StageFoldExists
<1>11. \E g : Fold(g)
  <2>1. PICK g : StageFoldOf(P, f, w, c, S, g)
    BY <1>10
  <2>2. ASSUME NEW t \in SUBSET S
        PROVE  g[t] \in W /\ g[t] = IF t = {} THEN w ELSE f[c[t]][g[t \ {c[t]}]]
    BY <2>1, <1>p DEF StageFoldOf
  <2>3. ASSUME NEW t \in SUBSET S, t # {}
        PROVE  g[t] = VisitKey(g[t \ {LatestVisit(w.visits, t)}], LatestVisit(w.visits, t), completed, tick)
    <3> DEFINE k == LatestVisit(w.visits, t)
               y == g[t \ {k}]
    <3>1. k \in S /\ c[t] = k /\ t \ {k} \in SUBSET S
      BY <2>3, <1>6, <1>p
    <3>2. y \in W
      BY <3>1, <2>2
    <3>3. g[t] = f[k][y]
      BY <3>1, <2>2, <2>3
    <3> HIDE DEF k, y
    <3>4. g[t] = VisitKey(y, k, completed, tick)
      BY <3>1, <3>2, <3>3, <1>p
    <3> QED BY <3>4 DEF k, y
  <2>4. DOMAIN g = SUBSET S /\ g = [t \in DOMAIN g |-> g[t]]
    BY <2>1 DEF StageFoldOf
  <2>5. \A t \in SUBSET S :
          g[t] = IF t = {} THEN w
                 ELSE VisitKey(g[t \ {LatestVisit(w.visits, t)}], LatestVisit(w.visits, t), completed, tick)
    BY <2>2, <2>3
  <2>6. Fold(g)
    BY <2>4, <2>5
  <2> QED BY <2>6
<1>12. Fold(fold)
  BY <1>11
<1> HIDE DEF fold
<1>14. ASSUME NEW t \in SUBSET S, t # {}
       PROVE  \E k \in t : fold[t \ {k}] \in P[t \ {k}] => fold[t] \in P[t]
  <2> DEFINE k == LatestVisit(w.visits, t)
             y == fold[t \ {k}]
  <2>1. k \in t /\ k \in S /\ t \ {k} \in SUBSET S
    BY <1>14, <1>6
  <2>2. fold[t] = VisitKey(y, k, completed, tick)
    BY <1>12, <1>14
  <2> HIDE DEF k, y
  <2>3. y \in W => fold[t] \in W
    BY <1>5, <2>1, <2>2
  <2>4. fold[t \ {k}] \in P[t \ {k}] => fold[t] \in P[t]
    BY <2>1, <2>3, <1>p DEF y
  <2> QED BY <2>1, <2>4
<1>15. \A r \in SUBSET S : fold[r] \in P[r]
  <2>1. fold[{}] \in P[{}]
    BY <1>1, <1>12, <1>p
  <2> QED BY <2>1, <1>3, <1>14, StagesHold
<1>16. fold[S] \in W
  BY <1>15, <1>p
<1> QED BY <1>4, <1>16 DEF W

LEMMA BegunKeeps ==
  ASSUME Now, NEW completed, Behind(completed), Good(Here, Unallocated, {})
  PROVE  Good(Begun(completed, ticks.current), Unallocated, {})
<1> DEFINE w == CompleteTransfers(Here, completed)
<1>1. Good(w, Unallocated, {})
  BY CompleteTransfersKeep
<1> HIDE DEF w
<1>2. Good(VisitKeys(w, completed, ticks.current), Unallocated, {})
  BY <1>1, VisitKeysKeep
<1> QED BY <1>2 DEF Begun, w

-----------------------------------------------------------------------------
(* The state between steps                                                 *)

\* No buffer is older than what uses it.
BuffersKept ==
  /\ TransientSound(transient)
  /\ \A b \in BuffersOf(transient), u \in uses : u.res = BufferRes(b.id) => u.tick <= b.tick

\* A ready mesh has been copied, a pending one is being copied, for a transfer that waits.
CopiesAwaited ==
  /\ \A k \in DOMAIN infos, s \in Streams : infos[k].allocs[s].at <= finished["dma"]
  /\ \A j \in 1 .. Len(transfers), s \in Streams :
       \/ transfers[j].allocs[s].at <= finished["dma"]
       \/ \E u \in uses : u.queue = "dma" /\ u.at = transfers[j].allocs[s].at /\ u.tick <= transfers[j].tick
  /\ \A k \in DOMAIN infos : infos[k].pending # INVALID =>
       \E j \in 1 .. Len(transfers) : transfers[j].key = k /\ transfers[j].version = infos[k].pending

MeshTyped == infos \in Infos /\ visits \in Visits /\ transfers \in Seq(TransferRecs)

MeshInv ==
  /\ MeshTyped
  /\ Housed(HeldBy(infos, transfers, Unallocated), pools, made)
  /\ PoolsUsed(pools) /\ BuffersKept /\ CopiesAwaited

\* An operation may begin.
LEMMA HereGood ==
  ASSUME Now, MeshInv
  PROVE  Good(Here, Unallocated, {})
<1>1. /\ infos \in Infos /\ visits \in Visits /\ transfers \in Seq(TransferRecs)
      /\ Housed(HeldBy(infos, transfers, Unallocated), pools, made)
      /\ PoolsUsed(pools) /\ BuffersKept /\ CopiesAwaited
  BY DEF MeshInv, MeshTyped
<1>2. pools \in Seq(PoolRecs) /\ made \in Nat /\ transient \in TransientStates
  BY <1>1 DEF Housed, Space, BuffersKept, TransientSound
<1> DEFINE w == Here
<1>3. /\ w \in Works /\ w.infos = infos /\ w.transfers = transfers /\ w.pools = pools /\ w.made = made
      /\ w.transient = transient /\ w.drawn = {} /\ w.copied = {}
  BY <1>1, <1>2 DEF Here, Works
<1> HIDE DEF w
<1>4. BuffersUsed(transient, {})
  BY <1>1 DEF BuffersUsed, BuffersKept
<1>5. Touched(pools, ({} \cup {}) \cup {}, ticks.current)
  BY DEF Touched
<1>6. CopiesKnown(infos, transfers, Unallocated, {})
  <2>1. \A s \in Streams : Unallocated[s].at = 0
    BY UnallocatedTyped, NothingTyped
  <2>2. finished["dma"] \in Nat
    BY DEF Now
  <2>3. \A s \in Streams : Written(Unallocated[s].at, ticks.current, {})
    BY <2>1, <2>2 DEF Written
  <2> QED BY <2>3, <1>1 DEF CopiesKnown, CopiesAwaited, Written
<1>7. Good(w, Unallocated, {})
  BY <1>1, <1>3, <1>4, <1>5, <1>6, UnallocatedTyped DEF Good
<1> QED BY <1>7 DEF w

\* The resources of D are those of the streamer and the allocator that are in use.
Drawing(w, D, res) ==
  \A r \in D : \A n : (r = PoolRes(n) => r \in w.drawn) /\ (r = BufferRes(n) => r = res)

LEMMA RecordedAre ==
  \A R, q, u : u \in Recorded(R, q) =>
    u.res \in R /\ u.queue = q /\ u.tick = ticks.current /\ u.at = device.submitted[q] + 1
BY DEF Recorded

\* What an operation recorded uses pools accessed in this tick.
LEMMA RecordedUse ==
  ASSUME Now, NEW w, Good(w, Unallocated, {}), NEW D, NEW res, Drawing(w, D, res)
  PROVE  UsedBy(uses \cup Recorded(w.copied, "dma") \cup Recorded(D, "main"), w.pools)
<1> DEFINE ps == w.pools
           tick == ticks.current
<1>1. PoolsUsed(ps) /\ Touched(ps, ({} \cup w.drawn) \cup w.copied, tick)
  BY DEF Good
<1>2. tick \in Nat
  BY DEF Now
<1>3. \A j \in 1 .. Len(ps) : PoolRes(ps[j].id) \in w.drawn \cup w.copied => ps[j].access = tick /\ ps[j].allocated > 0
  BY <1>1 DEF Touched
<1>4. ASSUME NEW j \in 1 .. Len(ps), NEW u \in Recorded(w.copied, "dma") \cup Recorded(D, "main"),
             u.res = PoolRes(ps[j].id)
      PROVE  u.tick <= ps[j].access /\ ps[j].allocated > 0
  <2>1. u.tick = tick /\ u.res \in w.copied \cup D
    BY <1>4, RecordedAre
  <2>2. u.res \in w.drawn \cup w.copied
    BY <2>1, <1>4 DEF Drawing
  <2> HIDE DEF tick, ps
  <2>3. ps[j].access = tick /\ ps[j].allocated > 0
    BY <2>2, <1>3, <1>4
  <2> QED BY <2>1, <2>3, <1>2
<1>5. ASSUME NEW j \in 1 .. Len(ps), NEW u \in uses, u.res = PoolRes(ps[j].id)
      PROVE  u.tick <= ps[j].access /\ ps[j].allocated > 0
  <2> HIDE DEF ps
  <2> QED BY <1>1, <1>5 DEF UsedBy, PoolsUsed
<1> DEFINE U == uses \cup Recorded(w.copied, "dma") \cup Recorded(D, "main")
<1>6. \A u \in U : u \in uses \/ u \in Recorded(w.copied, "dma") \cup Recorded(D, "main")
  OBVIOUS
<1> HIDE DEF ps, U
<1>7. UsedBy(U, ps)
  BY <1>4, <1>5, <1>6 DEF UsedBy
<1> QED BY <1>7 DEF U, ps

\* Transfers stay awaited when operations record more.
LEMMA RecordedAwaited ==
  ASSUME Now, NEW w, Good(w, Unallocated, {}), NEW D,
         infos' = w.infos, transfers' = w.transfers, finished' = finished,
         uses' = uses \cup Recorded(w.copied, "dma") \cup D
  PROVE  CopiesAwaited'
<1>1. CopiesKnown(w.infos, w.transfers, Unallocated, w.copied)
  BY DEF Good
<1>2. \A j \in 1 .. Len(w.transfers), s \in Streams :
        Written(w.transfers[j].allocs[s].at, w.transfers[j].tick, w.copied)
  BY <1>1 DEF CopiesKnown
<1>3. \A j \in 1 .. Len(transfers'), s \in Streams :
       \/ transfers'[j].allocs[s].at <= finished'["dma"]
       \/ \E u \in uses' : u.queue = "dma" /\ u.at = transfers'[j].allocs[s].at /\ u.tick <= transfers'[j].tick
  BY <1>2 DEF Written
<1> QED BY <1>1, <1>3 DEF CopiesKnown, CopiesAwaited

\* The buffers of the allocator as an operation left them, and one more request.
LEMMA RecordedBuffers ==
  ASSUME Now, NEW w, Good(w, Unallocated, {}), NEW size \in Nat, NEW D,
         Drawing(w, D, Taken(w.transient, size, 1, ticks.current).res),
         transient' = Taken(w.transient, size, 1, ticks.current).state,
         uses' = uses \cup Recorded(w.copied, "dma") \cup Recorded(D, "main")
  PROVE  BuffersKept'
<1> DEFINE tick == ticks.current
           t == Taken(w.transient, size, 1, tick)
<1>1. BuffersUsed(w.transient, w.copied) /\ TransientSound(w.transient)
  BY DEF Good, BuffersUsed
<1>2. tick \in Nat /\ \A u \in uses : u.tick \in Nat /\ u.tick <= tick
  BY DEF Now
<1>3. Served(w.transient, t, tick)
  BY <1>1, <1>2, TakenServes
<1> HIDE DEF t
<1>4. PICK n \in Nat : t.res = BufferRes(n) /\ \A b \in BuffersOf(t.state) : b.id = n => b.tick = tick
  BY <1>3 DEF Served
<1>5. ASSUME NEW b \in BuffersOf(t.state), NEW u \in uses \cup Recorded(w.copied, "dma") \cup Recorded(D, "main"),
             u.res = BufferRes(b.id)
      PROVE  u.tick <= b.tick
  <2>1. u.tick \in Nat /\ u.tick <= tick
    BY <1>2, RecordedAre
  <2>2. CASE b.tick = tick
    BY <2>1, <2>2
  <2>3. CASE b.tick # tick
    <3>1. b \in BuffersOf(w.transient) /\ b.id # n
      BY <2>3, <1>3, <1>4 DEF Served
    <3>2. u \notin Recorded(D, "main")
      <4>1. u.res # t.res
        BY <3>1, <1>4, <1>5, ResTyped
      <4>2. \A r \in D : r = BufferRes(b.id) => r = t.res
        BY DEF Drawing, t
      <4> QED BY <4>1, <4>2, <1>5, RecordedAre
    <3>3. u \notin Recorded(w.copied, "dma")
      <4>1. BufferRes(b.id) \in w.copied => b.tick = tick
        BY <3>1, <1>1 DEF BuffersUsed
      <4> QED BY <4>1, <2>3, <1>5, RecordedAre
    <3>4. u \in uses
      BY <3>2, <3>3, <1>5
    <3> QED BY <3>1, <3>4, <1>1, <1>5 DEF BuffersUsed
  <2> QED BY <2>2, <2>3
<1>6. transient' = t.state /\ TransientSound(t.state)
  BY <1>3 DEF Served, t
<1> QED BY <1>5, <1>6 DEF BuffersKept

LEMMA ResApart == \A n, m : PoolRes(n) # BufferRes(m)
BY DEF PoolRes, BufferRes

\* A frame has drawn: the steps of Record on the streamer and the allocator.
LEMMA DrawnMeshes ==
  ASSUME Now, NEW w, Good(w, Unallocated, {}), NEW size \in Nat, NEW D,
         Drawing(w, D, Taken(w.transient, size, 1, ticks.current).res),
         infos' = w.infos, visits' = w.visits, transfers' = w.transfers,
         pools' = w.pools, made' = w.made, finished' = finished,
         transient' = Taken(w.transient, size, 1, ticks.current).state,
         uses' = uses \cup Recorded(w.copied, "dma") \cup Recorded(D, "main")
  PROVE  MeshInv'
<1>1. BuffersKept'
  BY RecordedBuffers
<1>2. CopiesAwaited'
  BY RecordedAwaited
<1>3. UsedBy(uses', pools')
  BY RecordedUse
<1>4. w \in Works /\ Housed(HeldBy(w.infos, w.transfers, Unallocated), w.pools, w.made)
  BY DEF Good
<1>5. MeshTyped'
  BY <1>4, WorksTyped DEF MeshTyped
<1>6. Housed(HeldBy(infos', transfers', Unallocated), pools', made')
  BY <1>4
<1> QED BY <1>1, <1>2, <1>3, <1>5, <1>6 DEF MeshInv, PoolsUsed

\* The meshes begin a tick.
BeginsMeshes(completed) ==
  LET w == Begun(completed, ticks.current)
      x == SweepPools(w, completed)
  IN  /\ infos' = x.infos /\ visits' = x.visits /\ transfers' = x.transfers
      /\ pools' = x.pools /\ made' = x.made
      /\ transient' = w.transient /\ finished' = finished
      /\ uses' = uses \cup Recorded(w.copied, "dma")
      /\ released' = SweptRes(w, completed)

BeginsFrom(w, completed) ==
  /\ Good(w, Unallocated, {})
  /\ infos' = w.infos /\ visits' = w.visits /\ transfers' = w.transfers /\ made' = w.made
  /\ pools' = Left(w.pools, completed)
  /\ transient' = w.transient /\ finished' = finished
  /\ uses' = uses \cup Recorded(w.copied, "dma") \cup Recorded({}, "main")
  /\ released' = SweptRes(w, completed)

LEMMA SweepPoolsIs ==
  ASSUME NEW w \in Works, NEW completed, Left(w.pools, completed) \in Seq(PoolRecs)
  PROVE  /\ SweepPools(w, completed).infos = w.infos /\ SweepPools(w, completed).visits = w.visits
         /\ SweepPools(w, completed).transfers = w.transfers /\ SweepPools(w, completed).made = w.made
         /\ SweepPools(w, completed).pools = Left(w.pools, completed)
<1>1. SweepPools(w, completed) = [w EXCEPT !.pools = Left(w.pools, completed)]
  BY DEF SweepPools, Left, SweptAll
<1> DEFINE ps == Left(w.pools, completed)
<1> HIDE DEF ps
<1>2. LET x == [w EXCEPT !.pools = ps]
      IN  x.infos = w.infos /\ x.visits = w.visits /\ x.transfers = w.transfers /\ x.made = w.made /\ x.pools = ps
  BY DEF Works
<1> QED BY <1>1, <1>2 DEF ps

LEMMA BeginsIs ==
  ASSUME Now, MeshInv, NEW completed, Behind(completed), BeginsMeshes(completed)
  PROVE  \E w : BeginsFrom(w, completed)
<1> DEFINE w == Begun(completed, ticks.current)
<1>1. Good(w, Unallocated, {})
  BY HereGood, BegunKeeps
<1>2. /\ infos' = SweepPools(w, completed).infos /\ visits' = SweepPools(w, completed).visits
      /\ transfers' = SweepPools(w, completed).transfers
      /\ pools' = SweepPools(w, completed).pools /\ made' = SweepPools(w, completed).made
      /\ transient' = w.transient /\ finished' = finished
      /\ uses' = uses \cup Recorded(w.copied, "dma")
      /\ released' = SweptRes(w, completed)
  BY DEF BeginsMeshes
<1> HIDE DEF w
<1>3. w \in Works /\ Left(w.pools, completed) \in Seq(PoolRecs)
  BY <1>1, SweptPools DEF Good
<1>4. Recorded({}, "main") = {}
  BY DEF Recorded
<1>5. /\ SweepPools(w, completed).infos = w.infos /\ SweepPools(w, completed).visits = w.visits
      /\ SweepPools(w, completed).transfers = w.transfers /\ SweepPools(w, completed).made = w.made
      /\ SweepPools(w, completed).pools = Left(w.pools, completed)
  BY <1>3, SweepPoolsIs
<1>6. BeginsFrom(w, completed)
  BY <1>1, <1>2, <1>4, <1>5 DEF BeginsFrom
<1> QED BY <1>6

\* What comes back from the pools is not in use, in the tick that begins or before.
LEMMA BegunMeshes ==
  ASSUME Now, NEW completed, Behind(completed), NEW w, BeginsFrom(w, completed)
  PROVE  MeshInv' /\ \A u \in uses' : u.res \notin released'
<1> DEFINE F == HeldBy(w.infos, w.transfers, Unallocated)
           ps == w.pools
           U == uses \cup Recorded(w.copied, "dma") \cup Recorded({}, "main")
           tick == ticks.current
<1>1. /\ Good(w, Unallocated, {}) /\ w \in Works /\ Housed(F, ps, w.made)
      /\ infos' = w.infos /\ visits' = w.visits /\ transfers' = w.transfers /\ made' = w.made
      /\ pools' = Left(ps, completed) /\ transient' = w.transient /\ finished' = finished
      /\ uses' = U /\ released' = SweptRes(w, completed)
  BY DEF BeginsFrom, Good
<1>2. completed \in Nat /\ completed < tick /\ tick \in Nat /\ \A u \in uses : u.tick \in Nat /\ u.tick > completed
  BY DEF Behind, Now
<1>3. \A u \in U : u.tick \in Nat /\ u.tick > completed
  BY <1>2, RecordedAre
<1>4. UsedBy(U, ps)
  <2>1. Drawing(w, {}, 0)
    BY DEF Drawing
  <2> QED BY <2>1, <1>1, RecordedUse
<1>5. CopiesAwaited'
  BY <1>1, RecordedAwaited
<1>6. BuffersKept'
  <2>1. BuffersUsed(w.transient, w.copied)
    BY <1>1 DEF Good
  <2>2. ASSUME NEW b \in BuffersOf(w.transient), NEW u \in U, u.res = BufferRes(b.id) PROVE u.tick <= b.tick
    <3>1. CASE u \in uses
      BY <3>1, <2>1, <2>2 DEF BuffersUsed
    <3>2. CASE u \in Recorded(w.copied, "dma")
      BY <3>2, <2>1, <2>2, <1>2, RecordedAre DEF BuffersUsed
    <3>3. u \notin Recorded({}, "main")
      BY RecordedAre
    <3> QED BY <3>1, <3>2, <3>3, <2>2
  <2> HIDE DEF U
  <2> QED BY <2>1, <2>2, <1>1 DEF BuffersKept, BuffersUsed
<1> HIDE DEF F, ps, U
<1>7. Housed(F, Left(ps, completed), w.made)
  BY <1>1, SweptPools
<1>8. UsedBy(U, Left(ps, completed))
  BY <1>1, <1>2, <1>3, <1>4, SweptUsed
<1>9. \A j \in 1 .. Len(ps), u \in U :
        u.res = PoolRes(ps[j].id) => ~ Emptied(ps[j], completed)
                                     /\ ~ StalePool(Swept(ps[j], completed), completed)
  BY <1>1, <1>2, <1>3, <1>4, SweptUsed
<1>10. \A u \in U : u.res \notin SweptRes(w, completed)
  <2>1. w.pools \in Seq(PoolRecs)
    BY <1>1, WorksTyped
  <2>2. DOMAIN w.pools = 1 .. Len(w.pools)
    BY <2>1, PoolsTyped
  <2> QED BY <2>2, <1>9 DEF SweptRes, ps
<1>11. MeshTyped'
  BY <1>1, WorksTyped DEF MeshTyped
<1>12. MeshInv'
  BY <1>1, <1>5, <1>6, <1>7, <1>8, <1>11 DEF MeshInv, PoolsUsed, F
<1> QED BY <1>1, <1>10, <1>12

\* Steps that use, finish and change nothing of the streamer and its buffers.
LEMMA MeshesRest ==
  ASSUME MeshInv, infos' = infos, visits' = visits, transfers' = transfers, pools' = pools, made' = made,
         transient' = transient, finished' = finished, uses' = uses
  PROVE  MeshInv'
BY DEF MeshInv, MeshTyped, PoolsUsed, BuffersKept, CopiesAwaited

\* The GPU finishes a submission.
LEMMA MeshesFinish ==
  ASSUME MeshInv, NEW q \in Queues, GpuFinish(q), finished \in [Queues -> Nat], "dma" \in Queues,
         \A u \in uses : u.at \in Nat,
         infos' = infos, visits' = visits, transfers' = transfers, pools' = pools, made' = made,
         transient' = transient
  PROVE  MeshInv'
<1>1. /\ MeshTyped /\ Housed(HeldBy(infos, transfers, Unallocated), pools, made)
      /\ UsedBy(uses, pools) /\ BuffersKept /\ CopiesAwaited
  BY DEF MeshInv, PoolsUsed
<1>2. /\ uses' = {u \in uses : u.queue # q \/ u.at > finished[q] + 1}
      /\ finished' = [finished EXCEPT ![q] = @ + 1]
  BY DEF GpuFinish
<1>3. finished'["dma"] \in {finished["dma"], finished["dma"] + 1}
      /\ (q = "dma" => finished'["dma"] = finished["dma"] + 1) /\ finished["dma"] \in Nat
  BY <1>2
<1>4. UsedBy(uses', pools')
  BY <1>1, <1>2 DEF UsedBy
<1>5. BuffersKept'
  BY <1>1, <1>2 DEF BuffersKept
<1>6. MeshTyped' /\ Housed(HeldBy(infos', transfers', Unallocated), pools', made')
  BY <1>1 DEF MeshTyped
<1>7. CopiesAwaited'
  <2>0. infos \in Infos /\ transfers \in Seq(TransferRecs)
    BY <1>1 DEF MeshTyped
  <2>1. ASSUME NEW k \in DOMAIN infos, NEW s \in Streams PROVE infos[k].allocs[s].at <= finished'["dma"]
    <3>1. infos[k].allocs[s].at <= finished["dma"]
      BY <1>1 DEF CopiesAwaited
    <3>2. infos[k].allocs[s].at \in Nat
      <4>1. infos[k].allocs \in MeshAllocs
        BY <2>0, InfosTyped
      <4> QED BY <4>1, AllocTyped DEF MeshAllocs
    <3> QED BY <3>1, <3>2, <1>3
  <2>2. ASSUME NEW j \in 1 .. Len(transfers), NEW s \in Streams
        PROVE  \/ transfers[j].allocs[s].at <= finished'["dma"]
               \/ \E u \in uses' : u.queue = "dma" /\ u.at = transfers[j].allocs[s].at /\ u.tick <= transfers[j].tick
    <3> DEFINE at == transfers[j].allocs[s].at
               t == transfers[j].tick
    <3>1. at \in Nat
      <4>1. transfers[j].allocs \in MeshAllocs
        BY <2>0, TransfersTyped
      <4> QED BY <4>1, AllocTyped DEF MeshAllocs
    <3>2. at <= finished["dma"] \/ \E u \in uses : u.queue = "dma" /\ u.at = at /\ u.tick <= t
      BY <1>1 DEF CopiesAwaited
    <3> HIDE DEF at, t
    <3>3. at <= finished'["dma"] \/ \E u \in uses' : u.queue = "dma" /\ u.at = at /\ u.tick <= t
      <4>1. CASE at <= finished["dma"]
        BY <4>1, <3>1, <1>3
      <4>2. ASSUME NEW u \in uses, u.queue = "dma", u.at = at, u.tick <= t
            PROVE  at <= finished'["dma"] \/ \E v \in uses' : v.queue = "dma" /\ v.at = at /\ v.tick <= t
        <5>1. CASE u \in uses'
          BY <5>1, <4>2
        <5>2. CASE u \notin uses'
          <6>1. q = "dma" /\ ~ (u.at > finished[q] + 1)
            BY <5>2, <4>2, <1>2
          <6>2. ~ (at > finished["dma"] + 1) /\ finished'["dma"] = finished["dma"] + 1
            BY <6>1, <4>2, <1>3
          <6> QED BY <6>2, <3>1, <1>3
        <5> QED BY <5>1, <5>2
      <4> QED BY <3>2, <4>1, <4>2
    <3> QED BY <3>3 DEF at, t
  <2> QED BY <1>1, <2>1, <2>2 DEF CopiesAwaited
<1> QED BY <1>4, <1>5, <1>6, <1>7 DEF MeshInv, PoolsUsed

\* The transient buffers change and keep their ticks.
LEMMA MeshesKeepBuffers ==
  ASSUME MeshInv, TransientSound(transient'),
         \A x \in BuffersOf(transient') : \E y \in BuffersOf(transient) : y.id = x.id /\ y.tick = x.tick,
         infos' = infos, visits' = visits, transfers' = transfers, pools' = pools, made' = made,
         finished' = finished, uses' = uses
  PROVE  MeshInv'
<1>1. BuffersKept'
  <2>1. BuffersKept
    BY DEF MeshInv
  <2>2. ASSUME NEW b \in BuffersOf(transient'), NEW u \in uses, u.res = BufferRes(b.id) PROVE u.tick <= b.tick
    <3>1. PICK y \in BuffersOf(transient) : y.id = b.id /\ y.tick = b.tick
      OBVIOUS
    <3> QED BY <3>1, <2>1, <2>2 DEF BuffersKept
  <2> QED BY <2>2 DEF BuffersKept
<1>2. CopiesAwaited' /\ MeshTyped'
  BY DEF MeshInv, CopiesAwaited, MeshTyped
<1> QED BY <1>1, <1>2 DEF MeshInv, PoolsUsed

LEMMA AveragedKeeps ==
  ASSUME NEW t, TransientSound(t)
  PROVE  /\ TransientSound(Averaged(t))
         /\ \A x \in BuffersOf(Averaged(t)) : \E y \in BuffersOf(t) : y.id = x.id /\ y.tick = x.tick
<1> DEFINE n == (t.average + t.bytes) \div 2
           v == Averaged(t)
<1>1. t \in TransientStates /\ BuffersApart(t.free, t.used, t.made)
  BY DEF TransientSound
<1>2. n \in Int
  BY <1>1 DEF TransientStates
<1>3. v = [t EXCEPT !.average = n, !.bytes = 0]
  BY DEF Averaged
<1> HIDE DEF n
<1>4. v \in TransientStates /\ v.free = t.free /\ v.used = t.used /\ v.made = t.made
  <2> DEFINE f == t.free
             u == t.used
             m == t.made
  <2>1. f \in Seq(Buffers) /\ u \in Seq(Buffers) /\ m \in Nat /\ DOMAIN t = {"free", "used", "bytes", "average", "made"}
    BY <1>1 DEF TransientStates
  <2>2. /\ v = [free |-> f, used |-> u, bytes |-> 0, average |-> n, made |-> m]
    BY <1>1, <1>3 DEF TransientStates
  <2> HIDE DEF v, f, u, m
  <2>3. v \in TransientStates /\ v.free = f /\ v.used = u /\ v.made = m
    BY <2>1, <2>2, <1>2 DEF TransientStates
  <2> QED BY <2>3 DEF f, u, m
<1> HIDE DEF v
<1>5. TransientSound(v) /\ BuffersOf(v) = BuffersOf(t)
  BY <1>1, <1>4 DEF TransientSound, BuffersOf
<1> QED BY <1>5 DEF v

\* What the allocator resets has been finished.
LEMMA RecycledDone ==
  ASSUME Now, BuffersKept, NEW completed, Behind(completed)
  PROVE  \A u \in uses : u.res \notin RecycledRes(transient, completed, ticks.current)
<1> SUFFICES ASSUME NEW u \in uses, u.res \in RecycledRes(transient, completed, ticks.current)
             PROVE  FALSE
  OBVIOUS
<1>1. PICK b \in BuffersOf(transient) : u.res = BufferRes(b.id) /\ b.tick <= completed
  BY DEF RecycledRes, BuffersOf, Stale, Recyclable
<1>2. u.tick <= b.tick
  BY <1>1 DEF BuffersKept
<1>3. u.tick > completed /\ completed \in Nat
  BY DEF Behind
<1>4. b.tick \in Int /\ u.tick \in Int
  <2>1. transient.free \in Seq(Buffers) /\ transient.used \in Seq(Buffers)
    BY DEF BuffersKept, TransientSound, TransientStates
  <2>2. b \in Buffers
    BY <1>1, <2>1, BuffersTyped DEF BuffersOf, Range
  <2> QED BY <2>2 DEF Buffers, Now
<1> HIDE DEF BuffersOf
<1> QED BY <1>1, <1>2, <1>3, <1>4

NoBuffers == [free |-> <<>>, used |-> <<>>, bytes |-> 0, average |-> 0, made |-> 0]

LEMMA MeshesStart ==
  ASSUME MeshesInit, finished["dma"] = 0, transient = Taken(NoBuffers, 1, 1, 1).state,
         \A u \in uses : u.tick = 1 /\ \A n : u.res # PoolRes(n)
  PROVE  MeshInv
<1> DEFINE F == HeldBy(infos, transfers, Unallocated)
<1>1. infos = <<>> /\ visits = <<>> /\ transfers = <<>> /\ pools = <<>> /\ made = 0
  BY DEF MeshesInit
<1>2. MeshTyped
  <2>1. infos \in [{} -> InfoRecs] /\ visits \in [{} -> Nat] /\ {} \in SUBSET Keys /\ transfers \in Seq(TransferRecs)
    BY <1>1
  <2>2. infos \in Infos
    BY <2>1 DEF Infos
  <2>3. visits \in Visits
    BY <2>1 DEF Visits
  <2> QED BY <2>1, <2>2, <2>3 DEF MeshTyped
<1>3. Len(transfers) = 0 /\ Len(pools) = 0 /\ DOMAIN infos = {} /\ pools \in Seq(PoolRecs)
  BY <1>1
<1>4. F \in [Owners -> MeshAllocs] /\ \A o \in Owners, s \in Streams : F[o][s] = NoAllocation
  <2>1. F = [o \in Owners |-> Unallocated]
    BY <1>3 DEF HeldBy
  <2> QED BY <2>1, UnallocatedTyped
<1> HIDE DEF F
<1>5. \A x \in Owners \X Streams : Flat(F)[x] = NoAllocation
  BY <1>4, FlatTyped
<1>6. DOMAIN Flat(F) = Owners \X Streams
  BY DEF Flat
<1>7. Space(Flat(F), ElementOf, pools, made)
  <2>1. PoolsApart(pools, made) /\ AllCounted(Flat(F), pools)
    BY <1>3 DEF PoolsApart, AllCounted
  <2>2. AllPlaced(Flat(F), ElementOf, pools)
    BY <1>5, <1>6 DEF AllPlaced
  <2>3. AllBeside(Flat(F))
    BY <1>5, <1>6, NothingTyped DEF AllBeside, Beside
  <2> QED BY <2>1, <2>2, <2>3, <1>1, <1>3 DEF Space
<1>8. Housed(F, pools, made)
  BY <1>4, <1>7 DEF Housed
<1>9. BuffersKept
  <2> DEFINE t == NoBuffers
  <2>1. t.free = <<>> /\ t.used = <<>> /\ t.made = 0 /\ t \in TransientStates
    BY DEF NoBuffers, TransientStates
  <2>2. TransientSound(t) /\ BuffersOf(t) = {}
    <3>1. Len(t.free) = 0 /\ Len(t.used) = 0
      BY <2>1
    <3>2. BuffersApart(t.free, t.used, t.made)
      BY <3>1 DEF BuffersApart
    <3>3. Range(<<>>) = {}
      BY DEF Range
    <3> QED BY <2>1, <3>2, <3>3 DEF TransientSound, BuffersOf
  <2> HIDE DEF t
  <2>3. Served(t, Taken(t, 1, 1, 1), 1)
    BY <2>2, TakenServes
  <2> DEFINE x == Taken(t, 1, 1, 1)
  <2>4. transient = x.state
    BY DEF t
  <2> HIDE DEF x
  <2>5. TransientSound(transient) /\ \A b \in BuffersOf(transient) : b.tick = 1
    BY <2>2, <2>3, <2>4 DEF Served, x
  <2> QED BY <2>5 DEF BuffersKept
<1>10. PoolsUsed(pools)
  BY <1>3 DEF PoolsUsed, UsedBy
<1>11. CopiesAwaited
  BY <1>3 DEF CopiesAwaited
<1> QED BY <1>2, <1>8, <1>9, <1>10, <1>11 DEF MeshInv, F

-----------------------------------------------------------------------------
(* What the counts of a pool say                                           *)

\* Elements of a pool that live allocations take.
SpansOf(t) == {n \in Nat : \E x \in t : x.a.from <= n /\ n < x.a.to}

LEMMA SpansMore ==
  ASSUME NEW t, NEW x \in t, \A y \in t : y.a \in Allocs /\ y.a.from <= y.a.to,
         \A y, z \in t : y # z => y.a.to <= z.a.from \/ z.a.to <= y.a.from,
         IsFiniteSet(SpansOf(t \ {x}))
  PROVE  /\ IsFiniteSet(SpansOf(t))
         /\ Cardinality(SpansOf(t)) = Cardinality(SpansOf(t \ {x})) + Size(x.a)
<1> DEFINE C == SpansOf(t \ {x})
           D == Span(x.a)
<1>0. IsFiniteSet(C) /\ Cardinality(C) \in Nat
  BY FS_CardinalityType
<1>1. SpansOf(t) = C \cup D
  BY DEF SpansOf, Span
<1>2. C \cap D = {}
  <2> SUFFICES ASSUME NEW n \in C, n \in D PROVE FALSE
    OBVIOUS
  <2>1. PICK y \in t \ {x} : y.a.from <= n /\ n < y.a.to
    BY DEF SpansOf
  <2>2. n \in Nat /\ x.a.from <= n /\ n < x.a.to
    BY DEF Span
  <2>3. y.a.to <= x.a.from \/ x.a.to <= y.a.from
    BY <2>1
  <2>4. /\ y.a.from \in Nat /\ y.a.to \in Nat
        /\ x.a.from \in Nat /\ x.a.to \in Nat
    BY <2>1, AllocTyped
  <2> QED BY <2>1, <2>2, <2>3, <2>4
<1>3. IsFiniteSet(D) /\ Cardinality(D) = Size(x.a) /\ Size(x.a) \in Nat
  BY SpanSize
<1> HIDE DEF C, D
<1>4. IsFiniteSet(C \cup D) /\ Cardinality(C \cup D) = Cardinality(C) + Cardinality(D) - Cardinality(C \cap D)
  BY <1>0, <1>3, FS_Union
<1>5. Cardinality(C \cap D) = 0
  BY <1>2, FS_EmptySet
<1>6. Cardinality(C \cup D) = Cardinality(C) + Size(x.a)
  BY <1>0, <1>3, <1>4, <1>5
<1> QED BY <1>1, <1>4, <1>6 DEF C

LiveFold(S, g) ==
  g = [t \in SUBSET S |->
         IF t = {} THEN 0
         ELSE g[t \ {CHOOSE x \in t : TRUE}] + Size((CHOOSE x \in t : TRUE).a)]

LiveSum(S) == FoldSet(LAMBDA x, n : n + Size(x.a), 0, S)

\* Live allocations apart from each other add up to the elements they take.
LEMMA LiveCount ==
  ASSUME NEW S, IsFiniteSet(S), \A y \in S : y.a \in Allocs /\ y.a.from <= y.a.to,
         \A y, z \in S : y # z => y.a.to <= z.a.from \/ z.a.to <= y.a.from
  PROVE  LiveSum(S) = Cardinality(SpansOf(S))
<1> DEFINE f == [s \in S |-> [n \in Nat |-> n + Size(s.a)]]
           c == [t \in SUBSET S |-> CHOOSE x \in t : TRUE]
           fold == CHOOSE g : LiveFold(S, g)
<1>2. LiveSum(S) = fold[S]
  BY DEF LiveSum, FoldSet, MapThenFoldSet, LiveFold
<1>3. \A s \in S : Size(s.a) \in Nat
  BY SpanSize
<1>5. f \in [S -> [Nat -> Nat]] /\ \A s \in S : \A n \in Nat : f[s][n] = n + Size(s.a)
  BY <1>3
<1>6. \A t \in SUBSET S : /\ c[t] = (CHOOSE x \in t : TRUE)
                          /\ t # {} => c[t] \in t
  OBVIOUS
<1> HIDE DEF f, c
<1>7. PICK g0 : SetFoldOf(Nat, f, 0, c, S, g0)
  <2>1. 0 \in Nat
    OBVIOUS
  <2> QED BY <2>1, <1>5, <1>6, SetFoldExists
<1>8. g0 \in [SUBSET S -> Nat] /\ \A t \in SUBSET S : g0[t] = IF t = {} THEN 0 ELSE f[c[t]][g0[t \ {c[t]}]]
  BY <1>7 DEF SetFoldOf
<1>9. ASSUME NEW t \in SUBSET S, t # {}
      PROVE  g0[t] = g0[t \ {CHOOSE x \in t : TRUE}] + Size((CHOOSE x \in t : TRUE).a)
  <2> DEFINE x == c[t]
  <2>0. x = (CHOOSE y \in t : TRUE) /\ x \in t /\ x \in S /\ t \ {x} \in SUBSET S
    BY <1>6, <1>9
  <2>1. g0[t] = f[x][g0[t \ {x}]]
    BY <1>8, <1>9
  <2> HIDE DEF x
  <2> DEFINE n == g0[t \ {x}]
  <2>2. n \in Nat
    BY <2>0, <1>8
  <2>3. g0[t] = f[x][n]
    BY <2>1
  <2> HIDE DEF n
  <2>4. g0[t] = n + Size(x.a)
    BY <2>0, <2>2, <2>3, <1>5
  <2> QED BY <2>0, <2>4 DEF n
<1>10. LiveFold(S, g0)
  BY <1>8, <1>9 DEF LiveFold
<1>11. LiveFold(S, fold)
  BY <1>10
<1> HIDE DEF fold
<1> DEFINE h == [t \in SUBSET S |-> Cardinality(SpansOf(t))]
<1>12. \A t \in SUBSET S : h[t] = Cardinality(SpansOf(t))
  OBVIOUS
<1> HIDE DEF h
<1>13. SpansOf({}) = {}
  BY DEF SpansOf
<1>e. {} \in SUBSET S /\ S \in SUBSET S
  OBVIOUS
<1>m. \A t \in SUBSET S : \A x \in t :
        IsFiniteSet(SpansOf(t \ {x})) =>
          IsFiniteSet(SpansOf(t)) /\ Cardinality(SpansOf(t)) = Cardinality(SpansOf(t \ {x})) + Size(x.a)
  <2> SUFFICES ASSUME NEW t \in SUBSET S, NEW x \in t, IsFiniteSet(SpansOf(t \ {x}))
               PROVE  IsFiniteSet(SpansOf(t)) /\ Cardinality(SpansOf(t)) = Cardinality(SpansOf(t \ {x})) + Size(x.a)
    OBVIOUS
  <2>1. \A y \in t : y.a \in Allocs /\ y.a.from <= y.a.to
    OBVIOUS
  <2>2. \A y, z \in t : y # z => y.a.to <= z.a.from \/ z.a.to <= y.a.from
    OBVIOUS
  <2>3. IsFiniteSet(SpansOf(t))
    BY <2>1, <2>2, SpansMore
  <2>4. Cardinality(SpansOf(t)) = Cardinality(SpansOf(t \ {x})) + Size(x.a)
    BY <2>1, <2>2, SpansMore
  <2> QED BY <2>3, <2>4
<1>14. \A t \in SUBSET S : IsFiniteSet(SpansOf(t))
  <2> DEFINE d == [t \in SUBSET S |-> IsFiniteSet(SpansOf(t))]
             W == {TRUE}
  <2> SUFFICES ASSUME NEW r \in SUBSET S PROVE IsFiniteSet(SpansOf(r))
    OBVIOUS
  <2>0. \A t \in SUBSET S : d[t] \in W <=> IsFiniteSet(SpansOf(t))
    OBVIOUS
  <2> HIDE DEF d, W
  <2>1. IsFiniteSet(r) /\ \A t \in SUBSET r : t \in SUBSET S /\ (d[t] \in W <=> IsFiniteSet(SpansOf(t)))
    BY <2>0, FS_Subset
  <2>2. d[{}] \in W
    BY <1>13, <1>e, <2>0, FS_EmptySet
  <2>3. ASSUME NEW t \in SUBSET r, t # {} PROVE \E x \in t : d[t \ {x}] \in W => d[t] \in W
    <3>1. PICK x \in t : TRUE
      BY <2>3
    <3>2. t \in SUBSET S /\ t \ {x} \in SUBSET r
      BY <2>1
    <3>3. IsFiniteSet(SpansOf(t \ {x})) => IsFiniteSet(SpansOf(t))
      BY <3>1, <3>2, <1>m
    <3> QED BY <3>1, <3>2, <3>3, <2>1
  <2>4. d[r] \in W
    BY <2>1, <2>2, <2>3, SetFoldEnds
  <2> QED BY <2>1, <2>4
<1>15. fold[{}] = h[{}]
  <2>1. fold[{}] = 0
    BY <1>11, <1>e DEF LiveFold
  <2>2. h[{}] = 0
    <3>1. Cardinality(SpansOf({})) = 0
      BY <1>13, FS_EmptySet
    <3> QED BY <3>1, <1>12, <1>e
  <2> QED BY <2>1, <2>2
<1>16. ASSUME NEW t \in SUBSET S, t # {} PROVE \E x \in t : fold[t \ {x}] = h[t \ {x}] => fold[t] = h[t]
  <2> DEFINE x == CHOOSE x \in t : TRUE
  <2>1. fold[t] = fold[t \ {x}] + Size(x.a)
    BY <1>11, <1>16 DEF LiveFold
  <2>2. x \in t
    BY <1>16
  <2> HIDE DEF x
  <2>3. t \ {x} \in SUBSET S
    BY <2>2
  <2>4. Cardinality(SpansOf(t)) = Cardinality(SpansOf(t \ {x})) + Size(x.a)
    BY <2>2, <2>3, <1>14, <1>m
  <2>6. h[t] = Cardinality(SpansOf(t)) /\ h[t \ {x}] = Cardinality(SpansOf(t \ {x}))
    BY <1>12, <2>3
  <2>7. fold[t \ {x}] = h[t \ {x}] => fold[t] = h[t]
    BY <2>1, <2>4, <2>6
  <2> QED BY <2>2, <2>7
<1>17. fold[S] = h[S]
  BY <1>15, <1>16, SetFoldIs
<1> QED BY <1>2, <1>12, <1>17, <1>e

Holding == HeldBy(infos, transfers, Unallocated)
InfoLive(y) == [k |-> y[1], s |-> y[2], a |-> infos[y[1]].allocs[y[2]]]
TransferLive(y) == [k |-> y[1], s |-> y[2], a |-> transfers[y[1]].allocs[y[2]]]
InfosIn(id) == {y \in (DOMAIN infos) \X Streams : infos[y[1]].allocs[y[2]].id = id}
TransfersIn(id) == {y \in (DOMAIN transfers) \X Streams : transfers[y[1]].allocs[y[2]].id = id}

LEMMA LiveAre ==
  ASSUME NEW id
  PROVE  AllocsOf(id) = {InfoLive(y) : y \in InfosIn(id)} \cup {TransferLive(y) : y \in TransfersIn(id)}
BY DEF AllocsOf, InfoLive, TransferLive, InfosIn, TransfersIn

LEMMA LiveFinite ==
  ASSUME MeshTyped, NEW id
  PROVE  IsFiniteSet(AllocsOf(id))
<1>1. infos \in Infos /\ transfers \in Seq(TransferRecs)
  BY DEF MeshTyped
<1>2. IsFiniteSet(DOMAIN infos) /\ IsFiniteSet(Streams)
  <2>1. DOMAIN infos \in SUBSET Keys
    BY <1>1, InfosTyped
  <2> QED BY <2>1, MeshesAssumption, FS_Subset
<1>3. IsFiniteSet(DOMAIN transfers)
  <2>1. DOMAIN transfers = 1 .. Len(transfers) /\ Len(transfers) \in Nat
    BY <1>1, TransfersTyped
  <2> QED BY <2>1, FS_Interval
<1>4. IsFiniteSet((DOMAIN infos) \X Streams) /\ IsFiniteSet((DOMAIN transfers) \X Streams)
  BY <1>2, <1>3, FS_Product
<1>5. IsFiniteSet(InfosIn(id)) /\ IsFiniteSet(TransfersIn(id))
  BY <1>4, FS_Subset DEF InfosIn, TransfersIn
<1> DEFINE A == InfosIn(id)
           B == TransfersIn(id)
           f == [y \in A |-> InfoLive(y)]
           g == [y \in B |-> TransferLive(y)]
           P == {InfoLive(y) : y \in A}
           Q == {TransferLive(y) : y \in B}
<1>6. f \in Surjection(A, P) /\ g \in Surjection(B, Q)
  BY DEF Surjection
<1> HIDE DEF A, B, f, g, P, Q
<1>7. IsFiniteSet(A) /\ IsFiniteSet(B)
  BY <1>5 DEF A, B
<1>8. IsFiniteSet(P) /\ IsFiniteSet(Q)
  BY <1>6, <1>7, FS_Surjection
<1>9. IsFiniteSet(P \cup Q)
  BY <1>8, FS_Union
<1> QED BY <1>9, LiveAre DEF P, Q, A, B

HeldLive(F, o, x, id) ==
  x.s \in Streams /\ x = [k |-> o[2], s |-> x.s, a |-> F[o][x.s]] /\ x.a = F[o][x.s] /\ x.a.id = id

LEMMA LiveHeld ==
  ASSUME MeshTyped, NEW id, NEW x \in AllocsOf(id)
  PROVE  \E o \in Owners : HeldLive(Holding, o, x, id)
<1>1. infos \in Infos /\ transfers \in Seq(TransferRecs)
  BY DEF MeshTyped
<1> DEFINE F == Holding
<1>2. HeldAs(F, infos, transfers, Unallocated)
  BY <1>1, UnallocatedTyped, HeldTyped DEF Holding
<1> HIDE DEF F
<1>3. CASE x \in {InfoLive(y) : y \in InfosIn(id)}
  <2>1. PICK k \in DOMAIN infos, s \in Streams : x = InfoLive(<<k, s>>) /\ infos[k].allocs[s].id = id
    BY <1>3 DEF InfosIn
  <2>2. k \in Keys /\ <<"info", k>> \in Owners
    BY <1>1, InfosTyped, OwnersAre
  <2>3. F[<<"info", k>>] = infos[k].allocs
    BY <2>1, <2>2, <1>2 DEF HeldAs
  <2> DEFINE o == <<"info", k>>
  <2>4. o[2] = k /\ F[o][s] = infos[k].allocs[s] /\ x = [k |-> k, s |-> s, a |-> infos[k].allocs[s]]
    BY <2>1, <2>3 DEF InfoLive
  <2>5. HeldLive(F, o, x, id)
    BY <2>1, <2>4 DEF HeldLive
  <2> QED BY <2>2, <2>5 DEF F
<1>4. CASE x \in {TransferLive(y) : y \in TransfersIn(id)}
  <2>1. PICK k \in DOMAIN transfers, s \in Streams : x = TransferLive(<<k, s>>) /\ transfers[k].allocs[s].id = id
    BY <1>4 DEF TransfersIn
  <2>2. k \in 1 .. Len(transfers) /\ k \in Nat /\ <<"tx", k>> \in Owners
    BY <1>1, TransfersTyped, OwnersAre
  <2>3. F[<<"tx", k>>] = transfers[k].allocs
    BY <2>1, <2>2, <1>2 DEF HeldAs
  <2> DEFINE o == <<"tx", k>>
  <2>4. o[2] = k /\ F[o][s] = transfers[k].allocs[s] /\ x = [k |-> k, s |-> s, a |-> transfers[k].allocs[s]]
    BY <2>1, <2>3 DEF TransferLive
  <2>5. HeldLive(F, o, x, id)
    BY <2>1, <2>4 DEF HeldLive
  <2> QED BY <2>2, <2>5 DEF F
<1> QED BY <1>3, <1>4, LiveAre

LEMMA HeldLives ==
  ASSUME MeshTyped, NEW id, id # 0, NEW o \in Owners, NEW s \in Streams, Holding[o][s].id = id
  PROVE  \E x \in AllocsOf(id) : x.a = Holding[o][s]
<1>1. infos \in Infos /\ transfers \in Seq(TransferRecs)
  BY DEF MeshTyped
<1> DEFINE F == Holding
<1>2. HeldAs(F, infos, transfers, Unallocated)
  BY <1>1, UnallocatedTyped, HeldTyped DEF Holding
<1> HIDE DEF F
<1>3. F[o][s].id = id
  BY DEF F
<1>4. Unallocated[s].id = 0
  BY UnallocatedTyped, NothingTyped
<1>5. CASE \E k \in Keys : o = <<"info", k>>
  <2>1. PICK k \in Keys : o = <<"info", k>>
    BY <1>5
  <2>2. k \in DOMAIN infos /\ F[o] = infos[k].allocs
    BY <2>1, <1>2, <1>3, <1>4 DEF HeldAs
  <2> DEFINE y == <<k, s>>
  <2>3. y \in InfosIn(id) /\ InfoLive(y).a = F[o][s]
    BY <2>2, <1>3 DEF InfosIn, InfoLive
  <2> HIDE DEF y
  <2> QED BY <2>3, LiveAre DEF F
<1>6. CASE \E j \in Nat : o = <<"tx", j>>
  <2>1. PICK j \in Nat : o = <<"tx", j>>
    BY <1>6
  <2>2. j \in 1 .. Len(transfers) /\ F[o] = transfers[j].allocs
    BY <2>1, <1>2, <1>3, <1>4 DEF HeldAs
  <2>3. j \in DOMAIN transfers
    BY <2>2, <1>1, TransfersTyped
  <2> DEFINE y == <<j, s>>
  <2>4. y \in TransfersIn(id) /\ TransferLive(y).a = F[o][s]
    BY <2>2, <2>3, <1>3 DEF TransfersIn, TransferLive
  <2> HIDE DEF y
  <2> QED BY <2>4, LiveAre DEF F
<1>7. CASE o = Hand
  BY <1>7, <1>2, <1>3, <1>4 DEF HeldAs
<1> QED BY <1>5, <1>6, <1>7, OwnersAre

PoolExact(i) ==
  LET live == AllocsOf(pools[i].id)
  IN  /\ pools[i].allocated - pools[i].freed = LiveSum(live)
      /\ \A x \in live : pools[i].element = ElementSize[x.s]
                         /\ x.a.to * pools[i].element <= POOL_SIZE_BYTES
                         /\ x.a.to <= pools[i].allocated
      /\ \A x, y \in live : x # y => x.a.to <= y.a.from \/ y.a.to <= x.a.from

\* A pool counts what lives in it, each mesh in space of its own.
LEMMA PoolIsExact ==
  ASSUME MeshInv, NEW i \in 1 .. Len(pools)
  PROVE  PoolExact(i)
<1> DEFINE F == Holding
           id == pools[i].id
           live == AllocsOf(id)
<1>1. MeshTyped /\ Housed(F, pools, made)
  BY DEF MeshInv, Holding
<1>2. /\ F \in [Owners -> MeshAllocs] /\ Space(Flat(F), ElementOf, pools, made)
      /\ pools \in Seq(PoolRecs)
  BY <1>1 DEF Housed, Space
<1> HIDE DEF F
<1>3. /\ PoolsApart(pools, made) /\ AllBeside(Flat(F)) /\ AllCounted(Flat(F), pools)
  BY <1>2 DEF Space
<1>4. id \in Nat /\ id # 0 /\ pools[i].allocated \in Nat /\ pools[i].freed \in Nat /\ made \in Nat
  <2>1. id \in 1 .. made /\ made \in Nat
    BY <1>2, <1>3 DEF PoolsApart, Space
  <2>2. pools[i].allocated \in Nat /\ pools[i].freed \in Nat
    BY <1>2, PoolsTyped
  <2> HIDE DEF id
  <2> QED BY <2>1, <2>2
<1> HIDE DEF id
<1>5. \A x \in live : \E o \in Owners : HeldLive(F, o, x, id)
  BY <1>1, LiveHeld DEF F
<1>6. ASSUME NEW x \in live
      PROVE  /\ x.a \in Allocs /\ x.a.from < x.a.to /\ x.a.to <= pools[i].allocated
             /\ pools[i].element = ElementSize[x.s] /\ Within(x.a.to, ElementSize[x.s])
  <2>1. PICK o \in Owners : HeldLive(F, o, x, id)
    BY <1>5
  <2> DEFINE s == x.s
             a == F[o][s]
  <2>2. s \in Streams /\ x.a = a /\ a.id = id
    BY <2>1 DEF HeldLive
  <2>3. a # NoAllocation
    BY <2>2, <1>4, NothingTyped
  <2>4. \E j \in 1 .. Len(pools) :
           /\ pools[j].id = a.id /\ a.from < a.to /\ a.to <= pools[j].allocated
           /\ pools[j].element = ElementSize[s] /\ Within(a.to, ElementSize[s])
           /\ \A k \in 1 .. Len(pools) : pools[k].id = a.id => k = j
           /\ a.id \in 1 .. made
    <3> HIDE DEF s
    <3> QED BY <1>1, <2>2, <2>3, HousedPool DEF F
  <2>5. a \in Allocs
    BY <2>2, <1>2 DEF MeshAllocs
  <2> HIDE DEF a, s
  <2>6. PICK j \in 1 .. Len(pools) :
           /\ a.from < a.to /\ a.to <= pools[j].allocated
           /\ pools[j].element = ElementSize[s] /\ Within(a.to, ElementSize[s])
           /\ \A k \in 1 .. Len(pools) : pools[k].id = a.id => k = j
    BY <2>4
  <2>7. j = i
    BY <2>2, <2>6 DEF id
  <2> QED BY <2>2, <2>5, <2>6, <2>7 DEF s
<1>7. ASSUME NEW x \in live, NEW y \in live, x # y
      PROVE  x.a.to <= y.a.from \/ y.a.to <= x.a.from
  <2>1. PICK o \in Owners : HeldLive(F, o, x, id)
    BY <1>5
  <2>2. PICK p \in Owners : HeldLive(F, p, y, id)
    BY <1>5
  <2> DEFINE s == x.s
             t == y.s
             u == <<o, s>>
             v == <<p, t>>
  <2>3. s \in Streams /\ t \in Streams /\ x.a.id = id /\ y.a.id = id
    BY <2>1, <2>2 DEF HeldLive
  <2>4. x = [k |-> o[2], s |-> s, a |-> F[o][s]] /\ y = [k |-> p[2], s |-> t, a |-> F[p][t]]
    BY <2>1, <2>2 DEF HeldLive
  <2>5. x.a = F[o][s] /\ y.a = F[p][t]
    BY <2>1, <2>2 DEF HeldLive
  <2> HIDE DEF s, t
  <2>6. o # p \/ s # t
    BY <2>4, <1>7
  <2>7. u \in DOMAIN Flat(F) /\ v \in DOMAIN Flat(F) /\ u # v
    BY <2>3, <2>6 DEF Flat
  <2>8. Flat(F)[u] = x.a /\ Flat(F)[v] = y.a
    BY <2>3, <2>5, <1>2, FlatTyped
  <2> HIDE DEF u, v
  <2>9. Beside(Flat(F)[u], Flat(F)[v])
    BY <2>7, <1>3 DEF AllBeside
  <2> QED BY <2>3, <2>8, <2>9 DEF Beside
<1>8. LiveSum(live) = Cardinality(SpansOf(live))
  <2>1. IsFiniteSet(live)
    BY <1>1, LiveFinite
  <2> HIDE DEF live
  <2>2. \A x \in live : x.a \in Allocs /\ x.a.from <= x.a.to
    <3> SUFFICES ASSUME NEW x \in live PROVE x.a \in Allocs /\ x.a.from <= x.a.to
      OBVIOUS
    <3> DEFINE a == x.a
    <3>1. a \in Allocs /\ a.from < a.to
      BY <1>6
    <3> HIDE DEF a
    <3>2. a.from <= a.to
      BY <3>1, AllocTyped
    <3> QED BY <3>1, <3>2 DEF a
  <2> QED BY <2>1, <2>2, <1>7, LiveCount
<1>9. SpansOf(live) = Cover(Flat(F), id)
  <2>1. ASSUME NEW n \in SpansOf(live) PROVE n \in Cover(Flat(F), id)
    <3>1. n \in Nat
      BY DEF SpansOf
    <3>2. PICK x \in live : x.a.from <= n /\ n < x.a.to
      BY DEF SpansOf
    <3>3. PICK o \in Owners : HeldLive(F, o, x, id)
      BY <1>5
    <3> DEFINE s == x.s
               u == <<o, s>>
    <3>4. s \in Streams /\ x.a = F[o][s] /\ x.a.id = id
      BY <3>3 DEF HeldLive
    <3> HIDE DEF s
    <3>5. u \in DOMAIN Flat(F) /\ Flat(F)[u] = x.a
      BY <3>4, <1>2, FlatTyped DEF Flat
    <3> HIDE DEF u
    <3> QED BY <3>1, <3>2, <3>4, <3>5 DEF Cover
  <2>2. ASSUME NEW n \in Cover(Flat(F), id) PROVE n \in SpansOf(live)
    <3>1. PICK u \in DOMAIN Flat(F) : Flat(F)[u].id = id /\ Flat(F)[u].from <= n /\ n < Flat(F)[u].to
      BY DEF Cover
    <3>2. n \in Nat
      BY DEF Cover
    <3>3. u \in Owners \X Streams
      BY DEF Flat
    <3> DEFINE o == u[1]
               s == u[2]
    <3>4. o \in Owners /\ s \in Streams /\ Flat(F)[u] = F[o][s]
      BY <3>3, <1>2, FlatTyped
    <3> HIDE DEF o, s
    <3>5. F[o][s].id = id
      BY <3>1, <3>4
    <3>6. PICK x \in live : x.a = F[o][s]
      BY <3>4, <3>5, <1>1, <1>4, HeldLives DEF F
    <3> QED BY <3>1, <3>2, <3>4, <3>6 DEF SpansOf
  <2> HIDE DEF live
  <2> QED BY <2>1, <2>2
<1>10. pools[i].allocated = pools[i].freed + Cardinality(Cover(Flat(F), id)) /\ Cardinality(Cover(Flat(F), id)) \in Nat
  <2>1. pools[i].allocated = pools[i].freed + Cardinality(Cover(Flat(F), pools[i].id))
    BY <1>3 DEF AllCounted, Counted
  <2>2. Flat(F) \in [Owners \X Streams -> Allocs]
    BY <1>2, FlatTyped
  <2>3. Cardinality(Cover(Flat(F), pools[i].id)) \in Nat
    BY <1>2, <2>2, CoverFinite
  <2> QED BY <2>1, <2>3 DEF id
<1>11. pools[i].allocated - pools[i].freed = LiveSum(live)
  BY <1>4, <1>8, <1>9, <1>10
<1>12. \A x \in live : pools[i].element = ElementSize[x.s]
                       /\ x.a.to * pools[i].element <= POOL_SIZE_BYTES /\ x.a.to <= pools[i].allocated
  BY <1>6 DEF Within
<1> HIDE DEF live
<1> QED BY <1>7, <1>11, <1>12 DEF PoolExact, live, id

\* The counts are exact and what may be drawn is there.
LEMMA MeshesFollow ==
  ASSUME MeshInv
  PROVE  MeshesSound
<1> DEFINE F == Holding
<1>1. MeshTyped /\ Housed(F, pools, made) /\ CopiesAwaited
  BY DEF MeshInv, Holding
<1>2. /\ infos \in Infos /\ transfers \in Seq(TransferRecs) /\ pools \in Seq(PoolRecs)
      /\ F \in [Owners -> MeshAllocs]
  BY <1>1 DEF MeshTyped, Housed, Space
<1> HIDE DEF F
<1>3. DOMAIN pools = 1 .. Len(pools) /\ DOMAIN transfers = 1 .. Len(transfers)
  BY <1>2
<1>4. ASSUME NEW k \in DOMAIN infos, NEW s \in Streams, infos[k].allocs[s] # NoAllocation
      PROVE  \E i \in DOMAIN pools : pools[i].id = infos[k].allocs[s].id
  <2> DEFINE o == <<"info", k>>
  <2>1. k \in Keys /\ o \in Owners
    BY <1>2, InfosTyped, OwnersAre
  <2>2. F[o] = infos[k].allocs
    <3>1. HeldAs(F, infos, transfers, Unallocated)
      BY <1>2, UnallocatedTyped, HeldTyped DEF F, Holding
    <3> QED BY <3>1, <2>1 DEF HeldAs
  <2> HIDE DEF o
  <2>3. F[o][s] # NoAllocation
    BY <2>2, <1>4
  <2>4. \E i \in 1 .. Len(pools) :
           /\ pools[i].id = F[o][s].id /\ F[o][s].from < F[o][s].to /\ F[o][s].to <= pools[i].allocated
           /\ pools[i].element = ElementSize[s] /\ Within(F[o][s].to, ElementSize[s])
           /\ \A j \in 1 .. Len(pools) : pools[j].id = F[o][s].id => j = i
           /\ F[o][s].id \in 1 .. made
    BY <1>1, <2>1, <2>3, HousedPool
  <2> QED BY <2>2, <2>4, <1>3
<1>5. \A i \in DOMAIN pools : PoolExact(i)
  BY <1>3, PoolIsExact
<1>6. PoolsExact
  <2>1. \A k \in DOMAIN infos, s \in Streams :
          infos[k].allocs[s] # NoAllocation => \E i \in DOMAIN pools : pools[i].id = infos[k].allocs[s].id
    BY <1>4
  <2>2. ASSUME NEW i \in DOMAIN pools
        PROVE  LET live == AllocsOf(pools[i].id)
               IN  /\ pools[i].allocated - pools[i].freed = FoldSet(LAMBDA x, n : n + Size(x.a), 0, live)
                   /\ \A x \in live : pools[i].element = ElementSize[x.s]
                                      /\ x.a.to * pools[i].element <= POOL_SIZE_BYTES
                                      /\ x.a.to <= pools[i].allocated
                   /\ \A x, y \in live : x # y => x.a.to <= y.a.from \/ y.a.to <= x.a.from
    BY <1>5, Zenon DEF PoolExact, LiveSum
  <2> QED BY <2>1, <2>2, Zenon DEF PoolsExact
<1>7. ReadyUploaded
  BY <1>1, <1>3 DEF CopiesAwaited, ReadyUploaded
<1> QED BY <1>6, <1>7 DEF MeshesSound
=============================================================================
