------------------------- MODULE MCSharedData_proof -------------------------
(***************************************************************************)
(* Proofs about the data that threads share, for any number of threads.    *)
(* The object pools are exact, for any slabs, objects and pointers: what   *)
(* is on the list of freed objects, who has what is not there, and what    *)
(* the counters count.  Only one thread allocates.  The tracker's lists    *)
(* hold exactly the completed counters, and stay sorted and merged.        *)
(***************************************************************************)
EXTENDS MCSharedData, SequenceLemmas

-----------------------------------------------------------------------------
(* Lists of freed objects                                                  *)

\* From `first` the pointers of `nxt` lead through every object of `objects` once, and end.
ListedBy(n, s, first, nxt, objects, none) ==
  /\ \A o \in objects : \E i \in 1 .. n : s[i] = o
  /\ \A i, j \in 1 .. n : s[i] = s[j] => i = j
  /\ first = IF n = 0 THEN none ELSE s[1]
  /\ \A i \in 1 .. n : nxt[s[i]] = IF i = n THEN none ELSE s[i + 1]
Listed(first, nxt, objects, none) ==
  \E n \in Nat : \E s \in [1 .. n -> objects] : ListedBy(n, s, first, nxt, objects, none)

\* A list stays as it is while its objects keep their pointers.
LEMMA ListedSame ==
  ASSUME NEW first, NEW nxt, NEW objects, NEW none, Listed(first, nxt, objects, none),
         NEW other, \A o \in objects : other[o] = nxt[o]
  PROVE  Listed(first, other, objects, none)
<1>0. PICK n \in Nat : \E s \in [1 .. n -> objects] : ListedBy(n, s, first, nxt, objects, none)
  BY DEF Listed
<1>s. PICK s \in [1 .. n -> objects] : ListedBy(n, s, first, nxt, objects, none)
  BY <1>0
<1>1. /\ \A q \in objects : \E i \in 1 .. n : s[i] = q
      /\ \A i, j \in 1 .. n : s[i] = s[j] => i = j
      /\ first = IF n = 0 THEN none ELSE s[1]
      /\ \A i \in 1 .. n : nxt[s[i]] = IF i = n THEN none ELSE s[i + 1]
  BY <1>s DEF ListedBy
<1>2. \A i \in 1 .. n : other[s[i]] = nxt[s[i]]
  OBVIOUS
<1>3. \A i \in 1 .. n : other[s[i]] = IF i = n THEN none ELSE s[i + 1]
  BY <1>1, <1>2
<1>4. ListedBy(n, s, first, other, objects, none)
  BY <1>1, <1>3 DEF ListedBy
<1> QED BY <1>4 DEF Listed

\* The list of nothing is empty.
LEMMA ListedNone ==
  ASSUME NEW nxt, NEW none
  PROVE  Listed(none, nxt, {}, none)
<1> DEFINE s == [i \in 1 .. 0 |-> none]
<1>1. s \in [1 .. 0 -> {}] /\ \A i \in 1 .. 0 : FALSE
  OBVIOUS
<1> HIDE DEF s
<1> QED BY <1>1 DEF Listed, ListedBy

\* A new object in front.
LEMMA ListedPush ==
  ASSUME NEW first, NEW nxt, NEW objects, NEW none, Listed(first, nxt, objects, none),
         NEW o, o \notin objects, nxt[o] = first
  PROVE  Listed(o, nxt, objects \cup {o}, none)
<1>0. PICK n \in Nat : \E s \in [1 .. n -> objects] : ListedBy(n, s, first, nxt, objects, none)
  BY DEF Listed
<1>s. PICK s \in [1 .. n -> objects] : ListedBy(n, s, first, nxt, objects, none)
  BY <1>0
<1>1. /\ \A q \in objects : \E i \in 1 .. n : s[i] = q
      /\ \A i, j \in 1 .. n : s[i] = s[j] => i = j
      /\ first = IF n = 0 THEN none ELSE s[1]
      /\ \A i \in 1 .. n : nxt[s[i]] = IF i = n THEN none ELSE s[i + 1]
  BY <1>s DEF ListedBy
<1> DEFINE m == n + 1
           r == [i \in 1 .. m |-> IF i = 1 THEN o ELSE s[i - 1]]
<1>2. m \in Nat /\ m # 0 /\ r \in [1 .. m -> objects \cup {o}]
  OBVIOUS
<1>3. /\ r[1] = o
      /\ \A i \in 1 .. n : i + 1 \in 1 .. m /\ r[i + 1] = s[i]
      /\ \A i \in 1 .. m : i # 1 => i - 1 \in 1 .. n /\ r[i] = s[i - 1]
  OBVIOUS
<1> HIDE DEF r
<1>4. \A q \in objects \cup {o} : \E i \in 1 .. m : r[i] = q
  <2> TAKE q \in objects \cup {o}
  <2>1. CASE q = o
    BY <2>1, <1>3, 1 \in 1 .. m
  <2>2. CASE q \in objects
    <3>1. PICK i \in 1 .. n : s[i] = q
      BY <1>1, <2>2
    <3> QED BY <3>1, <1>3
  <2> QED BY <2>1, <2>2
<1>5. \A i, j \in 1 .. m : r[i] = r[j] => i = j
  <2> TAKE i, j \in 1 .. m
  <2>1. \A k \in 1 .. n : s[k] # o
    OBVIOUS
  <2>2. CASE i = 1 \/ j = 1
    BY <2>1, <2>2, <1>3
  <2>3. CASE i # 1 /\ j # 1
    <3>1. i - 1 \in 1 .. n /\ j - 1 \in 1 .. n /\ r[i] = s[i - 1] /\ r[j] = s[j - 1]
      BY <2>3, <1>3
    <3>2. s[i - 1] = s[j - 1] => i - 1 = j - 1
      BY <3>1, <1>1
    <3> QED BY <3>1, <3>2
  <2> QED BY <2>2, <2>3
<1>6. \A i \in 1 .. m : nxt[r[i]] = IF i = m THEN none ELSE r[i + 1]
  <2> TAKE i \in 1 .. m
  <2>1. CASE i = 1 /\ n = 0
    BY <2>1, <1>1, <1>3
  <2>2. CASE i = 1 /\ n # 0
    <3>1. 1 \in 1 .. n /\ r[2] = s[1] /\ m # 1
      BY <2>2, <1>3
    <3> QED BY <3>1, <2>2, <1>1, <1>3
  <2>3. CASE i # 1
    <3>1. i - 1 \in 1 .. n /\ r[i] = s[i - 1] /\ (i # m => i \in 1 .. n /\ r[i + 1] = s[i])
      BY <2>3, <1>3
    <3>2. nxt[s[i - 1]] = IF i - 1 = n THEN none ELSE s[(i - 1) + 1]
      BY <3>1, <1>1
    <3> QED BY <3>1, <3>2
  <2> QED BY <2>1, <2>2, <2>3
<1>7. o = IF m = 0 THEN none ELSE r[1]
  BY <1>2, <1>3
<1> HIDE DEF m
<1>8. ListedBy(m, r, o, nxt, objects \cup {o}, none)
  BY <1>4, <1>5, <1>6, <1>7 DEF ListedBy
<1> QED BY <1>2, <1>8 DEF Listed

\* The first object is taken away.
LEMMA ListedPop ==
  ASSUME NEW first, NEW nxt, NEW objects, NEW none, Listed(first, nxt, objects, none),
         first # none
  PROVE  first \in objects /\ Listed(nxt[first], nxt, objects \ {first}, none)
<1>0. PICK n \in Nat : \E s \in [1 .. n -> objects] : ListedBy(n, s, first, nxt, objects, none)
  BY DEF Listed
<1>s. PICK s \in [1 .. n -> objects] : ListedBy(n, s, first, nxt, objects, none)
  BY <1>0
<1>1. /\ \A q \in objects : \E i \in 1 .. n : s[i] = q
      /\ \A i, j \in 1 .. n : s[i] = s[j] => i = j
      /\ first = IF n = 0 THEN none ELSE s[1]
      /\ \A i \in 1 .. n : nxt[s[i]] = IF i = n THEN none ELSE s[i + 1]
  BY <1>s DEF ListedBy
<1> DEFINE m == n - 1
           r == [i \in 1 .. m |-> s[i + 1]]
<1>a. n # 0 /\ 1 \in 1 .. n /\ first = s[1] /\ first \in objects
  BY <1>1
<1>2. m \in Nat /\ n = m + 1
  BY <1>a
<1>3. \A i \in 1 .. m : i + 1 \in 1 .. n /\ i + 1 # 1 /\ r[i] = s[i + 1]
  BY <1>2
<1>b. r \in [1 .. m -> objects \ {first}]
  <2>1. \A i \in 1 .. m : s[i + 1] \in objects \ {first}
    BY <1>1, <1>3, <1>a
  <2> QED BY <2>1
<1> HIDE DEF r
<1>4. \A q \in objects \ {first} : \E i \in 1 .. m : r[i] = q
  <2> TAKE q \in objects \ {first}
  <2>1. PICK i \in 1 .. n : s[i] = q
    BY <1>1
  <2>2. i # 1
    BY <2>1, <1>a
  <2>3. i - 1 \in 1 .. m /\ (i - 1) + 1 = i
    BY <2>2, <1>2
  <2> QED BY <2>1, <2>3, <1>3
<1>5. \A i, j \in 1 .. m : r[i] = r[j] => i = j
  <2> TAKE i, j \in 1 .. m
  <2>1. s[i + 1] = s[j + 1] => i + 1 = j + 1
    BY <1>1, <1>3
  <2> QED BY <2>1, <1>3
<1>6. \A i \in 1 .. m : nxt[r[i]] = IF i = m THEN none ELSE r[i + 1]
  <2> TAKE i \in 1 .. m
  <2>1. nxt[s[i + 1]] = IF i + 1 = n THEN none ELSE s[(i + 1) + 1]
    BY <1>1, <1>3
  <2>2. i # m => i + 1 \in 1 .. m
    BY <1>2
  <2> QED BY <2>1, <2>2, <1>2, <1>3
<1>7. nxt[first] = IF m = 0 THEN none ELSE r[1]
  <2>1. nxt[s[1]] = IF 1 = n THEN none ELSE s[1 + 1]
    BY <1>1, <1>a
  <2>2. m # 0 => 1 \in 1 .. m
    BY <1>2
  <2> QED BY <2>1, <2>2, <1>a, <1>2, <1>3
<1> HIDE DEF m
<1>8. ListedBy(m, r, nxt[first], nxt, objects \ {first}, none)
  BY <1>4, <1>5, <1>6, <1>7 DEF ListedBy
<1> QED BY <1>2, <1>a, <1>b, <1>8 DEF Listed

\* The list of a pool is walked from its first object, as often as there are objects.
Walked(f, first, nxt, none, count) ==
  f = [n \in 0 .. count |->
        IF n = 0 THEN first ELSE LET o == f[n - 1] IN IF o = none THEN none ELSE nxt[o]]

\* There is such a walk, every such walk ends, and it has seen the objects of the list.
LEMMA ListedWalk ==
  ASSUME NEW first, NEW nxt, NEW all, IsFiniteSet(all), NEW objects \in SUBSET all,
         NEW none, none \notin all, Listed(first, nxt, objects, none)
  PROVE  /\ \E f : Walked(f, first, nxt, none, Cardinality(all))
         /\ \A f : Walked(f, first, nxt, none, Cardinality(all)) =>
              /\ f[Cardinality(all)] = none
              /\ {f[n] : n \in 0 .. Cardinality(all)} \ {none} = objects
<1>0. PICK m \in Nat : \E s \in [1 .. m -> objects] : ListedBy(m, s, first, nxt, objects, none)
  BY DEF Listed
<1>s. PICK s \in [1 .. m -> objects] : ListedBy(m, s, first, nxt, objects, none)
  BY <1>0
<1>1. /\ \A q \in objects : \E i \in 1 .. m : s[i] = q
      /\ \A i, j \in 1 .. m : s[i] = s[j] => i = j
      /\ first = IF m = 0 THEN none ELSE s[1]
      /\ \A i \in 1 .. m : nxt[s[i]] = IF i = m THEN none ELSE s[i + 1]
  BY <1>s DEF ListedBy
<1> DEFINE c == Cardinality(all)
           g == [n \in 0 .. c |-> IF n < m THEN s[n + 1] ELSE none]
<1>2. c \in Nat
  BY FS_CardinalityType
<1>3. m <= c
  <2>1. s \in Injection(1 .. m, all)
    BY <1>1 DEF Injection, IsInjective
  <2>2. Cardinality(1 .. m) = m
    BY FS_Interval
  <2> QED BY <2>1, <2>2, FS_Injection
<1> HIDE DEF c
<1>4. \A n \in 0 .. c :
        IF n = 0 THEN g[n] = first
        ELSE g[n] = IF g[n - 1] = none THEN none ELSE nxt[g[n - 1]]
  <2> TAKE n \in 0 .. c
  <2>1. CASE n = 0
    BY <2>1, <1>1, <1>2
  <2>2. CASE n # 0 /\ n - 1 < m
    <3>1. n \in 1 .. m /\ n - 1 \in 0 .. c /\ g[n - 1] = s[n] /\ s[n] # none
      BY <2>2, <1>2
    <3>2. nxt[s[n]] = IF n = m THEN none ELSE s[n + 1]
      BY <3>1, <1>1
    <3>3. g[n] = IF n = m THEN none ELSE s[n + 1]
      BY <3>1
    <3> QED BY <2>2, <3>1, <3>2, <3>3
  <2>3. CASE n # 0 /\ ~ (n - 1 < m)
    <3>1. n - 1 \in 0 .. c /\ g[n - 1] = none /\ g[n] = none
      BY <2>3, <1>2
    <3> QED BY <2>3, <3>1
  <2> QED BY <2>1, <2>2, <2>3
<1>5. Walked(g, first, nxt, none, c)
  BY <1>4 DEF Walked
<1>6. g[c] = none /\ {g[n] : n \in 0 .. c} \ {none} = objects
  <2>1. g[c] = none
    BY <1>2, <1>3
  <2>2. ASSUME NEW o \in objects PROVE \E n \in 0 .. c : g[n] = o
    <3>1. PICK i \in 1 .. m : s[i] = o
      BY <1>1
    <3>2. i - 1 \in 0 .. c /\ i - 1 < m /\ (i - 1) + 1 = i
      BY <1>2, <1>3
    <3> QED BY <3>1, <3>2
  <2>3. ASSUME NEW n \in 0 .. c, g[n] # none PROVE g[n] \in objects
    BY <2>3, <1>1
  <2>4. none \notin objects
    OBVIOUS
  <2> HIDE DEF g
  <2> QED BY <2>1, <2>2, <2>3, <2>4
<1> HIDE DEF g
<1>7. ASSUME NEW f, Walked(f, first, nxt, none, c) PROVE f = g
  <2>1. DOMAIN f = 0 .. c /\ DOMAIN g = 0 .. c /\ f = [n \in 0 .. c |-> f[n]] /\ g = [n \in 0 .. c |-> g[n]]
    BY <1>5, <1>7 DEF Walked
  <2>2. \A n \in 0 .. c : f[n] = IF n = 0 THEN first ELSE IF f[n - 1] = none THEN none ELSE nxt[f[n - 1]]
    BY <1>7 DEF Walked
  <2> DEFINE bad == {n \in 0 .. c : f[n] # g[n]}
  <2>3. CASE bad # {}
    <3>1. PICK n \in bad : \A k \in bad : n <= k
      BY <2>3, <1>2, LeastExists, bad \in SUBSET Nat
    <3>a. 0 \in 0 .. c
      BY <1>2
    <3>b. f[0] = first /\ g[0] = first
      BY <3>a, <2>2, <1>4
    <3>2. n \in 0 .. c /\ n # 0
      BY <3>1, <3>b
    <3>3. n - 1 \in 0 .. c /\ ~ (n <= n - 1)
      BY <3>2, <1>2
    <3>4. f[n - 1] = g[n - 1]
      BY <3>3, <3>1
    <3>5. f[n] = g[n]
      BY <3>1, <3>2, <3>4, <2>2, <1>4
    <3> QED BY <3>1, <3>5
  <2>4. CASE bad = {}
    <3>1. \A n \in 0 .. c : f[n] = g[n]
      BY <2>4
    <3> QED BY <2>1, <3>1
  <2> QED BY <2>3, <2>4
<1> QED BY <1>5, <1>6, <1>7 DEF c

-----------------------------------------------------------------------------
(* The objects of the shared pool                                          *)

PoolAssumption ==
  /\ IsFiniteSet(Holders) /\ MaxSlabs \in Nat
  /\ MaxObjects \in Nat \ {0} /\ MaxRefs \in Nat \ {0}
  /\ \A t, u \in Allocators : t = u

NoObject == Pool!Nil
Places == Pool!Objects \cup {NoObject}
Held(o) == \E t \in Holders : held[t][o] > 0
Moved(o) == \E t \in Holders : mine[t] = o
IsLive(o) == Held(o) \/ \E t \in Holders : mine[t] = o /\ poolPc[t] \in {"construct", "uncount"}
Resting == {o \in Pool!GivenOut : ~ Held(o) /\ ~ Moved(o)}

SharedTypes ==
  /\ top \in Places /\ link \in [Pool!Objects -> Places]
  /\ slabs \in 0 .. MaxSlabs /\ initial \in 0 .. MaxObjects
  /\ liveCount \in [1 .. MaxSlabs -> Int] /\ refs \in [Pool!Objects -> Int]
  /\ poolPc \in [Holders -> {"idle", "read", "pop", "revive", "fresh", "construct",
                             "uncount", "load", "link", "push"}]
  /\ mine \in [Holders -> Places] /\ seen \in [Holders -> Places] /\ next \in [Holders -> Places]
  /\ held \in [Holders -> [Pool!Objects -> 0 .. MaxRefs]]

\* An object on its way is in one thread and nowhere else.
MoversApart ==
  /\ \A t \in Holders : mine[t] = NoObject <=> poolPc[t] \in {"idle", "read", "pop", "fresh"}
  /\ \A t \in Holders : mine[t] # NoObject => mine[t] \in Pool!GivenOut /\ ~ Held(mine[t])
  /\ \A t, u \in Holders : mine[t] = mine[u] /\ mine[t] # NoObject => t = u

\* What has pointers was given out, and counts them.
RefsCounted ==
  /\ \A o \in Pool!Objects : Held(o) => o \in Pool!GivenOut /\ refs[o] = Pool!Pointers(o)
  /\ \A t \in Holders : poolPc[t] = "construct" => refs[mine[t]] = 1

\* What the allocating thread has seen stays on the list, and keeps its pointer.
SeenListed ==
  \A t \in Holders :
    /\ poolPc[t] \in {"read", "pop"} => t \in Allocators /\ seen[t] \in Resting
    /\ poolPc[t] = "pop" => next[t] = link[seen[t]]
    /\ poolPc[t] = "push" => link[mine[t]] = seen[t]

LiveCounted ==
  \A n \in 1 .. MaxSlabs : liveCount[n] = Cardinality({o \in Pool!Objects : o[1] = n /\ IsLive(o)})

Queued == Listed(top, link, Resting, NoObject)

SharedInv == SharedTypes /\ MoversApart /\ RefsCounted /\ SeenListed /\ LiveCounted /\ Queued

\* The cardinality that the pools' modules speak of is the one of the lemmas on finite sets.
LEMMA SameCardinality ==
  ASSUME NEW S
  PROVE  Pool!Cardinality(S) = Cardinality(S) /\ Private!Cardinality(S) = Cardinality(S)
BY DEF Pool!Cardinality, Private!Cardinality, Cardinality

LEMMA ObjectsFinite ==
  ASSUME PoolAssumption
  PROVE  IsFiniteSet(Pool!Objects) /\ NoObject \notin Pool!Objects
<1>1. IsFiniteSet(1 .. MaxSlabs) /\ IsFiniteSet(0 .. MaxObjects - 1)
  BY FS_Interval DEF PoolAssumption
<1>2. IsFiniteSet(Pool!Objects)
  BY <1>1, FS_Product DEF Pool!Objects
<1>3. NoObject \notin Pool!Objects
  BY DEF NoObject, Pool!Nil, Pool!Objects
<1> QED BY <1>2, <1>3

\* Pointers counts pairs of a thread and one of its pointers.
LEMMA PointersFinite ==
  ASSUME PoolAssumption, NEW o
  PROVE  /\ IsFiniteSet({p \in Holders \X (1 .. MaxRefs) : p[2] <= held[p[1]][o]})
         /\ Pool!Pointers(o) = Cardinality({p \in Holders \X (1 .. MaxRefs) : p[2] <= held[p[1]][o]})
         /\ Pool!Pointers(o) \in Nat
<1>1. IsFiniteSet(1 .. MaxRefs)
  BY FS_Interval DEF PoolAssumption
<1>2. IsFiniteSet(Holders \X (1 .. MaxRefs))
  BY <1>1, FS_Product DEF PoolAssumption
<1>3. IsFiniteSet({p \in Holders \X (1 .. MaxRefs) : p[2] <= held[p[1]][o]})
  BY <1>2, FS_Subset
<1>4. Pool!Pointers(o) = Cardinality({p \in Holders \X (1 .. MaxRefs) : p[2] <= held[p[1]][o]})
  BY SameCardinality DEF Pool!Pointers
<1> QED BY <1>3, <1>4, FS_CardinalityType

\* An object has pointers when some thread holds one.
LEMMA PointersHeld ==
  ASSUME PoolAssumption, SharedTypes, NEW o \in Pool!Objects
  PROVE  Pool!Pointers(o) > 0 <=> Held(o)
<1> DEFINE pairs == {p \in Holders \X (1 .. MaxRefs) : p[2] <= held[p[1]][o]}
<1>1. IsFiniteSet(pairs) /\ Pool!Pointers(o) = Cardinality(pairs) /\ Pool!Pointers(o) \in Nat
  BY PointersFinite
<1>2. \A t \in Holders : held[t][o] \in 0 .. MaxRefs
  BY DEF SharedTypes
<1>3. ASSUME Held(o) PROVE pairs # {}
  <2>1. PICK t \in Holders : held[t][o] > 0
    BY <1>3 DEF Held
  <2>2. <<t, 1>> \in pairs
    BY <2>1, <1>2 DEF PoolAssumption
  <2> QED BY <2>2
<1>4. ASSUME NEW p \in pairs PROVE Held(o)
  <2>1. p[1] \in Holders /\ p[2] \in 1 .. MaxRefs /\ p[2] <= held[p[1]][o]
    OBVIOUS
  <2> QED BY <2>1, <1>2 DEF Held
<1> HIDE DEF pairs
<1>5. Cardinality(pairs) = 0 <=> pairs = {}
  BY <1>1, FS_EmptySet
<1> QED BY <1>1, <1>3, <1>4, <1>5

\* One more pointer in one thread.
LEMMA PointersGrow ==
  ASSUME PoolAssumption, SharedTypes, NEW o \in Pool!Objects, NEW u \in Holders,
         held[u][o] < MaxRefs, held'[u][o] = held[u][o] + 1,
         \A t \in Holders : t # u => held'[t][o] = held[t][o]
  PROVE  Pool!Pointers(o)' = Pool!Pointers(o) + 1
<1> DEFINE pairs == {p \in Holders \X (1 .. MaxRefs) : p[2] <= held[p[1]][o]}
           grown == {p \in Holders \X (1 .. MaxRefs) : p[2] <= held'[p[1]][o]}
           pair == <<u, held[u][o] + 1>>
<1>1. IsFiniteSet(pairs) /\ Pool!Pointers(o) = Cardinality(pairs)
  BY PointersFinite
<1>a. Pool!Pointers(o)' = Cardinality(grown)
  BY SameCardinality DEF Pool!Pointers
<1>2. held[u][o] \in 0 .. MaxRefs /\ MaxRefs \in Nat
  BY DEF SharedTypes, PoolAssumption
<1>3. pair \in Holders \X (1 .. MaxRefs) /\ pair \notin pairs /\ pair \in grown
  BY <1>2
<1>4. pairs \subseteq grown
  <2> SUFFICES ASSUME NEW p \in pairs PROVE p \in grown
    OBVIOUS
  <2>1. p \in Holders \X (1 .. MaxRefs) /\ p[1] \in Holders /\ p[2] \in 1 .. MaxRefs
        /\ p[2] <= held[p[1]][o]
    OBVIOUS
  <2>2. p[2] <= held'[p[1]][o]
    <3>1. CASE p[1] = u
      BY <3>1, <2>1, <1>2
    <3>2. CASE p[1] # u
      BY <3>2, <2>1
    <3> QED BY <3>1, <3>2
  <2> QED BY <2>1, <2>2
<1>5. ASSUME NEW p \in grown, p # pair PROVE p \in pairs
  <2>1. p \in Holders \X (1 .. MaxRefs) /\ p = <<p[1], p[2]>> /\ p[1] \in Holders
        /\ p[2] \in 1 .. MaxRefs /\ p[2] <= held'[p[1]][o]
    OBVIOUS
  <2>2. CASE p[1] = u
    <3>1. p[2] # held[u][o] + 1
      BY <2>1, <2>2, <1>5
    <3>2. p[2] <= held[u][o] + 1
      BY <2>1, <2>2
    <3>3. p[2] <= held[u][o]
      BY <3>1, <3>2, <2>1, <1>2
    <3> QED BY <2>1, <2>2, <3>3
  <2>3. CASE p[1] # u
    <3>1. held'[p[1]][o] = held[p[1]][o]
      BY <2>1, <2>3
    <3> QED BY <3>1, <2>1
  <2> QED BY <2>2, <2>3
<1> HIDE DEF pairs, grown, pair
<1>6. grown = pairs \cup {pair}
  BY <1>3, <1>4, <1>5
<1> QED BY <1>1, <1>a, <1>3, <1>6, FS_AddElement

\* One pointer less in one thread.
LEMMA PointersShrink ==
  ASSUME PoolAssumption, SharedTypes, NEW o \in Pool!Objects, NEW u \in Holders,
         held[u][o] > 0, held'[u][o] = held[u][o] - 1,
         \A t \in Holders : t # u => held'[t][o] = held[t][o]
  PROVE  Pool!Pointers(o)' = Pool!Pointers(o) - 1
<1> DEFINE pairs == {p \in Holders \X (1 .. MaxRefs) : p[2] <= held[p[1]][o]}
           shrunk == {p \in Holders \X (1 .. MaxRefs) : p[2] <= held'[p[1]][o]}
           pair == <<u, held[u][o]>>
<1>1. IsFiniteSet(pairs) /\ Pool!Pointers(o) = Cardinality(pairs)
  BY PointersFinite
<1>a. Pool!Pointers(o)' = Cardinality(shrunk)
  BY SameCardinality DEF Pool!Pointers
<1>2. held[u][o] \in 1 .. MaxRefs /\ MaxRefs \in Nat
  BY DEF SharedTypes, PoolAssumption
<1>3. pair \in pairs /\ pair \notin shrunk
  BY <1>2
<1>4. ASSUME NEW p \in pairs, p # pair PROVE p \in shrunk
  <2>1. p \in Holders \X (1 .. MaxRefs) /\ p = <<p[1], p[2]>> /\ p[1] \in Holders
        /\ p[2] \in 1 .. MaxRefs /\ p[2] <= held[p[1]][o]
    OBVIOUS
  <2>2. CASE p[1] = u
    <3>1. p[2] # held[u][o]
      BY <2>1, <2>2, <1>4
    <3>2. p[2] <= held'[u][o]
      BY <3>1, <2>1, <2>2, <1>2
    <3> QED BY <2>1, <2>2, <3>2
  <2>3. CASE p[1] # u
    <3>1. held'[p[1]][o] = held[p[1]][o]
      BY <2>1, <2>3
    <3> QED BY <3>1, <2>1
  <2> QED BY <2>2, <2>3
<1>5. ASSUME NEW p \in shrunk PROVE p \in pairs
  <2>1. p \in Holders \X (1 .. MaxRefs) /\ p[1] \in Holders /\ p[2] \in 1 .. MaxRefs
        /\ p[2] <= held'[p[1]][o]
    OBVIOUS
  <2>2. p[2] <= held[p[1]][o]
    <3>1. CASE p[1] = u
      BY <3>1, <2>1, <1>2
    <3>2. CASE p[1] # u
      BY <3>2, <2>1
    <3> QED BY <3>1, <3>2
  <2> QED BY <2>1, <2>2
<1> HIDE DEF pairs, shrunk, pair
<1>6. shrunk = pairs \ {pair}
  BY <1>3, <1>4, <1>5
<1> QED BY <1>1, <1>a, <1>3, <1>6, FS_RemoveElement

\* No thread has more pointers than there are.
LEMMA PointersBound ==
  ASSUME PoolAssumption, SharedTypes, NEW o \in Pool!Objects, NEW u \in Holders
  PROVE  held[u][o] <= Pool!Pointers(o)
<1> DEFINE pairs == {p \in Holders \X (1 .. MaxRefs) : p[2] <= held[p[1]][o]}
           f == [i \in 1 .. held[u][o] |-> <<u, i>>]
<1>1. IsFiniteSet(pairs) /\ Pool!Pointers(o) = Cardinality(pairs)
  BY PointersFinite
<1>2. held[u][o] \in Nat /\ held[u][o] <= MaxRefs /\ MaxRefs \in Nat
  BY DEF SharedTypes, PoolAssumption
<1>3. f \in Injection(1 .. held[u][o], pairs)
  <2>1. \A i \in 1 .. held[u][o] : <<u, i>> \in pairs
    BY <1>2
  <2> QED BY <2>1 DEF Injection, IsInjective
<1>4. Cardinality(1 .. held[u][o]) = held[u][o]
  BY <1>2, FS_Interval
<1> HIDE DEF pairs, f
<1> QED BY <1>1, <1>3, <1>4, FS_Injection
\* live_allocations follows one object that comes to life or dies.
LEMMA LiveGrows ==
  ASSUME PoolAssumption, LiveCounted, liveCount \in [1 .. MaxSlabs -> Int],
         NEW o \in Pool!Objects, liveCount' = [liveCount EXCEPT ![o[1]] = @ + 1],
         ~ IsLive(o), \A q \in Pool!Objects : IsLive(q)' <=> IsLive(q) \/ q = o
  PROVE  LiveCounted'
<1> SUFFICES ASSUME NEW n \in 1 .. MaxSlabs
             PROVE  liveCount'[n] = Cardinality({q \in Pool!Objects : q[1] = n /\ IsLive(q)'})
  BY DEF LiveCounted
<1> DEFINE old == {q \in Pool!Objects : q[1] = n /\ IsLive(q)}
           new == {q \in Pool!Objects : q[1] = n /\ IsLive(q)'}
<1>1. IsFiniteSet(old) /\ liveCount[n] = Cardinality(old)
  BY ObjectsFinite, FS_Subset DEF LiveCounted
<1>2. o[1] \in 1 .. MaxSlabs
  BY DEF Pool!Objects
<1>3. CASE n = o[1]
  <2>1. new = old \cup {o} /\ o \notin old
    BY <1>3
  <2>2. liveCount'[n] = liveCount[n] + 1
    BY <1>2, <1>3
  <2> HIDE DEF old, new
  <2>3. Cardinality(new) = Cardinality(old) + 1
    BY <1>1, <2>1, FS_AddElement
  <2> QED BY <1>1, <2>2, <2>3 DEF new
<1>4. CASE n # o[1]
  <2>1. new = old
    BY <1>4
  <2>2. liveCount'[n] = liveCount[n]
    BY <1>2, <1>4
  <2> HIDE DEF old
  <2> QED BY <1>1, <2>1, <2>2
<1> QED BY <1>3, <1>4

LEMMA LiveShrinks ==
  ASSUME PoolAssumption, LiveCounted, liveCount \in [1 .. MaxSlabs -> Int],
         NEW o \in Pool!Objects, liveCount' = [liveCount EXCEPT ![o[1]] = @ - 1],
         IsLive(o), \A q \in Pool!Objects : IsLive(q)' <=> IsLive(q) /\ q # o
  PROVE  LiveCounted'
<1> SUFFICES ASSUME NEW n \in 1 .. MaxSlabs
             PROVE  liveCount'[n] = Cardinality({q \in Pool!Objects : q[1] = n /\ IsLive(q)'})
  BY DEF LiveCounted
<1> DEFINE old == {q \in Pool!Objects : q[1] = n /\ IsLive(q)}
           new == {q \in Pool!Objects : q[1] = n /\ IsLive(q)'}
<1>1. IsFiniteSet(old) /\ liveCount[n] = Cardinality(old)
  BY ObjectsFinite, FS_Subset DEF LiveCounted
<1>2. o[1] \in 1 .. MaxSlabs
  BY DEF Pool!Objects
<1>3. CASE n = o[1]
  <2>1. new = old \ {o} /\ o \in old
    BY <1>3
  <2>2. liveCount'[n] = liveCount[n] - 1
    BY <1>2, <1>3
  <2> HIDE DEF old, new
  <2>3. Cardinality(new) = Cardinality(old) - 1
    BY <1>1, <2>1, FS_RemoveElement
  <2> QED BY <1>1, <2>2, <2>3 DEF new
<1>4. CASE n # o[1]
  <2>1. new = old
    BY <1>4
  <2>2. liveCount'[n] = liveCount[n]
    BY <1>2, <1>4
  <2> HIDE DEF old
  <2> QED BY <1>1, <2>1, <2>2
<1> QED BY <1>3, <1>4

LEMMA LiveSame ==
  ASSUME LiveCounted, UNCHANGED liveCount, \A q \in Pool!Objects : IsLive(q)' <=> IsLive(q)
  PROVE  LiveCounted'
<1> SUFFICES ASSUME NEW n \in 1 .. MaxSlabs
             PROVE  liveCount'[n] = Cardinality({q \in Pool!Objects : q[1] = n /\ IsLive(q)'})
  BY DEF LiveCounted
<1>1. {q \in Pool!Objects : q[1] = n /\ IsLive(q)'} = {q \in Pool!Objects : q[1] = n /\ IsLive(q)}
  OBVIOUS
<1> QED BY <1>1 DEF LiveCounted

\* Steps that move no object.
LEMMA NothingMoves ==
  ASSUME UNCHANGED <<slabs, initial, mine, held>>
  PROVE  /\ Pool!GivenOut' = Pool!GivenOut /\ Resting' = Resting
         /\ \A o : Held(o)' <=> Held(o)
         /\ \A o : Pool!Pointers(o)' = Pool!Pointers(o)
<1>1. Pool!GivenOut' = Pool!GivenOut
  BY DEF Pool!GivenOut
<1>2. \A o : (Held(o)' <=> Held(o)) /\ (Moved(o)' <=> Moved(o))
  BY DEF Held, Moved
<1>3. \A o : Pool!Pointers(o)' = Pool!Pointers(o)
  BY DEF Pool!Pointers
<1>4. Resting' = Resting
  BY <1>1, <1>2 DEF Resting
<1> QED BY <1>1, <1>2, <1>3, <1>4

\* The list is not touched.
LEMMA QueuedSame ==
  ASSUME Queued, UNCHANGED top, Resting' = Resting, \A o \in Resting : link'[o] = link[o]
  PROVE  Queued'
BY ListedSame DEF Queued

LEMMA RestingTypes ==
  Resting \subseteq Pool!GivenOut /\ Pool!GivenOut \subseteq Pool!Objects
BY DEF Resting, Pool!GivenOut

LEMMA AllocateInv ==
  ASSUME PoolAssumption, SharedInv, NEW t \in Holders, Pool!Allocate(t)
  PROVE  SharedInv'
<1>1. /\ poolPc[t] = "idle" /\ t \in Allocators
      /\ seen' = [seen EXCEPT ![t] = top]
      /\ poolPc' = [poolPc EXCEPT ![t] = IF top = NoObject THEN "fresh" ELSE "read"]
      /\ UNCHANGED <<top, link, slabs, initial, liveCount, refs, mine, next, held>>
  BY DEF Pool!Allocate, Pool!Goto, NoObject
<1>2. SharedTypes /\ MoversApart /\ RefsCounted /\ SeenListed /\ LiveCounted /\ Queued
  BY DEF SharedInv
<1>3. /\ Pool!GivenOut' = Pool!GivenOut /\ Resting' = Resting
      /\ \A o : Held(o)' <=> Held(o)
      /\ \A o : Pool!Pointers(o)' = Pool!Pointers(o)
  BY <1>1, NothingMoves
<1>4. SharedTypes'
  BY <1>1, <1>2 DEF SharedTypes
<1>5. MoversApart'
  BY <1>1, <1>2, <1>3 DEF MoversApart, SharedTypes
<1>6. RefsCounted'
  BY <1>1, <1>2, <1>3 DEF RefsCounted, SharedTypes
<1>7. top # NoObject => top \in Resting
  BY <1>2, ListedPop DEF Queued
<1>8. SeenListed'
  BY <1>1, <1>2, <1>3, <1>7 DEF SeenListed, SharedTypes
<1>9. \A q : IsLive(q)' <=> IsLive(q)
  BY <1>1, <1>2, <1>3 DEF IsLive, SharedTypes
<1>10. LiveCounted' /\ Queued'
  BY <1>1, <1>2, <1>3, <1>9, LiveSame, QueuedSame
<1> QED BY <1>4, <1>5, <1>6, <1>8, <1>10 DEF SharedInv

LEMMA ReadNextInv ==
  ASSUME PoolAssumption, SharedInv, NEW t \in Holders, Pool!ReadNext(t)
  PROVE  SharedInv'
<1>1. /\ poolPc[t] = "read"
      /\ next' = [next EXCEPT ![t] = link[seen[t]]]
      /\ poolPc' = [poolPc EXCEPT ![t] = "pop"]
      /\ UNCHANGED <<top, link, slabs, initial, liveCount, refs, mine, seen, held>>
  BY DEF Pool!ReadNext, Pool!Goto
<1>2. SharedTypes /\ MoversApart /\ RefsCounted /\ SeenListed /\ LiveCounted /\ Queued
  BY DEF SharedInv
<1>3. /\ Pool!GivenOut' = Pool!GivenOut /\ Resting' = Resting
      /\ \A o : Held(o)' <=> Held(o)
      /\ \A o : Pool!Pointers(o)' = Pool!Pointers(o)
  BY <1>1, NothingMoves
<1>a. seen[t] \in Resting /\ t \in Allocators
  BY <1>1, <1>2 DEF SeenListed
<1>b. link[seen[t]] \in Places
  BY <1>a, <1>2, RestingTypes DEF SharedTypes
<1>4. SharedTypes'
  BY <1>1, <1>2, <1>b DEF SharedTypes
<1>5. MoversApart'
  BY <1>1, <1>2, <1>3 DEF MoversApart, SharedTypes
<1>6. RefsCounted'
  BY <1>1, <1>2, <1>3 DEF RefsCounted, SharedTypes
<1>8. SeenListed'
  BY <1>1, <1>2, <1>3, <1>a DEF SeenListed, SharedTypes
<1>9. \A q : IsLive(q)' <=> IsLive(q)
  BY <1>1, <1>2, <1>3 DEF IsLive, SharedTypes
<1>10. LiveCounted' /\ Queued'
  BY <1>1, <1>2, <1>3, <1>9, LiveSame, QueuedSame
<1> QED BY <1>4, <1>5, <1>6, <1>8, <1>10 DEF SharedInv

LEMMA ReviveInv ==
  ASSUME PoolAssumption, SharedInv, NEW t \in Holders, Pool!Revive(t)
  PROVE  SharedInv'
<1>1. /\ poolPc[t] = "revive"
      /\ liveCount' = [liveCount EXCEPT ![mine[t][1]] = @ + 1]
      /\ refs' = [refs EXCEPT ![mine[t]] = 1]
      /\ poolPc' = [poolPc EXCEPT ![t] = "construct"]
      /\ UNCHANGED <<top, link, slabs, initial, mine, seen, next, held>>
  BY DEF Pool!Revive, Pool!Goto, Pool!local
<1>2. SharedTypes /\ MoversApart /\ RefsCounted /\ SeenListed /\ LiveCounted /\ Queued
  BY DEF SharedInv
<1>3. /\ Pool!GivenOut' = Pool!GivenOut /\ Resting' = Resting
      /\ \A o : Held(o)' <=> Held(o)
      /\ \A o : Pool!Pointers(o)' = Pool!Pointers(o)
  BY <1>1, NothingMoves
<1>a. /\ mine[t] # NoObject /\ mine[t] \in Pool!Objects /\ ~ Held(mine[t])
      /\ \A u \in Holders : mine[u] = mine[t] => u = t
  BY <1>1, <1>2, RestingTypes DEF MoversApart
<1>b. mine[t][1] \in 1 .. MaxSlabs
  BY <1>a DEF Pool!Objects
<1>4. SharedTypes'
  <2>1. liveCount' \in [1 .. MaxSlabs -> Int]
    BY <1>1, <1>2, <1>b DEF SharedTypes
  <2>2. refs' \in [Pool!Objects -> Int]
    BY <1>1, <1>2, <1>a DEF SharedTypes
  <2> QED BY <1>1, <1>2, <2>1, <2>2 DEF SharedTypes
<1>5. MoversApart'
  BY <1>1, <1>2, <1>3 DEF MoversApart, SharedTypes
<1>6. RefsCounted'
  BY <1>1, <1>2, <1>3, <1>a DEF RefsCounted, SharedTypes
<1>8. SeenListed'
  BY <1>1, <1>2, <1>3 DEF SeenListed, SharedTypes
<1>9. ~ IsLive(mine[t]) /\ \A q : IsLive(q)' <=> IsLive(q) \/ q = mine[t]
  <2>1. ~ IsLive(mine[t])
    BY <1>1, <1>a DEF IsLive
  <2>2. \A u \in Holders : poolPc'[u] = IF u = t THEN "construct" ELSE poolPc[u]
    BY <1>1, <1>2 DEF SharedTypes
  <2> QED BY <1>1, <1>3, <1>a, <2>1, <2>2 DEF IsLive
<1>10. LiveCounted' /\ Queued'
  <2>1. LiveCounted'
    BY <1>1, <1>2, <1>a, <1>9, LiveGrows DEF SharedTypes
  <2> QED BY <2>1, <1>1, <1>2, <1>3, QueuedSame
<1> QED BY <1>4, <1>5, <1>6, <1>8, <1>10 DEF SharedInv
\* Under the top nobody but the allocating thread takes away: the pointer it has read is the
\* one that is there.
LEMMA PopInv ==
  ASSUME PoolAssumption, SharedInv, NEW t \in Holders, Pool!Pop(t)
  PROVE  SharedInv'
<1>1. poolPc[t] = "pop" /\ UNCHANGED <<link, slabs, initial, liveCount, refs, held>>
  BY DEF Pool!Pop
<1>2. SharedTypes /\ MoversApart /\ RefsCounted /\ SeenListed /\ LiveCounted /\ Queued
  BY DEF SharedInv
<1>a. seen[t] \in Resting /\ t \in Allocators /\ next[t] = link[seen[t]] /\ mine[t] = NoObject
  BY <1>1, <1>2 DEF SeenListed, MoversApart
<1>b. seen[t] \in Pool!GivenOut /\ seen[t] \in Pool!Objects /\ ~ Held(seen[t]) /\ ~ Moved(seen[t])
      /\ seen[t] # NoObject
  BY <1>a, RestingTypes, ObjectsFinite DEF Resting
<1>3. CASE top = seen[t] /\ top' = next[t]
  <2>1. /\ mine' = [mine EXCEPT ![t] = seen[t]]
        /\ poolPc' = [poolPc EXCEPT ![t] = "revive"]
        /\ seen' = [seen EXCEPT ![t] = NoObject] /\ next' = [next EXCEPT ![t] = NoObject]
    BY <1>3, <1>1 DEF Pool!Pop, Pool!Goto, Pool!Forget, NoObject
  <2>2. /\ Pool!GivenOut' = Pool!GivenOut
        /\ \A o : Held(o)' <=> Held(o)
        /\ \A o : Pool!Pointers(o)' = Pool!Pointers(o)
    BY <1>1 DEF Pool!GivenOut, Held, Pool!Pointers
  <2>3. /\ \A u \in Holders : mine'[u] = IF u = t THEN seen[t] ELSE mine[u]
        /\ \A u \in Holders : poolPc'[u] = IF u = t THEN "revive" ELSE poolPc[u]
        /\ \A u \in Holders : u # t => seen'[u] = seen[u] /\ next'[u] = next[u]
    BY <2>1, <1>2 DEF SharedTypes
  <2>4. \A o : o # NoObject => (Moved(o)' <=> Moved(o) \/ o = seen[t])
    BY <2>3, <1>a DEF Moved
  <2>5. Resting' = Resting \ {top}
    BY <2>2, <2>4, <1>3, RestingTypes, ObjectsFinite DEF Resting
  <2>6. SharedTypes'
    <3>1. next[t] \in Places /\ seen[t] \in Places /\ NoObject \in Places
      BY <1>2 DEF SharedTypes, Places
    <3> QED BY <3>1, <2>1, <1>1, <1>2, <1>3 DEF SharedTypes
  <2>7. MoversApart'
    <3>1. \A u \in Holders : mine[u] # seen[t]
      BY <1>b DEF Moved
    <3> QED BY <3>1, <2>2, <2>3, <1>2, <1>a, <1>b, <1>1 DEF MoversApart
  <2>8. RefsCounted'
    BY <2>2, <2>3, <1>1, <1>2 DEF RefsCounted
  <2>9. SeenListed'
    <3>1. \A u \in Holders : u # t => poolPc[u] \notin {"read", "pop"}
      BY <1>2, <1>a DEF SeenListed, PoolAssumption
    <3> QED BY <3>1, <2>3, <1>1, <1>2 DEF SeenListed
  <2>10. LiveCounted'
    <3>1. \A q \in Pool!Objects : IsLive(q)' <=> IsLive(q)
      BY <2>2, <2>3, <1>1 DEF IsLive
    <3> QED BY <3>1, <1>1, <1>2, LiveSame
  <2>11. Queued'
    <3>1. Listed(link[top], link, Resting \ {top}, NoObject)
      BY <1>2, <1>3, <1>b, ListedPop DEF Queued
    <3> QED BY <3>1, <2>5, <1>1, <1>3, <1>a DEF Queued
  <2> QED BY <2>6, <2>7, <2>8, <2>9, <2>10, <2>11 DEF SharedInv
<1>4. CASE top # seen[t]
  <2>1. /\ seen' = [seen EXCEPT ![t] = top] /\ next' = [next EXCEPT ![t] = NoObject]
        /\ poolPc' = [poolPc EXCEPT ![t] = IF top = NoObject THEN "fresh" ELSE "read"]
        /\ UNCHANGED <<top, mine>>
    BY <1>4 DEF Pool!Pop, Pool!Goto, NoObject
  <2>2. /\ Pool!GivenOut' = Pool!GivenOut /\ Resting' = Resting
        /\ \A o : Held(o)' <=> Held(o)
        /\ \A o : Pool!Pointers(o)' = Pool!Pointers(o)
    BY <1>1, <2>1, NothingMoves
  <2>3. SharedTypes'
    <3>1. top \in Places /\ NoObject \in Places
      BY <1>2 DEF SharedTypes, Places
    <3> QED BY <3>1, <1>1, <1>2, <2>1 DEF SharedTypes
  <2>4. MoversApart'
    BY <1>1, <1>2, <2>1, <2>2 DEF MoversApart, SharedTypes
  <2>5. RefsCounted'
    BY <1>1, <1>2, <2>1, <2>2 DEF RefsCounted, SharedTypes
  <2>6. top # NoObject => top \in Resting
    BY <1>2, ListedPop DEF Queued
  <2>7. SeenListed'
    BY <1>1, <1>2, <1>a, <2>1, <2>2, <2>6 DEF SeenListed, SharedTypes
  <2>8. \A q \in Pool!Objects : IsLive(q)' <=> IsLive(q)
    BY <1>1, <1>2, <2>1, <2>2 DEF IsLive, SharedTypes
  <2>9. LiveCounted' /\ Queued'
    BY <1>1, <1>2, <2>1, <2>2, <2>8, LiveSame, QueuedSame
  <2> QED BY <2>3, <2>4, <2>5, <2>7, <2>9 DEF SharedInv
<1> QED BY <1>3, <1>4 DEF Pool!Pop

LEMMA FreshFailsInv ==
  ASSUME PoolAssumption, SharedInv, NEW t \in Holders, Pool!FreshFails(t)
  PROVE  SharedInv'
<1>1. /\ poolPc[t] = "fresh"
      /\ poolPc' = [poolPc EXCEPT ![t] = "idle"]
      /\ UNCHANGED <<top, link, slabs, initial, liveCount, refs, mine, seen, next, held>>
  BY DEF Pool!FreshFails, Pool!Goto, Pool!local
<1>2. SharedTypes /\ MoversApart /\ RefsCounted /\ SeenListed /\ LiveCounted /\ Queued
  BY DEF SharedInv
<1>3. /\ Pool!GivenOut' = Pool!GivenOut /\ Resting' = Resting
      /\ \A o : Held(o)' <=> Held(o)
      /\ \A o : Pool!Pointers(o)' = Pool!Pointers(o)
  BY <1>1, NothingMoves
<1>4. SharedTypes'
  BY <1>1, <1>2 DEF SharedTypes
<1>5. MoversApart'
  BY <1>1, <1>2, <1>3 DEF MoversApart, SharedTypes
<1>6. RefsCounted'
  BY <1>1, <1>2, <1>3 DEF RefsCounted, SharedTypes
<1>8. SeenListed'
  BY <1>1, <1>2, <1>3 DEF SeenListed, SharedTypes
<1>9. \A q : IsLive(q)' <=> IsLive(q)
  BY <1>1, <1>2, <1>3 DEF IsLive, SharedTypes
<1>10. LiveCounted' /\ Queued'
  BY <1>1, <1>2, <1>3, <1>9, LiveSame, QueuedSame
<1> QED BY <1>4, <1>5, <1>6, <1>8, <1>10 DEF SharedInv

LEMMA UncountInv ==
  ASSUME PoolAssumption, SharedInv, NEW t \in Holders, Pool!Uncount(t)
  PROVE  SharedInv'
<1>1. /\ poolPc[t] = "uncount"
      /\ liveCount' = [liveCount EXCEPT ![mine[t][1]] = @ - 1]
      /\ poolPc' = [poolPc EXCEPT ![t] = "load"]
      /\ UNCHANGED <<top, link, slabs, initial, refs, mine, seen, next, held>>
  BY DEF Pool!Uncount, Pool!Goto, Pool!local
<1>2. SharedTypes /\ MoversApart /\ RefsCounted /\ SeenListed /\ LiveCounted /\ Queued
  BY DEF SharedInv
<1>3. /\ Pool!GivenOut' = Pool!GivenOut /\ Resting' = Resting
      /\ \A o : Held(o)' <=> Held(o)
      /\ \A o : Pool!Pointers(o)' = Pool!Pointers(o)
  BY <1>1, NothingMoves
<1>a. /\ mine[t] # NoObject /\ mine[t] \in Pool!Objects /\ ~ Held(mine[t])
      /\ \A u \in Holders : mine[u] = mine[t] => u = t
  BY <1>1, <1>2, RestingTypes DEF MoversApart
<1>b. mine[t][1] \in 1 .. MaxSlabs
  BY <1>a DEF Pool!Objects
<1>4. SharedTypes'
  <2>1. liveCount' \in [1 .. MaxSlabs -> Int]
    BY <1>1, <1>2, <1>b DEF SharedTypes
  <2> QED BY <1>1, <1>2, <2>1 DEF SharedTypes
<1>5. MoversApart'
  BY <1>1, <1>2, <1>3 DEF MoversApart, SharedTypes
<1>6. RefsCounted'
  BY <1>1, <1>2, <1>3 DEF RefsCounted, SharedTypes
<1>8. SeenListed'
  BY <1>1, <1>2, <1>3 DEF SeenListed, SharedTypes
<1>9. IsLive(mine[t]) /\ \A q : IsLive(q)' <=> IsLive(q) /\ q # mine[t]
  <2>1. IsLive(mine[t])
    BY <1>1, <1>a DEF IsLive
  <2>2. \A u \in Holders : poolPc'[u] = IF u = t THEN "load" ELSE poolPc[u]
    BY <1>1, <1>2 DEF SharedTypes
  <2> QED BY <1>1, <1>3, <1>a, <2>1, <2>2 DEF IsLive
<1>10. LiveCounted' /\ Queued'
  <2>1. LiveCounted'
    BY <1>1, <1>2, <1>a, <1>9, LiveShrinks DEF SharedTypes
  <2> QED BY <2>1, <1>1, <1>2, <1>3, QueuedSame
<1> QED BY <1>4, <1>5, <1>6, <1>8, <1>10 DEF SharedInv

LEMMA LoadTopInv ==
  ASSUME PoolAssumption, SharedInv, NEW t \in Holders, Pool!LoadTop(t)
  PROVE  SharedInv'
<1>1. /\ poolPc[t] = "load"
      /\ seen' = [seen EXCEPT ![t] = top]
      /\ poolPc' = [poolPc EXCEPT ![t] = "link"]
      /\ UNCHANGED <<top, link, slabs, initial, liveCount, refs, mine, next, held>>
  BY DEF Pool!LoadTop, Pool!Goto
<1>2. SharedTypes /\ MoversApart /\ RefsCounted /\ SeenListed /\ LiveCounted /\ Queued
  BY DEF SharedInv
<1>3. /\ Pool!GivenOut' = Pool!GivenOut /\ Resting' = Resting
      /\ \A o : Held(o)' <=> Held(o)
      /\ \A o : Pool!Pointers(o)' = Pool!Pointers(o)
  BY <1>1, NothingMoves
<1>4. SharedTypes'
  BY <1>1, <1>2 DEF SharedTypes
<1>5. MoversApart'
  BY <1>1, <1>2, <1>3 DEF MoversApart, SharedTypes
<1>6. RefsCounted'
  BY <1>1, <1>2, <1>3 DEF RefsCounted, SharedTypes
<1>8. SeenListed'
  BY <1>1, <1>2, <1>3 DEF SeenListed, SharedTypes
<1>9. \A q : IsLive(q)' <=> IsLive(q)
  BY <1>1, <1>2, <1>3 DEF IsLive, SharedTypes
<1>10. LiveCounted' /\ Queued'
  BY <1>1, <1>2, <1>3, <1>9, LiveSame, QueuedSame
<1> QED BY <1>4, <1>5, <1>6, <1>8, <1>10 DEF SharedInv

\* The bytes of an object on its way are its thread's to write.
LEMMA LinkInv ==
  ASSUME PoolAssumption, SharedInv, NEW t \in Holders, Pool!Link(t)
  PROVE  SharedInv'
<1>1. /\ poolPc[t] = "link"
      /\ link' = [link EXCEPT ![mine[t]] = seen[t]]
      /\ poolPc' = [poolPc EXCEPT ![t] = "push"]
      /\ UNCHANGED <<top, slabs, initial, liveCount, refs, mine, seen, next, held>>
  BY DEF Pool!Link, Pool!Goto, Pool!local
<1>2. SharedTypes /\ MoversApart /\ RefsCounted /\ SeenListed /\ LiveCounted /\ Queued
  BY DEF SharedInv
<1>3. /\ Pool!GivenOut' = Pool!GivenOut /\ Resting' = Resting
      /\ \A o : Held(o)' <=> Held(o)
      /\ \A o : Pool!Pointers(o)' = Pool!Pointers(o)
  BY <1>1, NothingMoves
<1>a. /\ mine[t] # NoObject /\ mine[t] \in Pool!Objects
      /\ \A u \in Holders : mine[u] = mine[t] => u = t
  BY <1>1, <1>2, RestingTypes DEF MoversApart
<1>b. mine[t] \notin Resting
  BY DEF Resting, Moved
<1>c. link'[mine[t]] = seen[t] /\ \A o \in Pool!Objects : o # mine[t] => link'[o] = link[o]
  BY <1>1, <1>2, <1>a DEF SharedTypes
<1>4. SharedTypes'
  <2>1. seen[t] \in Places
    BY <1>2 DEF SharedTypes
  <2> QED BY <1>1, <1>2, <2>1 DEF SharedTypes
<1>5. MoversApart'
  BY <1>1, <1>2, <1>3 DEF MoversApart, SharedTypes
<1>6. RefsCounted'
  BY <1>1, <1>2, <1>3 DEF RefsCounted, SharedTypes
<1>8. SeenListed'
  <2>1. \A u \in Holders : poolPc'[u] = IF u = t THEN "push" ELSE poolPc[u]
    BY <1>1, <1>2 DEF SharedTypes
  <2>2. \A o \in Resting : link'[o] = link[o]
    BY <1>b, <1>c, RestingTypes
  <2>3. \A u \in Holders : poolPc[u] = "push" => mine[u] \in Pool!Objects /\ mine[u] # mine[t]
    BY <1>1, <1>2, <1>a, RestingTypes DEF MoversApart
  <2> QED BY <1>1, <1>2, <1>3, <1>c, <2>1, <2>2, <2>3 DEF SeenListed
<1>9. \A q : IsLive(q)' <=> IsLive(q)
  BY <1>1, <1>2, <1>3 DEF IsLive, SharedTypes
<1>10. LiveCounted' /\ Queued'
  <2>1. \A o \in Resting : link'[o] = link[o]
    BY <1>b, <1>c, RestingTypes
  <2> QED BY <2>1, <1>1, <1>2, <1>3, <1>9, LiveSame, QueuedSame
<1> QED BY <1>4, <1>5, <1>6, <1>8, <1>10 DEF SharedInv

LEMMA PushObjectInv ==
  ASSUME PoolAssumption, SharedInv, NEW t \in Holders, Pool!Push(t)
  PROVE  SharedInv'
<1>1. poolPc[t] = "push" /\ UNCHANGED <<link, slabs, initial, liveCount, refs, held>>
  BY DEF Pool!Push
<1>2. SharedTypes /\ MoversApart /\ RefsCounted /\ SeenListed /\ LiveCounted /\ Queued
  BY DEF SharedInv
<1>a. /\ mine[t] # NoObject /\ mine[t] \in Pool!Objects /\ mine[t] \in Pool!GivenOut
      /\ ~ Held(mine[t]) /\ link[mine[t]] = seen[t]
      /\ \A u \in Holders : mine[u] = mine[t] => u = t
  BY <1>1, <1>2, RestingTypes DEF MoversApart, SeenListed
<1>b. mine[t] \notin Resting
  BY DEF Resting, Moved
<1>3. CASE top = seen[t] /\ top' = mine[t]
  <2>1. /\ mine' = [mine EXCEPT ![t] = NoObject]
        /\ poolPc' = [poolPc EXCEPT ![t] = "idle"]
        /\ seen' = [seen EXCEPT ![t] = NoObject] /\ next' = [next EXCEPT ![t] = NoObject]
    BY <1>3, <1>1, ~ (top # seen[t]) DEF Pool!Push, Pool!Goto, Pool!Forget, NoObject
  <2>2. /\ Pool!GivenOut' = Pool!GivenOut
        /\ \A o : Held(o)' <=> Held(o)
        /\ \A o : Pool!Pointers(o)' = Pool!Pointers(o)
    BY <1>1 DEF Pool!GivenOut, Held, Pool!Pointers
  <2>3. /\ \A u \in Holders : mine'[u] = IF u = t THEN NoObject ELSE mine[u]
        /\ \A u \in Holders : poolPc'[u] = IF u = t THEN "idle" ELSE poolPc[u]
        /\ \A u \in Holders : u # t => seen'[u] = seen[u] /\ next'[u] = next[u]
    BY <2>1, <1>2 DEF SharedTypes
  <2>4. \A o : o # NoObject => (Moved(o)' <=> Moved(o) /\ o # mine[t])
    BY <2>3, <1>a DEF Moved
  <2>5. Resting' = Resting \cup {mine[t]}
    BY <2>2, <2>4, <1>a, RestingTypes, ObjectsFinite DEF Resting
  <2>6. SharedTypes'
    <3>1. mine[t] \in Places /\ NoObject \in Places
      BY <1>2 DEF SharedTypes, Places
    <3> QED BY <3>1, <2>1, <1>1, <1>2, <1>3 DEF SharedTypes
  <2>7. MoversApart'
    BY <2>2, <2>3, <1>2, <1>1 DEF MoversApart
  <2>8. RefsCounted'
    BY <2>2, <2>3, <1>1, <1>2 DEF RefsCounted
  <2>9. SeenListed'
    BY <2>3, <2>5, <1>1, <1>2 DEF SeenListed
  <2>10. LiveCounted'
    <3>1. \A q \in Pool!Objects : IsLive(q)' <=> IsLive(q)
      BY <2>2, <2>3, <1>1, ObjectsFinite DEF IsLive
    <3> QED BY <3>1, <1>1, <1>2, LiveSame
  <2>11. Queued'
    <3>1. Listed(mine[t], link, Resting \cup {mine[t]}, NoObject)
      BY <1>2, <1>3, <1>a, <1>b, ListedPush DEF Queued
    <3> QED BY <3>1, <2>5, <1>1, <1>3 DEF Queued
  <2> QED BY <2>6, <2>7, <2>8, <2>9, <2>10, <2>11 DEF SharedInv
<1>4. CASE top # seen[t]
  <2>1. /\ seen' = [seen EXCEPT ![t] = top]
        /\ poolPc' = [poolPc EXCEPT ![t] = "link"]
        /\ UNCHANGED <<top, mine, next>>
    BY <1>4 DEF Pool!Push, Pool!Goto, NoObject
  <2>2. /\ Pool!GivenOut' = Pool!GivenOut /\ Resting' = Resting
        /\ \A o : Held(o)' <=> Held(o)
        /\ \A o : Pool!Pointers(o)' = Pool!Pointers(o)
    BY <1>1, <2>1, NothingMoves
  <2>3. SharedTypes'
    <3>1. top \in Places
      BY <1>2 DEF SharedTypes
    <3> QED BY <3>1, <1>1, <1>2, <2>1 DEF SharedTypes
  <2>4. MoversApart'
    BY <1>1, <1>2, <2>1, <2>2 DEF MoversApart, SharedTypes
  <2>5. RefsCounted'
    BY <1>1, <1>2, <2>1, <2>2 DEF RefsCounted, SharedTypes
  <2>7. SeenListed'
    BY <1>1, <1>2, <2>1, <2>2 DEF SeenListed, SharedTypes
  <2>8. \A q \in Pool!Objects : IsLive(q)' <=> IsLive(q)
    BY <1>1, <1>2, <2>1, <2>2 DEF IsLive, SharedTypes
  <2>9. LiveCounted' /\ Queued'
    BY <1>1, <1>2, <2>1, <2>2, <2>8, LiveSame, QueuedSame
  <2> QED BY <2>3, <2>4, <2>5, <2>7, <2>9 DEF SharedInv
<1> QED BY <1>3, <1>4 DEF Pool!Push
LEMMA FreshInv ==
  ASSUME PoolAssumption, SharedInv, NEW t \in Holders, Pool!Fresh(t)
  PROVE  SharedInv'
<1> DEFINE full == slabs = 0 \/ initial = MaxObjects
           n == IF full THEN slabs + 1 ELSE slabs
           i == IF full THEN 0 ELSE initial
           o == <<n, i>>
<1>1. /\ poolPc[t] = "fresh" /\ (full => slabs < MaxSlabs)
      /\ slabs' = n /\ initial' = i + 1
      /\ liveCount' = [liveCount EXCEPT ![n] = @ + 1]
      /\ refs' = [refs EXCEPT ![o] = 1]
      /\ mine' = [mine EXCEPT ![t] = o]
      /\ poolPc' = [poolPc EXCEPT ![t] = "construct"]
      /\ UNCHANGED <<top, link, seen, next, held>>
  BY DEF Pool!Fresh, Pool!Goto
<1>2. SharedTypes /\ MoversApart /\ RefsCounted /\ SeenListed /\ LiveCounted /\ Queued
  BY DEF SharedInv
<1>a. n \in 1 .. MaxSlabs /\ i \in 0 .. MaxObjects - 1 /\ slabs \in Nat /\ initial \in Nat
      /\ MaxObjects \in Nat /\ o \in Pool!Objects /\ o[1] = n /\ o[2] = i
  <2>1. /\ slabs \in 0 .. MaxSlabs /\ initial \in 0 .. MaxObjects
        /\ MaxObjects \in Nat /\ MaxSlabs \in Nat /\ MaxObjects > 0
    BY <1>2 DEF SharedTypes, PoolAssumption
  <2>2. n \in 1 .. MaxSlabs /\ i \in 0 .. MaxObjects - 1
    BY <1>1, <2>1
  <2> QED BY <2>1, <2>2 DEF Pool!Objects
<1>b. \A q \in Pool!Objects : q[1] \in Nat /\ q[1] >= 1 /\ q[2] \in Nat /\ q[2] < MaxObjects
                              /\ (q = o <=> q[1] = n /\ q[2] = i)
  BY <1>a DEF Pool!Objects
<1>c. Pool!GivenOut' = Pool!GivenOut \cup {o} /\ o \notin Pool!GivenOut
  <2>1. \A q \in Pool!Objects :
          (q[1] < slabs' \/ (q[1] = slabs' /\ q[2] < initial'))
          <=> (q[1] < slabs \/ (q[1] = slabs /\ q[2] < initial)) \/ q = o
    <3>1. CASE full
      <4>1. /\ slabs' = slabs + 1 /\ initial' = 1 /\ n = slabs + 1 /\ i = 0
            /\ slabs = 0 \/ initial = MaxObjects
        BY <3>1, <1>1
      <4> HIDE DEF full, n, i, o
      <4> QED BY <4>1, <1>a, <1>b
    <3>2. CASE ~ full
      BY <3>2, <1>1, <1>a, <1>b
    <3> QED BY <3>1, <3>2
  <2>2. ~ (n < slabs \/ (n = slabs /\ i < initial))
    BY <1>a
  <2> QED BY <2>1, <2>2, <1>a DEF Pool!GivenOut
<1> HIDE DEF full, n, i
<1>d. o # NoObject /\ ~ Held(o) /\ ~ Moved(o)
  BY <1>a, <1>c, <1>2, ObjectsFinite DEF RefsCounted, MoversApart, Moved
<1> HIDE DEF o
<1>e. mine[t] = NoObject
  BY <1>1, <1>2 DEF MoversApart
<1>f. /\ \A u \in Holders : mine'[u] = IF u = t THEN o ELSE mine[u]
      /\ \A u \in Holders : poolPc'[u] = IF u = t THEN "construct" ELSE poolPc[u]
      /\ \A q \in Pool!Objects : refs'[q] = IF q = o THEN 1 ELSE refs[q]
  BY <1>1, <1>2 DEF SharedTypes
<1>g. /\ \A q : Held(q)' <=> Held(q)
      /\ \A q : Pool!Pointers(q)' = Pool!Pointers(q)
  BY <1>1 DEF Held, Pool!Pointers
<1>h. \A q : q # NoObject => (Moved(q)' <=> Moved(q) \/ q = o)
  BY <1>e, <1>f DEF Moved
<1>i. Resting' = Resting
  BY <1>c, <1>d, <1>g, <1>h, RestingTypes, ObjectsFinite DEF Resting
<1>4. SharedTypes'
  <2>1. slabs' \in 0 .. MaxSlabs /\ initial' \in 0 .. MaxObjects
    BY <1>1, <1>a
  <2>2. liveCount' \in [1 .. MaxSlabs -> Int]
    <3>1. liveCount \in [1 .. MaxSlabs -> Int] /\ n \in 1 .. MaxSlabs /\ liveCount[n] \in Int
      BY <1>2, <1>a DEF SharedTypes
    <3>2. liveCount' = [liveCount EXCEPT ![n] = liveCount[n] + 1]
      BY <1>1
    <3> QED BY <3>1, <3>2
  <2>5. refs' \in [Pool!Objects -> Int]
    BY <1>1, <1>2, <1>a DEF SharedTypes
  <2>3. mine' \in [Holders -> Places]
    BY <1>1, <1>2, <1>a DEF SharedTypes, Places
  <2>4. poolPc' \in [Holders -> {"idle", "read", "pop", "revive", "fresh", "construct",
                                 "uncount", "load", "link", "push"}]
    BY <1>1, <1>2 DEF SharedTypes
  <2> QED BY <1>1, <1>2, <2>1, <2>2, <2>3, <2>4, <2>5 DEF SharedTypes
<1>5. MoversApart'
  <2>1. \A u \in Holders : mine[u] # o
    BY <1>d DEF Moved
  <2> QED BY <2>1, <1>2, <1>c, <1>d, <1>f, <1>g DEF MoversApart
<1>6. RefsCounted'
  <2>1. \A q \in Pool!Objects : Held(q)' => q \in Pool!GivenOut' /\ refs'[q] = Pool!Pointers(q)'
    BY <1>2, <1>c, <1>d, <1>f, <1>g DEF RefsCounted
  <2>2. ASSUME NEW u \in Holders, poolPc'[u] = "construct" PROVE refs'[mine'[u]] = 1
    <3>1. CASE u = t
      BY <3>1, <1>a, <1>f
    <3>2. CASE u # t
      <4>1. mine'[u] = mine[u] /\ poolPc[u] = "construct"
        BY <2>2, <3>2, <1>f
      <4>2. mine[u] \in Pool!Objects /\ mine[u] # o /\ refs[mine[u]] = 1
        BY <4>1, <1>2, <1>d, RestingTypes DEF RefsCounted, MoversApart, Moved
      <4> QED BY <4>1, <4>2, <1>f
    <3> QED BY <3>1, <3>2
  <2> QED BY <2>1, <2>2 DEF RefsCounted
<1>8. SeenListed'
  BY <1>1, <1>2, <1>f, <1>i DEF SeenListed
<1>9. ~ IsLive(o) /\ \A q \in Pool!Objects : IsLive(q)' <=> IsLive(q) \/ q = o
  BY <1>1, <1>d, <1>e, <1>f, <1>g, ObjectsFinite DEF IsLive, Moved
<1>10. LiveCounted' /\ Queued'
  <2>1. LiveCounted'
    BY <1>1, <1>2, <1>a, <1>9, LiveGrows DEF SharedTypes
  <2> QED BY <2>1, <1>1, <1>2, <1>i, QueuedSame
<1> QED BY <1>4, <1>5, <1>6, <1>8, <1>10 DEF SharedInv

\* The object gets its first pointer, or goes back.
LEMMA ConstructInv ==
  ASSUME PoolAssumption, SharedInv, NEW t \in Holders, Pool!Construct(t)
  PROVE  SharedInv'
<1>1. /\ poolPc[t] = "construct"
      /\ link' = [link EXCEPT ![mine[t]] = NoObject]
      /\ UNCHANGED <<top, slabs, initial, liveCount, refs, seen, next>>
  BY DEF Pool!Construct, NoObject
<1>2. SharedTypes /\ MoversApart /\ RefsCounted /\ SeenListed /\ LiveCounted /\ Queued
  BY DEF SharedInv
<1>a. /\ mine[t] # NoObject /\ mine[t] \in Pool!Objects /\ mine[t] \in Pool!GivenOut
      /\ ~ Held(mine[t]) /\ refs[mine[t]] = 1
      /\ \A u \in Holders : mine[u] = mine[t] => u = t
  BY <1>1, <1>2, RestingTypes DEF MoversApart, RefsCounted
<1>b. mine[t] \notin Resting
  BY DEF Resting, Moved
<1>c. link'[mine[t]] = NoObject /\ \A o \in Pool!Objects : o # mine[t] => link'[o] = link[o]
  BY <1>1, <1>2, <1>a DEF SharedTypes
<1>d. link' \in [Pool!Objects -> Places]
  BY <1>1, <1>2 DEF SharedTypes, Places
<1>e. \A o \in Resting : link'[o] = link[o]
  BY <1>b, <1>c, RestingTypes
<1>f. \A u \in Holders : poolPc[u] = "push" => link'[mine[u]] = link[mine[u]]
  <2>1. \A u \in Holders : poolPc[u] = "push" => mine[u] \in Pool!Objects /\ mine[u] # mine[t]
    BY <1>1, <1>2, <1>a, RestingTypes DEF MoversApart
  <2> QED BY <2>1, <1>c
<1>3. CASE poolPc' = [poolPc EXCEPT ![t] = "uncount"] /\ UNCHANGED <<mine, held>>
  <2>1. \A u \in Holders : poolPc'[u] = IF u = t THEN "uncount" ELSE poolPc[u]
    BY <1>2, <1>3 DEF SharedTypes
  <2>2. /\ Pool!GivenOut' = Pool!GivenOut /\ Resting' = Resting
        /\ \A o : Held(o)' <=> Held(o)
        /\ \A o : Pool!Pointers(o)' = Pool!Pointers(o)
    BY <1>1, <1>3, NothingMoves
  <2>3. SharedTypes'
    BY <1>1, <1>2, <1>3, <1>d DEF SharedTypes
  <2>4. MoversApart'
    BY <1>1, <1>2, <1>3, <2>1, <2>2 DEF MoversApart
  <2>5. RefsCounted'
    BY <1>1, <1>2, <1>3, <2>1, <2>2 DEF RefsCounted
  <2>6. SeenListed'
    BY <1>1, <1>2, <1>3, <1>e, <1>f, <2>1, <2>2 DEF SeenListed
  <2>7. \A q : IsLive(q)' <=> IsLive(q)
    BY <1>1, <1>3, <2>1, <2>2 DEF IsLive
  <2>8. LiveCounted' /\ Queued'
    BY <1>1, <1>2, <1>e, <2>2, <2>7, LiveSame, QueuedSame
  <2> QED BY <2>3, <2>4, <2>5, <2>6, <2>8 DEF SharedInv
<1>4. CASE /\ held' = [held EXCEPT ![t][mine[t]] = @ + 1]
           /\ mine' = [mine EXCEPT ![t] = NoObject]
           /\ poolPc' = [poolPc EXCEPT ![t] = "idle"]
  <2>o. PICK o : o = mine[t]
    OBVIOUS
  <2>1. /\ \A u \in Holders : mine'[u] = IF u = t THEN NoObject ELSE mine[u]
        /\ \A u \in Holders : poolPc'[u] = IF u = t THEN "idle" ELSE poolPc[u]
    BY <1>2, <1>4 DEF SharedTypes
  <2>2. \A u \in Holders : \A q \in Pool!Objects :
          held'[u][q] = IF u = t /\ q = o THEN held[t][o] + 1 ELSE held[u][q]
    BY <2>o, <1>2, <1>4, <1>a DEF SharedTypes
  <2>3. held[t][o] = 0 /\ \A u \in Holders : \A q \in Pool!Objects : held[u][q] \in 0 .. MaxRefs
    BY <2>o, <1>2, <1>a DEF SharedTypes, Held
  <2>4. Pool!GivenOut' = Pool!GivenOut
    BY <1>1 DEF Pool!GivenOut
  <2>5. \A q \in Pool!Objects : Held(q)' <=> Held(q) \/ q = o
    BY <2>o, <2>2, <2>3 DEF Held
  <2>6. \A q \in Pool!Objects : Moved(q)' <=> Moved(q) /\ q # o
    BY <2>o, <2>1, <1>a, ObjectsFinite DEF Moved
  <2>7. Resting' = Resting
    BY <2>o, <2>4, <2>5, <2>6, RestingTypes DEF Resting, Moved
  <2>8. SharedTypes'
    <3>1. held' \in [Holders -> [Pool!Objects -> 0 .. MaxRefs]]
      <4>1. [held[t] EXCEPT ![o] = @ + 1] \in [Pool!Objects -> 0 .. MaxRefs]
        <5>1. held[t] \in [Pool!Objects -> 0 .. MaxRefs] /\ held[t][o] + 1 \in 0 .. MaxRefs
          BY <1>2, <2>3 DEF SharedTypes, PoolAssumption
        <5> QED BY <5>1
      <4>2. held' = [held EXCEPT ![t] = [held[t] EXCEPT ![o] = @ + 1]]
        BY <2>o, <1>4
      <4> QED BY <4>1, <4>2, <1>2 DEF SharedTypes
    <3>2. mine' \in [Holders -> Places]
      BY <1>2, <1>4 DEF SharedTypes, Places
    <3>3. poolPc' \in [Holders -> {"idle", "read", "pop", "revive", "fresh", "construct",
                                   "uncount", "load", "link", "push"}]
      BY <1>2, <1>4 DEF SharedTypes
    <3> QED BY <1>1, <1>2, <1>d, <3>1, <3>2, <3>3 DEF SharedTypes
  <2>9. MoversApart'
    <3>1. \A u \in Holders : u # t => mine[u] # o
      BY <2>o, <1>a
    <3>2. \A u \in Holders : mine[u] # NoObject => mine[u] \in Pool!Objects
      BY <1>2, RestingTypes DEF MoversApart
    <3> QED BY <3>1, <3>2, <2>1, <2>4, <2>5, <1>2 DEF MoversApart
  <2>10. RefsCounted'
    <3>1. Pool!Pointers(o)' = Pool!Pointers(o) + 1
      <4>1. held[t][o] < MaxRefs /\ o \in Pool!Objects /\ held'[t][o] = held[t][o] + 1
        BY <2>o, <2>2, <2>3, <1>a DEF PoolAssumption
      <4>2. \A u \in Holders : u # t => held'[u][o] = held[u][o]
        BY <2>2, <4>1
      <4> QED BY <4>1, <4>2, <1>2, PointersGrow
    <3>2. Pool!Pointers(o) = 0
      <4>1. o \in Pool!Objects /\ ~ Held(o)
        BY <2>o, <1>a
      <4>2. Pool!Pointers(o) > 0 <=> Held(o)
        BY <4>1, <1>2, PointersHeld
      <4>3. Pool!Pointers(o) \in Nat
        BY PointersFinite
      <4> QED BY <4>1, <4>2, <4>3
    <3>3. \A q \in Pool!Objects : q # o => Pool!Pointers(q)' = Pool!Pointers(q)
      BY <2>2 DEF Pool!Pointers
    <3>4. refs[o] = 1 /\ o \in Pool!GivenOut
      BY <2>o, <1>a
    <3> QED BY <3>1, <3>2, <3>3, <3>4, <2>1, <2>4, <2>5, <1>1, <1>2 DEF RefsCounted
  <2>11. SeenListed'
    BY <1>1, <1>2, <1>e, <1>f, <2>1, <2>7 DEF SeenListed
  <2>12. \A q \in Pool!Objects : IsLive(q)' <=> IsLive(q)
    BY <2>o, <1>1, <1>a, <2>1, <2>5, ObjectsFinite DEF IsLive
  <2>13. LiveCounted' /\ Queued'
    BY <1>1, <1>2, <1>e, <2>7, <2>12, LiveSame, QueuedSame
  <2> QED BY <2>8, <2>9, <2>10, <2>11, <2>13 DEF SharedInv
<1> QED BY <1>3, <1>4 DEF Pool!Construct, Pool!Goto, NoObject

\* Another pointer, here or in another thread.
LEMMA CopyInv ==
  ASSUME PoolAssumption, SharedInv, NEW t \in Holders, NEW u \in Holders,
         NEW o \in Pool!Objects, Pool!Copy(t, u, o)
  PROVE  SharedInv'
<1>1. /\ poolPc[t] = "idle" /\ held[t][o] > 0 /\ refs[o] < MaxRefs
      /\ refs' = [refs EXCEPT ![o] = @ + 1]
      /\ held' = [held EXCEPT ![u][o] = @ + 1]
      /\ UNCHANGED <<top, link, slabs, initial, liveCount, poolPc, mine, seen, next>>
  BY DEF Pool!Copy, Pool!local
<1>2. SharedTypes /\ MoversApart /\ RefsCounted /\ SeenListed /\ LiveCounted /\ Queued
  BY DEF SharedInv
<1>a. Held(o) /\ refs[o] = Pool!Pointers(o) /\ o \in Pool!GivenOut
  BY <1>1, <1>2 DEF Held, RefsCounted
<1>b. \A v \in Holders : \A q \in Pool!Objects : held[v][q] \in 0 .. MaxRefs
  BY <1>2 DEF SharedTypes
<1>c. \A v \in Holders : \A q \in Pool!Objects :
        held'[v][q] = IF v = u /\ q = o THEN held[u][o] + 1 ELSE held[v][q]
  BY <1>1, <1>2 DEF SharedTypes
<1>d. held[u][o] < MaxRefs
  <2>1. held[u][o] <= Pool!Pointers(o) /\ Pool!Pointers(o) \in Nat
    BY <1>2, PointersBound, PointersFinite
  <2> QED BY <2>1, <1>1, <1>a, <1>b DEF PoolAssumption
<1>e. Pool!Pointers(o)' = Pool!Pointers(o) + 1
  <2>1. held'[u][o] = held[u][o] + 1 /\ \A v \in Holders : v # u => held'[v][o] = held[v][o]
    BY <1>c
  <2> QED BY <2>1, <1>2, <1>d, PointersGrow
<1>f. \A q \in Pool!Objects : q # o => Pool!Pointers(q)' = Pool!Pointers(q)
  BY <1>c DEF Pool!Pointers
<1>g. \A q \in Pool!Objects : Held(q)' <=> Held(q)
  BY <1>a, <1>b, <1>c DEF Held
<1>h. Pool!GivenOut' = Pool!GivenOut
  BY <1>1 DEF Pool!GivenOut
<1>i. Resting' = Resting
  BY <1>1, <1>g, <1>h, RestingTypes DEF Resting, Moved
<1>4. SharedTypes'
  <2>1. held' \in [Holders -> [Pool!Objects -> 0 .. MaxRefs]]
    <3>1. [held[u] EXCEPT ![o] = @ + 1] \in [Pool!Objects -> 0 .. MaxRefs]
      <4>1. held[u] \in [Pool!Objects -> 0 .. MaxRefs] /\ held[u][o] + 1 \in 0 .. MaxRefs
        BY <1>2, <1>b, <1>d DEF SharedTypes, PoolAssumption
      <4> QED BY <4>1
    <3>2. held' = [held EXCEPT ![u] = [held[u] EXCEPT ![o] = @ + 1]]
      BY <1>1
    <3> QED BY <3>1, <3>2, <1>2 DEF SharedTypes
  <2>2. refs' \in [Pool!Objects -> Int]
    BY <1>1, <1>2 DEF SharedTypes
  <2> QED BY <1>1, <1>2, <2>1, <2>2 DEF SharedTypes
<1>5. MoversApart'
  <2>1. \A v \in Holders : mine[v] # NoObject => mine[v] \in Pool!Objects
    BY <1>2, RestingTypes DEF MoversApart
  <2> QED BY <2>1, <1>1, <1>2, <1>g, <1>h DEF MoversApart
<1>6. RefsCounted'
  <2>1. \A v \in Holders : poolPc[v] = "construct" => mine[v] \in Pool!Objects /\ mine[v] # o
    BY <1>2, <1>a, RestingTypes DEF MoversApart
  <2>2. \A q \in Pool!Objects : refs'[q] = IF q = o THEN refs[o] + 1 ELSE refs[q]
    BY <1>1, <1>2 DEF SharedTypes
  <2> QED BY <2>1, <2>2, <1>1, <1>2, <1>a, <1>e, <1>f, <1>g, <1>h DEF RefsCounted
<1>8. SeenListed'
  BY <1>1, <1>2, <1>i DEF SeenListed
<1>9. \A q \in Pool!Objects : IsLive(q)' <=> IsLive(q)
  BY <1>1, <1>g DEF IsLive
<1>10. LiveCounted' /\ Queued'
  BY <1>1, <1>2, <1>i, <1>9, LiveSame, QueuedSame
<1> QED BY <1>4, <1>5, <1>6, <1>8, <1>10 DEF SharedInv

\* A pointer less; with the last one the object begins its way back.
LEMMA ResetInv ==
  ASSUME PoolAssumption, SharedInv, NEW t \in Holders, NEW o \in Pool!Objects, Pool!Reset(t, o)
  PROVE  SharedInv'
<1>1. /\ poolPc[t] = "idle" /\ held[t][o] > 0
      /\ refs' = [refs EXCEPT ![o] = @ - 1]
      /\ held' = [held EXCEPT ![t][o] = @ - 1]
      /\ UNCHANGED <<top, link, slabs, initial, liveCount, seen, next>>
  BY DEF Pool!Reset
<1>2. SharedTypes /\ MoversApart /\ RefsCounted /\ SeenListed /\ LiveCounted /\ Queued
  BY DEF SharedInv
<1>a. Held(o) /\ refs[o] = Pool!Pointers(o) /\ o \in Pool!GivenOut
  BY <1>1, <1>2 DEF Held, RefsCounted
<1>b. \A v \in Holders : \A q \in Pool!Objects : held[v][q] \in 0 .. MaxRefs
  BY <1>2 DEF SharedTypes
<1>c. \A v \in Holders : \A q \in Pool!Objects :
        held'[v][q] = IF v = t /\ q = o THEN held[t][o] - 1 ELSE held[v][q]
  BY <1>1, <1>2 DEF SharedTypes
<1>e. Pool!Pointers(o)' = Pool!Pointers(o) - 1
  <2>1. held'[t][o] = held[t][o] - 1 /\ \A v \in Holders : v # t => held'[v][o] = held[v][o]
    BY <1>c
  <2> QED BY <2>1, <1>1, <1>2, PointersShrink
<1>f. \A q \in Pool!Objects : q # o => Pool!Pointers(q)' = Pool!Pointers(q)
  BY <1>c DEF Pool!Pointers
<1>h. Pool!GivenOut' = Pool!GivenOut
  BY <1>1 DEF Pool!GivenOut
<1>j. \A q \in Pool!Objects : refs'[q] = IF q = o THEN refs[o] - 1 ELSE refs[q]
  BY <1>1, <1>2 DEF SharedTypes
<1>k. /\ \A v \in Holders : mine[v] # NoObject => mine[v] \in Pool!Objects /\ mine[v] # o
      /\ mine[t] = NoObject /\ o # NoObject
  BY <1>1, <1>2, <1>a, RestingTypes, ObjectsFinite DEF MoversApart
<1>l. held' \in [Holders -> [Pool!Objects -> 0 .. MaxRefs]]
  <2>1. [held[t] EXCEPT ![o] = @ - 1] \in [Pool!Objects -> 0 .. MaxRefs]
    <3>1. held[t] \in [Pool!Objects -> 0 .. MaxRefs] /\ held[t][o] - 1 \in 0 .. MaxRefs
      BY <1>1, <1>2, <1>b DEF SharedTypes, PoolAssumption
    <3> QED BY <3>1
  <2>2. held' = [held EXCEPT ![t] = [held[t] EXCEPT ![o] = @ - 1]]
    BY <1>1
  <2> QED BY <2>1, <2>2, <1>2 DEF SharedTypes
<1>m. refs' \in [Pool!Objects -> Int]
  BY <1>1, <1>2 DEF SharedTypes
<1>n. SharedTypes' => (Held(o)' <=> refs[o] # 1) /\ \A q \in Pool!Objects : q # o => (Held(q)' <=> Held(q))
  <2>1. \A q \in Pool!Objects : q # o => (Held(q)' <=> Held(q))
    BY <1>c DEF Held
  <2>2. Pool!Pointers(o) \in Nat /\ Pool!Pointers(o) > 0
    BY <1>2, <1>a, PointersHeld, PointersFinite
  <2>3. Held(o)' <=> \E v \in Holders : held'[v][o] > 0
    BY DEF Held
  <2>4. Pool!Pointers(o)' > 0 <=> \E v \in Holders : held'[v][o] > 0
    <3> DEFINE pairs == {p \in Holders \X (1 .. MaxRefs) : p[2] <= held'[p[1]][o]}
    <3>0. IsFiniteSet(1 .. MaxRefs)
      BY FS_Interval DEF PoolAssumption
    <3>1. IsFiniteSet(Holders \X (1 .. MaxRefs))
      BY <3>0, FS_Product DEF PoolAssumption
    <3>2. IsFiniteSet(pairs) /\ Cardinality(pairs) \in Nat /\ (Cardinality(pairs) = 0 <=> pairs = {})
      BY <3>1, FS_Subset, FS_EmptySet, FS_CardinalityType
    <3>3. Pool!Pointers(o)' = Cardinality(pairs)
      BY SameCardinality DEF Pool!Pointers
    <3>4. \A v \in Holders : held'[v][o] \in 0 .. MaxRefs
      BY <1>l
    <3>5. ASSUME NEW v \in Holders, held'[v][o] > 0 PROVE pairs # {}
      <4>1. <<v, 1>> \in pairs
        BY <3>4, <3>5 DEF PoolAssumption
      <4> QED BY <4>1
    <3>6. ASSUME NEW p \in pairs PROVE \E v \in Holders : held'[v][o] > 0
      <4>1. p[1] \in Holders /\ p[2] \in 1 .. MaxRefs /\ p[2] <= held'[p[1]][o]
        OBVIOUS
      <4> QED BY <4>1, <3>4
    <3> HIDE DEF pairs
    <3> QED BY <3>2, <3>3, <3>5, <3>6
  <2> QED BY <2>1, <2>2, <2>3, <2>4, <1>a, <1>e
<1>3. CASE refs[o] # 1
  <2>1. UNCHANGED <<mine, poolPc>>
    BY <1>3 DEF Pool!Reset
  <2>2. SharedTypes'
    BY <2>1, <1>1, <1>2, <1>l, <1>m DEF SharedTypes
  <2>3. \A q \in Pool!Objects : Held(q)' <=> Held(q)
    BY <2>2, <1>3, <1>a, <1>n
  <2>4. Resting' = Resting
    BY <2>1, <2>3, <1>h, RestingTypes DEF Resting, Moved
  <2>5. MoversApart'
    BY <2>1, <2>3, <1>2, <1>h, <1>k DEF MoversApart
  <2>6. RefsCounted'
    <3>1. \A v \in Holders : poolPc[v] = "construct" => mine[v] \in Pool!Objects /\ mine[v] # o
      BY <1>2, <1>k DEF MoversApart
    <3> QED BY <3>1, <2>1, <2>3, <1>2, <1>a, <1>e, <1>f, <1>h, <1>j DEF RefsCounted
  <2>7. SeenListed'
    BY <1>1, <1>2, <2>1, <2>4 DEF SeenListed
  <2>8. \A q \in Pool!Objects : IsLive(q)' <=> IsLive(q)
    BY <2>1, <2>3 DEF IsLive
  <2>9. LiveCounted' /\ Queued'
    BY <1>1, <1>2, <2>4, <2>8, LiveSame, QueuedSame
  <2> QED BY <2>2, <2>5, <2>6, <2>7, <2>9 DEF SharedInv
<1>4. CASE refs[o] = 1
  <2>a. mine' = [mine EXCEPT ![t] = o] /\ poolPc' = [poolPc EXCEPT ![t] = "uncount"]
    BY <1>4 DEF Pool!Reset, Pool!Goto
  <2>1. /\ \A v \in Holders : mine'[v] = IF v = t THEN o ELSE mine[v]
        /\ \A v \in Holders : poolPc'[v] = IF v = t THEN "uncount" ELSE poolPc[v]
    BY <2>a, <1>2 DEF SharedTypes
  <2>2. SharedTypes'
    <3>1. mine' \in [Holders -> Places]
      BY <2>a, <1>2 DEF SharedTypes, Places
    <3>2. poolPc' \in [Holders -> {"idle", "read", "pop", "revive", "fresh", "construct",
                                   "uncount", "load", "link", "push"}]
      BY <2>a, <1>2 DEF SharedTypes
    <3> QED BY <3>1, <3>2, <1>1, <1>2, <1>l, <1>m DEF SharedTypes
  <2>3. \A q \in Pool!Objects : Held(q)' <=> Held(q) /\ q # o
    BY <2>2, <1>4, <1>n
  <2>b. \A q \in Pool!Objects : Moved(q)' <=> Moved(q) \/ q = o
    BY <2>1, <1>k, ObjectsFinite DEF Moved
  <2>4. Resting' = Resting
    BY <2>3, <2>b, <1>a, <1>h, RestingTypes DEF Resting
  <2>5. MoversApart'
    BY <2>1, <2>3, <1>2, <1>a, <1>h, <1>k DEF MoversApart
  <2>6. RefsCounted'
    <3>1. \A v \in Holders : poolPc[v] = "construct" => mine[v] \in Pool!Objects /\ mine[v] # o
      BY <1>2, <1>k DEF MoversApart
    <3> QED BY <3>1, <2>1, <2>3, <1>2, <1>f, <1>h, <1>j DEF RefsCounted
  <2>7. SeenListed'
    BY <1>1, <1>2, <2>1, <2>4 DEF SeenListed
  <2>8. \A q \in Pool!Objects : IsLive(q)' <=> IsLive(q)
    BY <2>1, <2>3, <1>a, <1>k, ObjectsFinite DEF IsLive
  <2>9. LiveCounted' /\ Queued'
    BY <1>1, <1>2, <2>4, <2>8, LiveSame, QueuedSame
  <2> QED BY <2>2, <2>5, <2>6, <2>7, <2>9 DEF SharedInv
<1> QED BY <1>3, <1>4
-----------------------------------------------------------------------------
LEMMA SharedInit ==
  ASSUME PoolAssumption, Pool!Init
  PROVE  SharedInv
<1>1. /\ top = NoObject /\ link = [o \in Pool!Objects |-> NoObject]
      /\ slabs = 0 /\ initial = 0
      /\ liveCount = [n \in 1 .. MaxSlabs |-> 0]
      /\ refs = [o \in Pool!Objects |-> 0]
      /\ poolPc = [t \in Holders |-> "idle"]
      /\ mine = [t \in Holders |-> NoObject] /\ seen = [t \in Holders |-> NoObject]
      /\ next = [t \in Holders |-> NoObject]
      /\ held = [t \in Holders |-> [o \in Pool!Objects |-> 0]]
  BY DEF Pool!Init, NoObject
<1>2. \A o \in Pool!Objects : o[1] \in Nat /\ o[1] >= 1
  BY DEF Pool!Objects
<1>3. Pool!GivenOut = {} /\ Resting = {}
  BY <1>1, <1>2 DEF Pool!GivenOut, Resting
<1>4. \A o \in Pool!Objects : ~ Held(o)
  BY <1>1 DEF Held
<1>5. \A o \in Pool!Objects : ~ IsLive(o)
  BY <1>1, <1>4 DEF IsLive
<1>6. SharedTypes
  BY <1>1 DEF SharedTypes, Places, PoolAssumption
<1>7. MoversApart /\ RefsCounted /\ SeenListed
  BY <1>1, <1>4 DEF MoversApart, RefsCounted, SeenListed
<1>8. LiveCounted
  <2> SUFFICES ASSUME NEW n \in 1 .. MaxSlabs
               PROVE  liveCount[n] = Cardinality({o \in Pool!Objects : o[1] = n /\ IsLive(o)})
    BY DEF LiveCounted
  <2>1. {o \in Pool!Objects : o[1] = n /\ IsLive(o)} = {}
    BY <1>5
  <2>2. Cardinality({}) = 0
    BY FS_EmptySet
  <2> QED BY <1>1, <2>1, <2>2
<1>9. Queued
  BY <1>1, <1>3, ListedNone DEF Queued
<1> QED BY <1>6, <1>7, <1>8, <1>9 DEF SharedInv

LEMMA SharedStep ==
  ASSUME PoolAssumption, SharedInv, Pool!Next \/ UNCHANGED sharedVars
  PROVE  SharedInv'
<1>1. CASE Pool!Next
  <2>1. PICK t \in Holders :
          \/ Pool!Steps(t)
          \/ \E o \in Pool!Objects : Pool!Reset(t, o) \/ \E u \in Holders : Pool!Copy(t, u, o)
    BY <1>1 DEF Pool!Next
  <2>2. CASE Pool!Steps(t)
    BY <2>2, AllocateInv, ReadNextInv, PopInv, ReviveInv, FreshInv, FreshFailsInv, ConstructInv,
       UncountInv, LoadTopInv, LinkInv, PushObjectInv DEF Pool!Steps
  <2>3. CASE \E o \in Pool!Objects : Pool!Reset(t, o) \/ \E u \in Holders : Pool!Copy(t, u, o)
    BY <2>3, ResetInv, CopyInv
  <2> QED BY <2>1, <2>2, <2>3
<1>2. CASE UNCHANGED sharedVars
  <2>1. UNCHANGED <<top, link, slabs, initial, liveCount, refs, poolPc, mine, seen, next, held>>
    BY <1>2 DEF sharedVars
  <2>2. SharedTypes /\ MoversApart /\ RefsCounted /\ SeenListed /\ LiveCounted /\ Queued
    BY DEF SharedInv
  <2>3. /\ Pool!GivenOut' = Pool!GivenOut /\ Resting' = Resting
        /\ \A o : Held(o)' <=> Held(o)
        /\ \A o : Pool!Pointers(o)' = Pool!Pointers(o)
    BY <2>1, NothingMoves
  <2>4. SharedTypes' /\ MoversApart'
    BY <2>1, <2>2, <2>3 DEF SharedTypes, MoversApart
  <2>5. RefsCounted' /\ SeenListed'
    BY <2>1, <2>2, <2>3 DEF RefsCounted, SeenListed
  <2>6. \A q \in Pool!Objects : IsLive(q)' <=> IsLive(q)
    BY <2>1, <2>3 DEF IsLive
  <2>7. LiveCounted' /\ Queued'
    BY <2>1, <2>2, <2>3, <2>6, LiveSame, QueuedSame
  <2> QED BY <2>4, <2>5, <2>7 DEF SharedInv
<1> QED BY <1>1, <1>2

\* What PoolExact says of the list, of each object and of each slab follows.
LEMMA SharedExact ==
  ASSUME PoolAssumption, SharedInv
  PROVE  Pool!PoolExact
<1>1. SharedTypes /\ MoversApart /\ RefsCounted /\ LiveCounted /\ Queued
  BY DEF SharedInv
<1>2. IsFiniteSet(Pool!Objects) /\ NoObject \notin Pool!Objects /\ Resting \subseteq Pool!Objects
      /\ \A S : Pool!Cardinality(S) = Cardinality(S)
  BY ObjectsFinite, RestingTypes, SameCardinality
<1> DEFINE c == Cardinality(Pool!Objects)
<1>3. Walked(Pool!Hop, top, link, NoObject, c)
  <2>1. \E f : Walked(f, top, link, NoObject, c)
    BY <1>1, <1>2, ListedWalk DEF Queued
  <2>2. Pool!Hop = CHOOSE f : Walked(f, top, link, NoObject, c)
    BY <1>2 DEF Pool!Hop, Walked, NoObject
  <2> HIDE DEF c
  <2> QED BY <2>1, <2>2
<1>4. Pool!Hop[c] = NoObject /\ {Pool!Hop[n] : n \in 0 .. c} \ {NoObject} = Resting
  <2>1. Listed(top, link, Resting, NoObject)
    BY <1>1 DEF Queued
  <2> QED BY <2>1, <1>2, <1>3, ListedWalk
<1>5. Pool!Hop[Pool!Cardinality(Pool!Objects)] = Pool!Nil /\ Pool!FreeList = Resting
  BY <1>2, <1>4 DEF Pool!FreeList, NoObject
<1> HIDE DEF c
<1>6. Pool!FreeList \subseteq Pool!GivenOut
  BY <1>5, RestingTypes
<1>7. ASSUME NEW o \in Pool!GivenOut
      PROVE  /\ Pool!Cardinality(Pool!Movers(o)) + (IF o \in Pool!FreeList THEN 1 ELSE 0)
                  + (IF Pool!Pointers(o) > 0 THEN 1 ELSE 0) = 1
             /\ Pool!Pointers(o) > 0 => refs[o] = Pool!Pointers(o)
  <2>1. o \in Pool!Objects /\ o # NoObject
    BY <1>2, RestingTypes
  <2>2. Pool!Pointers(o) > 0 <=> Held(o)
    BY <2>1, <1>1, PointersHeld
  <2>3. Pool!Pointers(o) > 0 => refs[o] = Pool!Pointers(o)
    BY <2>1, <2>2, <1>1 DEF RefsCounted
  <2>4. CASE Moved(o)
    <3>1. PICK t \in Holders : mine[t] = o
      BY <2>4 DEF Moved
    <3>2. Pool!Movers(o) = {t}
      BY <3>1, <2>1, <1>1 DEF Pool!Movers, MoversApart
    <3>3. Pool!Cardinality(Pool!Movers(o)) = 1
      BY <3>2, <1>2, FS_Singleton
    <3>4. ~ Held(o) /\ o \notin Pool!FreeList
      BY <3>1, <2>1, <2>4, <1>1, <1>5 DEF MoversApart, Resting
    <3> QED BY <3>3, <3>4, <2>2, <2>3
  <2>5. CASE ~ Moved(o)
    <3>1. Pool!Movers(o) = {}
      BY <2>5 DEF Moved, Pool!Movers
    <3>2. Pool!Cardinality(Pool!Movers(o)) = 0
      BY <3>1, <1>2, FS_EmptySet
    <3>3. o \in Pool!FreeList <=> ~ Held(o)
      BY <2>5, <1>5 DEF Resting
    <3> QED BY <3>2, <3>3, <2>2, <2>3
  <2> QED BY <2>4, <2>5
<1>8. ASSUME NEW n \in 1 .. MaxSlabs
      PROVE  liveCount[n] =
               Pool!Cardinality({o \in Pool!Objects : o[1] = n /\
                 (Pool!Pointers(o) > 0 \/ \E t \in Pool!Movers(o) : poolPc[t] \in {"construct", "uncount"})})
  <2>1. \A o \in Pool!Objects : Pool!Pointers(o) > 0 <=> Held(o)
    BY <1>1, PointersHeld
  <2>2. \A o \in Pool!Objects :
          (Pool!Pointers(o) > 0 \/ \E t \in Pool!Movers(o) : poolPc[t] \in {"construct", "uncount"})
          <=> IsLive(o)
    BY <2>1 DEF IsLive, Pool!Movers
  <2>3. {o \in Pool!Objects : o[1] = n /\
           (Pool!Pointers(o) > 0 \/ \E t \in Pool!Movers(o) : poolPc[t] \in {"construct", "uncount"})}
        = {o \in Pool!Objects : o[1] = n /\ IsLive(o)}
    BY <2>2
  <2>4. liveCount[n] = Cardinality({o \in Pool!Objects : o[1] = n /\ IsLive(o)})
    BY <1>1 DEF LiveCounted
  <2> QED BY <2>3, <2>4, <1>2
<1> QED BY <1>5, <1>6, <1>7, <1>8 DEF Pool!PoolExact
-----------------------------------------------------------------------------
(* The objects of the private pool                                         *)

PrivateAssumption == MaxPrivateSlabs \in Nat /\ MaxPrivate \in Nat \ {0}

GivenPrivate == {o \in Private!PrivateObjects : o[1] < newest \/ (o[1] = newest /\ o[2] < started)}

PrivateInv ==
  /\ links \in [Private!PrivateObjects -> Private!PrivateObjects \cup {Private!Null}]
  /\ newest \in 0 .. MaxPrivateSlabs /\ started \in 0 .. MaxPrivate
  /\ owned \subseteq GivenPrivate
  /\ lives = Cardinality(owned)
  /\ Listed(freed, links, GivenPrivate \ owned, Private!Null)

LEMMA PrivateFinite ==
  ASSUME PrivateAssumption
  PROVE  /\ IsFiniteSet(Private!PrivateObjects) /\ Private!Null \notin Private!PrivateObjects
         /\ GivenPrivate \subseteq Private!PrivateObjects /\ IsFiniteSet(GivenPrivate)
<1>1. IsFiniteSet(1 .. MaxPrivateSlabs) /\ IsFiniteSet(0 .. MaxPrivate - 1)
  BY FS_Interval DEF PrivateAssumption
<1>2. IsFiniteSet(Private!PrivateObjects)
  BY <1>1, FS_Product DEF Private!PrivateObjects
<1>3. Private!Null \notin Private!PrivateObjects
  BY DEF Private!Null, Private!PrivateObjects
<1>4. GivenPrivate \subseteq Private!PrivateObjects
  BY DEF GivenPrivate
<1> QED BY <1>2, <1>3, <1>4, FS_Subset

LEMMA PrivateInit ==
  ASSUME PrivateAssumption, Private!Init
  PROVE  PrivateInv
<1>1. /\ freed = Private!Null /\ links = [o \in Private!PrivateObjects |-> Private!Null]
      /\ newest = 0 /\ started = 0 /\ lives = 0 /\ owned = {}
  BY DEF Private!Init
<1>2. GivenPrivate = {}
  <2>1. \A o \in Private!PrivateObjects : o[1] \in Nat /\ o[1] >= 1
    BY DEF Private!PrivateObjects
  <2> QED BY <2>1, <1>1 DEF GivenPrivate
<1>3. Listed(freed, links, GivenPrivate \ owned, Private!Null)
  BY <1>1, <1>2, ListedNone
<1>4. lives = Cardinality(owned)
  BY <1>1, FS_EmptySet
<1> QED BY <1>1, <1>2, <1>3, <1>4 DEF PrivateInv, PrivateAssumption

\* An object is taken from the front of the list, or is the next of the newest slab.
LEMMA PrivateAllocateInv ==
  ASSUME PrivateAssumption, PrivateInv, Private!Allocate
  PROVE  PrivateInv'
<1>1. /\ links \in [Private!PrivateObjects -> Private!PrivateObjects \cup {Private!Null}]
      /\ newest \in 0 .. MaxPrivateSlabs /\ started \in 0 .. MaxPrivate
      /\ owned \subseteq GivenPrivate /\ IsFiniteSet(owned)
      /\ lives = Cardinality(owned)
      /\ Listed(freed, links, GivenPrivate \ owned, Private!Null)
  BY PrivateFinite, FS_Subset DEF PrivateInv
<1>2. CASE freed # Private!Null
  <2>1. /\ freed' = links[freed] /\ owned' = owned \cup {freed} /\ lives' = lives + 1
        /\ UNCHANGED <<links, newest, started>>
    BY <1>2 DEF Private!Allocate
  <2>2. /\ freed \in GivenPrivate \ owned
        /\ Listed(links[freed], links, (GivenPrivate \ owned) \ {freed}, Private!Null)
    BY <1>1, <1>2, ListedPop
  <2>3. GivenPrivate' = GivenPrivate
    BY <2>1 DEF GivenPrivate
  <2>4. GivenPrivate' \ owned' = (GivenPrivate \ owned) \ {freed}
    BY <2>1, <2>3
  <2>5. lives' = Cardinality(owned')
    <3>1. Cardinality(owned \cup {freed}) = Cardinality(owned) + 1
      BY <1>1, <2>2, FS_AddElement
    <3> QED BY <3>1, <2>1, <1>1
  <2>6. Listed(freed', links', GivenPrivate' \ owned', Private!Null)
    BY <2>1, <2>2, <2>4
  <2>7. owned' \subseteq GivenPrivate'
    BY <2>1, <2>2, <2>3, <1>1
  <2> QED BY <2>1, <2>5, <2>6, <2>7, <1>1 DEF PrivateInv
<1>3. CASE freed = Private!Null
  <2> DEFINE full == newest = 0 \/ started = MaxPrivate
             n == IF full THEN newest + 1 ELSE newest
             i == IF full THEN 0 ELSE started
  <2>1. /\ full => newest < MaxPrivateSlabs
        /\ newest' = n /\ started' = i + 1
        /\ owned' = owned \cup {<<newest', started' - 1>>}
        /\ lives' = lives + 1 /\ UNCHANGED <<freed, links>>
    BY <1>3, <1>1 DEF Private!Allocate
  <2>2. n \in 1 .. MaxPrivateSlabs /\ i \in 0 .. MaxPrivate - 1 /\ newest \in Nat /\ started \in Nat
        /\ MaxPrivate \in Nat
    BY <2>1, <1>1 DEF PrivateAssumption
  <2>o. PICK o : o = <<n, i>>
    OBVIOUS
  <2>3. owned' = owned \cup {o} /\ o \in Private!PrivateObjects /\ o[1] = n /\ o[2] = i
    <3>1. started' - 1 = i
      BY <2>1, <2>2
    <3> QED BY <3>1, <2>o, <2>1, <2>2 DEF Private!PrivateObjects
  <2>4. \A q \in Private!PrivateObjects : q[1] \in Nat /\ q[1] >= 1 /\ q[2] \in Nat /\ q[2] < MaxPrivate
                                         /\ (q = o <=> q[1] = n /\ q[2] = i)
    BY <2>o, <2>2 DEF Private!PrivateObjects
  <2>5. GivenPrivate' = GivenPrivate \cup {o} /\ o \notin GivenPrivate
    <3>1. \A q \in Private!PrivateObjects :
            (q[1] < newest' \/ (q[1] = newest' /\ q[2] < started'))
            <=> (q[1] < newest \/ (q[1] = newest /\ q[2] < started)) \/ q = o
      <4>1. CASE full
        BY <4>1, <2>1, <2>2, <2>4
      <4>2. CASE ~ full
        BY <4>2, <2>1, <2>2, <2>4
      <4> QED BY <4>1, <4>2
    <3>2. ~ (n < newest \/ (n = newest /\ i < started))
      BY <2>2
    <3> QED BY <3>1, <3>2, <2>3 DEF GivenPrivate
  <2>6. newest' \in 0 .. MaxPrivateSlabs /\ started' \in 0 .. MaxPrivate
    BY <2>1, <2>2
  <2> HIDE DEF full, n, i
  <2>7. GivenPrivate' \ owned' = GivenPrivate \ owned
    BY <2>3, <2>5
  <2>8. lives' = Cardinality(owned')
    <3>1. Cardinality(owned \cup {o}) = Cardinality(owned) + 1
      BY <1>1, <2>5, FS_AddElement
    <3> QED BY <3>1, <2>1, <2>3, <1>1
  <2>9. Listed(freed', links', GivenPrivate' \ owned', Private!Null)
    BY <2>1, <2>7, <1>1
  <2>10. owned' \subseteq GivenPrivate'
    BY <2>3, <2>5, <1>1
  <2> QED BY <2>1, <2>6, <2>8, <2>9, <2>10, <1>1 DEF PrivateInv
<1> QED BY <1>2, <1>3

\* The object goes to the front of the list.
LEMMA PrivateDeallocateInv ==
  ASSUME PrivateAssumption, PrivateInv, NEW o \in Private!PrivateObjects, Private!Deallocate(o)
  PROVE  PrivateInv'
<1>1. /\ links \in [Private!PrivateObjects -> Private!PrivateObjects \cup {Private!Null}]
      /\ newest \in 0 .. MaxPrivateSlabs /\ started \in 0 .. MaxPrivate
      /\ owned \subseteq GivenPrivate /\ IsFiniteSet(owned)
      /\ lives = Cardinality(owned)
      /\ Listed(freed, links, GivenPrivate \ owned, Private!Null)
  BY PrivateFinite, FS_Subset DEF PrivateInv
<1>2. /\ o \in owned /\ owned' = owned \ {o} /\ lives' = lives - 1
      /\ links' = [links EXCEPT ![o] = freed] /\ freed' = o
      /\ UNCHANGED <<newest, started>>
  BY DEF Private!Deallocate
<1>3. GivenPrivate' = GivenPrivate
  BY <1>2 DEF GivenPrivate
<1>4. links'[o] = freed /\ \A q \in GivenPrivate \ owned : links'[q] = links[q]
  BY <1>1, <1>2, PrivateFinite
<1>5. Listed(freed, links', GivenPrivate \ owned, Private!Null)
  BY <1>1, <1>4, ListedSame
<1>6. Listed(o, links', (GivenPrivate \ owned) \cup {o}, Private!Null)
  BY <1>2, <1>4, <1>5, ListedPush
<1>7. GivenPrivate' \ owned' = (GivenPrivate \ owned) \cup {o}
  BY <1>1, <1>2, <1>3
<1>8. freed \in Private!PrivateObjects \cup {Private!Null}
  <2>1. freed # Private!Null => freed \in GivenPrivate \ owned
    BY <1>1, ListedPop
  <2> QED BY <2>1, PrivateFinite
<1>9. links' \in [Private!PrivateObjects -> Private!PrivateObjects \cup {Private!Null}]
  BY <1>1, <1>2, <1>8
<1>10. lives' = Cardinality(owned')
  <2>1. Cardinality(owned \ {o}) = Cardinality(owned) - 1
    BY <1>1, <1>2, FS_RemoveElement
  <2> QED BY <2>1, <1>1, <1>2
<1>11. Listed(freed', links', GivenPrivate' \ owned', Private!Null)
  BY <1>2, <1>6, <1>7
<1> QED BY <1>1, <1>2, <1>3, <1>9, <1>10, <1>11 DEF PrivateInv

LEMMA PrivateStep ==
  ASSUME PrivateAssumption, PrivateInv, Private!Next \/ UNCHANGED privateVars
  PROVE  PrivateInv'
<1>1. /\ links \in [Private!PrivateObjects -> Private!PrivateObjects \cup {Private!Null}]
      /\ newest \in 0 .. MaxPrivateSlabs /\ started \in 0 .. MaxPrivate
      /\ owned \subseteq GivenPrivate /\ lives = Cardinality(owned)
      /\ Listed(freed, links, GivenPrivate \ owned, Private!Null)
  BY DEF PrivateInv
<1>2. ASSUME NEW o \in Private!PrivateObjects, Private!Use(o)
      PROVE  PrivateInv'
  <2>1. /\ o \in owned /\ links' = [links EXCEPT ![o] = Private!Null]
        /\ UNCHANGED <<freed, newest, started, lives, owned>>
    BY <1>2 DEF Private!Use
  <2>2. GivenPrivate' = GivenPrivate
    BY <2>1 DEF GivenPrivate
  <2>3. \A q \in GivenPrivate \ owned : links'[q] = links[q]
    BY <1>1, <2>1, PrivateFinite
  <2>4. Listed(freed', links', GivenPrivate' \ owned', Private!Null)
    BY <1>1, <2>1, <2>2, <2>3, ListedSame
  <2> QED BY <1>1, <2>1, <2>2, <2>4 DEF PrivateInv
<1>3. ASSUME UNCHANGED privateVars
      PROVE  PrivateInv'
  <2>1. UNCHANGED <<freed, links, newest, started, lives, owned>>
    BY <1>3 DEF privateVars
  <2> QED BY <2>1, <1>1 DEF PrivateInv, GivenPrivate
<1> QED BY <1>2, <1>3, PrivateAllocateInv, PrivateDeallocateInv DEF Private!Next

LEMMA PrivateExactness ==
  ASSUME PrivateAssumption, PrivateInv
  PROVE  Private!PrivateExact
<1>1. /\ owned \subseteq GivenPrivate /\ lives = Cardinality(owned)
      /\ Listed(freed, links, GivenPrivate \ owned, Private!Null)
  BY DEF PrivateInv
<1>2. /\ IsFiniteSet(Private!PrivateObjects) /\ Private!Null \notin Private!PrivateObjects
      /\ GivenPrivate \ owned \subseteq Private!PrivateObjects
      /\ \A S : Private!Cardinality(S) = Cardinality(S)
  BY PrivateFinite, SameCardinality
<1> DEFINE c == Cardinality(Private!PrivateObjects)
<1>3. Walked(Private!Hops, freed, links, Private!Null, c)
  <2>1. \E f : Walked(f, freed, links, Private!Null, c)
    BY <1>1, <1>2, ListedWalk
  <2>2. Private!Hops = CHOOSE f : Walked(f, freed, links, Private!Null, c)
    BY <1>2 DEF Private!Hops, Walked
  <2> HIDE DEF c
  <2> QED BY <2>1, <2>2
<1>4. /\ Private!Hops[c] = Private!Null
      /\ {Private!Hops[n] : n \in 0 .. c} \ {Private!Null} = GivenPrivate \ owned
  BY <1>1, <1>2, <1>3, ListedWalk
<1>5. /\ Private!Hops[Private!Cardinality(Private!PrivateObjects)] = Private!Null
      /\ Private!Freed = GivenPrivate \ owned
  BY <1>2, <1>4 DEF Private!Freed
<1> HIDE DEF c
<1> QED BY <1>1, <1>2, <1>5 DEF Private!PrivateExact, GivenPrivate
-----------------------------------------------------------------------------
\* Whichever threads copy, drop and return pointers while one allocates
\* (shared_object_pool.cpp), and whatever one thread does alone (private_object_pool.cpp): each
\* object that a slab has given out has its owners, as many as are counted, or is on its way in
\* one thread, or lies on the list once, and the live ones are counted.
THEOREM PoolsStayExact ==
  ASSUME PoolAssumption, PrivateAssumption
  PROVE  AnySpec => []PoolsExact
<1>1. AnyInit => SharedInv /\ PrivateInv
  BY SharedInit, PrivateInit DEF AnyInit
<1>2. SharedInv /\ PrivateInv /\ [AnyNext]_allVars => (SharedInv /\ PrivateInv)'
  <2> SUFFICES ASSUME SharedInv, PrivateInv, [AnyNext]_allVars
               PROVE  SharedInv' /\ PrivateInv'
    OBVIOUS
  <2>1. /\ Pool!Next \/ UNCHANGED sharedVars
        /\ Private!Next \/ UNCHANGED privateVars
    BY DEF AnyNext, InTracker, InShared, InPrivate, allVars
  <2> QED BY <2>1, SharedStep, PrivateStep
<1>3. SharedInv /\ PrivateInv => PoolsExact
  BY SharedExact, PrivateExactness DEF PoolsExact
<1> QED BY <1>1, <1>2, <1>3, PTL DEF AnySpec

-----------------------------------------------------------------------------
(* The completion counters                                                 *)


\* A counter is determined by its list and its value in that list.
LEMMA CounterArithmetic ==
  /\ \A c \in Nat : ListOf(c) \in Lists /\ ValueOf(c) \in Nat
  /\ \A c \in Nat : c >= NUM_COMPLETION_LISTS => ValueOf(c) >= 1
  /\ \A c, d \in Nat : ListOf(c) = ListOf(d) /\ ValueOf(c) = ValueOf(d) => c = d
<1>1. \A c \in Nat : ListOf(c) \in Lists /\ ValueOf(c) \in Nat
  BY ListsAssumption DEF ListOf, ValueOf, Lists
<1>2. \A c \in Nat : c >= NUM_COMPLETION_LISTS => ValueOf(c) >= 1
  BY ListsAssumption DEF ValueOf
<1>3. ASSUME NEW c \in Nat, NEW d \in Nat, ListOf(c) = ListOf(d), ValueOf(c) = ValueOf(d)
      PROVE  c = d
  BY <1>3, ListsAssumption DEF ListOf, ValueOf
<1> QED BY <1>1, <1>2, <1>3
-----------------------------------------------------------------------------
(* What AddToSegments does to the set of values a segment list covers.     *)

WellFormed(segs) == \A i \in DOMAIN segs : segs[i].first <= segs[i].last

\* The result of adding v to segs.
Added(new, segs, v) ==
  /\ new \in Seq(Segment)
  /\ WellFormed(new)
  /\ \A w \in Nat : InSegments(new, w) <=> InSegments(segs, w) \/ w = v

LEMMA SegmentElements ==
  ASSUME NEW segs \in Seq(Segment)
  PROVE  /\ DOMAIN segs = 1 .. Len(segs)
         /\ \A j \in 1 .. Len(segs) : /\ segs[j] \in Segment
                                      /\ segs[j].first \in Nat /\ segs[j].last \in Nat
<1>1. \A j \in 1 .. Len(segs) : segs[j] \in Segment
  BY ElementOfSeq
<1> QED BY <1>1 DEF Segment

\* One bound of one segment is replaced.
LEMMA FirstReplaced ==
  ASSUME NEW segs \in Seq(Segment), NEW i \in 1 .. Len(segs), NEW n \in Nat
  PROVE  LET new == [segs EXCEPT ![i].first = n]
         IN  /\ new \in Seq(Segment) /\ Len(new) = Len(segs)
             /\ new[i].first = n /\ new[i].last = segs[i].last
             /\ \A j \in 1 .. Len(segs) : j # i => new[j] = segs[j]
<1> DEFINE e == [segs[i] EXCEPT !.first = n]
<1>1. segs[i] \in Segment
  BY ElementOfSeq
<1>2. e \in Segment /\ e.first = n /\ e.last = segs[i].last
  BY <1>1 DEF Segment
<1>3. [segs EXCEPT ![i].first = n] = [segs EXCEPT ![i] = e]
  OBVIOUS
<1> HIDE DEF e
<1>4. /\ [segs EXCEPT ![i] = e] \in Seq(Segment)
      /\ Len([segs EXCEPT ![i] = e]) = Len(segs)
      /\ \A j \in 1 .. Len(segs) : [segs EXCEPT ![i] = e][j] = IF j = i THEN e ELSE segs[j]
  BY <1>2, ExceptSeq
<1> QED BY <1>2, <1>3, <1>4

LEMMA LastReplaced ==
  ASSUME NEW segs \in Seq(Segment), NEW i \in 1 .. Len(segs), NEW n \in Nat
  PROVE  LET new == [segs EXCEPT ![i].last = n]
         IN  /\ new \in Seq(Segment) /\ Len(new) = Len(segs)
             /\ new[i].last = n /\ new[i].first = segs[i].first
             /\ \A j \in 1 .. Len(segs) : j # i => new[j] = segs[j]
<1> DEFINE e == [segs[i] EXCEPT !.last = n]
<1>1. segs[i] \in Segment
  BY ElementOfSeq
<1>2. e \in Segment /\ e.last = n /\ e.first = segs[i].first
  BY <1>1 DEF Segment
<1>3. [segs EXCEPT ![i].last = n] = [segs EXCEPT ![i] = e]
  OBVIOUS
<1> HIDE DEF e
<1>4. /\ [segs EXCEPT ![i] = e] \in Seq(Segment)
      /\ Len([segs EXCEPT ![i] = e]) = Len(segs)
      /\ \A j \in 1 .. Len(segs) : [segs EXCEPT ![i] = e][j] = IF j = i THEN e ELSE segs[j]
  BY <1>2, ExceptSeq
<1> QED BY <1>2, <1>3, <1>4

\* Segment k + 1 is merged into segment k: their values and the value v
\* between them become one segment.
LEMMA MergeAdds ==
  ASSUME NEW segs \in Seq(Segment), WellFormed(segs), NEW v \in Nat,
         NEW k \in 1 .. Len(segs) - 1,
         segs[k].first = v + 1, segs[k + 1].last + 1 = v
  PROVE  Added(RemoveAt([segs EXCEPT ![k].first = segs[k + 1].first], k + 1), segs, v)
<1> DEFINE mid == [segs EXCEPT ![k].first = segs[k + 1].first]
           new == RemoveAt(mid, k + 1)
<1>0. k \in 1 .. Len(segs) /\ k + 1 \in 1 .. Len(segs) /\ Len(segs) \in Nat
  OBVIOUS
<1>1. /\ DOMAIN segs = 1 .. Len(segs)
      /\ \A j \in 1 .. Len(segs) :
           segs[j].first \in Nat /\ segs[j].last \in Nat /\ segs[j].first <= segs[j].last
  BY SegmentElements DEF WellFormed
<1>2. /\ mid \in Seq(Segment) /\ Len(mid) = Len(segs)
      /\ mid[k].first = segs[k + 1].first /\ mid[k].last = segs[k].last
      /\ \A j \in 1 .. Len(segs) : j # k => mid[j] = segs[j]
  BY <1>0, <1>1, FirstReplaced
<1> HIDE DEF mid
<1>3. /\ new \in Seq(Segment) /\ Len(new) = Len(segs) - 1
      /\ \A j \in 1 .. Len(segs) - 1 : new[j] = IF j < k + 1 THEN mid[j] ELSE mid[j + 1]
  BY <1>0, <1>2, RemoveAtElements
<1> HIDE DEF new
<1>4. /\ DOMAIN new = 1 .. Len(segs) - 1
      /\ new[k].first = segs[k + 1].first /\ new[k].last = segs[k].last
      /\ \A j \in 1 .. k - 1 : new[j] = segs[j]
      /\ \A j \in k + 1 .. Len(segs) - 1 : new[j] = segs[j + 1]
  <2>1. DOMAIN new = 1 .. Len(segs) - 1
    BY <1>3
  <2>2. new[k] = mid[k]
    <3>1. k \in 1 .. Len(segs) - 1 /\ k < k + 1
      BY <1>0
    <3> HIDE DEF mid
    <3> QED BY <3>1, <1>3
  <2>3. ASSUME NEW j \in 1 .. k - 1 PROVE new[j] = segs[j]
    <3>1. j \in 1 .. Len(segs) - 1 /\ j \in 1 .. Len(segs) /\ j < k + 1 /\ j # k
      BY <1>0
    <3> QED BY <3>1, <1>2, <1>3
  <2>4. ASSUME NEW j \in k + 1 .. Len(segs) - 1 PROVE new[j] = segs[j + 1]
    <3>1. j \in 1 .. Len(segs) - 1 /\ j + 1 \in 1 .. Len(segs) /\ ~ (j < k + 1) /\ j + 1 # k
      BY <1>0
    <3> QED BY <3>1, <1>2, <1>3
  <2> QED BY <2>1, <2>2, <2>3, <2>4, <1>2
<1>5. ASSUME NEW j \in DOMAIN new PROVE new[j].first <= new[j].last
  <2>1. CASE j = k
    BY SMTT(25), <2>1, <1>0, <1>1, <1>4
  <2>2. CASE j < k
    BY SMTT(25), <2>2, <1>0, <1>1, <1>4
  <2>3. CASE j > k
    <3>1. j + 1 \in 1 .. Len(segs) /\ new[j] = segs[j + 1]
      BY <2>3, <1>0, <1>4
    <3> QED BY <3>1, <1>1
  <2> QED BY <2>1, <2>2, <2>3, <1>4
<1>6. ASSUME NEW w \in Nat, InSegments(new, w) PROVE InSegments(segs, w) \/ w = v
  <2>1. PICK j \in 1 .. Len(segs) - 1 : new[j].first <= w /\ w <= new[j].last
    BY <1>6, <1>4 DEF InSegments
  <2>2. CASE j = k
    <3>1. segs[k + 1].first <= w /\ w <= segs[k].last
      BY <2>1, <2>2, <1>4
    <3>2. CASE w <= segs[k + 1].last
      BY <3>1, <3>2, <1>0, <1>1 DEF InSegments
    <3>3. CASE w >= segs[k].first
      BY <3>1, <3>3, <1>0, <1>1 DEF InSegments
    <3> QED BY <3>2, <3>3, <1>0, <1>1
  <2>3. CASE j < k
    <3>1. j \in 1 .. Len(segs) /\ new[j] = segs[j]
      BY <2>3, <1>0, <1>4
    <3> QED BY <2>1, <3>1, <1>1 DEF InSegments
  <2>4. CASE j > k
    <3>1. j + 1 \in 1 .. Len(segs) /\ new[j] = segs[j + 1]
      BY <2>4, <1>0, <1>4
    <3> QED BY <2>1, <3>1, <1>1 DEF InSegments
  <2> QED BY <2>2, <2>3, <2>4
<1>7. ASSUME NEW w \in Nat, InSegments(segs, w) \/ w = v PROVE InSegments(new, w)
  <2>0. k \in 1 .. Len(segs) - 1 /\ segs[k + 1].first <= v /\ v <= segs[k].last
    BY <1>0, <1>1
  <2>1. CASE w = v
    BY <2>0, <2>1, <1>4 DEF InSegments
  <2>2. CASE InSegments(segs, w)
    <3>1. PICK j \in 1 .. Len(segs) : segs[j].first <= w /\ w <= segs[j].last
      BY <2>2, <1>1 DEF InSegments
    <3>2. CASE j < k
      <4>1. j \in 1 .. Len(segs) - 1 /\ new[j] = segs[j]
        BY <3>2, <1>0, <1>4
      <4> QED BY <3>1, <4>1, <1>4 DEF InSegments
    <3>3. CASE j = k \/ j = k + 1
      <4>1. new[k].first <= w /\ w <= new[k].last
        BY SMTT(25), <3>1, <3>3, <1>0, <1>1, <1>4
      <4> QED BY <4>1, <2>0, <1>4 DEF InSegments
    <3>4. CASE j > k + 1
      <4>1. j - 1 \in 1 .. Len(segs) - 1 /\ new[j - 1] = segs[j]
        BY <3>4, <1>0, <1>4
      <4> QED BY <3>1, <4>1, <1>4 DEF InSegments
    <3> QED BY <3>2, <3>3, <3>4
  <2> QED BY <1>7, <2>1, <2>2
<1>8. WellFormed(new)
  BY <1>5 DEF WellFormed
<1> QED BY <1>3, <1>6, <1>7, <1>8 DEF Added, mid, new

\* Extending a segment to the left, and merging it with the one it then
\* touches, adds just v.
LEMMA ExtendLeftAdds ==
  ASSUME NEW segs \in Seq(Segment), WellFormed(segs), NEW v \in Nat,
         NEW i \in 1 .. Len(segs), segs[i].first = v + 1
  PROVE  Added(ExtendLeft(segs, i, v), segs, v)
<1>1. CASE i + 1 <= Len(segs) /\ segs[i + 1].last + 1 = v
  BY <1>1, MergeAdds DEF ExtendLeft
<1>2. CASE ~ (i + 1 <= Len(segs) /\ segs[i + 1].last + 1 = v)
  <2> DEFINE new == [segs EXCEPT ![i].first = v]
  <2>1. ExtendLeft(segs, i, v) = new
    BY <1>2 DEF ExtendLeft
  <2>2. /\ DOMAIN segs = 1 .. Len(segs)
        /\ \A j \in 1 .. Len(segs) : segs[j].first \in Nat /\ segs[j].last \in Nat
    BY SegmentElements
  <2>3. /\ new \in Seq(Segment) /\ Len(new) = Len(segs)
        /\ new[i].first = v /\ new[i].last = segs[i].last
        /\ \A j \in 1 .. Len(segs) : j # i => new[j] = segs[j]
    BY FirstReplaced
  <2> HIDE DEF new
  <2>4. DOMAIN new = 1 .. Len(segs)
    BY <2>3
  <2>5. WellFormed(new)
    BY <2>2, <2>3, <2>4 DEF WellFormed
  <2>6. ASSUME NEW w \in Nat PROVE InSegments(new, w) <=> InSegments(segs, w) \/ w = v
    BY SMTT(25), <2>2, <2>3, <2>4 DEF InSegments, WellFormed
  <2> QED BY <2>1, <2>3, <2>5, <2>6 DEF Added
<1> QED BY <1>1, <1>2

\* The same for an extension to the right.
LEMMA ExtendRightAdds ==
  ASSUME NEW segs \in Seq(Segment), WellFormed(segs), NEW v \in Nat,
         NEW i \in 1 .. Len(segs), v = segs[i].last + 1
  PROVE  Added(ExtendRight(segs, i, v), segs, v)
<1>1. CASE i > 1 /\ segs[i - 1].first = v + 1
  <2> DEFINE k == i - 1
  <2>1. k \in 1 .. Len(segs) - 1 /\ k + 1 = i
    BY <1>1
  <2>2. ExtendRight(segs, i, v) = RemoveAt([segs EXCEPT ![k].first = segs[i].first], i)
    BY <1>1 DEF ExtendRight
  <2>3. segs[k].first = v + 1 /\ segs[k + 1].last + 1 = v
    BY <1>1, <2>1
  <2> HIDE DEF k
  <2> QED BY <2>1, <2>2, <2>3, MergeAdds
<1>2. CASE ~ (i > 1 /\ segs[i - 1].first = v + 1)
  <2> DEFINE new == [segs EXCEPT ![i].last = v]
  <2>1. ExtendRight(segs, i, v) = new
    BY <1>2 DEF ExtendRight
  <2>2. /\ DOMAIN segs = 1 .. Len(segs)
        /\ \A j \in 1 .. Len(segs) : segs[j].first \in Nat /\ segs[j].last \in Nat
    BY SegmentElements
  <2>3. /\ new \in Seq(Segment) /\ Len(new) = Len(segs)
        /\ new[i].last = v /\ new[i].first = segs[i].first
        /\ \A j \in 1 .. Len(segs) : j # i => new[j] = segs[j]
    BY LastReplaced
  <2> HIDE DEF new
  <2>4. DOMAIN new = 1 .. Len(segs)
    BY <2>3
  <2>5. WellFormed(new)
    BY <2>2, <2>3, <2>4 DEF WellFormed
  <2>6. ASSUME NEW w \in Nat PROVE InSegments(new, w) <=> InSegments(segs, w) \/ w = v
    <3>1. ASSUME NEW j \in 1 .. Len(segs), j # i
          PROVE  new[j] = segs[j]
      BY <3>1, <2>3
    <3>2. new[i].first = segs[i].first /\ new[i].last = segs[i].last + 1
      BY <2>3
    <3>3. segs[i].first <= segs[i].last
      BY <2>2 DEF WellFormed
    <3>4. ASSUME InSegments(new, w) PROVE InSegments(segs, w) \/ w = v
      <4>1. PICK j \in 1 .. Len(segs) : new[j].first <= w /\ w <= new[j].last
        BY <3>4, <2>4 DEF InSegments
      <4>2. CASE j = i
        BY <4>1, <4>2, <3>2, <2>2 DEF InSegments
      <4>3. CASE j # i
        BY <4>1, <4>3, <3>1, <2>2 DEF InSegments
      <4> QED BY <4>2, <4>3
    <3>5. ASSUME InSegments(segs, w) \/ w = v PROVE InSegments(new, w)
      <4>1. CASE w = v
        BY <4>1, <3>2, <3>3, <2>2, <2>4 DEF InSegments
      <4>2. CASE InSegments(segs, w)
        <5>1. PICK j \in 1 .. Len(segs) : segs[j].first <= w /\ w <= segs[j].last
          BY <4>2, <2>2 DEF InSegments
        <5>2. new[j].first <= w /\ w <= new[j].last
          BY SMTT(25), <5>1, <3>1, <3>2, <2>2
        <5> QED BY <5>1, <5>2, <2>4 DEF InSegments
      <4> QED BY <3>5, <4>1, <4>2
    <3> QED BY <3>4, <3>5
  <2> QED BY <2>1, <2>3, <2>5, <2>6 DEF Added
<1> QED BY <1>1, <1>2

\* A segment of its own adds just its value, wherever it is put.
LEMMA StartSegmentAdds ==
  ASSUME NEW segs \in Seq(Segment), WellFormed(segs), NEW v \in Nat
  PROVE  Added(StartSegment(segs, v), segs, v)
<1> DEFINE below == {i \in 1 .. Len(segs) : segs[i].last <= v}
           pos   == IF below = {} THEN Len(segs) + 1 ELSE Min(below)
           seg   == [first |-> v, last |-> v]
           new   == InsertAt(segs, pos, seg)
<1>0. /\ DOMAIN segs = 1 .. Len(segs) /\ Len(segs) \in Nat
      /\ \A j \in 1 .. Len(segs) :
           segs[j].first \in Nat /\ segs[j].last \in Nat /\ segs[j].first <= segs[j].last
  BY SegmentElements DEF WellFormed
<1>1. pos \in 1 .. Len(segs) + 1
  <2>1. CASE below = {}
    BY <2>1
  <2>2. CASE below # {}
    <3>1. below \in SUBSET Nat
      OBVIOUS
    <3>2. Min(below) \in below
      BY <2>2, <3>1, MinIsLeast
    <3> QED BY <2>2, <3>2
  <2> QED BY <2>1, <2>2
<1>2. StartSegment(segs, v) = new
  BY DEF StartSegment
<1>3. seg \in Segment /\ seg.first = v /\ seg.last = v
  BY DEF Segment
<1> HIDE DEF pos, seg
<1>4. /\ new \in Seq(Segment) /\ Len(new) = Len(segs) + 1
      /\ \A j \in 1 .. Len(segs) + 1 :
           new[j] = IF j < pos THEN segs[j] ELSE IF j = pos THEN seg ELSE segs[j - 1]
  <2>1. seg \in Segment
    BY <1>3
  <2>2. InsertAt(segs, pos, seg) \in Seq(Segment)
    BY <1>1, <2>1, InsertAtElements
  <2>3. Len(InsertAt(segs, pos, seg)) = Len(segs) + 1
    BY <1>1, <2>1, InsertAtElements
  <2>4. ASSUME NEW j \in 1 .. Len(segs) + 1
        PROVE  InsertAt(segs, pos, seg)[j] =
                 IF j < pos THEN segs[j] ELSE IF j = pos THEN seg ELSE segs[j - 1]
    BY <1>1, <2>1, InsertAtElements
  <2> QED BY <2>2, <2>3, <2>4
<1> HIDE DEF new
<1>5. /\ DOMAIN new = 1 .. Len(segs) + 1
      /\ new[pos].first = v /\ new[pos].last = v
      /\ \A j \in 1 .. pos - 1 : new[j] = segs[j]
      /\ \A j \in pos .. Len(segs) : new[j + 1] = segs[j]
  BY <1>0, <1>1, <1>3, <1>4
<1>6. ASSUME NEW j \in DOMAIN new
      PROVE  \/ j = pos
             \/ \E n \in 1 .. Len(segs) : new[j] = segs[n]
  <2>1. CASE j < pos
    BY <2>1, <1>0, <1>1, <1>5
  <2>2. CASE j > pos
    <3>1. j - 1 \in pos .. Len(segs) /\ j - 1 \in 1 .. Len(segs)
      BY <2>2, <1>0, <1>1, <1>5
    <3>2. new[(j - 1) + 1] = segs[j - 1] /\ (j - 1) + 1 = j
      BY <3>1, <1>1, <1>5
    <3> QED BY <3>1, <3>2
  <2> QED BY <2>1, <2>2, <1>1, <1>5
<1>7. WellFormed(new)
  BY <1>0, <1>5, <1>6 DEF WellFormed
<1>8. ASSUME NEW w \in Nat, InSegments(new, w) PROVE InSegments(segs, w) \/ w = v
  <2>1. PICK j \in DOMAIN new : new[j].first <= w /\ w <= new[j].last
    BY <1>8 DEF InSegments
  <2>2. CASE j = pos
    BY <2>1, <2>2, <1>5
  <2>3. CASE \E n \in 1 .. Len(segs) : new[j] = segs[n]
    BY <2>1, <2>3, <1>0 DEF InSegments
  <2> QED BY <2>2, <2>3, <1>6
<1>9. ASSUME NEW w \in Nat, InSegments(segs, w) \/ w = v PROVE InSegments(new, w)
  <2>1. CASE w = v
    BY <2>1, <1>1, <1>5 DEF InSegments
  <2>2. CASE InSegments(segs, w)
    <3>1. PICK j \in 1 .. Len(segs) : segs[j].first <= w /\ w <= segs[j].last
      BY <2>2, <1>0 DEF InSegments
    <3>2. CASE j < pos
      BY <3>1, <3>2, <1>0, <1>1, <1>5 DEF InSegments
    <3>3. CASE ~ (j < pos)
      <4>1. j + 1 \in DOMAIN new /\ new[j + 1] = segs[j]
        BY <3>3, <1>0, <1>1, <1>5
      <4> QED BY <3>1, <4>1 DEF InSegments
    <3> QED BY <3>2, <3>3
  <2> QED BY <1>9, <2>1, <2>2
<1> QED BY <1>2, <1>4, <1>7, <1>8, <1>9 DEF Added

\* Whatever the case, adding a value to the segments covers just that value.
LEMMA AddToSegmentsAdds ==
  ASSUME NEW segs \in Seq(Segment), WellFormed(segs), NEW v \in Nat
  PROVE  Added(AddToSegments(segs, v), segs, v)
<1> DEFINE fit == {i \in 1 .. Len(segs) : Extends(segs[i], v)}
           i   == Min(fit)
<1>1. CASE fit = {}
  BY <1>1, StartSegmentAdds DEF AddToSegments
<1>2. CASE fit # {}
  <2>1. fit \in SUBSET Nat
    OBVIOUS
  <2>2. i \in fit
    BY <1>2, <2>1, MinIsLeast
  <2>3. i \in 1 .. Len(segs) /\ (v + 1 = segs[i].first \/ v = segs[i].last + 1)
    BY <2>2 DEF Extends
  <2>4. AddToSegments(segs, v) = IF v + 1 = segs[i].first THEN ExtendLeft(segs, i, v)
                                 ELSE ExtendRight(segs, i, v)
    BY <1>2 DEF AddToSegments
  <2> HIDE DEF i
  <2> QED BY <2>3, <2>4, ExtendLeftAdds, ExtendRightAdds
<1> QED BY <1>1, <1>2
-----------------------------------------------------------------------------
(* The inductive invariant.                                                *)

\* What a thread in the middle of an operation works on.
ArgsOK ==
  \A t \in Threads :
    /\ pc[t] = "insert" => arg[t] \in claimed \ marked
    /\ pc[t] = "collapse" => arg[t] \in marked
    /\ pc[t] = "scan" => arg[t] \in Allocated /\ (late[t] => arg[t] \in returned)

\* No two threads complete the same counter.
InsertersDiffer ==
  \A t, u \in Threads :
    pc[t] = "insert" /\ pc[u] = "insert" /\ arg[t] = arg[u] => t = u

\* The cursors of trimCompleteCounters stay inside its span.
CursorsOK ==
  \A t \in Threads :
    /\ pc[t] \in {"trim", "trimScan"} => remaining[t] <= Len(span[t])
    /\ pc[t] = "trimScan" => cursor[t] <= remaining[t]

SegmentsOK == \A l \in Lists : WellFormed(segments[l])

\* Exact, and moreover nothing above the allocated counters is covered.
ExactEverywhere ==
  \A c \in Nat : c >= NUM_COMPLETION_LISTS => (Completed(c) <=> c \in marked)

IInv == TypeOK /\ ArgsOK /\ InsertersDiffer /\ CursorsOK /\ SegmentsOK
        /\ ExactEverywhere /\ StaleOnce

LEMMA AllocatedRange ==
  ASSUME TypeOK, NEW c \in Allocated
  PROVE  c \in Nat /\ c >= NUM_COMPLETION_LISTS /\ ListOf(c) \in Lists /\ ValueOf(c) \in Nat
<1>1. nextCounter \in Nat /\ NUM_COMPLETION_LISTS \in Nat
  BY ListsAssumption DEF TypeOK
<1>2. c \in Nat /\ c >= NUM_COMPLETION_LISTS
  BY <1>1 DEF Allocated
<1> QED BY <1>2, CounterArithmetic

\* If the values that are covered change by the value of one counter, or not
\* at all, the invariant ExactEverywhere is kept by marking that counter.
LEMMA CoverOneMore ==
  ASSUME ExactEverywhere, NEW d \in Nat, marked' = marked \cup {d},
         \A l \in Lists, w \in Nat :
           w >= 1 => (Covers(l, w)' <=> Covers(l, w) \/ (l = ListOf(d) /\ w = ValueOf(d)))
  PROVE  ExactEverywhere'
<1> SUFFICES ASSUME NEW c \in Nat, c >= NUM_COMPLETION_LISTS
             PROVE  Completed(c)' <=> c \in marked'
  BY DEF ExactEverywhere
<1>1. ListOf(c) \in Lists /\ ValueOf(c) \in Nat /\ ValueOf(c) >= 1
  BY CounterArithmetic
<1>2. Completed(c)' <=> Completed(c) \/ (ListOf(c) = ListOf(d) /\ ValueOf(c) = ValueOf(d))
  BY <1>1 DEF Completed
<1>3. ListOf(c) = ListOf(d) /\ ValueOf(c) = ValueOf(d) <=> c = d
  BY CounterArithmetic
<1> QED BY <1>2, <1>3 DEF ExactEverywhere

LEMMA CoverTheSame ==
  ASSUME ExactEverywhere, marked' = marked,
         \A l \in Lists, w \in Nat : w >= 1 => (Covers(l, w)' <=> Covers(l, w))
  PROVE  ExactEverywhere'
<1> SUFFICES ASSUME NEW c \in Nat, c >= NUM_COMPLETION_LISTS
             PROVE  Completed(c)' <=> c \in marked'
  BY DEF ExactEverywhere
<1>1. ListOf(c) \in Lists /\ ValueOf(c) \in Nat /\ ValueOf(c) >= 1
  BY CounterArithmetic
<1> QED BY <1>1 DEF ExactEverywhere, Completed

\* A prefix that only grows keeps StaleOnce.
LEMMA PrefixGrows ==
  ASSUME TypeOK, StaleOnce, stale' = stale,
         \A l \in Lists : fully'[l] \in Nat /\ fully'[l] >= fully[l]
  PROVE  StaleOnce'
<1> SUFFICES ASSUME NEW c \in stale PROVE Passed(c)'
  BY DEF StaleOnce
<1>1. c \in Allocated
  BY DEF TypeOK
<1>2. ListOf(c) \in Lists /\ ValueOf(c) \in Nat
  BY <1>1, AllocatedRange
<1>3. fully[ListOf(c)] >= ValueOf(c) /\ fully[ListOf(c)] \in Nat
  BY <1>2 DEF StaleOnce, Passed, TypeOK
<1> QED BY <1>2, <1>3 DEF Passed

LEMMA InitIInv == Init => IInv
<1> SUFFICES ASSUME Init PROVE IInv
  OBVIOUS
<1>1. TypeOK
  BY ListsAssumption DEF Init, TypeOK, Labels, Allocated
<1>2. ArgsOK /\ InsertersDiffer /\ CursorsOK /\ StaleOnce
  BY DEF Init, ArgsOK, InsertersDiffer, CursorsOK, StaleOnce
<1>3. SegmentsOK
  BY DEF Init, SegmentsOK, WellFormed
<1>4. ExactEverywhere
  <2> SUFFICES ASSUME NEW c \in Nat, c >= NUM_COMPLETION_LISTS PROVE ~ Completed(c)
    BY DEF ExactEverywhere, Init
  <2>1. ListOf(c) \in Lists /\ ValueOf(c) \in Nat /\ ValueOf(c) >= 1
    BY CounterArithmetic
  <2> QED BY <2>1 DEF Init, Completed, Covers, InSegments
<1> QED BY <1>1, <1>2, <1>3, <1>4 DEF IInv
-----------------------------------------------------------------------------
(* One lemma per action that changes the lists; the actions of isCounter-  *)
(* Complete and trimCompleteCounters leave them alone.                     *)

LEMMA AllocateIInv ==
  ASSUME IInv, NEW t \in Threads, Allocate(t) PROVE IInv'
<1> USE DEF IInv
<1>1. Allocated \subseteq Allocated'
  BY ListsAssumption DEF Allocate, Allocated, TypeOK
<1>2. TypeOK'
  BY <1>1, ListsAssumption DEF Allocate, TypeOK, spanVars, historyVars
<1>3. ArgsOK' /\ InsertersDiffer' /\ CursorsOK' /\ SegmentsOK' /\ StaleOnce'
  BY <1>1 DEF Allocate, ArgsOK, InsertersDiffer, CursorsOK, SegmentsOK, WellFormed,
              StaleOnce, Passed, spanVars, historyVars
<1>4. ExactEverywhere'
  BY DEF Allocate, ExactEverywhere, Completed, Covers, historyVars
<1> QED BY <1>2, <1>3, <1>4

LEMMA CompleteInOrderIInv ==
  ASSUME IInv, NEW t \in Threads, NEW c \in Allocated, CompleteInOrder(t, c) PROVE IInv'
<1> USE DEF IInv
<1> DEFINE l == ListOf(c)
           v == ValueOf(c)
<1>1. c \in Nat /\ c >= NUM_COMPLETION_LISTS /\ l \in Lists /\ v \in Nat /\ v >= 1
  BY AllocatedRange, CounterArithmetic
<1>2. c \notin claimed /\ c \notin marked /\ Allocated' = Allocated
  BY DEF CompleteInOrder, TypeOK, Allocated
<1>3. CASE fully[l] = v - 1
  <2>1. /\ fully' = [fully EXCEPT ![l] = v] /\ segments' = segments
        /\ claimed' = claimed \cup {c} /\ marked' = marked \cup {c}
        /\ returned' = returned \cup {c}
        /\ UNCHANGED <<nextCounter, lock, pc, arg, expected, spanVars, late, stale>>
    BY <1>3 DEF CompleteInOrder, InOrder
  <2> HIDE DEF l, v
  <2>2. TypeOK'
    BY <1>1, <1>2, <2>1 DEF TypeOK, spanVars
  <2>3. ArgsOK'
    BY <1>2, <2>1 DEF ArgsOK, TypeOK
  <2>4. InsertersDiffer' /\ CursorsOK' /\ SegmentsOK'
    BY <2>1 DEF InsertersDiffer, CursorsOK, SegmentsOK, WellFormed, spanVars
  <2>5. \A k \in Lists : fully'[k] \in Nat /\ fully'[k] >= fully[k]
    BY SMTT(25), <1>1, <1>3, <2>1 DEF TypeOK
  <2>6. StaleOnce'
    BY <2>1, <2>5, PrefixGrows
  <2>7. ASSUME NEW k \in Lists, NEW w \in Nat, w >= 1
        PROVE  Covers(k, w)' <=> Covers(k, w) \/ (k = l /\ w = v)
    BY SMTT(25), <1>1, <1>3, <2>1 DEF Covers, TypeOK
  <2>8. ExactEverywhere'
    BY <1>1, <2>1, <2>7, CoverOneMore DEF l, v
  <2> QED BY <2>2, <2>3, <2>4, <2>6, <2>8
<1>4. CASE ~ (fully[l] = v - 1)
  <2>1. /\ claimed' = claimed \cup {c}
        /\ expected' = [expected EXCEPT ![t] = fully[l]]
        /\ arg' = [arg EXCEPT ![t] = c]
        /\ pc' = [pc EXCEPT ![t] = "insert"] /\ pc[t] = "idle"
        /\ UNCHANGED <<fully, marked, returned, nextCounter, segments, lock>>
        /\ UNCHANGED <<spanVars, late, stale>>
    BY <1>4 DEF CompleteInOrder, InOrder, Goto
  <2> HIDE DEF l, v
  <2>2. TypeOK'
    BY <1>1, <1>2, <2>1 DEF TypeOK, Labels, spanVars
  <2>3. ArgsOK'
    BY <1>2, <2>1 DEF ArgsOK, TypeOK
  <2>4. InsertersDiffer'
    BY <1>2, <2>1 DEF InsertersDiffer, ArgsOK, TypeOK
  <2>5. CursorsOK'
    BY <2>1 DEF CursorsOK, TypeOK, spanVars
  <2>6. SegmentsOK' /\ StaleOnce' /\ ExactEverywhere'
    BY <2>1 DEF SegmentsOK, WellFormed, StaleOnce, Passed, ExactEverywhere, Completed, Covers
  <2> QED BY <2>2, <2>3, <2>4, <2>5, <2>6
<1> QED BY <1>3, <1>4

LEMMA CompleteInsertIInv ==
  ASSUME IInv, NEW t \in Threads, CompleteInsert(t) PROVE IInv'
<1> USE DEF IInv
<1> DEFINE c == arg[t]
           l == ListOf(c)
           v == ValueOf(c)
           new == AddToSegments(segments[l], v)
<1>1. pc[t] = "insert" /\ c \in claimed /\ c \notin marked /\ c \in Allocated
  BY DEF CompleteInsert, ArgsOK, TypeOK
<1>2. c \in Nat /\ l \in Lists /\ v \in Nat
  BY <1>1, AllocatedRange
<1>3. /\ segments' = [segments EXCEPT ![l] = new]
      /\ lock' = [lock EXCEPT ![l] = TRUE]
      /\ marked' = marked \cup {c}
      /\ pc' = [pc EXCEPT ![t] = "collapse"]
      /\ UNCHANGED <<nextCounter, fully, arg, expected, claimed, returned>>
      /\ UNCHANGED <<spanVars, late, stale>>
  BY DEF CompleteInsert, Goto
<1>4. segments[l] \in Seq(Segment) /\ WellFormed(segments[l])
  BY <1>2 DEF TypeOK, SegmentsOK
<1>5. Added(new, segments[l], v)
  BY <1>2, <1>4, AddToSegmentsAdds
<1> HIDE DEF c, l, v, new
<1>6. TypeOK'
  BY <1>1, <1>2, <1>3, <1>5 DEF TypeOK, Labels, Added, Allocated, spanVars
<1>7. ArgsOK'
  <2> SUFFICES ASSUME NEW u \in Threads
               PROVE  /\ pc'[u] = "insert" => arg[u] \in claimed \ marked'
                      /\ pc'[u] = "collapse" => arg[u] \in marked'
                      /\ pc'[u] = "scan" => arg[u] \in Allocated' /\ (late[u] => arg[u] \in returned)
    BY <1>3 DEF ArgsOK
  <2>1. CASE u = t
    BY <2>1, <1>3 DEF TypeOK, c
  <2>2. CASE u # t
    <3>1. pc'[u] = pc[u]
      BY <2>2, <1>3 DEF TypeOK
    <3>2. pc[u] = "insert" => arg[u] # c
      BY <2>2, <1>1 DEF InsertersDiffer, c
    <3>3. Allocated' = Allocated
      BY <1>3 DEF Allocated
    <3> QED BY <3>1, <3>2, <3>3, <1>3 DEF ArgsOK
  <2> QED BY <2>1, <2>2
<1>8. InsertersDiffer' /\ CursorsOK'
  BY <1>3 DEF InsertersDiffer, CursorsOK, TypeOK, spanVars
<1>9. SegmentsOK'
  BY <1>2, <1>3, <1>5 DEF SegmentsOK, TypeOK, Added
<1>10. StaleOnce'
  BY <1>3 DEF StaleOnce, Passed
<1>11. ASSUME NEW k \in Lists, NEW w \in Nat, w >= 1
       PROVE  Covers(k, w)' <=> Covers(k, w) \/ (k = l /\ w = v)
  <2>1. segments'[k] = IF k = l THEN new ELSE segments[k]
    BY <1>3 DEF TypeOK
  <2>2. fully'[k] = fully[k]
    BY <1>3
  <2> QED BY <1>5, <2>1, <2>2 DEF Covers, Added
<1>12. ExactEverywhere'
  BY <1>2, <1>3, <1>11, CoverOneMore DEF l, v
<1> QED BY <1>6, <1>7, <1>8, <1>9, <1>10, <1>12

LEMMA CompleteCollapseIInv ==
  ASSUME IInv, NEW t \in Threads, CompleteCollapse(t) PROVE IInv' /\ marked' = marked
<1> USE DEF IInv
<1> DEFINE l == ListOf(arg[t])
           segs == segments[l]
           low == Last(segs)
<1>1. pc[t] = "collapse" /\ arg[t] \in Allocated
  BY DEF CompleteCollapse, ArgsOK, TypeOK
<1>2. l \in Lists
  BY <1>1, AllocatedRange
<1>3. segs \in Seq(Segment) /\ WellFormed(segs) /\ fully[l] \in Nat /\ expected[t] \in Nat
  BY <1>2 DEF TypeOK, SegmentsOK
<1>4. segs # <<>> /\ low.first = expected[t] + 1
  BY DEF CompleteCollapse, Continues
<1>5. /\ Len(segs) \in 1 .. Len(segs) /\ low = segs[Len(segs)]
      /\ Front(segs) \in Seq(Segment) /\ Len(Front(segs)) = Len(segs) - 1
      /\ \A j \in 1 .. Len(segs) - 1 : Front(segs)[j] = segs[j]
  BY <1>3, <1>4, FrontElements
<1>6. DOMAIN segs = 1 .. Len(segs) /\ DOMAIN Front(segs) = 1 .. Len(segs) - 1
  BY <1>3, <1>5
<1>7. low.first \in Nat /\ low.last \in Nat /\ low.first <= low.last
  <2>1. low.first \in Nat /\ low.last \in Nat
    BY <1>3, <1>5, SegmentElements
  <2> QED BY <2>1, <1>3, <1>5, <1>6 DEF WellFormed
<1>8. CASE fully[l] = expected[t]
  <2>1. /\ fully' = [fully EXCEPT ![l] = low.last]
        /\ expected' = [expected EXCEPT ![t] = low.last]
        /\ segments' = [segments EXCEPT ![l] = Front(segs)]
        /\ UNCHANGED <<nextCounter, lock, pc, arg, spanVars, historyVars, late, stale>>
    BY <1>8 DEF CompleteCollapse, NewPrefix
  <2>2. ASSUME NEW w \in Nat
        PROVE  InSegments(segs, w) <=>
               InSegments(Front(segs), w) \/ (low.first <= w /\ w <= low.last)
    <3>1. ASSUME NEW j \in 1 .. Len(segs), segs[j].first <= w, w <= segs[j].last
          PROVE  InSegments(Front(segs), w) \/ (low.first <= w /\ w <= low.last)
      <4>1. CASE j = Len(segs)
        BY <4>1, <3>1, <1>5
      <4>2. CASE j # Len(segs)
        <5>1. j \in 1 .. Len(segs) - 1 /\ Front(segs)[j] = segs[j]
          BY <4>2, <1>5
        <5> QED BY <5>1, <3>1, <1>6 DEF InSegments
      <4> QED BY <4>1, <4>2
    <3>2. ASSUME NEW j \in 1 .. Len(segs) - 1,
                 Front(segs)[j].first <= w, w <= Front(segs)[j].last
          PROVE  InSegments(segs, w)
      <4>1. j \in 1 .. Len(segs) /\ Front(segs)[j] = segs[j]
        BY <1>5
      <4> QED BY <4>1, <3>2, <1>6 DEF InSegments
    <3> QED BY <3>1, <3>2, <1>5, <1>6 DEF InSegments
  <2>3. WellFormed(Front(segs))
    <3> SUFFICES ASSUME NEW j \in 1 .. Len(segs) - 1
                 PROVE  Front(segs)[j].first <= Front(segs)[j].last
      BY <1>6 DEF WellFormed
    <3>1. j \in 1 .. Len(segs) /\ Front(segs)[j] = segs[j]
      BY <1>5
    <3> QED BY <3>1, <1>3, <1>6 DEF WellFormed
  <2> DEFINE front == Front(segs)
             first == low.first
             last  == low.last
  <2>4. front \in Seq(Segment) /\ WellFormed(front) /\ last \in Nat /\ first \in Nat
        /\ first <= last /\ first = expected[t] + 1
    BY <1>4, <1>5, <1>7, <2>3
  <2> HIDE DEF front, first, last, l
  <2>5. TypeOK'
    BY <1>2, <2>1, <2>4 DEF TypeOK, Allocated, spanVars, historyVars, front, last
  <2>6. ArgsOK' /\ InsertersDiffer' /\ CursorsOK'
    BY <2>1 DEF ArgsOK, InsertersDiffer, CursorsOK, Allocated, spanVars, historyVars
  <2>7. ASSUME NEW k \in Lists
        PROVE  /\ fully'[k] = IF k = l THEN last ELSE fully[k]
               /\ segments'[k] = IF k = l THEN front ELSE segments[k]
    BY <2>1 DEF TypeOK, front, last
  <2>8. SegmentsOK'
    BY <2>4, <2>7 DEF SegmentsOK
  <2>9. \A k \in Lists : fully'[k] \in Nat /\ fully'[k] >= fully[k]
    <3>1. \A k \in Lists : fully[k] \in Nat
      BY DEF TypeOK
    <3>2. last \in Nat /\ last >= fully[l]
      BY <1>3, <1>8, <2>4
    <3> QED BY <2>7, <3>1, <3>2
  <2>10. StaleOnce'
    BY <2>1, <2>9, PrefixGrows
  <2>11. ASSUME NEW k \in Lists, NEW w \in Nat PROVE Covers(k, w)' <=> Covers(k, w)
    <3>1. CASE k = l
      <4>1. Covers(k, w)' <=> last >= w \/ InSegments(front, w)
        BY <2>7, <3>1 DEF Covers
      <4>2. Covers(k, w) <=> fully[l] >= w \/ InSegments(front, w) \/ (first <= w /\ w <= last)
        BY <2>2, <3>1 DEF Covers, front, first, last
      <4> QED BY <4>1, <4>2, <1>3, <1>8, <2>4
    <3>2. CASE k # l
      BY <2>7, <3>2 DEF Covers
    <3> QED BY <3>1, <3>2
  <2>12. ExactEverywhere' /\ marked' = marked
    BY <2>1, <2>11, CoverTheSame DEF historyVars
  <2> QED BY <2>5, <2>6, <2>8, <2>10, <2>12
<1>9. CASE fully[l] # expected[t]
  <2>1. /\ expected' = [expected EXCEPT ![t] = fully[l]]
        /\ UNCHANGED <<fully, segments>>
        /\ UNCHANGED <<nextCounter, lock, pc, arg, spanVars, historyVars, late, stale>>
    BY <1>9 DEF CompleteCollapse
  <2>2. TypeOK'
    BY <1>3, <2>1 DEF TypeOK, Allocated, spanVars, historyVars
  <2>3. ArgsOK' /\ InsertersDiffer' /\ CursorsOK'
    BY <2>1 DEF ArgsOK, InsertersDiffer, CursorsOK, Allocated, spanVars, historyVars
  <2>4. SegmentsOK' /\ StaleOnce' /\ ExactEverywhere' /\ marked' = marked
    BY <2>1 DEF SegmentsOK, WellFormed, StaleOnce, Passed, ExactEverywhere,
                Completed, Covers, historyVars
  <2> QED BY <2>2, <2>3, <2>4
<1> QED BY <1>8, <1>9

LEMMA CompleteReturnIInv ==
  ASSUME IInv, NEW t \in Threads, CompleteReturn(t) PROVE IInv' /\ marked' = marked
<1> USE DEF IInv
<1>1. pc[t] = "collapse" /\ arg[t] \in marked
  BY DEF CompleteReturn, ArgsOK
<1>2. /\ returned' = returned \cup {arg[t]}
      /\ arg' = [arg EXCEPT ![t] = 0]
      /\ expected' = [expected EXCEPT ![t] = 0]
      /\ lock' = [lock EXCEPT ![ListOf(arg[t])] = FALSE]
      /\ pc' = [pc EXCEPT ![t] = "idle"]
      /\ UNCHANGED <<nextCounter, fully, segments, spanVars>>
      /\ UNCHANGED <<claimed, marked, late, stale>>
  BY DEF CompleteReturn, Goto
<1>3. TypeOK'
  BY <1>1, <1>2 DEF TypeOK, Labels, Allocated, spanVars
<1>4. ArgsOK'
  BY <1>2 DEF ArgsOK, TypeOK, Allocated
<1>5. InsertersDiffer' /\ CursorsOK'
  BY <1>2 DEF InsertersDiffer, CursorsOK, TypeOK, spanVars
<1>6. SegmentsOK' /\ StaleOnce' /\ ExactEverywhere'
  BY <1>2 DEF SegmentsOK, WellFormed, StaleOnce, Passed, ExactEverywhere, Completed, Covers
<1> QED BY <1>2, <1>3, <1>4, <1>5, <1>6

\* Steps that leave the lists and the history of completions alone keep the
\* parts of the invariant about them.
LEMMA ListsUnchanged ==
  ASSUME IInv, UNCHANGED <<listVars, historyVars>>
  PROVE  SegmentsOK' /\ ExactEverywhere' /\ (stale' = stale => StaleOnce') /\ Allocated' = Allocated
BY DEF IInv, listVars, historyVars, SegmentsOK, WellFormed, StaleOnce, Passed,
       ExactEverywhere, Completed, Covers, Allocated

LEMMA CheckPrefixIInv ==
  ASSUME IInv, NEW t \in Threads, NEW c \in Allocated, CheckPrefix(t, c) PROVE IInv'
<1> USE DEF IInv
<1>1. /\ arg' = [arg EXCEPT ![t] = c]
      /\ late' = [late EXCEPT ![t] = c \in returned]
      /\ pc' = [pc EXCEPT ![t] = "scan"]
      /\ UNCHANGED <<listVars, expected, spanVars, historyVars, stale>>
  BY DEF CheckPrefix, Goto
<1>2. SegmentsOK' /\ ExactEverywhere' /\ StaleOnce' /\ Allocated' = Allocated
  BY <1>1, ListsUnchanged
<1>3. c \in Nat /\ (c \in returned) \in BOOLEAN
  BY AllocatedRange
<1>4. TypeOK'
  BY <1>1, <1>2, <1>3 DEF TypeOK, Labels, listVars, spanVars, historyVars
<1>5. ArgsOK'
  BY <1>1, <1>2 DEF ArgsOK, TypeOK, historyVars
<1>6. InsertersDiffer' /\ CursorsOK'
  BY <1>1 DEF InsertersDiffer, CursorsOK, TypeOK, spanVars
<1> QED BY <1>2, <1>4, <1>5, <1>6

LEMMA CheckSegmentsIInv ==
  ASSUME IInv, NEW t \in Threads, CheckSegments(t) PROVE IInv'
<1> USE DEF IInv
<1> DEFINE c == arg[t]
           denied == late[t] /\ ~ InSegments(segments[ListOf(c)], ValueOf(c))
<1>1. /\ stale' = IF denied THEN stale \cup {c} ELSE stale
      /\ arg' = [arg EXCEPT ![t] = 0]
      /\ late' = [late EXCEPT ![t] = FALSE]
      /\ pc' = [pc EXCEPT ![t] = "idle"]
      /\ UNCHANGED <<listVars, expected, spanVars, historyVars>>
  BY DEF CheckSegments, Goto
<1>2. SegmentsOK' /\ ExactEverywhere' /\ Allocated' = Allocated
  BY <1>1, ListsUnchanged
<1>3. c \in Allocated /\ (late[t] => c \in marked)
  BY DEF CheckSegments, ArgsOK, TypeOK
<1>4. c \in Nat /\ c >= NUM_COMPLETION_LISTS
  BY <1>3, AllocatedRange
<1>5. denied => Passed(c)
  BY <1>3, <1>4 DEF ExactEverywhere, Completed, Covers, Passed
<1> HIDE DEF denied, c
<1>6. StaleOnce'
  BY <1>1, <1>5 DEF StaleOnce, Passed, listVars
<1>7. TypeOK'
  BY <1>1, <1>2, <1>3 DEF TypeOK, Labels, listVars, spanVars, historyVars
<1>8. ArgsOK'
  BY <1>1, <1>2 DEF ArgsOK, TypeOK, historyVars
<1>9. InsertersDiffer' /\ CursorsOK'
  BY <1>1 DEF InsertersDiffer, CursorsOK, TypeOK, spanVars
<1> QED BY <1>2, <1>6, <1>7, <1>8, <1>9

\* What the steps of trimCompleteCounters keep: everything but the span.
LEMMA TrimFrame ==
  ASSUME IInv, NEW t \in Threads, NEW label \in {"idle", "trim", "trimScan"},
         pc' = [pc EXCEPT ![t] = label],
         UNCHANGED <<listVars, arg, expected, historyVars, late, stale>>,
         span' \in [Threads -> Seq(Nat)], cursor' \in [Threads -> Nat \ {0}],
         remaining' \in [Threads -> Nat], original' \in [Threads -> Seq(Nat)],
         CursorsOK'
  PROVE  IInv'
<1> USE DEF IInv
<1>1. SegmentsOK' /\ ExactEverywhere' /\ StaleOnce' /\ Allocated' = Allocated
  BY ListsUnchanged
<1>2. TypeOK'
  BY <1>1 DEF TypeOK, Labels, listVars, historyVars
<1>3. ArgsOK' /\ InsertersDiffer'
  BY <1>1 DEF ArgsOK, InsertersDiffer, TypeOK, historyVars
<1> QED BY <1>1, <1>2, <1>3

\* Swapping two elements of a sequence inside its bounds.
LEMMA SwapElements ==
  ASSUME NEW s \in Seq(Nat), NEW i \in 1 .. Len(s), NEW j \in 1 .. Len(s)
  PROVE  Swap(s, i, j) \in Seq(Nat) /\ Len(Swap(s, i, j)) = Len(s)
<1>1. s[i] \in Nat /\ s[j] \in Nat
  BY ElementOfSeq
<1> DEFINE r == [s EXCEPT ![i] = s[j]]
<1>2. r \in Seq(Nat) /\ Len(r) = Len(s)
  BY <1>1, ExceptSeq
<1>3. Swap(s, i, j) = [r EXCEPT ![j] = s[i]]
  BY DEF Swap
<1> HIDE DEF r
<1> QED BY <1>1, <1>2, <1>3, ExceptSeq

LEMMA DropKeepsTypes ==
  ASSUME TypeOK, NEW t \in Threads, Drop(t),
         cursor[t] <= remaining[t], remaining[t] <= Len(span[t])
  PROVE  /\ span' \in [Threads -> Seq(Nat)] /\ remaining' \in [Threads -> Nat]
         /\ cursor' = cursor
         /\ remaining'[t] <= Len(span'[t])
         /\ \A u \in Threads \ {t} : span'[u] = span[u] /\ remaining'[u] = remaining[u]
<1>1. /\ span' = [span EXCEPT ![t] = Swap(span[t], cursor[t], remaining[t])]
      /\ remaining' = [remaining EXCEPT ![t] = remaining[t] - 1]
      /\ cursor' = cursor
  BY DEF Drop
<1>2. /\ span[t] \in Seq(Nat) /\ cursor[t] \in Nat \ {0} /\ remaining[t] \in Nat
      /\ Len(span[t]) \in Nat
  BY DEF TypeOK
<1>3. cursor[t] \in 1 .. Len(span[t]) /\ remaining[t] \in 1 .. Len(span[t])
  BY <1>2
<1> DEFINE new == Swap(span[t], cursor[t], remaining[t])
<1>4. new \in Seq(Nat) /\ Len(new) = Len(span[t])
  BY <1>2, <1>3, SwapElements
<1> HIDE DEF new
<1>5. span' = [span EXCEPT ![t] = new]
  BY <1>1 DEF new
<1> QED BY SMTT(25), <1>1, <1>2, <1>3, <1>4, <1>5 DEF TypeOK

LEMMA TrimIInv ==
  ASSUME IInv, NEW t \in Threads, Trim(t) PROVE IInv' /\ marked' = marked
<1> USE DEF IInv
<1>1. CASE \E cs \in BoundedSeq(Allocated, MaxSpan) : TrimCall(t, cs)
  <2>1. PICK cs \in BoundedSeq(Allocated, MaxSpan) : TrimCall(t, cs)
    BY <1>1
  <2>2. cs \in Seq(Nat)
    <3>1. PICK n \in 0 .. MaxSpan : cs \in [1 .. n -> Allocated]
      BY DEF BoundedSeq, SeqOf
    <3>2. \A c \in Allocated : c \in Nat
      BY AllocatedRange
    <3>3. cs \in [1 .. n -> Nat] /\ n \in Nat
      BY <3>1, <3>2, BoundsAssumption
    <3> QED BY <3>3, SeqDef
  <2>3. Len(cs) \in Nat
    BY <2>2
  <2>4. /\ span' = [span EXCEPT ![t] = cs] /\ original' = [original EXCEPT ![t] = cs]
        /\ cursor' = [cursor EXCEPT ![t] = 1] /\ remaining' = [remaining EXCEPT ![t] = Len(cs)]
        /\ pc' = [pc EXCEPT ![t] = "trim"]
        /\ UNCHANGED <<listVars, arg, expected, historyVars, late, stale>>
    BY <2>1 DEF TrimCall, Goto
  <2>5. /\ span' \in [Threads -> Seq(Nat)] /\ cursor' \in [Threads -> Nat \ {0}]
        /\ remaining' \in [Threads -> Nat] /\ original' \in [Threads -> Seq(Nat)]
    BY <2>2, <2>3, <2>4 DEF TypeOK
  <2>6. CursorsOK'
    BY <2>3, <2>4 DEF CursorsOK, TypeOK
  <2> QED BY <2>4, <2>5, <2>6, TrimFrame DEF historyVars
<1>2. CASE TrimPrefix(t)
  <2>1. remaining[t] <= Len(span[t]) /\ cursor[t] <= remaining[t] /\ pc[t] = "trim"
    BY <1>2 DEF TrimPrefix, CursorsOK
  <2>2. UNCHANGED <<listVars, arg, expected, original, historyVars, late, stale>>
    BY <1>2 DEF TrimPrefix
  <2>3. CASE Drop(t) /\ UNCHANGED pc
    <3>1. pc' = [pc EXCEPT ![t] = "trim"]
      BY <2>1, <2>3 DEF TypeOK
    <3>2. CursorsOK'
      BY <2>1, <2>3, DropKeepsTypes DEF CursorsOK
    <3>3. cursor' \in [Threads -> Nat \ {0}] /\ original' \in [Threads -> Seq(Nat)]
      BY <2>1, <2>2, <2>3, DropKeepsTypes DEF TypeOK
    <3> QED BY <2>1, <2>2, <2>3, <3>1, <3>2, <3>3, DropKeepsTypes, TrimFrame DEF historyVars
  <2>4. CASE Goto(t, "trimScan") /\ UNCHANGED <<span, cursor, remaining>>
    <3>1. pc' = [pc EXCEPT ![t] = "trimScan"]
      BY <2>4 DEF Goto
    <3>2. CursorsOK'
      BY <2>1, <2>4, <3>1 DEF CursorsOK, TypeOK
    <3> QED BY <2>2, <2>4, <3>1, <3>2, TrimFrame DEF TypeOK, historyVars
  <2> QED BY <1>2, <2>3, <2>4 DEF TrimPrefix
<1>3. CASE TrimSegments(t)
  <2>1. remaining[t] <= Len(span[t]) /\ cursor[t] <= remaining[t]
    BY <1>3 DEF TrimSegments, CursorsOK
  <2>2. /\ UNCHANGED <<listVars, arg, expected, original, historyVars, late, stale>>
        /\ pc' = [pc EXCEPT ![t] = "trim"]
    BY <1>3 DEF TrimSegments, Goto
  <2>3. CASE Drop(t)
    <3>1. CursorsOK'
      BY <2>1, <2>2, <2>3, DropKeepsTypes DEF CursorsOK, TypeOK
    <3>2. cursor' \in [Threads -> Nat \ {0}] /\ original' \in [Threads -> Seq(Nat)]
      BY <2>1, <2>2, <2>3, DropKeepsTypes DEF TypeOK
    <3> QED BY <2>1, <2>2, <2>3, <3>1, <3>2, DropKeepsTypes, TrimFrame DEF historyVars
  <2>4. CASE Keep(t)
    <3>1. CursorsOK'
      BY <2>1, <2>2, <2>4 DEF CursorsOK, Keep, TypeOK
    <3>2. cursor' \in [Threads -> Nat \ {0}]
      BY <2>4 DEF Keep, TypeOK
    <3> QED BY <2>2, <2>4, <3>1, <3>2, TrimFrame DEF Keep, TypeOK, historyVars
  <2> QED BY <1>3, <2>3, <2>4 DEF TrimSegments
<1>4. CASE TrimReturn(t)
  <2>1. /\ span' = [span EXCEPT ![t] = <<>>] /\ original' = [original EXCEPT ![t] = <<>>]
        /\ cursor' = [cursor EXCEPT ![t] = 1] /\ remaining' = [remaining EXCEPT ![t] = 0]
        /\ pc' = [pc EXCEPT ![t] = "idle"]
        /\ UNCHANGED <<listVars, arg, expected, historyVars, late, stale>>
    BY <1>4 DEF TrimReturn, Goto
  <2>2. /\ span' \in [Threads -> Seq(Nat)] /\ cursor' \in [Threads -> Nat \ {0}]
        /\ remaining' \in [Threads -> Nat] /\ original' \in [Threads -> Seq(Nat)]
    BY <2>1 DEF TypeOK
  <2>3. CursorsOK'
    BY <2>1 DEF CursorsOK, TypeOK
  <2> QED BY <2>1, <2>2, <2>3, TrimFrame DEF historyVars
<1> QED BY <1>1, <1>2, <1>3, <1>4 DEF Trim
-----------------------------------------------------------------------------
\* How a step changes the set of completed counters: by at most one counter,
\* which was handed out before.
LEMMA StepIInv ==
  ASSUME IInv, [Next]_vars
  PROVE  /\ IInv'
         /\ \/ /\ marked' = marked
               /\ Allocated' = Allocated \/ nextCounter' = nextCounter + 1
            \/ /\ Allocated' = Allocated
               /\ \E c \in Allocated \ marked : marked' = marked \cup {c}
<1>1. ASSUME NEW t \in Threads, Allocate(t)
      PROVE  IInv' /\ marked' = marked /\ nextCounter' = nextCounter + 1
  BY <1>1, AllocateIInv DEF Allocate, historyVars
<1>2. ASSUME NEW t \in Threads, NEW c \in Allocated, CompleteInOrder(t, c)
      PROVE  /\ IInv' /\ Allocated' = Allocated
             /\ marked' = marked \/ (c \notin marked /\ marked' = marked \cup {c})
  <2>1. c \notin marked
    BY <1>2 DEF CompleteInOrder, IInv, TypeOK
  <2> QED BY <1>2, <2>1, CompleteInOrderIInv DEF CompleteInOrder, Allocated
<1>3. ASSUME NEW t \in Threads, CompleteInsert(t)
      PROVE  /\ IInv' /\ Allocated' = Allocated
             /\ arg[t] \in Allocated \ marked /\ marked' = marked \cup {arg[t]}
  <2>1. arg[t] \in Allocated \ marked
    BY <1>3 DEF CompleteInsert, IInv, ArgsOK, TypeOK
  <2> QED BY <1>3, <2>1, CompleteInsertIInv DEF CompleteInsert, Allocated
<1>4. ASSUME NEW t \in Threads, CompleteCollapse(t) \/ CompleteReturn(t)
      PROVE  IInv' /\ Allocated' = Allocated /\ marked' = marked
  BY <1>4, CompleteCollapseIInv, CompleteReturnIInv
     DEF CompleteCollapse, CompleteReturn, Allocated
<1>5. ASSUME NEW t \in Threads, Check(t)
      PROVE  IInv' /\ Allocated' = Allocated /\ marked' = marked
  BY <1>5, CheckPrefixIInv, CheckSegmentsIInv
     DEF Check, CheckPrefix, CheckSegments, Allocated, listVars, historyVars
<1>6. ASSUME NEW t \in Threads, Trim(t)
      PROVE  IInv' /\ Allocated' = Allocated /\ marked' = marked
  <2>1. Allocated' = Allocated
    BY <1>6 DEF Trim, TrimCall, TrimPrefix, TrimSegments, TrimReturn, Allocated, listVars
  <2> QED BY <1>6, <2>1, TrimIInv
<1>7. CASE UNCHANGED vars
  BY <1>7 DEF vars, IInv, TypeOK, ArgsOK, InsertersDiffer, CursorsOK, SegmentsOK, WellFormed,
              ExactEverywhere, Completed, Covers, StaleOnce, Passed, Allocated
<1> QED BY <1>1, <1>2, <1>3, <1>4, <1>5, <1>6, <1>7 DEF Next, Complete

LEMMA Invariance == Spec => []IInv
<1>1. IInv /\ [Next]_vars => IInv'
  BY StepIInv
<1> QED BY InitIInv, <1>1, PTL DEF Spec

\* Types of all the words of the tracker.
THEOREM TypeCorrect == Spec => []TypeOK
<1>1. IInv => TypeOK
  BY DEF IInv
<1> QED BY Invariance, <1>1, PTL

\* For any number of threads, lists and counters the prefix and the segments
\* hold exactly the counters whose completion took effect.
THEOREM ExactCompletion == Spec => []Exact
<1>1. IInv => Exact
  BY AllocatedRange DEF IInv, ExactEverywhere, Exact
<1> QED BY Invariance, <1>1, PTL

\* A check that begins after completeCounter returned denies a counter only
\* if the counter has meanwhile become part of the prefix.
THEOREM StaleAtMostOnce == Spec => []StaleOnce
<1>1. IInv => StaleOnce
  BY DEF IInv
<1> QED BY Invariance, <1>1, PTL

\* No complete counter becomes incomplete.
THEOREM CompletionIsStable == Spec => StaysComplete
<1>1. IInv /\ [Next]_vars => [\A c \in Allocated : Completed(c) => Completed(c)']_vars
  <2> SUFFICES ASSUME IInv, [Next]_vars, NEW c \in Allocated, Completed(c)
               PROVE  Completed(c)'
    OBVIOUS
  <2>1. c \in Nat /\ c >= NUM_COMPLETION_LISTS
    BY AllocatedRange DEF IInv
  <2>2. c \in marked
    BY <2>1 DEF IInv, ExactEverywhere
  <2>3. c \in marked' /\ ExactEverywhere'
    BY <2>2, StepIInv DEF IInv
  <2> QED BY <2>1, <2>3 DEF ExactEverywhere
<1> QED BY Invariance, <1>1, PTL DEF Spec, StaysComplete
-----------------------------------------------------------------------------
(* The tracker implements AsyncCounters.                                   *)

LEMMA CompletedIsMarked == IInv => {c \in Allocated : Completed(c)} = marked
<1> SUFFICES ASSUME IInv PROVE {c \in Allocated : Completed(c)} = marked
  OBVIOUS
<1>1. \A c \in Allocated : Completed(c) <=> c \in marked
  BY AllocatedRange DEF IInv, ExactEverywhere
<1>2. marked \subseteq Allocated
  BY DEF IInv, TypeOK
<1> QED BY <1>1, <1>2

\* Threads, lists, segments and locks are no more than a way to keep a set of
\* allocated and a set of completed counters.
THEOREM TrackerImplementsCounters == Spec => Promised
<1>1. Init => Promise!AInit
  <2> SUFFICES ASSUME Init PROVE Promise!AInit
    OBVIOUS
  <2>1. Allocated = {}
    BY ListsAssumption DEF Init, Allocated
  <2> QED BY <2>1 DEF Promise!AInit
<1>2. IInv' => ({c \in Allocated : Completed(c)} = marked)'
  BY CompletedIsMarked, PTL
<1>3. IInv /\ [Next]_vars => [Promise!AAllocate \/ Promise!AComplete]_(Promise!avars)
  <2> SUFFICES ASSUME IInv, [Next]_vars
               PROVE  [Promise!AAllocate \/ Promise!AComplete]_(Promise!avars)
    OBVIOUS
  <2> DEFINE complete == {c \in Allocated : Completed(c)}
  <2>1. IInv'
    BY StepIInv
  <2>2. complete = marked /\ complete' = marked'
    BY <1>2, <2>1, CompletedIsMarked
  <2>3. CASE marked' = marked /\ Allocated' = Allocated
    BY <2>2, <2>3 DEF Promise!avars
  <2>4. CASE marked' = marked /\ nextCounter' = nextCounter + 1
    <3>1. /\ Allocated' = Allocated \cup {nextCounter}
          /\ nextCounter \in Nat /\ nextCounter \notin Allocated
          /\ \A d \in Allocated : d < nextCounter
      BY <2>4, ListsAssumption DEF Allocated, IInv, TypeOK
    <3>2. Promise!AAllocate
      BY <2>2, <2>4, <3>1 DEF Promise!AAllocate
    <3> QED BY <3>2
  <2>5. CASE /\ Allocated' = Allocated
             /\ \E c \in Allocated \ marked : marked' = marked \cup {c}
    BY <2>2, <2>5 DEF Promise!AComplete
  <2> QED BY <2>3, <2>4, <2>5, StepIInv
<1> QED BY Invariance, <1>1, <1>3, PTL DEF Spec, Promised, Promise!ASpec
-----------------------------------------------------------------------------
(* The segments stay sorted and merged.                                    *)

\* Later segments lie below earlier ones, with a gap between any two.
Ordered(segs) ==
  \A i, j \in DOMAIN segs : i < j => segs[j].last + 1 < segs[i].first

\* A value between two segments closes the gap: the segment made of both is as
\* far from the others as they were.
LEMMA MergeKeepsOrder ==
  ASSUME NEW segs \in Seq(Segment), WellFormed(segs), Ordered(segs),
         NEW k \in 1 .. Len(segs) - 1
  PROVE  Ordered(RemoveAt([segs EXCEPT ![k].first = segs[k + 1].first], k + 1))
<1> DEFINE mid == [segs EXCEPT ![k].first = segs[k + 1].first]
           new == RemoveAt(mid, k + 1)
<1>0. k \in 1 .. Len(segs) /\ k + 1 \in 1 .. Len(segs) /\ Len(segs) \in Nat
  OBVIOUS
<1>1. /\ DOMAIN segs = 1 .. Len(segs)
      /\ \A j \in 1 .. Len(segs) :
           segs[j].first \in Nat /\ segs[j].last \in Nat /\ segs[j].first <= segs[j].last
  BY SegmentElements DEF WellFormed
<1>2. /\ mid \in Seq(Segment) /\ Len(mid) = Len(segs)
      /\ mid[k].first = segs[k + 1].first /\ mid[k].last = segs[k].last
      /\ \A j \in 1 .. Len(segs) : j # k => mid[j] = segs[j]
  BY <1>0, <1>1, FirstReplaced
<1> HIDE DEF mid
<1>3. /\ new \in Seq(Segment) /\ Len(new) = Len(segs) - 1
      /\ \A j \in 1 .. Len(segs) - 1 : new[j] = IF j < k + 1 THEN mid[j] ELSE mid[j + 1]
  BY <1>0, <1>2, RemoveAtElements
<1> HIDE DEF new
<1>4. DOMAIN new = 1 .. Len(segs) - 1
  BY <1>3
\* Each segment of new begins where one of segs begins and ends where one ends.
<1>5. ASSUME NEW j \in 1 .. Len(segs) - 1
      PROVE  /\ new[j].first = segs[IF j < k THEN j ELSE j + 1].first
             /\ new[j].last = segs[IF j <= k THEN j ELSE j + 1].last
  <2>1. CASE j < k
    <3>1. j \in 1 .. Len(segs) /\ j # k /\ j < k + 1
      BY <2>1, <1>0
    <3>2. new[j] = mid[j] /\ mid[j] = segs[j]
      BY <3>1, <1>2, <1>3
    <3>3. (IF j < k THEN j ELSE j + 1) = j /\ (IF j <= k THEN j ELSE j + 1) = j
      BY <2>1, <1>0
    <3> QED BY <3>2, <3>3
  <2>2. CASE j = k
    <3>1. new[j] = mid[k]
      BY <2>2, <1>0, <1>3
    <3> QED BY <2>2, <3>1, <1>2
  <2>3. CASE j > k
    <3>1. j + 1 \in 1 .. Len(segs) /\ j + 1 # k /\ ~ (j < k + 1)
      BY <2>3, <1>0
    <3> QED BY <2>3, <3>1, <1>2, <1>3
  <2> QED BY <2>1, <2>2, <2>3
<1>6. ASSUME NEW i \in 1 .. Len(segs) - 1, NEW j \in 1 .. Len(segs) - 1, i < j
      PROVE  new[j].last + 1 < new[i].first
  <2> DEFINE a == IF i < k THEN i ELSE i + 1
             b == IF j <= k THEN j ELSE j + 1
  <2>1. a \in 1 .. Len(segs) /\ b \in 1 .. Len(segs) /\ a < b
    BY <1>0, <1>6
  <2>2. new[i].first = segs[a].first /\ new[j].last = segs[b].last
    BY <1>5
  <2> HIDE DEF a, b
  <2> QED BY <2>1, <2>2, <1>1 DEF Ordered
<1> QED BY <1>4, <1>6 DEF Ordered, new, mid

\* The segment with the smallest index that touches v is extended.
LEMMA ExtendKeepsOrder ==
  ASSUME NEW segs \in Seq(Segment), WellFormed(segs), Ordered(segs),
         NEW v \in Nat, NEW i \in 1 .. Len(segs)
  PROVE  /\ segs[i].first = v + 1 => Ordered(ExtendLeft(segs, i, v))
         /\ v = segs[i].last + 1 => Ordered(ExtendRight(segs, i, v))
<1>1. /\ DOMAIN segs = 1 .. Len(segs) /\ Len(segs) \in Nat
      /\ \A j \in 1 .. Len(segs) :
           segs[j].first \in Nat /\ segs[j].last \in Nat /\ segs[j].first <= segs[j].last
  BY SegmentElements DEF WellFormed
<1>2. \A j, k \in 1 .. Len(segs) : j < k => segs[k].last + 1 < segs[j].first
  BY <1>1 DEF Ordered
<1>3. ASSUME segs[i].first = v + 1 PROVE Ordered(ExtendLeft(segs, i, v))
  <2>1. CASE i + 1 <= Len(segs) /\ segs[i + 1].last + 1 = v
    <3>1. i \in 1 .. Len(segs) - 1
      BY <2>1, <1>1
    <3> QED BY <2>1, <3>1, MergeKeepsOrder DEF ExtendLeft
  <2>2. CASE ~ (i + 1 <= Len(segs) /\ segs[i + 1].last + 1 = v)
    <3> DEFINE new == [segs EXCEPT ![i].first = v]
    <3>1. ExtendLeft(segs, i, v) = new
      BY <2>2 DEF ExtendLeft
    <3>2. /\ new \in Seq(Segment) /\ Len(new) = Len(segs)
          /\ new[i].first = v /\ new[i].last = segs[i].last
          /\ \A j \in 1 .. Len(segs) : j # i => new[j] = segs[j]
      BY FirstReplaced
    <3> HIDE DEF new
    <3>3. DOMAIN new = 1 .. Len(segs)
      BY <3>2
    <3>4. ASSUME NEW j \in 1 .. Len(segs), i < j PROVE segs[j].last + 1 < v
      <4>1. i + 1 \in 1 .. Len(segs) /\ segs[i + 1].last + 1 < v + 1
        BY <3>4, <1>1, <1>2, <1>3
      <4>2. segs[i + 1].last + 1 < v
        <5>1. i + 1 <= Len(segs) /\ segs[i + 1].last \in Nat
          BY <4>1, <1>1
        <5>2. segs[i + 1].last + 1 # v
          BY <2>2, <5>1
        <5> QED BY <4>1, <5>1, <5>2
      <4>3. CASE j = i + 1
        BY <4>2, <4>3
      <4>4. CASE j # i + 1
        <5>1. i + 1 < j
          BY <3>4, <4>4
        <5>2. segs[j].last + 1 < segs[i + 1].first
          BY <5>1, <4>1, <1>2
        <5> QED BY <5>2, <4>1, <4>2, <1>1
      <4> QED BY <4>3, <4>4
    <3>5. ASSUME NEW j \in 1 .. Len(segs), NEW k \in 1 .. Len(segs), j < k
          PROVE  new[k].last + 1 < new[j].first
      <4>1. CASE j = i
        BY <4>1, <3>5, <3>2, <3>4
      <4>2. CASE j # i
        <5>1. new[j] = segs[j] /\ new[k].last = segs[k].last
          BY <4>2, <3>2
        <5> QED BY <5>1, <3>5, <1>2
      <4> QED BY <4>1, <4>2
    <3> QED BY <3>1, <3>3, <3>5 DEF Ordered
  <2> QED BY <2>1, <2>2
<1>4. ASSUME v = segs[i].last + 1 PROVE Ordered(ExtendRight(segs, i, v))
  <2>1. CASE i > 1 /\ segs[i - 1].first = v + 1
    <3> DEFINE k == i - 1
    <3>1. k \in 1 .. Len(segs) - 1 /\ k + 1 = i
      BY <2>1, <1>1
    <3>2. ExtendRight(segs, i, v) = RemoveAt([segs EXCEPT ![k].first = segs[k + 1].first], k + 1)
      BY <2>1, <3>1 DEF ExtendRight
    <3> HIDE DEF k
    <3> QED BY <3>1, <3>2, MergeKeepsOrder
  <2>2. CASE ~ (i > 1 /\ segs[i - 1].first = v + 1)
    <3> DEFINE new == [segs EXCEPT ![i].last = v]
    <3>1. ExtendRight(segs, i, v) = new
      BY <2>2 DEF ExtendRight
    <3>2. /\ new \in Seq(Segment) /\ Len(new) = Len(segs)
          /\ new[i].last = v /\ new[i].first = segs[i].first
          /\ \A j \in 1 .. Len(segs) : j # i => new[j] = segs[j]
      BY LastReplaced
    <3> HIDE DEF new
    <3>3. DOMAIN new = 1 .. Len(segs)
      BY <3>2
    <3>4. ASSUME NEW j \in 1 .. Len(segs), j < i PROVE v + 1 < segs[j].first
      <4>1. i - 1 \in 1 .. Len(segs) /\ i > 1 /\ v < segs[i - 1].first
        BY <3>4, <1>1, <1>2, <1>4
      <4>2. v + 1 < segs[i - 1].first
        <5>1. segs[i - 1].first \in Nat /\ v \in Nat
          BY <4>1, <1>1
        <5>2. segs[i - 1].first # v + 1
          BY <2>2, <4>1
        <5> QED BY <4>1, <5>1, <5>2
      <4>3. CASE j = i - 1
        BY <4>2, <4>3
      <4>4. CASE j # i - 1
        <5>1. j < i - 1
          BY <3>4, <4>4
        <5>2. segs[i - 1].last + 1 < segs[j].first
          BY <5>1, <4>1, <1>2
        <5> QED BY <5>2, <4>1, <4>2, <1>1
      <4> QED BY <4>3, <4>4
    <3>5. ASSUME NEW j \in 1 .. Len(segs), NEW k \in 1 .. Len(segs), j < k
          PROVE  new[k].last + 1 < new[j].first
      <4>1. CASE k = i
        BY <4>1, <3>5, <3>2, <3>4
      <4>2. CASE k # i
        <5>1. new[k] = segs[k] /\ new[j].first = segs[j].first
          BY <4>2, <3>2
        <5> QED BY <5>1, <3>5, <1>2
      <4> QED BY <4>1, <4>2
    <3> QED BY <3>1, <3>3, <3>5 DEF Ordered
  <2> QED BY <2>1, <2>2
<1> QED BY <1>3, <1>4

\* A value that touches no segment gets a segment of its own, at its place.
LEMMA StartKeepsOrder ==
  ASSUME NEW segs \in Seq(Segment), WellFormed(segs), Ordered(segs), NEW v \in Nat,
         ~ InSegments(segs, v), \A i \in 1 .. Len(segs) : ~ Extends(segs[i], v)
  PROVE  Ordered(StartSegment(segs, v))
<1> DEFINE below == {i \in 1 .. Len(segs) : segs[i].last <= v}
           pos   == IF below = {} THEN Len(segs) + 1 ELSE Min(below)
           seg   == [first |-> v, last |-> v]
           new   == InsertAt(segs, pos, seg)
<1>0. /\ DOMAIN segs = 1 .. Len(segs) /\ Len(segs) \in Nat
      /\ \A j \in 1 .. Len(segs) :
           segs[j].first \in Nat /\ segs[j].last \in Nat /\ segs[j].first <= segs[j].last
  BY SegmentElements DEF WellFormed
<1>1. \A j, k \in 1 .. Len(segs) : j < k => segs[k].last + 1 < segs[j].first
  BY <1>0 DEF Ordered
\* Every segment ends below v or begins above it, with a gap.
<1>2. ASSUME NEW j \in 1 .. Len(segs)
      PROVE  segs[j].last + 1 < v \/ v + 1 < segs[j].first
  <2>1. ~ (segs[j].first <= v /\ v <= segs[j].last)
    BY <1>0 DEF InSegments
  <2>2. v + 1 # segs[j].first /\ v # segs[j].last + 1
    BY DEF Extends
  <2>3. segs[j].first \in Nat /\ segs[j].last \in Nat
    BY <1>0
  <2> QED BY <2>1, <2>2, <2>3
<1>3. /\ pos \in 1 .. Len(segs) + 1
      /\ \A j \in 1 .. Len(segs) : j < pos => v + 1 < segs[j].first
      /\ \A j \in 1 .. Len(segs) : j >= pos => segs[j].last + 1 < v
  <2>1. CASE below = {}
    <3>1. pos = Len(segs) + 1
      BY <2>1
    <3>2. ASSUME NEW j \in 1 .. Len(segs) PROVE v + 1 < segs[j].first
      BY <2>1, <1>0, <1>2
    <3> HIDE DEF pos, below
    <3> QED BY <3>1, <3>2, <1>0
  <2>2. CASE below # {}
    <3>1. below \in SUBSET Nat
      OBVIOUS
    <3>2. Min(below) \in below /\ \A j \in below : Min(below) <= j
      BY <2>2, <3>1, MinIsLeast
    <3>3. pos \in below /\ \A j \in below : pos <= j
      BY <2>2, <3>2
    <3> HIDE DEF pos
    <3>4. pos \in 1 .. Len(segs) /\ segs[pos].last <= v
      BY <3>3
    <3>5. ASSUME NEW j \in 1 .. Len(segs), j < pos PROVE v + 1 < segs[j].first
      <4>1. j \notin below
        BY <3>3, <3>4, <3>5
      <4> QED BY <4>1, <1>0, <1>2
    <3>6. ASSUME NEW j \in 1 .. Len(segs), j >= pos PROVE segs[j].last + 1 < v
      <4>1. segs[pos].last + 1 < v
        BY <3>4, <1>0, <1>2
      <4>2. CASE j = pos
        BY <4>1, <4>2
      <4>3. CASE j # pos
        <5>1. segs[j].last + 1 < segs[pos].first
          BY <3>4, <3>6, <4>3, <1>1
        <5> QED BY <5>1, <4>1, <3>4, <1>0
      <4> QED BY <4>2, <4>3
    <3> HIDE DEF below
    <3> QED BY <3>4, <3>5, <3>6, <1>0
  <2> QED BY <2>1, <2>2
<1>4. StartSegment(segs, v) = new
  BY DEF StartSegment
<1>5. seg \in Segment /\ seg.first = v /\ seg.last = v
  BY DEF Segment
<1> HIDE DEF pos, seg
<1>6. /\ new \in Seq(Segment) /\ Len(new) = Len(segs) + 1
      /\ \A j \in 1 .. Len(segs) + 1 :
           new[j] = IF j < pos THEN segs[j] ELSE IF j = pos THEN seg ELSE segs[j - 1]
  BY <1>3, <1>5, InsertAtElements
<1> HIDE DEF new
<1>7. DOMAIN new = 1 .. Len(segs) + 1
  BY <1>6
<1>8. ASSUME NEW i \in 1 .. Len(segs) + 1, NEW j \in 1 .. Len(segs) + 1, i < j
      PROVE  new[j].last + 1 < new[i].first
  <2>1. CASE j < pos
    <3>1. i \in 1 .. Len(segs) /\ j \in 1 .. Len(segs) /\ i < pos
      BY <1>0, <1>3, <1>8, <2>1
    <3> QED BY <3>1, <2>1, <1>1, <1>6, <1>8
  <2>2. CASE j = pos
    <3>1. i \in 1 .. Len(segs) /\ i < pos
      BY <1>0, <1>3, <1>8, <2>2
    <3>2. new[i] = segs[i] /\ new[j] = seg
      BY <3>1, <2>2, <1>6
    <3> QED BY <3>1, <3>2, <1>3, <1>5
  <2>3. CASE j > pos /\ i < pos
    <3>1. i \in 1 .. Len(segs) /\ j - 1 \in 1 .. Len(segs) /\ j - 1 >= pos
      BY <1>0, <1>3, <1>8, <2>3
    <3>2. new[i] = segs[i] /\ new[j] = segs[j - 1]
      BY <1>3, <2>3, <1>6
    <3>3. v + 1 < segs[i].first /\ segs[j - 1].last + 1 < v
      BY <3>1, <2>3, <1>3
    <3> QED BY <3>1, <3>2, <3>3, <1>0
  <2>4. CASE j > pos /\ i = pos
    <3>1. j - 1 \in 1 .. Len(segs) /\ j - 1 >= pos
      BY <1>0, <1>3, <1>8, <2>4
    <3>2. new[i] = seg /\ new[j] = segs[j - 1]
      BY <1>3, <2>4, <1>6
    <3> QED BY <3>1, <3>2, <1>3, <1>5
  <2>5. CASE j > pos /\ i > pos
    <3>1. i - 1 \in 1 .. Len(segs) /\ j - 1 \in 1 .. Len(segs) /\ i - 1 < j - 1
      BY <1>0, <1>3, <1>8, <2>5
    <3>2. new[i] = segs[i - 1] /\ new[j] = segs[j - 1]
      BY <1>3, <2>5, <1>6
    <3> QED BY <3>1, <3>2, <1>1
  <2> QED BY <2>1, <2>2, <2>3, <2>4, <2>5, <1>3
<1> QED BY <1>4, <1>7, <1>8 DEF Ordered

LEMMA AddKeepsOrder ==
  ASSUME NEW segs \in Seq(Segment), WellFormed(segs), Ordered(segs), NEW v \in Nat,
         ~ InSegments(segs, v)
  PROVE  Ordered(AddToSegments(segs, v))
<1> DEFINE fit == {i \in 1 .. Len(segs) : Extends(segs[i], v)}
           i   == Min(fit)
<1>1. CASE fit = {}
  <2>1. \A j \in 1 .. Len(segs) : ~ Extends(segs[j], v)
    BY <1>1
  <2> QED BY <1>1, <2>1, StartKeepsOrder DEF AddToSegments
<1>2. CASE fit # {}
  <2>1. fit \in SUBSET Nat
    OBVIOUS
  <2>2. i \in fit
    BY <1>2, <2>1, MinIsLeast
  <2>3. i \in 1 .. Len(segs) /\ (v + 1 = segs[i].first \/ v = segs[i].last + 1)
    BY <2>2 DEF Extends
  <2>4. AddToSegments(segs, v) = IF v + 1 = segs[i].first THEN ExtendLeft(segs, i, v)
                                 ELSE ExtendRight(segs, i, v)
    BY <1>2 DEF AddToSegments
  <2> HIDE DEF i
  <2> QED BY <2>3, <2>4, ExtendKeepsOrder
<1> QED BY <1>1, <1>2
-----------------------------------------------------------------------------
(* The same in every state, and how many segments there are.               *)

\* Every segment lies above the value n.
AbovePrefix(segs, n) == \A i \in DOMAIN segs : n < segs[i].first

SegmentsOrdered ==
  \A l \in Lists : Ordered(segments[l]) /\ AbovePrefix(segments[l], fully[l])

LEMMA OrderedFrame ==
  ASSUME SegmentsOrdered, UNCHANGED <<fully, segments>>
  PROVE  SegmentsOrdered'
BY DEF SegmentsOrdered, Ordered, AbovePrefix

\* A counter that is not marked is in no segment and above the prefix.
LEMMA UnmarkedUncovered ==
  ASSUME IInv, NEW c \in Allocated, c \notin marked
  PROVE  /\ ListOf(c) \in Lists /\ ValueOf(c) \in Nat
         /\ fully[ListOf(c)] \in Nat /\ fully[ListOf(c)] < ValueOf(c)
         /\ segments[ListOf(c)] \in Seq(Segment) /\ WellFormed(segments[ListOf(c)])
         /\ ~ InSegments(segments[ListOf(c)], ValueOf(c))
<1>1. c \in Nat /\ c >= NUM_COMPLETION_LISTS /\ ListOf(c) \in Lists /\ ValueOf(c) \in Nat
  BY AllocatedRange DEF IInv
<1>2. ~ Completed(c)
  BY <1>1 DEF IInv, ExactEverywhere
<1>3. /\ fully[ListOf(c)] \in Nat /\ segments[ListOf(c)] \in Seq(Segment)
      /\ WellFormed(segments[ListOf(c)])
  BY <1>1 DEF IInv, TypeOK, SegmentsOK
<1> QED BY <1>1, <1>2, <1>3 DEF Completed, Covers

LEMMA CompleteInOrderOrdered ==
  ASSUME IInv, SegmentsOrdered, NEW t \in Threads, NEW c \in Allocated, CompleteInOrder(t, c)
  PROVE  SegmentsOrdered'
<1> DEFINE l == ListOf(c)
           v == ValueOf(c)
<1>1. c \notin marked
  BY DEF CompleteInOrder, IInv, TypeOK
<1>2. /\ l \in Lists /\ v \in Nat /\ fully[l] \in Nat
      /\ segments[l] \in Seq(Segment) /\ WellFormed(segments[l]) /\ ~ InSegments(segments[l], v)
  BY <1>1, UnmarkedUncovered
<1>3. CASE InOrder(c)
  <2>1. fully' = [fully EXCEPT ![l] = v] /\ segments' = segments /\ fully[l] = v - 1
    BY <1>3 DEF CompleteInOrder, InOrder
  <2> HIDE DEF l, v
  <2>2. AbovePrefix(segments[l], v)
    <3> SUFFICES ASSUME NEW i \in DOMAIN segments[l] PROVE v < segments[l][i].first
      BY DEF AbovePrefix
    <3>1. segments[l][i].first \in Nat /\ segments[l][i].last \in Nat
          /\ segments[l][i].first <= segments[l][i].last
      BY <1>2, SegmentElements DEF WellFormed
    <3>2. v - 1 < segments[l][i].first
      BY <1>2, <2>1 DEF SegmentsOrdered, AbovePrefix
    <3>3. segments[l][i].first # v
      BY <1>2, <3>1 DEF InSegments
    <3> QED BY <1>2, <3>1, <3>2, <3>3
  <2>3. ASSUME NEW k \in Lists
        PROVE  Ordered(segments'[k]) /\ AbovePrefix(segments'[k], fully'[k])
    <3>1. fully'[k] = IF k = l THEN v ELSE fully[k]
      BY <2>1 DEF IInv, TypeOK
    <3> QED BY <2>1, <2>2, <3>1 DEF SegmentsOrdered
  <2> QED BY <2>3 DEF SegmentsOrdered
<1>4. CASE ~ InOrder(c)
  BY <1>4, OrderedFrame DEF CompleteInOrder
<1> QED BY <1>3, <1>4

LEMMA CompleteInsertOrdered ==
  ASSUME IInv, SegmentsOrdered, NEW t \in Threads, CompleteInsert(t)
  PROVE  SegmentsOrdered'
<1> DEFINE c == arg[t]
           l == ListOf(c)
           v == ValueOf(c)
           new == AddToSegments(segments[l], v)
<1>1. c \in Allocated /\ c \notin marked
  BY DEF CompleteInsert, IInv, ArgsOK, TypeOK
<1>2. /\ l \in Lists /\ v \in Nat /\ fully[l] \in Nat /\ fully[l] < v
      /\ segments[l] \in Seq(Segment) /\ WellFormed(segments[l]) /\ ~ InSegments(segments[l], v)
  BY <1>1, UnmarkedUncovered
<1>3. fully' = fully /\ segments' = [segments EXCEPT ![l] = new]
  BY DEF CompleteInsert
<1>4. Ordered(segments[l]) /\ AbovePrefix(segments[l], fully[l])
  BY <1>2 DEF SegmentsOrdered
<1>5. Added(new, segments[l], v) /\ Ordered(new)
  BY <1>2, <1>4, AddToSegmentsAdds, AddKeepsOrder
<1> HIDE DEF c, l, v, new
<1>6. AbovePrefix(new, fully[l])
  <2> SUFFICES ASSUME NEW i \in DOMAIN new PROVE fully[l] < new[i].first
    BY DEF AbovePrefix
  <2>1. new[i].first \in Nat /\ new[i].last \in Nat /\ new[i].first <= new[i].last
    BY <1>5, SegmentElements DEF Added, WellFormed
  <2>2. InSegments(new, new[i].first)
    BY <2>1 DEF InSegments
  <2>3. CASE new[i].first = v
    BY <2>3, <1>2
  <2>4. CASE InSegments(segments[l], new[i].first)
    <3>1. PICK j \in DOMAIN segments[l] : segments[l][j].first <= new[i].first
      BY <2>4 DEF InSegments
    <3>2. segments[l][j].first \in Nat /\ fully[l] < segments[l][j].first
      BY <1>2, <1>4, SegmentElements DEF AbovePrefix
    <3> QED BY <3>1, <3>2, <2>1, <1>2
  <2> QED BY <2>1, <2>2, <2>3, <2>4, <1>5 DEF Added
<1>7. ASSUME NEW k \in Lists
      PROVE  Ordered(segments'[k]) /\ AbovePrefix(segments'[k], fully'[k])
  <2>1. segments'[k] = IF k = l THEN new ELSE segments[k]
    BY <1>3 DEF IInv, TypeOK
  <2> QED BY <1>3, <1>5, <1>6, <2>1 DEF SegmentsOrdered
<1> QED BY <1>7 DEF SegmentsOrdered

LEMMA CompleteCollapseOrdered ==
  ASSUME IInv, SegmentsOrdered, NEW t \in Threads, CompleteCollapse(t)
  PROVE  SegmentsOrdered'
<1> DEFINE l == ListOf(arg[t])
           segs == segments[l]
           low == Last(segs)
           front == Front(segs)
<1>1. arg[t] \in Allocated
  BY DEF CompleteCollapse, IInv, ArgsOK, TypeOK
<1>2. l \in Lists
  BY <1>1, AllocatedRange DEF IInv
<1>3. segs \in Seq(Segment)
  BY <1>2 DEF IInv, TypeOK
<1>4. segs # <<>>
  BY DEF CompleteCollapse, Continues
<1>5. /\ Len(segs) \in 1 .. Len(segs) /\ low = segs[Len(segs)]
      /\ front \in Seq(Segment) /\ Len(front) = Len(segs) - 1
      /\ \A j \in 1 .. Len(segs) - 1 : front[j] = segs[j]
  BY <1>3, <1>4, FrontElements
<1>6. DOMAIN segs = 1 .. Len(segs) /\ DOMAIN front = 1 .. Len(segs) - 1 /\ Len(segs) \in Nat
  BY <1>3, <1>5
<1>7. \/ UNCHANGED <<fully, segments>>
      \/ /\ fully' = [fully EXCEPT ![l] = low.last]
         /\ segments' = [segments EXCEPT ![l] = front]
  BY DEF CompleteCollapse, NewPrefix
<1>8. Ordered(segs)
  BY <1>2 DEF SegmentsOrdered
<1>9. \A j \in 1 .. Len(segs) : segs[j].first \in Nat /\ segs[j].last \in Nat
  BY <1>3, SegmentElements
<1> HIDE DEF l, segs, low, front
<1>10. Ordered(front)
  <2> SUFFICES ASSUME NEW i \in 1 .. Len(segs) - 1, NEW j \in 1 .. Len(segs) - 1, i < j
               PROVE  front[j].last + 1 < front[i].first
    BY <1>6 DEF Ordered
  <2>1. i \in DOMAIN segs /\ j \in DOMAIN segs /\ front[i] = segs[i] /\ front[j] = segs[j]
    BY <1>5, <1>6
  <2> QED BY <2>1, <1>8 DEF Ordered
<1>11. AbovePrefix(front, low.last)
  <2> SUFFICES ASSUME NEW i \in 1 .. Len(segs) - 1 PROVE low.last < front[i].first
    BY <1>6 DEF AbovePrefix
  <2>1. i \in 1 .. Len(segs) /\ i < Len(segs) /\ front[i] = segs[i]
    BY <1>5, <1>6
  <2>2. low.last + 1 < segs[i].first
    BY <2>1, <1>5, <1>6, <1>8 DEF Ordered
  <2> QED BY <2>1, <2>2, <1>5, <1>9
<1>12. CASE /\ fully' = [fully EXCEPT ![l] = low.last]
            /\ segments' = [segments EXCEPT ![l] = front]
  <2> SUFFICES ASSUME NEW k \in Lists
               PROVE  Ordered(segments'[k]) /\ AbovePrefix(segments'[k], fully'[k])
    BY DEF SegmentsOrdered
  <2>1. /\ segments'[k] = IF k = l THEN front ELSE segments[k]
        /\ fully'[k] = IF k = l THEN low.last ELSE fully[k]
    BY <1>12 DEF IInv, TypeOK
  <2> QED BY <2>1, <1>10, <1>11 DEF SegmentsOrdered
<1> QED BY <1>7, <1>12, OrderedFrame

LEMMA StepOrdered ==
  ASSUME IInv, SegmentsOrdered, [Next]_vars
  PROVE  SegmentsOrdered'
<1>1. ASSUME NEW t \in Threads, Allocate(t) \/ CompleteReturn(t) \/ Check(t) \/ Trim(t)
      PROVE  SegmentsOrdered'
  <2>1. UNCHANGED <<fully, segments>>
    BY <1>1 DEF Allocate, CompleteReturn, Check, CheckPrefix, CheckSegments, Trim, TrimCall,
                TrimPrefix, TrimSegments, TrimReturn, listVars
  <2> QED BY <2>1, OrderedFrame
<1>2. CASE UNCHANGED vars
  BY <1>2, OrderedFrame DEF vars
<1> QED BY <1>1, <1>2, CompleteInOrderOrdered, CompleteInsertOrdered, CompleteCollapseOrdered
        DEF Next, Complete
-----------------------------------------------------------------------------
(* How many segments a list can have.                                      *)

\* The counter of a list that has a given value there.
CounterOf(l, x) == x * NUM_COMPLETION_LISTS + l

LEMMA CounterOfArithmetic ==
  ASSUME NEW l \in Lists, NEW x \in Nat
  PROVE  /\ CounterOf(l, x) \in Nat
         /\ ListOf(CounterOf(l, x)) = l /\ ValueOf(CounterOf(l, x)) = x
         /\ x >= 1 => CounterOf(l, x) >= NUM_COMPLETION_LISTS
         /\ \A y \in Nat : x < y => CounterOf(l, x) < CounterOf(l, y)
<1> DEFINE N == NUM_COMPLETION_LISTS
           c == CounterOf(l, x)
           q == c \div N
           r == c % N
<1>1. N \in Nat \ {0} /\ l \in Nat /\ l < N
  BY ListsAssumption DEF Lists
<1>2. c \in Nat /\ c = N * x + l
  BY <1>1 DEF CounterOf
<1> HIDE DEF c
<1>3. c = N * q + r /\ q \in Nat /\ r \in Nat /\ r < N
  BY <1>1, <1>2
<1> HIDE DEF q, r
<1>4. N * (q - x) = l - r /\ N * (x - q) = r - l
  BY <1>1, <1>2, <1>3
<1>5. q = x
  <2>1. CASE r < l
    BY <2>1, <1>1, <1>3, <1>4, NoMultiple, q - x \in Int
  <2>2. CASE l < r
    BY <2>2, <1>1, <1>3, <1>4, NoMultiple, x - q \in Int
  <2>3. CASE l = r
    <3>1. N * (q - x) = 0 /\ q - x \in Int
      BY <2>3, <1>1, <1>3, <1>4
    <3> QED BY <3>1, <1>1, <1>3
  <2> QED BY <2>1, <2>2, <2>3, <1>1, <1>3
<1>6. r = l
  BY <1>1, <1>2, <1>3, <1>5
<1>7. x >= 1 => c >= N
  BY <1>1, <1>2
<1>8. ASSUME NEW y \in Nat, x < y PROVE c < CounterOf(l, y)
  <2>1. CounterOf(l, y) = N * y + l
    BY <1>1 DEF CounterOf
  <2>2. N * y >= N * x + N
    BY <1>1, <1>8
  <2> QED BY <2>1, <2>2, <1>1, <1>2
<1> QED BY <1>2, <1>5, <1>6, <1>7, <1>8 DEF c, q, r, ListOf, ValueOf

\* Between two segments lies a counter that is allocated and not complete: the
\* one after the lower of the two.
LEMMA GapIncomplete ==
  ASSUME IInv, SegmentsOrdered, NEW l \in Lists, NEW i \in 1 .. Len(segments[l]) - 1
  PROVE  CounterOf(l, segments[l][i + 1].last + 1)
           \in {c \in Allocated \ marked : ListOf(c) = l}
<1> DEFINE segs == segments[l]
           x == segs[i + 1].last + 1
           c == CounterOf(l, x)
           d == CounterOf(l, segs[i].first)
<1>1. /\ segs \in Seq(Segment) /\ Len(segs) \in Nat /\ fully[l] \in Nat
      /\ DOMAIN segs = 1 .. Len(segs)
      /\ \A j \in 1 .. Len(segs) :
           segs[j].first \in Nat /\ segs[j].last \in Nat /\ segs[j].first <= segs[j].last
  <2>1. segs \in Seq(Segment) /\ fully[l] \in Nat /\ WellFormed(segs)
    BY DEF IInv, TypeOK, SegmentsOK
  <2> QED BY <2>1, SegmentElements DEF WellFormed
<1>2. /\ \A j, k \in 1 .. Len(segs) : j < k => segs[k].last + 1 < segs[j].first
      /\ \A j \in 1 .. Len(segs) : fully[l] < segs[j].first
  BY <1>1 DEF SegmentsOrdered, Ordered, AbovePrefix
<1>3. i \in 1 .. Len(segs) /\ i + 1 \in 1 .. Len(segs)
  BY <1>1
<1> HIDE DEF segs
<1>4. x \in Nat /\ x >= 1 /\ x < segs[i].first /\ segs[i].first \in Nat /\ fully[l] < x
  BY <1>1, <1>2, <1>3
<1>5. ~ InSegments(segs, x)
  <2> SUFFICES ASSUME NEW j \in 1 .. Len(segs), segs[j].first <= x, x <= segs[j].last
               PROVE  FALSE
    BY <1>1 DEF InSegments
  <2>1. CASE j < i
    <3>1. segs[i].last + 1 < segs[j].first
      BY <2>1, <1>2, <1>3
    <3> QED BY SMTT(25), <3>1, <1>1, <1>3, <1>4
  <2>2. CASE j = i
    BY <2>2, <1>4
  <2>3. CASE j = i + 1
    BY <2>3, <1>1
  <2>4. CASE j > i + 1
    <3>1. segs[j].last + 1 < segs[i + 1].first
      BY <2>4, <1>2, <1>3
    <3> QED BY <3>1, <1>1, <1>3
  <2> QED BY <2>1, <2>2, <2>3, <2>4, <1>3
<1>6. /\ c \in Nat /\ ListOf(c) = l /\ ValueOf(c) = x /\ c >= NUM_COMPLETION_LISTS
      /\ d \in Nat /\ ListOf(d) = l /\ ValueOf(d) = segs[i].first /\ d >= NUM_COMPLETION_LISTS
      /\ c < d
  <2>1. segs[i].first >= 1
    BY <1>4
  <2> HIDE DEF x
  <2> QED BY <1>4, <2>1, CounterOfArithmetic
<1> HIDE DEF c, d, x
<1>7. c \notin marked
  BY <1>1, <1>4, <1>5, <1>6 DEF IInv, ExactEverywhere, Completed, Covers, segs
<1>8. InSegments(segs, segs[i].first)
  BY SMTT(25), <1>1, <1>3 DEF InSegments
<1>9. d \in Allocated
  BY <1>6, <1>8 DEF IInv, ExactEverywhere, Completed, Covers, segs, TypeOK
<1>10. c \in Allocated
  BY <1>6, <1>9, ListsAssumption DEF Allocated, IInv, TypeOK
<1> QED BY <1>6, <1>7, <1>10 DEF c, x, segs

\* So a list has at most one segment more than incomplete counters.
LEMMA SegmentsBounded ==
  ASSUME IInv, SegmentsOrdered, NEW l \in Lists
  PROVE  Len(segments[l]) <= 1 + Cardinality({c \in Allocated \ marked : ListOf(c) = l})
<1> DEFINE S == {c \in Allocated \ marked : ListOf(c) = l}
           n == Len(segments[l])
           s == [i \in 1 .. n - 1 |-> CounterOf(l, segments[l][i + 1].last + 1)]
<1>1. IsFiniteSet(S) /\ Cardinality(S) \in Nat
  <2>1. NUM_COMPLETION_LISTS \in Int /\ nextCounter - 1 \in Int
    BY ListsAssumption DEF IInv, TypeOK
  <2>2. IsFiniteSet(Allocated)
    BY <2>1, FS_Interval DEF Allocated
  <2>3. IsFiniteSet(S)
    BY <2>2, FS_Subset
  <2> QED BY <2>3, FS_CardinalityType
<1>2. segments[l] \in Seq(Segment) /\ n \in Nat
  BY DEF IInv, TypeOK
<1>3. CASE n = 0
  BY <1>1, <1>3
<1>4. CASE n # 0
  <2>1. \A i \in 1 .. n - 1 : CounterOf(l, segments[l][i + 1].last + 1) \in S
    BY GapIncomplete
  <2>2. n - 1 \in Nat
    BY <1>2, <1>4
  <2> HIDE DEF S
  <2>3. s \in Seq(S) /\ Len(s) = n - 1
    BY <2>1, <2>2
  <2>4. ASSUME NEW i \in 1 .. Len(s), NEW j \in 1 .. Len(s), s[i] = s[j] PROVE i = j
    <3>1. i \in 1 .. n - 1 /\ j \in 1 .. n - 1
      BY <2>3
    <3>2. i + 1 \in 1 .. n /\ j + 1 \in 1 .. n
      BY <3>1, <1>2
    <3> DEFINE a == segments[l][i + 1]
               b == segments[l][j + 1]
    <3>3. a.first \in Nat /\ a.last \in Nat /\ b.first \in Nat /\ b.last \in Nat
          /\ a.first <= a.last /\ b.first <= b.last
      BY <1>2, <3>2, SegmentElements DEF IInv, SegmentsOK, WellFormed
    <3>4. (i < j => b.last + 1 < a.first) /\ (j < i => a.last + 1 < b.first)
      <4>1. i + 1 \in DOMAIN segments[l] /\ j + 1 \in DOMAIN segments[l]
        BY <1>2, <3>2, SegmentElements
      <4> QED BY <4>1, <3>1 DEF SegmentsOrdered, Ordered
    <3>5. CounterOf(l, a.last + 1) = CounterOf(l, b.last + 1)
      BY <2>4, <3>1
    <3> HIDE DEF a, b
    <3>6. a.last + 1 = b.last + 1
      <4>1. a.last + 1 \in Nat /\ b.last + 1 \in Nat
        BY <3>3
      <4> QED BY <4>1, <3>5, CounterOfArithmetic
    <3> QED BY <3>1, <3>3, <3>4, <3>6
  <2>5. Len(s) <= Cardinality(S)
    BY <1>1, <2>3, <2>4, DistinctLength
  <2> QED BY <1>1, <1>2, <2>3, <2>5 DEF S
<1> QED BY <1>3, <1>4

LEMMA OrderedCanonical ==
  ASSUME IInv, SegmentsOrdered PROVE SegmentsCanonical
<1> SUFFICES ASSUME NEW l \in Lists
             PROVE  /\ \A i \in DOMAIN segments[l] :
                         /\ fully[l] < segments[l][i].first
                         /\ segments[l][i].first <= segments[l][i].last
                         /\ i > 1 => segments[l][i].last + 1 < segments[l][i - 1].first
                    /\ Len(segments[l]) <= 1 + Cardinality({c \in Allocated \ marked : ListOf(c) = l})
  BY DEF SegmentsCanonical
<1>1. ASSUME NEW i \in DOMAIN segments[l]
      PROVE  /\ fully[l] < segments[l][i].first
             /\ segments[l][i].first <= segments[l][i].last
             /\ i > 1 => segments[l][i].last + 1 < segments[l][i - 1].first
  <2>1. segments[l] \in Seq(Segment) /\ WellFormed(segments[l])
    BY DEF IInv, TypeOK, SegmentsOK
  <2>2. i > 1 => i - 1 \in DOMAIN segments[l] /\ i - 1 < i
    BY <2>1
  <2> QED BY <2>1, <2>2 DEF WellFormed, SegmentsOrdered, Ordered, AbovePrefix
<1> QED BY <1>1, SegmentsBounded
-----------------------------------------------------------------------------
(* trimCompleteCounters rearranges its span.                               *)

\* s is o rearranged: p says which element of o each one of s is, q the inverse.
Rearrangement(p, q, s, o) ==
  /\ p \in [1 .. Len(o) -> 1 .. Len(o)] /\ q \in [1 .. Len(o) -> 1 .. Len(o)]
  /\ \A k \in 1 .. Len(o) : p[q[k]] = k /\ q[p[k]] = k /\ s[k] = o[p[k]]

Rearranged(s, o) == Len(s) = Len(o) /\ \E p, q : Rearrangement(p, q, s, o)

LEMMA RearrangedSelf ==
  ASSUME NEW o \in Seq(Nat) PROVE Rearranged(o, o)
<1> DEFINE id == [k \in 1 .. Len(o) |-> k]
<1>1. Rearrangement(id, id, o, o)
  BY DEF Rearrangement
<1> HIDE DEF id
<1> QED BY <1>1 DEF Rearranged

LEMMA SwapRearranges ==
  ASSUME NEW s \in Seq(Nat), NEW o \in Seq(Nat), Rearranged(s, o),
         NEW i \in 1 .. Len(s), NEW j \in 1 .. Len(s)
  PROVE  Rearranged(Swap(s, i, j), o)
<1>1. PICK p, q : Rearrangement(p, q, s, o)
  BY DEF Rearranged
<1>2. Len(s) = Len(o)
  BY DEF Rearranged
<1> DEFINE n == Len(o)
           other(k) == IF k = i THEN j ELSE IF k = j THEN i ELSE k
           new == Swap(s, i, j)
           p2 == [k \in 1 .. n |-> p[other(k)]]
           q2 == [k \in 1 .. n |-> other(q[k])]
<1>3. i \in 1 .. n /\ j \in 1 .. n
  BY <1>2
<1>4. Len(new) = n
  BY <1>2, SwapElements
<1>5. ASSUME NEW k \in 1 .. n PROVE new[k] = s[other(k)]
  <2>1. k \in DOMAIN s
    BY <1>2
  <2> QED BY <2>1 DEF Swap
<1>6. \A k \in 1 .. n : other(k) \in 1 .. n /\ other(other(k)) = k
  BY <1>3
<1>7. /\ p \in [1 .. n -> 1 .. n] /\ q \in [1 .. n -> 1 .. n]
      /\ \A k \in 1 .. n : p[q[k]] = k /\ q[p[k]] = k /\ s[k] = o[p[k]]
  BY <1>1 DEF Rearrangement
<1> HIDE DEF n, other, new
<1>8. p2 \in [1 .. n -> 1 .. n] /\ q2 \in [1 .. n -> 1 .. n]
  BY <1>6, <1>7
<1>9. ASSUME NEW k \in 1 .. n
      PROVE  p2[q2[k]] = k /\ q2[p2[k]] = k /\ new[k] = o[p2[k]]
  <2>1. q[k] \in 1 .. n /\ other(q[k]) \in 1 .. n /\ other(other(q[k])) = q[k]
    BY <1>6, <1>7
  <2>2. p2[q2[k]] = p[other(other(q[k]))]
    BY <2>1
  <2>3. other(k) \in 1 .. n /\ p[other(k)] \in 1 .. n /\ other(other(k)) = k
    BY <1>6, <1>7
  <2>4. q2[p2[k]] = other(q[p[other(k)]])
    BY <2>3
  <2>5. q[p[other(k)]] = other(k) /\ s[other(k)] = o[p[other(k)]]
    BY <2>3, <1>7
  <2>6. p2[k] = p[other(k)]
    OBVIOUS
  <2> HIDE DEF p2, q2
  <2> QED BY <2>1, <2>2, <2>3, <2>4, <2>5, <2>6, <1>5, <1>7
<1> HIDE DEF p2, q2
<1>10. Rearrangement(p2, q2, new, o)
  BY <1>8, <1>9 DEF Rearrangement, n
<1> QED BY <1>4, <1>10 DEF Rearranged, n, new

\* The first m elements of a rearrangement hold no element more often than the
\* original does, and just as often if the rest does not hold it.
LEMMA KeptOccurrences ==
  ASSUME NEW s \in Seq(Nat), NEW o \in Seq(Nat), Rearranged(s, o),
         NEW m \in 0 .. Len(s), NEW c
  PROVE  /\ Occurrences(c, SubSeq(s, 1, m)) <= Occurrences(c, o)
         /\ (\A k \in m + 1 .. Len(s) : s[k] # c)
              => Occurrences(c, SubSeq(s, 1, m)) = Occurrences(c, o)
<1>1. PICK p, q : Rearrangement(p, q, s, o)
  BY DEF Rearranged
<1> DEFINE n == Len(o)
           kept == SubSeq(s, 1, m)
           A == {k \in DOMAIN kept : kept[k] = c}
           B == {k \in DOMAIN o : o[k] = c}
           f == [k \in A |-> p[k]]
           g == [k \in B |-> q[k]]
<1>2. Len(s) = n /\ n \in Nat /\ m \in Nat /\ m <= n /\ DOMAIN o = 1 .. n
  BY DEF Rearranged
<1>3. DOMAIN kept = 1 .. m /\ \A k \in 1 .. m : kept[k] = s[k]
  BY PrefixElements
<1>4. /\ p \in [1 .. n -> 1 .. n] /\ q \in [1 .. n -> 1 .. n]
      /\ \A k \in 1 .. n : p[q[k]] = k /\ q[p[k]] = k /\ s[k] = o[p[k]]
  BY <1>1 DEF Rearrangement
<1>5. IsFiniteSet(A) /\ IsFiniteSet(B)
  <2>1. IsFiniteSet(1 .. n) /\ IsFiniteSet(1 .. m)
    BY <1>2, FS_Interval
  <2>2. A \subseteq 1 .. m /\ B \subseteq 1 .. n
    BY <1>2, <1>3
  <2> QED BY <2>1, <2>2, FS_Subset
<1> HIDE DEF n, kept
<1>6. \A k \in A : k \in 1 .. m /\ k \in 1 .. n /\ s[k] = c
  BY <1>2, <1>3
<1>7. \A k \in B : k \in 1 .. n /\ o[k] = c
  BY <1>2
<1>8. \A k \in 1 .. n : k \in 1 .. m /\ s[k] = c => k \in A
  BY <1>3
<1>9. \A k \in 1 .. n : o[k] = c => k \in B
  BY <1>2
<1> HIDE DEF A, B
<1>10. f \in Injection(A, B)
  <2>1. f \in [A -> B]
    BY <1>4, <1>6, <1>9
  <2>2. \A k, l \in A : f[k] = f[l] => k = l
    BY <1>4, <1>6
  <2> QED BY <2>1, <2>2 DEF Injection, IsInjective
<1>11. Cardinality(A) <= Cardinality(B)
  BY <1>5, <1>10, FS_Injection
<1>12. ASSUME \A k \in m + 1 .. Len(s) : s[k] # c
       PROVE  Cardinality(A) = Cardinality(B)
  <2>1. ASSUME NEW k \in B PROVE q[k] \in A
    <3>1. q[k] \in 1 .. n /\ s[q[k]] = c
      BY <1>4, <1>7
    <3>2. q[k] \notin m + 1 .. Len(s)
      BY <3>1, <1>12
    <3>3. q[k] \in 1 .. m
      BY <3>1, <3>2, <1>2
    <3> QED BY <3>1, <3>3, <1>8
  <2>2. g \in [B -> A]
    BY <2>1
  <2>3. \A k, l \in B : g[k] = g[l] => k = l
    BY <1>4, <1>7
  <2>4. g \in Injection(B, A)
    BY <2>2, <2>3 DEF Injection, IsInjective
  <2>5. Cardinality(B) <= Cardinality(A)
    BY <1>5, <2>4, FS_Injection
  <2>6. Cardinality(A) \in Nat /\ Cardinality(B) \in Nat
    BY <1>5, FS_CardinalityType
  <2> QED BY <2>5, <2>6, <1>11
<1> QED BY <1>11, <1>12 DEF Occurrences, A, B, kept

\* The span of a running trimCompleteCounters is what it was called with,
\* rearranged, and what lies behind `remaining` is complete.
SpanRearranged ==
  \A t \in Threads : pc[t] \in {"trim", "trimScan"} =>
    /\ Rearranged(span[t], original[t])
    /\ \A k \in DOMAIN original[t] : original[t][k] \in Allocated
    /\ \A k \in DOMAIN span[t] : k > remaining[t] => span[t][k] \in marked

\* The elements of the span are counters that were handed out.
LEMMA SpanAllocated ==
  ASSUME IInv, SpanRearranged, NEW t \in Threads, pc[t] \in {"trim", "trimScan"}
  PROVE  \A k \in DOMAIN span[t] : span[t][k] \in Allocated
<1>1. span[t] \in Seq(Nat) /\ original[t] \in Seq(Nat) /\ Len(span[t]) = Len(original[t])
  BY DEF IInv, TypeOK, SpanRearranged, Rearranged
<1>2. PICK p, q : Rearrangement(p, q, span[t], original[t])
  BY DEF SpanRearranged, Rearranged
<1>3. ASSUME NEW k \in 1 .. Len(original[t]) PROVE span[t][k] \in Allocated
  <2>1. p[k] \in 1 .. Len(original[t]) /\ span[t][k] = original[t][p[k]]
    BY <1>2 DEF Rearrangement
  <2> QED BY <1>1, <2>1 DEF SpanRearranged
<1> QED BY SMTT(25), <1>1, <1>3

\* A thread that neither calls trimCompleteCounters nor drops a counter.
LEMMA SpanFrame ==
  ASSUME SpanRearranged, marked \subseteq marked', Allocated \subseteq Allocated',
         NEW t \in Threads,
         \/ pc'[t] \notin {"trim", "trimScan"}
         \/ /\ pc[t] \in {"trim", "trimScan"}
            /\ span'[t] = span[t] /\ original'[t] = original[t] /\ remaining'[t] = remaining[t]
  PROVE  pc'[t] \in {"trim", "trimScan"} =>
           /\ Rearranged(span'[t], original'[t])
           /\ \A k \in DOMAIN original'[t] : original'[t][k] \in Allocated'
           /\ \A k \in DOMAIN span'[t] : k > remaining'[t] => span'[t][k] \in marked'
BY DEF SpanRearranged

LEMMA SpanUntouched ==
  ASSUME IInv, SpanRearranged, marked \subseteq marked', Allocated \subseteq Allocated',
         UNCHANGED spanVars,
         \/ pc' = pc
         \/ \E t \in Threads, label \in {"idle", "insert", "collapse", "scan"} :
              pc' = [pc EXCEPT ![t] = label]
  PROVE  SpanRearranged'
<1> SUFFICES ASSUME NEW u \in Threads, pc'[u] \in {"trim", "trimScan"}
             PROVE  /\ Rearranged(span'[u], original'[u])
                    /\ \A k \in DOMAIN original'[u] : original'[u][k] \in Allocated'
                    /\ \A k \in DOMAIN span'[u] : k > remaining'[u] => span'[u][k] \in marked'
  BY DEF SpanRearranged
<1>1. pc'[u] = pc[u]
  BY DEF IInv, TypeOK
<1> QED BY <1>1, SpanFrame DEF spanVars

\* A complete counter is dropped: it changes places with the last one kept.
LEMMA DropRearranges ==
  ASSUME IInv, SpanRearranged, NEW t \in Threads, pc[t] \in {"trim", "trimScan"},
         Drop(t), UNCHANGED <<original, marked, nextCounter>>,
         cursor[t] <= remaining[t], Completed(span[t][cursor[t]]),
         pc' = [pc EXCEPT ![t] = "trim"]
  PROVE  SpanRearranged'
<1> DEFINE s == span[t]
           i == cursor[t]
           m == remaining[t]
           new == Swap(s, i, m)
<1>1. /\ s \in Seq(Nat) /\ i \in 1 .. Len(s) /\ m \in 1 .. Len(s) /\ Len(s) \in Nat
      /\ original[t] \in Seq(Nat)
  <2>1. s \in Seq(Nat) /\ i \in Nat \ {0} /\ m \in Nat /\ m <= Len(s) /\ original[t] \in Seq(Nat)
    BY DEF IInv, TypeOK, CursorsOK
  <2> QED BY <2>1
<1>2. span' = [span EXCEPT ![t] = new] /\ remaining' = [remaining EXCEPT ![t] = m - 1]
  BY DEF Drop
<1>3. s[i] \in marked
  <2>1. s[i] \in Allocated
    BY <1>1, SpanAllocated
  <2>2. s[i] \in Nat /\ s[i] >= NUM_COMPLETION_LISTS
    BY <2>1, AllocatedRange DEF IInv
  <2> QED BY <2>2 DEF IInv, ExactEverywhere
<1>4. Rearranged(new, original[t])
  BY <1>1, SwapRearranges DEF SpanRearranged
<1>5. Len(new) = Len(s) /\ new \in Seq(Nat)
  BY <1>1, SwapElements
<1>6. ASSUME NEW k \in 1 .. Len(s), k > m - 1 PROVE new[k] \in marked
  <2>1. CASE k = m
    <3>1. new[k] = s[i]
      BY <1>1, <2>1 DEF Swap
    <3> QED BY <3>1, <1>3
  <2>2. CASE k # m
    <3>1. k # i /\ k > m
      BY <1>1, <1>6, <2>2
    <3>2. new[k] = s[k]
      BY <1>1, <2>2, <3>1 DEF Swap
    <3> QED BY <1>1, <3>1, <3>2 DEF SpanRearranged
  <2> QED BY <2>1, <2>2
<1>7. Allocated' = Allocated
  BY DEF Allocated
<1> HIDE DEF s, i, m, new
<1> SUFFICES ASSUME NEW u \in Threads, pc'[u] \in {"trim", "trimScan"}
             PROVE  /\ Rearranged(span'[u], original'[u])
                    /\ \A k \in DOMAIN original'[u] : original'[u][k] \in Allocated'
                    /\ \A k \in DOMAIN span'[u] : k > remaining'[u] => span'[u][k] \in marked'
  BY DEF SpanRearranged
<1>8. CASE u = t
  <2>1. span'[u] = new /\ remaining'[u] = m - 1
    BY <1>2, <1>8 DEF IInv, TypeOK
  <2>2. \A k \in DOMAIN new : k > m - 1 => new[k] \in marked
    BY <1>5, <1>6
  <2> QED BY <1>4, <1>7, <1>8, <2>1, <2>2 DEF SpanRearranged
<1>9. CASE u # t
  <2>1. pc'[u] = pc[u] /\ span'[u] = span[u] /\ remaining'[u] = remaining[u]
    BY <1>2, <1>9 DEF IInv, TypeOK
  <2> QED BY <2>1, <1>7, SpanFrame
<1> QED BY <1>8, <1>9

LEMMA TrimSpan ==
  ASSUME IInv, SpanRearranged, NEW t \in Threads, Trim(t)
  PROVE  SpanRearranged'
<1>1. marked' = marked /\ nextCounter' = nextCounter
  BY DEF Trim, TrimCall, TrimPrefix, TrimSegments, TrimReturn, listVars, historyVars
<1>2. Allocated' = Allocated
  BY <1>1 DEF Allocated
\* Only the span of this thread is touched.
<1>3. ASSUME NEW u \in Threads, u # t
      PROVE  /\ pc'[u] = pc[u] /\ span'[u] = span[u]
             /\ original'[u] = original[u] /\ remaining'[u] = remaining[u]
  BY <1>3 DEF Trim, TrimCall, TrimPrefix, TrimSegments, TrimReturn, Drop, Keep, Goto, IInv, TypeOK
<1>4. ASSUME pc'[t] \in {"trim", "trimScan"} =>
               /\ Rearranged(span'[t], original'[t])
               /\ \A k \in DOMAIN original'[t] : original'[t][k] \in Allocated'
               /\ \A k \in DOMAIN span'[t] : k > remaining'[t] => span'[t][k] \in marked'
      PROVE  SpanRearranged'
  <2> SUFFICES ASSUME NEW u \in Threads, pc'[u] \in {"trim", "trimScan"}
               PROVE  /\ Rearranged(span'[u], original'[u])
                      /\ \A k \in DOMAIN original'[u] : original'[u][k] \in Allocated'
                      /\ \A k \in DOMAIN span'[u] : k > remaining'[u] => span'[u][k] \in marked'
    BY DEF SpanRearranged
  <2>1. CASE u # t
    BY <1>1, <1>2, <1>3, <2>1, SpanFrame
  <2>2. CASE u = t
    BY <1>4, <2>2
  <2> QED BY <2>1, <2>2
<1>5. CASE \E cs \in BoundedSeq(Allocated, MaxSpan) : TrimCall(t, cs)
  <2>1. PICK cs \in BoundedSeq(Allocated, MaxSpan) : TrimCall(t, cs)
    BY <1>5
  <2>2. PICK n \in 0 .. MaxSpan : cs \in [1 .. n -> Allocated]
    BY DEF BoundedSeq, SeqOf
  <2>3. cs \in Seq(Nat) /\ DOMAIN cs = 1 .. Len(cs) /\ \A k \in DOMAIN cs : cs[k] \in Allocated
    <3>1. \A c \in Allocated : c \in Nat
      BY AllocatedRange DEF IInv
    <3>2. cs \in [1 .. n -> Nat] /\ n \in Nat
      BY <2>2, <3>1, BoundsAssumption
    <3> QED BY <2>2, <3>2, SeqDef
  <2>4. span'[t] = cs /\ original'[t] = cs /\ remaining'[t] = Len(cs)
    BY <2>1 DEF TrimCall, IInv, TypeOK
  <2>5. \A k \in DOMAIN cs : ~ (k > Len(cs))
    BY <2>3
  <2> QED BY <1>2, <1>4, <2>3, <2>4, <2>5, RearrangedSelf
<1>6. CASE TrimPrefix(t) \/ TrimSegments(t)
  <2>1. /\ pc[t] \in {"trim", "trimScan"} /\ cursor[t] <= remaining[t]
        /\ UNCHANGED original
    BY <1>6 DEF TrimPrefix, TrimSegments, IInv, CursorsOK
  <2>2. CASE Drop(t)
    <3>1. Completed(span[t][cursor[t]]) /\ pc' = [pc EXCEPT ![t] = "trim"]
      <4>1. CASE TrimPrefix(t)
        <5>1. pc[t] = "trim" /\ pc' \in {pc, [pc EXCEPT ![t] = "trimScan"]}
          BY <4>1 DEF TrimPrefix, Goto
        <5>2. remaining'[t] # remaining[t]
          BY <2>2 DEF Drop, IInv, TypeOK
        <5>3. Passed(span[t][cursor[t]]) /\ pc' = pc
          BY <4>1, <5>2 DEF TrimPrefix
        <5> QED BY <5>1, <5>3 DEF Passed, Completed, Covers, IInv, TypeOK
      <4>2. CASE TrimSegments(t)
        <5>1. remaining'[t] # remaining[t]
          BY <2>2 DEF Drop, IInv, TypeOK
        <5> QED BY <4>2, <5>1 DEF TrimSegments, Keep, Goto, Completed, Covers
      <4> QED BY <1>6, <4>1, <4>2
    <3> QED BY <1>1, <2>1, <2>2, <3>1, DropRearranges
  <2>3. CASE UNCHANGED <<span, remaining>>
    BY <1>1, <1>2, <1>4, <2>1, <2>3, SpanFrame
  <2> QED BY <1>6, <2>2, <2>3 DEF TrimPrefix, TrimSegments, Keep
<1>7. CASE TrimReturn(t)
  <2>1. pc'[t] = "idle"
    BY <1>7 DEF TrimReturn, Goto, IInv, TypeOK
  <2> QED BY <1>4, <2>1
<1> QED BY <1>5, <1>6, <1>7 DEF Trim

LEMMA StepSpan ==
  ASSUME IInv, SpanRearranged, [Next]_vars
  PROVE  SpanRearranged'
<1>1. marked \subseteq marked'
  BY StepIInv
<1>2. Allocated \subseteq Allocated'
  BY StepIInv, ListsAssumption DEF Allocated, IInv, TypeOK
<1>3. ASSUME NEW t \in Threads, Allocate(t) \/ Complete(t) \/ Check(t) PROVE SpanRearranged'
  <2>1. UNCHANGED spanVars
    BY <1>3 DEF Allocate, Complete, CompleteInOrder, CompleteInsert, CompleteCollapse,
                CompleteReturn, Check, CheckPrefix, CheckSegments
  <2>2. \/ pc' = pc
        \/ \E label \in {"idle", "insert", "collapse", "scan"} : pc' = [pc EXCEPT ![t] = label]
    BY <1>3 DEF Allocate, Complete, CompleteInOrder, CompleteInsert, CompleteCollapse,
                CompleteReturn, Check, CheckPrefix, CheckSegments, Goto
  <2> QED BY <1>1, <1>2, <2>1, <2>2, SpanUntouched
<1>4. CASE UNCHANGED vars
  BY <1>1, <1>2, <1>4, SpanUntouched DEF vars, spanVars
<1> QED BY <1>3, <1>4, TrimSpan DEF Next

LEMMA RearrangedKeeps ==
  ASSUME IInv, SpanRearranged PROVE TrimKeepsIncomplete
<1> SUFFICES ASSUME NEW t \in Threads, pc[t] \in {"trim", "trimScan"}, NEW c
             PROVE  LET kept == SubSeq(span[t], 1, remaining[t])
                    IN  /\ Occurrences(c, kept) <= Occurrences(c, original[t])
                        /\ ~ Completed(c) => Occurrences(c, kept) = Occurrences(c, original[t])
  BY DEF TrimKeepsIncomplete
<1>1. /\ span[t] \in Seq(Nat) /\ original[t] \in Seq(Nat) /\ remaining[t] \in 0 .. Len(span[t])
  BY DEF IInv, TypeOK, CursorsOK
<1>2. Rearranged(span[t], original[t])
  BY DEF SpanRearranged
<1>3. ASSUME ~ Completed(c), NEW k \in remaining[t] + 1 .. Len(span[t]), span[t][k] = c
      PROVE  FALSE
  <2>1. k \in DOMAIN span[t] /\ k > remaining[t]
    BY <1>1
  <2>2. c \in marked
    BY <1>3, <2>1 DEF SpanRearranged
  <2>3. c \in Nat /\ c >= NUM_COMPLETION_LISTS
    BY <2>2, AllocatedRange DEF IInv, TypeOK
  <2> QED BY <1>3, <2>2, <2>3 DEF IInv, ExactEverywhere
<1> QED BY <1>1, <1>2, <1>3, KeptOccurrences
-----------------------------------------------------------------------------
LEMMA StructureInvariance == Spec => [](IInv /\ SegmentsOrdered /\ SpanRearranged)
<1>1. Init => SegmentsOrdered /\ SpanRearranged
  BY DEF Init, SegmentsOrdered, Ordered, AbovePrefix, SpanRearranged
<1>2. IInv /\ SegmentsOrdered /\ SpanRearranged /\ [Next]_vars
        => IInv' /\ SegmentsOrdered' /\ SpanRearranged'
  BY StepIInv, StepOrdered, StepSpan
<1> QED BY InitIInv, <1>1, <1>2, PTL DEF Spec

\* For any number of threads, lists and counters, whatever the order of completions,
\* segments stay sorted, merged and few, and trimCompleteCounters loses no counter that
\* is incomplete and invents none.
THEOREM SegmentsStaySound == Spec => []SegmentsSound
<1>1. IInv /\ SegmentsOrdered /\ SpanRearranged => SegmentsSound
  BY OrderedCanonical, RearrangedKeeps DEF SegmentsSound
<1> QED BY StructureInvariance, <1>1, PTL
=============================================================================
