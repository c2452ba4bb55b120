----------------------------- MODULE World_proof -----------------------------
(***************************************************************************)
(* The player and the land around: what a finished result makes outdated   *)
(* is what is made of it; the walker visits every key in reach; the client *)
(* moves as its keys say and the world follows it.                         *)
(***************************************************************************)
EXTENDS LandKeys, Client, OctahedraWalker, SequenceLemmas
-----------------------------------------------------------------------------
(* The keys of chunks: the two halves of the invalidation logic agree, at  *)
(* every altitude.  The LODs range over those of the code, 0 to 8.         *)

AlignedKeys == {k \in [lod : 0..8, y : Int] : k.y = Base(k.lod, k.y)}

\* Scales double from a LOD to the next.
LEMMA ScaleDoubles ==
    \A n \in 0..8 : Scale(n) \in Nat \ {0} /\ Scale(n + 1) = 2 * Scale(n)
<1>1. /\ 2 ^ 0 = 1  /\ 2 ^ 1 = 2  /\ 2 ^ 2 = 4   /\ 2 ^ 3 = 8   /\ 2 ^ 4 = 16
      /\ 2 ^ 5 = 32 /\ 2 ^ 6 = 64 /\ 2 ^ 7 = 128 /\ 2 ^ 8 = 256 /\ 2 ^ 9 = 512
  OBVIOUS
<1> SUFFICES ASSUME NEW n \in 0..8
             PROVE  2 ^ n \in Nat \ {0} /\ 2 ^ (n + 1) = 2 * 2 ^ n
  BY DEF Scale
<1>2. n \in {0, 1, 2, 3, 4, 5, 6, 7, 8}
  OBVIOUS
<1>3. CASE n = 0 BY <1>1, <1>3
<1>4. CASE n = 1 BY <1>1, <1>4
<1>5. CASE n = 2 BY <1>1, <1>5
<1>6. CASE n = 3 BY <1>1, <1>6
<1>7. CASE n = 4 BY <1>1, <1>7
<1>8. CASE n = 5 BY <1>1, <1>8
<1>9. CASE n = 6 BY <1>1, <1>9
<1>10. CASE n = 7 BY <1>1, <1>10
<1>11. CASE n = 8 BY <1>1, <1>11
<1> QED BY <1>2, <1>3, <1>4, <1>5, <1>6, <1>7, <1>8, <1>9, <1>10, <1>11

\* A multiple of s lies at y or in the second half above y exactly when y is
\* the multiple of 2 * s it rounds down to.
LEMMA HalfOf ==
    ASSUME NEW s \in Nat \ {0}, NEW y \in Int, NEW z \in Int,
           NEW a \in Int, NEW b \in Int, y = a * (2 * s), z = b * s
    PROVE  (z = y \/ z = y + s) <=> y = (z \div (2 * s)) * (2 * s)
  OBVIOUS

\* Three true chunks from an even altitude on: those whose own altitude or the
\* one below rounds down to it.
LEMMA ThreeFrom ==
    ASSUME NEW y \in Int, NEW z \in Int, y % 2 = 0
    PROVE  (\E i \in 0..2 : z = y + i)
             <=> (y = (z \div 2) * 2 \/ y = ((z - 1) \div 2) * 2)
  OBVIOUS

\* handleChunkLoadCompletion and handlePseudoDataGenCompletion invalidate the
\* pseudo-data of exactly the keys that enqueuePseudoDataGen makes of the
\* finished one.
THEOREM DataDependentsExact ==
    ASSUME NEW k \in AlignedKeys, NEW d \in AlignedKeys, k.lod = d.lod + 1
    PROVE  d \in AggregatedFrom(k) <=> k \in DataDependents(d)
<1> k = Key(k.lod, k.y) /\ d = Key(d.lod, d.y) /\ k.lod \in 1..8 /\ d.lod \in 0..7
    /\ k.y \in Int /\ d.y \in Int
  BY DEF AlignedKeys, Key
<1>keys. \A n, m, y, z : Key(n, y) = Key(m, z) <=> (n = m /\ y = z)
  BY DEF Key
<1>1. CASE d.lod = 0
  <2>0. Scale(1) = 2 /\ k.lod = 1
    BY <1>1 DEF Scale
  <2>1. k.y = (k.y \div 2) * 2
    BY <2>0 DEF AlignedKeys, Base
  <2>2. d \in AggregatedFrom(k) <=> \E i \in 0..2 : d.y = k.y + i
    BY <1>1, <1>keys DEF AggregatedFrom
  <2>3. k \in DataDependents(d) <=> (k.y = Base(1, d.y) \/ k.y = Base(1, d.y - 1))
    BY <1>1, <1>keys DEF DataDependents, ParentLodKey, Key
  <2>4. k.y % 2 = 0
    BY <2>1
  <2>5. Base(1, d.y) = (d.y \div 2) * 2 /\ Base(1, d.y - 1) = ((d.y - 1) \div 2) * 2
    BY <2>0 DEF Base
  <2>6. (\E i \in 0..2 : d.y = k.y + i)
           <=> (k.y = (d.y \div 2) * 2 \/ k.y = ((d.y - 1) \div 2) * 2)
    BY <2>4, ThreeFrom
  <2> QED BY <2>2, <2>3, <2>5, <2>6, Zenon
<1>2. CASE d.lod > 0
  <2> DEFINE s == Scale(d.lod)
  <2>1. s \in Nat \ {0} /\ Scale(k.lod) = 2 * s
    BY ScaleDoubles
  <2>2. k.y = (k.y \div (2 * s)) * (2 * s) /\ d.y = (d.y \div s) * s
    BY <2>1 DEF AlignedKeys, Base
  <2>3. (k.y \div (2 * s)) \in Int /\ (d.y \div s) \in Int
    BY <2>1
  <2>4. (d.y = k.y \/ d.y = k.y + s) <=> k.y = (d.y \div (2 * s)) * (2 * s)
    <3> HIDE DEF s
    <3> QED BY SMTT(25), <2>1, <2>2, <2>3, HalfOf
  <2>5. d \in AggregatedFrom(k) <=> (d.y = k.y \/ d.y = k.y + s)
    BY <1>2, <1>keys DEF AggregatedFrom
  <2>6. k \in DataDependents(d) <=> k.y = Base(k.lod, d.y)
    BY <1>2, <1>keys DEF DataDependents, ParentLodKey, Key
  <2> QED BY <2>1, <2>4, <2>5, <2>6 DEF Base
<1> QED BY <1>1, <1>2

\* The same of surfaces: the keys whose surface a completion invalidates are
\* those that take its key for a neighbour.
THEOREM SurfaceDependentsExact ==
    ASSUME NEW k \in AlignedKeys, NEW d \in AlignedKeys, k.lod = d.lod
    PROVE  d \in SurfaceNeighbours(k) <=> k \in SurfaceDependents(d)
<1>1. k = Key(k.lod, k.y) /\ d = Key(k.lod, d.y) /\ k.y \in Int /\ d.y \in Int
  BY DEF AlignedKeys, Key
<1>2. \A n, y, z : Key(n, y) = Key(n, z) <=> y = z
  BY DEF Key
<1>3. Scale(k.lod) \in Int
  BY ScaleDoubles DEF AlignedKeys
<1>4. d \in SurfaceNeighbours(k) <=> (d.y = k.y - Scale(k.lod) \/ d.y = k.y + Scale(k.lod))
  BY <1>1, <1>2 DEF SurfaceNeighbours
<1>5. k \in SurfaceDependents(d) <=> (k.y = d.y - Scale(k.lod) \/ k.y = d.y + Scale(k.lod))
  BY <1>1, <1>2 DEF SurfaceDependents, SurfaceNeighbours
<1> QED BY <1>1, <1>3, <1>4, <1>5
-----------------------------------------------------------------------------
(* The walker                                                              *)

\* How far a point is from the centre.
Reach(a, b, c) == Magnitude(a) + Magnitude(b) + Magnitude(c)

LEMMA MagnitudeIs ==
  \A n \in Int : /\ Magnitude(n) \in Nat /\ Magnitude(-n) = Magnitude(n)
                 /\ n <= Magnitude(n) /\ -n <= Magnitude(n)
                 /\ Magnitude(n) = 0 <=> n = 0
BY DEF Magnitude

\* What the walker has passed on its way through the octahedron it is in, row by row, and
\* on each of both sides of a point of the base.
Passed(w, a, b, c) ==
  \/ a < w.dx
  \/ a = w.dx /\ (c < w.dz \/ (c = w.dz /\ w.negative /\ b > 0))

WalkerTyped ==
  walker \in [max : Nat, radius : Nat, dx : Int, dz : Int, negative : BOOLEAN, wrapped : BOOLEAN]

\* The walker is at a point of its octahedron, below the base only if there is a below.
Placed(w) ==
  /\ w.radius <= w.max /\ Magnitude(w.dx) + Magnitude(w.dz) <= w.radius
  /\ w.negative => Dy(w) # 0

\* What has been visited is what is nearer and what has been passed, or all.
WalkerInv ==
  /\ WalkerTyped /\ Placed(walker) /\ visited \subseteq Int \X Int \X Int
  /\ walker.radius > 0 =>
       \A a, b, c \in Int :
         <<a, b, c>> \in visited <=>
           \/ Reach(a, b, c) < walker.radius
           \/ Reach(a, b, c) = walker.radius /\ Passed(walker, a, b, c)
  /\ walker.radius = 0 /\ visited # {} =>
       /\ walker.wrapped
       /\ \A a, b, c \in Int : <<a, b, c>> \in visited <=> Reach(a, b, c) <= walker.max

\* The fields of a walker.
LEMMA WalkerIs ==
  ASSUME WalkerInv
  PROVE  /\ walker.max \in Nat /\ walker.radius \in Nat /\ walker.dx \in Int /\ walker.dz \in Int
         /\ walker.negative \in BOOLEAN /\ walker.wrapped \in BOOLEAN
         /\ walker.radius <= walker.max
         /\ Magnitude(walker.dx) + Magnitude(walker.dz) <= walker.radius
         /\ Dy(walker) \in Nat /\ (walker.negative => Dy(walker) > 0)
         /\ Dy(walker) = walker.radius - Magnitude(walker.dx) - Magnitude(walker.dz)
<1>1. /\ walker.max \in Nat /\ walker.radius \in Nat /\ walker.dx \in Int /\ walker.dz \in Int
      /\ walker.negative \in BOOLEAN /\ walker.wrapped \in BOOLEAN
  BY DEF WalkerInv, WalkerTyped
<1>2. Magnitude(walker.dx) \in Nat /\ Magnitude(walker.dz) \in Nat
  BY <1>1, MagnitudeIs
<1> QED BY <1>1, <1>2 DEF WalkerInv, Placed, Dy

\* It is at the centre exactly where its octahedron is the centre.
LEMMA AtCentre ==
  ASSUME WalkerInv
  PROVE  /\ Offset(walker) \in Int \X Int \X Int
         /\ Offset(walker) = <<0, 0, 0>> <=> walker.radius = 0
         /\ Reach(Offset(walker)[1], Offset(walker)[2], Offset(walker)[3]) = walker.radius
<1> DEFINE y == IF walker.negative THEN - Dy(walker) ELSE Dy(walker)
<1>1. Offset(walker) = <<walker.dx, y, walker.dz>> /\ y \in Int /\ Magnitude(y) = Dy(walker)
  BY WalkerIs DEF Offset, Magnitude
<1>2. Reach(walker.dx, y, walker.dz) = walker.radius
  BY <1>1, WalkerIs, MagnitudeIs DEF Reach
<1>3. walker.dx = 0 /\ y = 0 /\ walker.dz = 0 <=> walker.radius = 0
  <2>1. walker.radius = Magnitude(walker.dx) + Magnitude(y) + Magnitude(walker.dz)
    BY <1>2 DEF Reach
  <2>2. /\ Magnitude(walker.dx) \in Nat /\ (Magnitude(walker.dx) = 0 <=> walker.dx = 0)
        /\ Magnitude(y) \in Nat /\ (Magnitude(y) = 0 <=> y = 0)
        /\ Magnitude(walker.dz) \in Nat /\ (Magnitude(walker.dz) = 0 <=> walker.dz = 0)
    BY <1>1, WalkerIs, MagnitudeIs
  <2> QED BY <2>1, <2>2
<1> HIDE DEF y
<1> QED BY <1>1, <1>2, <1>3, WalkerIs

LEMMA WalkerStarts ==
  ASSUME WalkerInit
  PROVE  WalkerInv
<1>1. /\ WalkerTyped /\ walker.radius = 0 /\ walker.dx = 0 /\ walker.dz = 0 /\ ~ walker.negative
      /\ visited = {} /\ walker.max \in Nat
  <2>1. walker \in [max : 0 .. MaxRadius, radius : {0}, dx : {0}, dz : {0}, negative : {FALSE},
                    wrapped : {FALSE}]
        /\ visited = {}
    BY DEF WalkerInit
  <2>2. /\ walker.radius = 0 /\ walker.dx = 0 /\ walker.dz = 0 /\ walker.negative = FALSE
        /\ walker.max \in 0 .. MaxRadius
    BY <2>1
  <2>3. 0 .. MaxRadius \subseteq Nat /\ FALSE \in BOOLEAN
    BY RadiusAssumption
  <2>4. WalkerTyped
    <3>1. walker = [max |-> walker.max, radius |-> 0, dx |-> 0, dz |-> 0, negative |-> FALSE,
                    wrapped |-> FALSE]
      BY <2>1
    <3>2. walker.max \in Nat
      BY <2>2, <2>3
    <3> DEFINE m == walker.max
    <3> HIDE DEF m
    <3>3. [max |-> m, radius |-> 0, dx |-> 0, dz |-> 0, negative |-> FALSE, wrapped |-> FALSE]
            \in [max : Nat, radius : Nat, dx : Int, dz : Int, negative : BOOLEAN, wrapped : BOOLEAN]
      BY <3>2 DEF m
    <3> QED BY <3>1, <3>3 DEF WalkerTyped, m
  <2> QED BY <2>1, <2>2, <2>3, <2>4
<1> QED BY <1>1 DEF WalkerInv, Placed, Magnitude

\* From the centre on.
LEMMA LeavesCentre ==
  ASSUME WalkerInv, step, walker.radius = 0
  PROVE  WalkerInv'
<1>1. walker.dx = 0 /\ walker.dz = 0 /\ Dy(walker) = 0 /\ ~ walker.negative
  BY WalkerIs, MagnitudeIs
<1>2. visited' = {<<0, 0, 0>>}
  <2>1. Offset(walker) = <<0, 0, 0>>
    BY AtCentre
  <2> QED BY <2>1 DEF step
<1> DEFINE r == NextRadius(walker)
<1>3. walker' = [walker EXCEPT !.negative = FALSE, !.radius = r, !.dx = - r, !.dz = 0,
                               !.wrapped = walker.wrapped \/ r = 0]
  <2> DEFINE upper == [walker EXCEPT !.negative = FALSE]
  <2>1. /\ upper.dx = 0 /\ upper.dz = 0 /\ upper.radius = 0 /\ upper.max = walker.max
        /\ upper.wrapped = walker.wrapped
    BY <1>1, WalkerIs DEF WalkerInv, WalkerTyped
  <2>2. NextRadius(upper) = r
    BY <2>1 DEF NextRadius
  <2>3. ~ (upper.dx + 1 <= upper.radius)
    BY <2>1
  <2> HIDE DEF r
  <2>4. NextRow(upper) = [upper EXCEPT !.radius = r, !.dx = - r, !.dz = 0, !.wrapped = walker.wrapped \/ r = 0]
    BY <2>1, <2>2, <2>3 DEF NextRow
  <2>5. ~ (walker.dz + 1 <= walker.radius - Magnitude(walker.dx))
    BY <1>1 DEF Magnitude
  <2>6. walker' = NextRow(upper)
    BY <1>1, <2>5 DEF step, NextPoint
  <2> QED BY <2>4, <2>6 DEF WalkerInv, WalkerTyped
<1>4. r \in Nat /\ r <= walker.max /\ (r = 0 <=> walker.max = 0) /\ (r = 0 \/ r = 1)
  BY WalkerIs DEF NextRadius
<1> HIDE DEF r
<1>5. /\ WalkerTyped' /\ walker'.radius = r /\ walker'.dx = -r /\ walker'.dz = 0 /\ walker'.max = walker.max
      /\ ~ walker'.negative /\ (r = 0 => walker'.wrapped)
  <2>1. -r \in Int /\ 0 \in Int /\ r \in Nat
    BY <1>4
  <2> DEFINE b == walker.wrapped \/ r = 0
  <2>2. b \in BOOLEAN /\ (r = 0 => b)
    OBVIOUS
  <2> HIDE DEF b
  <2>3. walker' = [walker EXCEPT !.negative = FALSE, !.radius = r, !.dx = - r, !.dz = 0, !.wrapped = b]
    BY <1>3 DEF b
  <2>4. walker' \in [max : Nat, radius : Nat, dx : Int, dz : Int, negative : BOOLEAN, wrapped : BOOLEAN]
    BY <2>1, <2>2, <2>3 DEF WalkerInv, WalkerTyped
  <2>5. /\ walker'.radius = r /\ walker'.dx = -r /\ walker'.dz = 0 /\ walker'.max = walker.max
        /\ walker'.negative = FALSE /\ walker'.wrapped = b
    BY <2>3 DEF WalkerInv, WalkerTyped
  <2> QED BY <2>2, <2>4, <2>5 DEF WalkerTyped
<1>6. Placed(walker')
  <2>1. Magnitude(-r) = r /\ Magnitude(0) = 0
    BY <1>4 DEF Magnitude
  <2>2. r <= walker.max
    BY <1>4
  <2>3. /\ walker'.radius = r /\ walker'.dx = -r /\ walker'.dz = 0 /\ walker'.max = walker.max
        /\ ~ walker'.negative
    BY <1>5
  <2>4. Magnitude(walker'.dx) + Magnitude(walker'.dz) <= walker'.radius
    BY <1>4, <2>1, <2>3
  <2> QED BY <2>2, <2>3, <2>4 DEF Placed
<1>7. \A a, b, c \in Int : <<a, b, c>> \in visited' <=> Reach(a, b, c) <= 0
  BY <1>2, MagnitudeIs DEF Reach
<1>8. ASSUME r > 0
      PROVE  \A a, b, c \in Int : <<a, b, c>> \in visited' <=>
               Reach(a, b, c) < r \/ (Reach(a, b, c) = r /\ Passed(walker', a, b, c))
  <2> SUFFICES ASSUME NEW a \in Int, NEW b \in Int, NEW c \in Int
               PROVE  <<a, b, c>> \in visited' <=>
                        Reach(a, b, c) < r \/ (Reach(a, b, c) = r /\ Passed(walker', a, b, c))
    OBVIOUS
  <2>1. r = 1 /\ Reach(a, b, c) \in Nat
    BY <1>4, <1>8, MagnitudeIs DEF Reach
  <2>2. Reach(a, b, c) = 1 => ~ Passed(walker', a, b, c)
    BY <1>5, <2>1, MagnitudeIs DEF Passed, Reach
  <2> QED BY <1>7, <2>1, <2>2
<1> QED BY <1>2, <1>4, <1>5, <1>6, <1>7, <1>8 DEF WalkerInv

\* One more point is visited: the one the walker is at.
Below(w) == IF w.negative THEN - Dy(w) ELSE Dy(w)

LEMMA OneMore ==
  ASSUME WalkerInv, step, walker.radius > 0
  PROVE  /\ visited' \subseteq Int \X Int \X Int
         /\ \A a, b, c \in Int :
              <<a, b, c>> \in visited' <=>
                \/ Reach(a, b, c) < walker.radius
                \/ Reach(a, b, c) = walker.radius /\ Passed(walker, a, b, c)
                \/ a = walker.dx /\ b = Below(walker) /\ c = walker.dz
<1>1. visited' = visited \cup {Offset(walker)}
  BY AtCentre DEF step
<1>2. Offset(walker) = <<walker.dx, Below(walker), walker.dz>>
  BY DEF Offset, Below
<1>3. \A a, b, c \in Int : <<a, b, c>> \in visited' <=>
        <<a, b, c>> \in visited \/ (a = walker.dx /\ b = Below(walker) /\ c = walker.dz)
  BY <1>1, <1>2
<1>4. visited \subseteq Int \X Int \X Int /\ Offset(walker) \in Int \X Int \X Int
  BY AtCentre DEF WalkerInv
<1> QED BY <1>1, <1>3, <1>4 DEF WalkerInv

\* A walker that goes on in the same octahedron, the points passed being one more.
LEMMA GoesOn ==
  ASSUME WalkerInv, step, walker.radius > 0, WalkerTyped', Placed(walker'),
         walker'.radius = walker.radius,
         \A a, b, c \in Int : Reach(a, b, c) = walker.radius =>
           (Passed(walker', a, b, c) <=>
              Passed(walker, a, b, c) \/ (a = walker.dx /\ b = Below(walker) /\ c = walker.dz))
  PROVE  WalkerInv'
<1>1. \A a, b, c \in Int :
        (a = walker.dx /\ b = Below(walker) /\ c = walker.dz) => Reach(a, b, c) = walker.radius
  BY AtCentre DEF Offset, Below
<1>2. \A a, b, c \in Int : <<a, b, c>> \in visited' <=>
        \/ Reach(a, b, c) < walker'.radius
        \/ Reach(a, b, c) = walker'.radius /\ Passed(walker', a, b, c)
  <2> SUFFICES ASSUME NEW a \in Int, NEW b \in Int, NEW c \in Int
               PROVE  <<a, b, c>> \in visited' <=>
                        \/ Reach(a, b, c) < walker'.radius
                        \/ Reach(a, b, c) = walker'.radius /\ Passed(walker', a, b, c)
    OBVIOUS
  <2>1. Reach(a, b, c) \in Int /\ walker.radius \in Int
    <3>1. Magnitude(a) \in Nat /\ Magnitude(b) \in Nat /\ Magnitude(c) \in Nat
      BY MagnitudeIs
    <3> QED BY <3>1, WalkerIs DEF Reach
  <2>2. <<a, b, c>> \in visited' <=>
          \/ Reach(a, b, c) < walker.radius
          \/ Reach(a, b, c) = walker.radius /\ Passed(walker, a, b, c)
          \/ a = walker.dx /\ b = Below(walker) /\ c = walker.dz
    BY OneMore
  <2> QED BY <2>1, <2>2, <1>1
<1>3. visited' \subseteq Int \X Int \X Int
  BY OneMore
<1>4. walker'.radius # 0
  BY WalkerIs
<1> QED BY <1>2, <1>3, <1>4 DEF WalkerInv

\* On a row of the base, the points of an octahedron are one above and one below.
LEMMA OnRow ==
  ASSUME WalkerInv, NEW a \in Int, NEW b \in Int, NEW c \in Int, Reach(a, b, c) = walker.radius
  PROVE  /\ a = walker.dx /\ c = walker.dz => b = Dy(walker) \/ b = - Dy(walker)
         /\ Magnitude(a) + Magnitude(c) <= walker.radius
<1>1. Magnitude(a) + Magnitude(b) + Magnitude(c) = walker.radius
      /\ Magnitude(a) \in Nat /\ Magnitude(b) \in Nat /\ Magnitude(c) \in Nat
  BY MagnitudeIs DEF Reach
<1>2. a = walker.dx /\ c = walker.dz => Magnitude(b) = Dy(walker)
  BY <1>1, WalkerIs
<1>3. b = Magnitude(b) \/ b = - Magnitude(b)
  BY DEF Magnitude
<1> QED BY <1>1, <1>2, <1>3, WalkerIs

LEMMA OtherSide ==
  ASSUME WalkerInv, step, walker.radius > 0, ~ walker.negative, Dy(walker) # 0
  PROVE  WalkerInv'
<1>1. walker' = [walker EXCEPT !.negative = TRUE]
  BY DEF step, NextPoint
<1>2. /\ WalkerTyped' /\ walker'.negative = TRUE /\ walker'.dx = walker.dx /\ walker'.dz = walker.dz
      /\ walker'.radius = walker.radius /\ walker'.max = walker.max
  BY <1>1 DEF WalkerInv, WalkerTyped
<1>3. Placed(walker')
  BY <1>2, WalkerIs DEF Placed, Dy
<1>4. ASSUME NEW a \in Int, NEW b \in Int, NEW c \in Int, Reach(a, b, c) = walker.radius
      PROVE  Passed(walker', a, b, c) <=>
               Passed(walker, a, b, c) \/ (a = walker.dx /\ b = Below(walker) /\ c = walker.dz)
  <2>1. a = walker.dx /\ c = walker.dz => (b > 0 <=> b = Dy(walker))
    BY <1>4, OnRow, WalkerIs
  <2>2. Below(walker) = Dy(walker)
    BY DEF Below
  <2> QED BY <1>2, <2>1, <2>2 DEF Passed
<1> QED BY <1>2, <1>3, <1>4, GoesOn

\* What lies behind a point with both its sides.
Behind(w, a, c) == a < w.dx \/ (a = w.dx /\ c <= w.dz)

LEMMA BothSides ==
  ASSUME WalkerInv, walker.negative \/ Dy(walker) = 0,
         NEW a \in Int, NEW b \in Int, NEW c \in Int, Reach(a, b, c) = walker.radius
  PROVE  Passed(walker, a, b, c) \/ (a = walker.dx /\ b = Below(walker) /\ c = walker.dz)
           <=> Behind(walker, a, c)
<1>1. CASE a = walker.dx /\ c = walker.dz
  <2>1. b = Dy(walker) \/ b = - Dy(walker)
    BY <1>1, OnRow
  <2>2. b = Below(walker) \/ (walker.negative /\ b > 0)
    BY <2>1, WalkerIs DEF Below
  <2> QED BY <1>1, <2>2, WalkerIs DEF Passed, Behind
<1>2. CASE ~ (a = walker.dx /\ c = walker.dz)
  BY <1>2, WalkerIs DEF Passed, Behind
<1> QED BY <1>1, <1>2

LEMMA NextInRow ==
  ASSUME WalkerInv, step, walker.radius > 0, walker.negative \/ Dy(walker) = 0,
         walker.dz + 1 <= walker.radius - Magnitude(walker.dx)
  PROVE  WalkerInv'
<1>1. walker' = [walker EXCEPT !.negative = FALSE, !.dz = walker.dz + 1]
  BY DEF step, NextPoint, WalkerInv, WalkerTyped
<1>2. /\ WalkerTyped' /\ walker'.negative = FALSE /\ walker'.dx = walker.dx /\ walker'.dz = walker.dz + 1
      /\ walker'.radius = walker.radius /\ walker'.max = walker.max
  <2>1. walker.dz + 1 \in Int /\ FALSE \in BOOLEAN
    BY WalkerIs
  <2> DEFINE z == walker.dz + 1
  <2> HIDE DEF z
  <2>2. walker' = [walker EXCEPT !.negative = FALSE, !.dz = z]
    BY <1>1 DEF z
  <2>3. z \in Int
    BY <2>1 DEF z
  <2>4. /\ walker' \in [max : Nat, radius : Nat, dx : Int, dz : Int, negative : BOOLEAN, wrapped : BOOLEAN]
        /\ walker'.negative = FALSE /\ walker'.dx = walker.dx /\ walker'.dz = z
        /\ walker'.radius = walker.radius /\ walker'.max = walker.max
    BY <2>1, <2>2, <2>3 DEF WalkerInv, WalkerTyped
  <2> QED BY <2>4 DEF WalkerTyped, z
<1>3. Placed(walker')
  <2>1. Magnitude(walker.dz + 1) + Magnitude(walker.dx) <= walker.radius
    BY WalkerIs, MagnitudeIs DEF Magnitude
  <2> QED BY <1>2, <2>1, WalkerIs, MagnitudeIs DEF Placed
<1>4. ASSUME NEW a \in Int, NEW b \in Int, NEW c \in Int, Reach(a, b, c) = walker.radius
      PROVE  Passed(walker', a, b, c) <=>
               Passed(walker, a, b, c) \/ (a = walker.dx /\ b = Below(walker) /\ c = walker.dz)
  <2>1. Passed(walker', a, b, c) <=> Behind(walker, a, c)
    BY <1>2, WalkerIs DEF Passed, Behind
  <2> QED BY <2>1, <1>4, BothSides
<1> QED BY <1>2, <1>3, <1>4, GoesOn

\* At the end of a row there is only the border of the base.
LEMMA RowEnds ==
  ASSUME WalkerInv, ~ (walker.dz + 1 <= walker.radius - Magnitude(walker.dx))
  PROVE  /\ Dy(walker) = 0 /\ walker.negative = FALSE /\ walker.dz = walker.radius - Magnitude(walker.dx)
         /\ \A a, b, c \in Int : Reach(a, b, c) = walker.radius =>
              (Behind(walker, a, c) <=> a <= walker.dx)
<1>1. walker.dz <= Magnitude(walker.dz) /\ Magnitude(walker.dz) \in Nat /\ Magnitude(walker.dx) \in Nat
  BY WalkerIs, MagnitudeIs
<1>2. walker.dz = walker.radius - Magnitude(walker.dx) /\ Magnitude(walker.dz) = walker.dz
  BY <1>1, WalkerIs
<1>3. Dy(walker) = 0 /\ walker.negative = FALSE
  BY <1>1, <1>2, WalkerIs
<1>4. ASSUME NEW a \in Int, NEW b \in Int, NEW c \in Int, Reach(a, b, c) = walker.radius
      PROVE  Behind(walker, a, c) <=> a <= walker.dx
  <2>1. Magnitude(a) + Magnitude(c) <= walker.radius /\ c <= Magnitude(c)
        /\ Magnitude(a) \in Nat /\ Magnitude(c) \in Nat
    BY <1>4, OnRow, MagnitudeIs
  <2>2. a = walker.dx => c <= walker.dz
    BY <1>2, <2>1, WalkerIs
  <2> QED BY <2>2, WalkerIs DEF Behind
<1> QED BY <1>2, <1>3, <1>4

\* What the walker becomes at the end of a row.
LEMMA RowLeft ==
  ASSUME WalkerInv, step, ~ (walker.dz + 1 <= walker.radius - Magnitude(walker.dx))
  PROVE  /\ walker.dx + 1 <= walker.radius =>
              walker' = [walker EXCEPT !.dx = walker.dx + 1, !.dz = Magnitude(walker.dx + 1) - walker.radius]
         /\ ~ (walker.dx + 1 <= walker.radius) =>
              walker' = [walker EXCEPT !.radius = NextRadius(walker), !.dx = - NextRadius(walker), !.dz = 0,
                                       !.wrapped = walker.wrapped \/ NextRadius(walker) = 0]
<1> DEFINE upper == [walker EXCEPT !.negative = FALSE]
<1>1. upper = walker
  BY RowEnds DEF WalkerInv, WalkerTyped
<1>2. walker' = NextRow(upper)
  BY RowEnds DEF step, NextPoint
<1> HIDE DEF upper
<1> QED BY <1>1, <1>2 DEF NextRow

LEMMA RowAfter ==
  ASSUME WalkerInv, step, walker.radius > 0,
         ~ (walker.dz + 1 <= walker.radius - Magnitude(walker.dx)), walker.dx + 1 <= walker.radius
  PROVE  WalkerInv'
<1> DEFINE x == walker.dx + 1
           z == Magnitude(walker.dx + 1) - walker.radius
<1>1. x \in Int /\ z \in Int /\ x <= walker.radius /\ - walker.radius <= x
  BY WalkerIs, MagnitudeIs
<1>2. Magnitude(x) \in Nat /\ Magnitude(x) <= walker.radius /\ z = Magnitude(x) - walker.radius
      /\ Magnitude(z) = walker.radius - Magnitude(x)
  BY <1>1, WalkerIs DEF Magnitude
<1>3. walker' = [walker EXCEPT !.dx = x, !.dz = z]
  BY RowLeft
<1>x. x = walker.dx + 1
  OBVIOUS
<1> HIDE DEF x, z
<1>4. /\ walker' \in [max : Nat, radius : Nat, dx : Int, dz : Int, negative : BOOLEAN, wrapped : BOOLEAN]
      /\ walker'.dx = x /\ walker'.dz = z /\ walker'.negative = walker.negative
      /\ walker'.radius = walker.radius /\ walker'.max = walker.max
  BY <1>1, <1>3 DEF WalkerInv, WalkerTyped
<1>5. walker.negative = FALSE /\ Dy(walker) = 0
  BY RowEnds
<1>6. Placed(walker')
  BY <1>2, <1>4, <1>5, WalkerIs DEF Placed
<1>7. ASSUME NEW a \in Int, NEW b \in Int, NEW c \in Int, Reach(a, b, c) = walker.radius
      PROVE  Passed(walker', a, b, c) <=>
               Passed(walker, a, b, c) \/ (a = walker.dx /\ b = Below(walker) /\ c = walker.dz)
  <2>1. Magnitude(a) + Magnitude(c) <= walker.radius /\ - c <= Magnitude(c)
        /\ Magnitude(a) \in Nat /\ Magnitude(c) \in Nat
    BY <1>7, OnRow, MagnitudeIs
  <2>2. a = x => ~ (c < z)
    BY <1>2, <2>1, WalkerIs
  <2>3. Passed(walker', a, b, c) <=> a < x
    BY <1>4, <1>5, <2>2 DEF Passed
  <2>4. a < x <=> a <= walker.dx
    BY <1>x, WalkerIs
  <2> QED BY <2>3, <2>4, <1>5, <1>7, BothSides, RowEnds
<1>8. WalkerTyped'
  BY <1>4 DEF WalkerTyped
<1> QED BY <1>4, <1>6, <1>7, <1>8, GoesOn

\* The octahedron is complete, and the walker begins the next one or again.
LEMMA OctahedronAfter ==
  ASSUME WalkerInv, step, walker.radius > 0,
         ~ (walker.dz + 1 <= walker.radius - Magnitude(walker.dx)), ~ (walker.dx + 1 <= walker.radius)
  PROVE  WalkerInv'
<1> DEFINE r == NextRadius(walker)
           w == walker.wrapped \/ r = 0
<1>1. r \in Nat /\ r <= walker.max /\ ((r = 0 /\ walker.radius = walker.max) \/ r = walker.radius + 1)
      /\ -r \in Int /\ Magnitude(-r) = r /\ Magnitude(0) = 0
  <2>1. r \in Nat /\ r <= walker.max /\ ((r = 0 /\ walker.radius = walker.max) \/ r = walker.radius + 1)
    BY WalkerIs DEF NextRadius
  <2> HIDE DEF r
  <2> QED BY <2>1 DEF Magnitude
<1>2. walker' = [walker EXCEPT !.radius = r, !.dx = -r, !.dz = 0, !.wrapped = w]
  BY RowLeft
<1>3. w \in BOOLEAN /\ (r = 0 => w)
  OBVIOUS
<1> HIDE DEF r, w
<1>4. /\ walker' \in [max : Nat, radius : Nat, dx : Int, dz : Int, negative : BOOLEAN, wrapped : BOOLEAN]
      /\ walker'.dx = -r /\ walker'.dz = 0 /\ walker'.negative = walker.negative
      /\ walker'.radius = r /\ walker'.max = walker.max /\ walker'.wrapped = w
  <2>1. r \in Nat /\ -r \in Int /\ 0 \in Int
    BY <1>1
  <2> QED BY <2>1, <1>2, <1>3 DEF WalkerInv, WalkerTyped
<1>5. walker.negative = FALSE /\ Dy(walker) = 0 /\ walker.dx = walker.radius
  <2>1. walker.dx <= Magnitude(walker.dx) /\ Magnitude(walker.dx) <= walker.radius
        /\ walker.dx \in Int /\ walker.radius \in Int /\ Magnitude(walker.dx) \in Int
    BY WalkerIs, MagnitudeIs
  <2>2. walker.dx = walker.radius
    BY <2>1
  <2> QED BY <2>2, RowEnds
<1>6. Placed(walker')
  BY <1>1, <1>4, <1>5 DEF Placed
<1>7. ASSUME NEW a \in Int, NEW b \in Int, NEW c \in Int
      PROVE  <<a, b, c>> \in visited' <=> Reach(a, b, c) <= walker.radius
  <2>1. Magnitude(a) \in Nat /\ Magnitude(b) \in Nat /\ Magnitude(c) \in Nat /\ a <= Magnitude(a)
    BY MagnitudeIs
  <2>2. Reach(a, b, c) \in Nat /\ (Reach(a, b, c) = walker.radius => a <= walker.radius)
    BY <2>1, WalkerIs DEF Reach
  <2>3. Reach(a, b, c) = walker.radius =>
          Passed(walker, a, b, c) \/ (a = walker.dx /\ b = Below(walker) /\ c = walker.dz)
    BY <2>2, <1>5, BothSides, RowEnds
  <2>4. a = walker.dx /\ b = Below(walker) /\ c = walker.dz => Reach(a, b, c) = walker.radius
    BY AtCentre DEF Offset, Below
  <2>5. <<a, b, c>> \in visited' <=>
          \/ Reach(a, b, c) < walker.radius
          \/ Reach(a, b, c) = walker.radius /\ Passed(walker, a, b, c)
          \/ a = walker.dx /\ b = Below(walker) /\ c = walker.dz
    BY OneMore
  <2> QED BY <2>2, <2>3, <2>4, <2>5, WalkerIs
<1>8. visited' \subseteq Int \X Int \X Int
  BY OneMore
<1>9. WalkerTyped'
  BY <1>4 DEF WalkerTyped
<1>10. CASE r = 0
  <2>1. walker'.radius = 0 /\ walker'.wrapped = TRUE /\ walker'.max = walker.radius
    BY <1>1, <1>3, <1>4, <1>10, WalkerIs
  <2> QED BY <2>1, <1>6, <1>7, <1>8, <1>9 DEF WalkerInv
<1>11. CASE r = walker.radius + 1
  <2>1. ASSUME NEW a \in Int, NEW b \in Int, NEW c \in Int
        PROVE  <<a, b, c>> \in visited' <=>
                 \/ Reach(a, b, c) < walker'.radius
                 \/ Reach(a, b, c) = walker'.radius /\ Passed(walker', a, b, c)
    <3>1. Magnitude(a) \in Nat /\ Magnitude(b) \in Nat /\ Magnitude(c) \in Nat /\ - a <= Magnitude(a)
          /\ (Magnitude(c) = 0 <=> c = 0)
      BY MagnitudeIs
    <3>2. Reach(a, b, c) = Magnitude(a) + Magnitude(b) + Magnitude(c)
      BY DEF Reach
    <3>3. Reach(a, b, c) \in Nat
      BY <3>1, <3>2
    <3>4. Reach(a, b, c) = r => ~ (a < -r) /\ (a = -r => c = 0)
      BY <1>1, <3>1, <3>2
    <3>5. Reach(a, b, c) = r => ~ Passed(walker', a, b, c)
      BY <3>4, <1>4, <1>5 DEF Passed
    <3>6. Reach(a, b, c) <= walker.radius <=> Reach(a, b, c) < r
      BY <1>11, <3>3, WalkerIs
    <3> QED BY <3>5, <3>6, <1>4, <1>7
  <2>2. walker'.radius # 0
    BY <1>4, <1>11, WalkerIs
  <2> QED BY <2>1, <2>2, <1>6, <1>8, <1>9 DEF WalkerInv
<1> QED BY <1>1, <1>10, <1>11

LEMMA WalkerKeeps ==
  ASSUME WalkerInv, [step]_walkerVars
  PROVE  WalkerInv'
<1>1. CASE step
  <2>1. CASE walker.radius = 0
    BY <1>1, <2>1, LeavesCentre
  <2>2. CASE walker.radius # 0
    <3>1. walker.radius > 0 /\ walker.negative \in BOOLEAN
      BY <2>2, WalkerIs
    <3>2. CASE ~ walker.negative /\ Dy(walker) # 0
      BY <1>1, <3>1, <3>2, OtherSide
    <3>3. CASE ~ (~ walker.negative /\ Dy(walker) # 0)
      BY <1>1, <3>1, <3>3, NextInRow, RowAfter, OctahedronAfter
    <3> QED BY <3>2, <3>3
  <2> QED BY <2>1, <2>2
<1>2. CASE UNCHANGED walkerVars
  BY <1>2 DEF walkerVars, WalkerInv, WalkerTyped
<1> QED BY <1>1, <1>2

\* What the invariant says of sets of points.
LEMMA PointsAre ==
  ASSUME NEW r \in Int, NEW a \in Int, NEW b \in Int, NEW c \in Int
  PROVE  <<a, b, c>> \in Points(r) <=> Reach(a, b, c) <= r
<1>1. /\ Magnitude(a) \in Nat /\ a <= Magnitude(a) /\ -a <= Magnitude(a)
      /\ Magnitude(b) \in Nat /\ b <= Magnitude(b) /\ -b <= Magnitude(b)
      /\ Magnitude(c) \in Nat /\ c <= Magnitude(c) /\ -c <= Magnitude(c)
  BY MagnitudeIs
<1>2. Reach(a, b, c) <= r => a \in -r .. r /\ b \in -r .. r /\ c \in -r .. r
  BY <1>1 DEF Reach
<1> QED BY <1>2 DEF Points, Reach

LEMMA WalkFollows ==
  ASSUME WalkerInv
  PROVE  WalkExact
<1>1. \A p \in Int \X Int \X Int : p = <<p[1], p[2], p[3]>> /\ p[1] \in Int /\ p[2] \in Int /\ p[3] \in Int
  OBVIOUS
<1>2. \A r \in Int : Points(r) \subseteq Int \X Int \X Int
  BY DEF Points
<1>3. visited \subseteq Int \X Int \X Int
  BY DEF WalkerInv
<1>4. walker.radius \in Nat /\ walker.max \in Nat
  BY WalkerIs
<1>r. ASSUME NEW p \in Int \X Int \X Int PROVE Reach(p[1], p[2], p[3]) \in Nat
  <2>1. Magnitude(p[1]) \in Nat /\ Magnitude(p[2]) \in Nat /\ Magnitude(p[3]) \in Nat
    BY <1>1, MagnitudeIs
  <2> QED BY <2>1 DEF Reach
<1>5. ASSUME walker.radius > 0
      PROVE  /\ Points(walker.radius - 1) \subseteq visited
             /\ visited \subseteq Points(walker.radius)
             /\ Offset(walker) \notin visited
  <2>1. \A a, b, c \in Int : <<a, b, c>> \in visited <=>
          Reach(a, b, c) < walker.radius \/ (Reach(a, b, c) = walker.radius /\ Passed(walker, a, b, c))
    BY <1>5 DEF WalkerInv
  <2>2. ASSUME NEW p \in Points(walker.radius - 1) PROVE p \in visited
    <3>1. p \in Int \X Int \X Int /\ walker.radius - 1 \in Int
      BY <1>2, <1>4
    <3>2. Reach(p[1], p[2], p[3]) <= walker.radius - 1
      BY <3>1, <1>1, PointsAre
    <3>3. Reach(p[1], p[2], p[3]) < walker.radius
      BY <3>1, <3>2, <1>r, <1>4
    <3> QED BY <3>1, <3>3, <2>1, <1>1
  <2>3. ASSUME NEW p \in visited PROVE p \in Points(walker.radius)
    <3>1. p \in Int \X Int \X Int
      BY <1>3
    <3>2. Reach(p[1], p[2], p[3]) <= walker.radius
      <4>1. Reach(p[1], p[2], p[3]) < walker.radius \/ Reach(p[1], p[2], p[3]) = walker.radius
        BY <3>1, <2>1, <1>1
      <4> QED BY <4>1, <3>1, <1>4, <1>r
    <3> QED BY <3>1, <3>2, <1>1, <1>4, PointsAre
  <2>4. Offset(walker) \notin visited
    <3> DEFINE y == Below(walker)
    <3>1. Offset(walker) = <<walker.dx, y, walker.dz>> /\ Reach(walker.dx, y, walker.dz) = walker.radius
      BY AtCentre DEF Offset, Below
    <3>2. y \in Int /\ (walker.negative => ~ (y > 0))
      BY WalkerIs DEF Below
    <3> HIDE DEF y
    <3>3. ~ Passed(walker, walker.dx, y, walker.dz)
      BY <3>2, WalkerIs DEF Passed
    <3>4. ~ (Reach(walker.dx, y, walker.dz) < walker.radius)
      BY <3>1, <1>4
    <3> QED BY <3>1, <3>2, <3>3, <3>4, <2>1, WalkerIs
  <2> QED BY <2>2, <2>3, <2>4
<1>6. ASSUME walker.radius = 0, visited # {}
      PROVE  visited = Points(walker.max) /\ walker.wrapped
  <2>1. /\ walker.wrapped
        /\ \A a, b, c \in Int : <<a, b, c>> \in visited <=> Reach(a, b, c) <= walker.max
    BY <1>6 DEF WalkerInv
  <2>2. ASSUME NEW p \in Int \X Int \X Int PROVE p \in visited <=> p \in Points(walker.max)
    BY <2>1, <1>1, <1>4, PointsAre
  <2>3. Points(walker.max) \subseteq Int \X Int \X Int
    <3>1. walker.max \in Int
      BY <1>4
    <3> QED BY <3>1, <1>2
  <2>4. visited = Points(walker.max)
    BY ONLY <2>2, <2>3, <1>3, Zenon
  <2> QED BY <2>1, <2>4
<1>7. Offset(walker) = <<0, 0, 0>> <=> ~ (walker.radius > 0)
  BY AtCentre, <1>4
<1>8. walker.radius > 0 \/ walker.radius = 0
  BY <1>4
<1> QED BY <1>5, <1>6, <1>7, <1>8 DEF WalkExact

\* The walker visits every point in reach, the nearer before the farther and none twice, and
\* says that it begins again exactly when it has (concentric_octahedra_walker.cpp).
THEOREM WalkStaysExact == WalkerSpec => []WalkExact
<1>1. WalkerInit => WalkerInv
  BY WalkerStarts
<1>2. WalkerInv /\ [step]_walkerVars => WalkerInv'
  BY WalkerKeeps
<1>3. WalkerInv => WalkExact
  BY WalkFollows
<1> QED BY <1>1, <1>2, <1>3, PTL DEF WalkerSpec
-----------------------------------------------------------------------------
(* The client: the player moves as the keys that are held say              *)

Views == [state : [Directions -> BOOLEAN], pause : BOOLEAN, locked : BOOLEAN, modify : BOOLEAN,
          block : Digits \cup {"stone"}, position : Int]

\* A direction is set by a key that is held, or it is loose.
MovesInv ==
  /\ view \in Views
  /\ \A d \in Directions : view.state[d] => d \in loose \/ \E h \in held : Meant(h) = d

\* An event sets the direction it is for, and no other.
LEMMA Handled ==
  ASSUME NEW v \in Views, NEW event, NEW activate \in BOOLEAN
  PROVE  /\ handleEvent(v, event, activate) \in Views
         /\ \A d \in Directions : handleEvent(v, event, activate).state[d]
                                    = IF event = d THEN activate ELSE v.state[d]
<1> DEFINE w == handleEvent(v, event, activate)
<1>1. CASE event \in Directions
  <2>1. w = [v EXCEPT !.state[event] = activate]
    BY <1>1 DEF handleEvent
  <2>2. w \in Views
    BY <2>1, <1>1 DEF Views
  <2>3. \A d \in Directions : w.state[d] = IF event = d THEN activate ELSE v.state[d]
    BY <2>1, <1>1 DEF Views
  <2> QED BY <2>2, <2>3
<1>2. CASE event \notin Directions
  <2>1. \/ w = v
        \/ w = [v EXCEPT !.pause = ~ @]
        \/ w = [v EXCEPT !.locked = ~ @]
        \/ w = [v EXCEPT !.modify = TRUE]
        \/ event \in Digits /\ w = [v EXCEPT !.block = event]
    BY <1>2 DEF handleEvent
  <2>2. w \in Views /\ w.state = v.state
    BY <2>1 DEF Views
  <2> QED BY <2>2, <1>2
<1> QED BY <1>1, <1>2

\* An event is for a direction when its key is bound to it.
LEMMA SteeringEvents ==
  ASSUME NEW kind, NEW key, NEW m, NEW d \in Directions,
         ToPlayerEvent(<<kind, key, m>>) = d
  PROVE  <<kind, key, m>> \in DOMAIN bound /\ bound[<<kind, key, m>>] = d
<1>1. d \notin Digits /\ d # "none"
  BY DEF Directions, Digits
<1> QED BY <1>1 DEF ToPlayerEvent

\* A callback whose event starts a direction has a held key for it or is the wheel's, and
\* one that ends the hold of a key ends its direction or leaves it loose.
LEMMA CallbackKeeps ==
  ASSUME MovesInv, NEW event, NEW activate \in BOOLEAN, NEW S,
         view' = handleEvent(view, event, activate), Loosened(S),
         UNCHANGED bound,
         event \in Directions /\ activate => event \in S \/ \E h \in held' : Meant(h) = event,
         \A h \in held \ held' : Meant(h) \in S \/ (~ activate /\ Meant(h) = event)
  PROVE  MovesInv'
<1>1. view' \in Views
  BY Handled DEF MovesInv
<1>2. ASSUME NEW d \in Directions, view'.state[d]
      PROVE  d \in loose' \/ \E h \in held' : Meant(h) = d
  <2>1. view'.state[d] = IF event = d THEN activate ELSE view.state[d]
    BY Handled DEF MovesInv
  <2>2. d \in loose \cup S => d \in loose'
    BY <1>2 DEF Loosened
  <2>3. CASE event = d
    BY <2>1, <2>2, <2>3, <1>2
  <2>4. CASE event # d
    <3>1. CASE d \in loose
      BY <3>1, <2>2
    <3>2. ASSUME NEW h \in held, Meant(h) = d
          PROVE  d \in loose' \/ \E g \in held' : Meant(g) = d
      BY <3>2, <2>2, <2>4
    <3> QED BY <3>1, <3>2, <2>1, <2>4, <1>2 DEF MovesInv
  <2> QED BY <2>3, <2>4
<1>3. \A h : Meant(h)' = Meant(h)
  BY DEF Meant, ToPlayerEvent
<1> QED BY <1>1, <1>2, <1>3 DEF MovesInv

LEMMA MovesStart == ASSUME ClientInit PROVE MovesInv
<1>1. view \in Views /\ \A d \in Directions : ~ view.state[d]
  BY DEF ClientInit, Views, START
<1> QED BY <1>1 DEF MovesInv

LEMMA MovesKept ==
  ASSUME MovesInv, [ClientNext]_clientVars
  PROVE  MovesInv'
<1>0. view \in Views
  BY DEF MovesInv
<1>1. ASSUME NEW device, NEW activate \in BOOLEAN, NEW S,
             Handle(device, activate), Loosened(S), UNCHANGED <<bound, mods>>,
             activate => held' = held \cup {<<device, mods>>},
             ~ activate => /\ held' = {g \in held : g[1] # device}
                           /\ S = {Meant(g) : g \in {g \in held : g[1] = device /\ g[2] # mods}}
      PROVE  MovesInv'
  <2> DEFINE event == ToPlayerEvent(<<device[1], device[2], mods>>)
  <2>1. view' = handleEvent(view, event, activate)
    BY <1>1 DEF Handle
  <2>2. Meant(<<device, mods>>) = event
    BY DEF Meant
  <2>3. activate => \E h \in held' : Meant(h) = event
    BY <2>2, <1>1
  <2>4. ASSUME NEW h \in held \ held'
        PROVE  Meant(h) \in S \/ (~ activate /\ Meant(h) = event)
    <3>1. ~ activate /\ h \in held /\ h[1] = device
      BY <1>1, <2>4
    <3>2. CASE h[2] = mods
      BY <3>1, <3>2 DEF Meant
    <3>3. CASE h[2] # mods
      BY <3>1, <3>3, <1>1
    <3> QED BY <3>2, <3>3
  <2> HIDE DEF event
  <2> QED BY <2>1, <2>3, <2>4, <1>1, CallbackKeeps
<1>2. ASSUME NEW device \in Devices, Press(device) PROVE MovesInv'
  BY <1>1, <1>2 DEF Press, ClientRest
<1>3. ASSUME NEW h \in held, Repeat(h) PROVE MovesInv'
  BY <1>1, <1>3 DEF Repeat, ClientRest
<1>4. ASSUME NEW h \in held, Release(h) PROVE MovesInv'
  <2> DEFINE S == {Meant(g) : g \in {g \in held : g[1] = h[1] /\ g[2] # mods}}
  <2>1. /\ Handle(h[1], FALSE) /\ Loosened(S) /\ UNCHANGED <<bound, mods>>
        /\ held' = {g \in held : g[1] # h[1]}
    BY <1>4 DEF Release, ClientRest
  <2> HIDE DEF S
  <2> QED BY <1>1, <2>1 DEF S
<1>5. ASSUME NEW way \in {"ScrollUp", "ScrollDown"}, Scroll(way) PROVE MovesInv'
  <2> DEFINE event == ToPlayerEvent(<<"scroll", way, {}>>)
  <2>1. /\ view' = handleEvent(view, event, TRUE) /\ Loosened({event})
        /\ held' = held /\ bound' = bound
    BY <1>5 DEF Scroll, ClientRest
  <2> HIDE DEF event
  <2>2. event \in {event} /\ held \ held' = {}
    BY <2>1
  <2> QED BY <2>1, <2>2, CallbackKeeps
<1>6. UNCHANGED <<bound, held, view, loose>> => MovesInv'
  BY DEF MovesInv, Meant, ToPlayerEvent
<1>7. ASSUME Update PROVE MovesInv'
  <2>1. /\ view' = [view EXCEPT !.position = Moved(view), !.modify = FALSE]
        /\ UNCHANGED <<bound, held, loose>>
    BY <1>7 DEF Update
  <2>2. Moved(view) \in Int
    BY <1>0 DEF Moved, Views
  <2>3. view' \in Views /\ view'.state = view.state
    BY <1>0, <2>1, <2>2 DEF Views
  <2> QED BY <2>1, <2>3 DEF MovesInv, Meant, ToPlayerEvent
<1>8. (\E m \in Mods : Modifier(m)) \/ PollEvents \/ DrawFrame \/ Stop \/ PollMessages \/ Publish \/ Join
        \/ UNCHANGED clientVars
        => UNCHANGED <<bound, held, view, loose>>
  BY DEF Modifier, ClientRest, PollEvents, DrawFrame, Stop, PollMessages, Publish, Join, clientVars
<1> QED BY <1>2, <1>3, <1>4, <1>5, <1>6, <1>7, <1>8 DEF ClientNext

\* What steers the player is held, by the invariant.
LEMMA MovesFollow == ASSUME MovesInv PROVE HeldMoves
<1> SUFFICES ASSUME NEW d \in Directions, view.state[d], d \notin loose
             PROVE  \E h \in held : <<h[1][1], h[1][2], h[2]>> \in DOMAIN bound
                                    /\ bound[<<h[1][1], h[1][2], h[2]>>] = d
  BY DEF HeldMoves
<1>1. PICK h \in held : Meant(h) = d
  BY DEF MovesInv
<1> QED BY <1>1, SteeringEvents DEF Meant
-----------------------------------------------------------------------------
(* The client: the world follows                                           *)

Reports == [position : Int, locked : BOOLEAN]
Worlds == [pc : {"wait", "tick", "joined"}, position : Int, loading : Int]
States == [tick : Int, position : Int, loading : Int]

\* Of the first n messages, place is where the last one was that was not locked.
LoadedAt(n, place) ==
  \/ (\A i \in 1 .. n : sent[i].locked) /\ place = 0
  \/ \E i \in 1 .. n : /\ ~ sent[i].locked /\ place = sent[i].position
                       /\ \A j \in i + 1 .. n : sent[j].locked

PlacedAt(n, place) == place = (IF n = 0 THEN START ELSE sent[n].position)

\* A state is published only after a tick, and the next tick starts from it, so that
\* between ticks it is the world's.
FollowInv ==
  /\ view \in Views
  /\ sent \in Seq(Reports) /\ handled \in 0 .. Len(sent)
  /\ world \in Worlds /\ lastState \in States /\ seen \in States
  /\ seen.tick <= lastState.tick
  /\ LoadedAt(handled, world.loading) /\ PlacedAt(handled, world.position)
  /\ world.pc # "tick" => lastState.position = world.position /\ lastState.loading = world.loading

LEMMA FollowStarts == ASSUME ClientInit PROVE FollowInv
<1>1. /\ view \in Views /\ sent = <<>> /\ handled = 0
      /\ world = [pc |-> "wait", position |-> START, loading |-> 0]
      /\ lastState = [tick |-> 0, position |-> START, loading |-> 0] /\ seen = lastState
  BY DEF ClientInit, Views, START
<1>2. START \in Int
  BY DEF START
<1>3. sent \in Seq(Reports) /\ handled \in 0 .. Len(sent)
  BY <1>1
<1>4. world \in Worlds /\ lastState \in States
  BY <1>1, <1>2 DEF Worlds, States
<1>5. LoadedAt(handled, world.loading) /\ PlacedAt(handled, world.position)
  BY <1>1 DEF LoadedAt, PlacedAt
<1> QED BY <1>1, <1>3, <1>4, <1>5 DEF FollowInv

\* A message takes the world one further along the messages.
LEMMA MessageHandled ==
  ASSUME sent \in Seq(Reports), NEW n \in 1 .. Len(sent), NEW w \in Worlds,
         LoadedAt(n - 1, w.loading)
  PROVE  /\ handlePlayerInputMessage(w, sent[n]) \in Worlds
         /\ handlePlayerInputMessage(w, sent[n]).pc = w.pc
         /\ LoadedAt(n, handlePlayerInputMessage(w, sent[n]).loading)
         /\ PlacedAt(n, handlePlayerInputMessage(w, sent[n]).position)
<1> DEFINE v == handlePlayerInputMessage(w, sent[n])
<1>1. sent[n] \in Reports
  BY ElementOfSeq
<1>2. /\ sent[n].position \in Int /\ sent[n].locked \in BOOLEAN
  BY <1>1 DEF Reports
<1>3. /\ v.position = sent[n].position /\ v.pc = w.pc
      /\ v.loading = (IF sent[n].locked THEN w.loading ELSE sent[n].position)
      /\ v \in Worlds
  BY <1>2 DEF handlePlayerInputMessage, Worlds
<1> HIDE DEF v
<1>4. PlacedAt(n, v.position)
  BY <1>3 DEF PlacedAt
<1>5. CASE ~ sent[n].locked
  <2>1. n \in 1 .. n /\ n + 1 .. n = {}
    OBVIOUS
  <2> QED BY <1>3, <1>4, <1>5, <2>1 DEF LoadedAt, v
<1>6. CASE sent[n].locked
  <2>1. \A j : j \in 1 .. n => j = n \/ j \in 1 .. n - 1
    OBVIOUS
  <2>2. v.loading = w.loading
    BY <1>3, <1>6
  <2>3. ASSUME \A i \in 1 .. n - 1 : sent[i].locked, w.loading = 0
        PROVE  LoadedAt(n, v.loading)
    BY <1>6, <2>1, <2>2, <2>3 DEF LoadedAt
  <2>4. ASSUME NEW i \in 1 .. n - 1, ~ sent[i].locked, w.loading = sent[i].position,
               \A j \in i + 1 .. n - 1 : sent[j].locked
        PROVE  LoadedAt(n, v.loading)
    <3>1. \A j \in i + 1 .. n : j = n \/ j \in i + 1 .. n - 1
      OBVIOUS
    <3>2. i \in 1 .. n
      OBVIOUS
    <3> QED BY <1>6, <2>2, <2>4, <3>1, <3>2 DEF LoadedAt
  <2>5. LoadedAt(n, v.loading)
    BY <2>3, <2>4 DEF LoadedAt
  <2> QED BY <1>3, <1>4, <2>5 DEF v
<1> QED BY <1>2, <1>5, <1>6

\* What holds of the first value of a fold and is kept, place by place, holds of the last.
LEMMA FoldArrives ==
  ASSUME NEW n \in Nat, NEW W, NEW g, g[{}] \in W[0],
         \A k \in 1 .. n : g[1 .. k - 1] \in W[k - 1] => g[1 .. k] \in W[k]
  PROVE  g[1 .. n] \in W[n]
<1> DEFINE Bad == {k \in 0 .. n : g[1 .. k] \notin W[k]}
<1>1. SUFFICES ASSUME Bad # {} PROVE FALSE
  BY n \in 0 .. n
<1>2. PICK k \in Bad : \A j \in Bad : k <= j
  BY <1>1, LeastExists, Bad \in SUBSET Nat
<1>3. k # 0
  <2>1. 1 .. 0 = {}
    OBVIOUS
  <2> QED BY <2>1, <1>2
<1>4. k \in 1 .. n /\ k - 1 \in 0 .. n /\ k - 1 \notin Bad
  BY <1>2, <1>3
<1> QED BY <1>2, <1>4

\* All the messages that have come take the world to the last of them.
LEMMA MessagesHandled ==
  ASSUME sent \in Seq(Reports), handled \in 0 .. Len(sent), NEW b \in Worlds,
         LoadedAt(handled, b.loading), PlacedAt(handled, b.position)
  PROVE  LET w == FoldLeft(handlePlayerInputMessage, b, SubSeq(sent, handled + 1, Len(sent)))
         IN  /\ w \in Worlds /\ w.pc = b.pc
             /\ LoadedAt(Len(sent), w.loading) /\ PlacedAt(Len(sent), w.position)
<1> DEFINE s == SubSeq(sent, handled + 1, Len(sent))
           n == Len(sent) - handled
           f == [p \in Worlds \X Reports |-> handlePlayerInputMessage(p[1], p[2])]
           Fold(g) == g = [t \in SUBSET (1 .. n) |->
                             IF t = {} THEN b ELSE handlePlayerInputMessage(g[t \ {Max(t)}], s[Max(t)])]
           fold == CHOOSE g : Fold(g)
           W == [k \in 0 .. n |-> {w \in Worlds : /\ w.pc = b.pc
                                                  /\ LoadedAt(handled + k, w.loading)
                                                  /\ PlacedAt(handled + k, w.position)}]
<1>1. /\ n \in Nat /\ s \in Seq(Reports) /\ Len(s) = n /\ DOMAIN s = 1 .. n
      /\ s \in [1 .. n -> Reports] /\ \A k \in 1 .. n : s[k] = sent[handled + k]
  <2>1. handled + 1 \in 1 .. Len(sent) + 1
    OBVIOUS
  <2>2. /\ s \in Seq(Reports) /\ Len(s) = Len(sent) - (handled + 1) + 1
        /\ \A j \in 1 .. Len(sent) - (handled + 1) + 1 : s[j] = sent[handled + 1 + j - 1]
    BY <2>1, SuffixElements
  <2> HIDE DEF s
  <2>3. n \in Nat /\ Len(s) = n
    BY <2>2
  <2>4. \A k \in 1 .. n : s[k] = sent[handled + k]
    BY <2>2
  <2> QED BY <2>2, <2>3, <2>4
<1>2. FoldLeft(handlePlayerInputMessage, b, s) = fold[1 .. n]
  BY <1>1 DEF FoldLeft, MapThenFoldSet, Max, Max
<1>3. /\ f \in [Worlds \X Reports -> Worlds]
      /\ \A w \in Worlds, m \in Reports : f[w, m] = handlePlayerInputMessage(w, m)
  <2>1. \A w \in Worlds, m \in Reports : handlePlayerInputMessage(w, m) \in Worlds
    BY DEF Worlds, Reports, handlePlayerInputMessage
  <2> QED BY <2>1
<1>4. \E g : FoldOf(Worlds, f, b, s, n, g)
  <2> HIDE DEF f, n, s
  <2> QED BY <1>1, <1>3, FoldExists
<1>5. \E g : Fold(g)
  <2>1. PICK g : FoldOf(Worlds, f, b, s, n, g)
    BY <1>4
  <2> HIDE DEF f, n, s
  <2>2. /\ g \in [SUBSET (1 .. n) -> Worlds]
        /\ \A t \in SUBSET (1 .. n) :
             g[t] = IF t = {} THEN b ELSE f[g[t \ {Max(t)}], s[Max(t)]]
    BY <2>1 DEF FoldOf
  <2>3. ASSUME NEW t \in SUBSET (1 .. n), t # {}
        PROVE  f[g[t \ {Max(t)}], s[Max(t)]] = handlePlayerInputMessage(g[t \ {Max(t)}], s[Max(t)])
    <3>1. Max(t) \in 1 .. n
      BY <2>3, <1>1, MaxIsGreatest
    <3>2. g[t \ {Max(t)}] \in Worlds /\ s[Max(t)] \in Reports
      BY <3>1, <2>2, <1>1
    <3> QED BY <3>2, <1>3
  <2>4. Fold(g)
    BY <2>2, <2>3
  <2> QED BY <2>4
<1>6. Fold(fold)
  BY <1>5
<1> HIDE DEF fold
<1>7. /\ fold[{}] = b
      /\ \A k \in 1 .. n : fold[1 .. k] = handlePlayerInputMessage(fold[1 .. k - 1], s[k])
  <2> HIDE DEF n, s
  <2>1. \A t \in SUBSET (1 .. n) :
          fold[t] = IF t = {} THEN b ELSE handlePlayerInputMessage(fold[t \ {Max(t)}], s[Max(t)])
    BY <1>6
  <2>2. ASSUME NEW k \in 1 .. n
        PROVE  fold[1 .. k] = handlePlayerInputMessage(fold[1 .. k - 1], s[k])
    <3>1. /\ 1 .. k \in SUBSET (1 .. n) /\ 1 .. k # {}
          /\ Max(1 .. k) = k /\ (1 .. k) \ {k} = 1 .. k - 1
      BY LastPlace, <1>1
    <3> QED BY <2>1, <3>1
  <2> QED BY <2>1, <2>2
<1>8. ASSUME NEW k \in 1 .. n, fold[1 .. k - 1] \in W[k - 1] PROVE fold[1 .. k] \in W[k]
  <2>1. k - 1 \in 0 .. n /\ k \in 0 .. n /\ handled + k \in 1 .. Len(sent)
        /\ (handled + k) - 1 = handled + (k - 1)
    OBVIOUS
  <2>2. /\ fold[1 .. k - 1] \in Worlds /\ fold[1 .. k - 1].pc = b.pc
        /\ LoadedAt((handled + k) - 1, fold[1 .. k - 1].loading)
    BY <2>1, <1>8
  <2>3. fold[1 .. k] = handlePlayerInputMessage(fold[1 .. k - 1], sent[handled + k])
    BY <1>1, <1>7
  <2>4. /\ fold[1 .. k] \in Worlds /\ fold[1 .. k].pc = b.pc
        /\ LoadedAt(handled + k, fold[1 .. k].loading) /\ PlacedAt(handled + k, fold[1 .. k].position)
    BY <2>1, <2>2, <2>3, MessageHandled
  <2> QED BY <2>1, <2>4
<1>9. fold[{}] \in W[0]
  <2>1. 0 \in 0 .. n /\ handled + 0 = handled
    BY <1>1
  <2> QED BY <2>1, <1>7
<1>10. fold[1 .. n] \in W[n]
  <2> HIDE DEF n, W
  <2> QED BY <1>1, <1>8, <1>9, FoldArrives
<1>11. n \in 0 .. n /\ handled + n = Len(sent)
  OBVIOUS
<1> QED BY <1>2, <1>10, <1>11

\* Messages that are sent do not change what those before them say.
LEMMA LoadedStays ==
  ASSUME sent \in Seq(Reports), NEW n \in 0 .. Len(sent), NEW place, NEW m \in Reports,
         sent' = Append(sent, m)
  PROVE  /\ LoadedAt(n, place) => LoadedAt(n, place)'
         /\ PlacedAt(n, place) => PlacedAt(n, place)'
<1>1. \A i \in 1 .. n : sent'[i] = sent[i]
  BY AppendProperties
<1>2. \A i \in 1 .. n : \A j \in i + 1 .. n : j \in 1 .. n
  OBVIOUS
<1>3. LoadedAt(n, place) => LoadedAt(n, place)'
  BY <1>1, <1>2 DEF LoadedAt
<1>4. n # 0 => n \in 1 .. n
  OBVIOUS
<1> QED BY <1>1, <1>3, <1>4 DEF PlacedAt

LEMMA FollowKept ==
  ASSUME FollowInv, [ClientNext]_clientVars
  PROVE  FollowInv'
<1>0. /\ view \in Views /\ sent \in Seq(Reports) /\ handled \in 0 .. Len(sent)
      /\ world \in Worlds /\ lastState \in States /\ seen \in States
      /\ seen.tick <= lastState.tick
      /\ LoadedAt(handled, world.loading) /\ PlacedAt(handled, world.position)
      /\ world.pc # "tick" => lastState.position = world.position /\ lastState.loading = world.loading
  BY DEF FollowInv
<1>1. ASSUME NEW event, NEW activate \in BOOLEAN, view' = handleEvent(view, event, activate),
             UNCHANGED <<sent, handled, world, lastState, seen>>
      PROVE  FollowInv'
  <2>1. view' \in Views
    BY <1>0, <1>1, Handled
  <2> QED BY <1>0, <1>1, <2>1 DEF FollowInv, LoadedAt, PlacedAt
<1>2. ASSUME NEW device \in Devices, Press(device) PROVE FollowInv'
  BY <1>1, <1>2 DEF Press, Handle, ClientRest
<1>3. ASSUME NEW h \in held, Repeat(h) \/ Release(h) PROVE FollowInv'
  BY <1>1, <1>3 DEF Repeat, Release, Handle, ClientRest
<1>4. ASSUME NEW way \in {"ScrollUp", "ScrollDown"}, Scroll(way) PROVE FollowInv'
  BY <1>1, <1>4 DEF Scroll, ClientRest
<1>5. CASE UNCHANGED <<view, sent, handled, world, lastState, seen>>
  BY <1>5 DEF FollowInv, LoadedAt, PlacedAt
<1>6. (\E m \in Mods : Modifier(m)) \/ DrawFrame \/ Stop \/ UNCHANGED clientVars
        => UNCHANGED <<view, sent, handled, world, lastState, seen>>
  BY DEF Modifier, ClientRest, DrawFrame, Stop, clientVars
<1>7. ASSUME PollEvents PROVE FollowInv'
  <2>1. seen' = lastState /\ UNCHANGED <<view, sent, handled, world, lastState>>
    BY <1>7 DEF PollEvents
  <2>2. lastState.tick \in Int
    BY <1>0 DEF States
  <2>3. seen' \in States /\ seen'.tick <= lastState'.tick
    BY <1>0, <2>1, <2>2
  <2> QED BY <1>0, <2>1, <2>3 DEF FollowInv, LoadedAt, PlacedAt
<1>8. ASSUME Update PROVE FollowInv'
  <2> DEFINE m == [position |-> Moved(view), locked |-> view.locked]
  <2>1. /\ view' = [view EXCEPT !.position = Moved(view), !.modify = FALSE]
        /\ sent' = Append(sent, m) /\ UNCHANGED <<handled, world, lastState, seen>>
    BY <1>8 DEF Update
  <2>2. Moved(view) \in Int /\ view.locked \in BOOLEAN
    BY <1>0 DEF Moved, Views
  <2>3. view' \in Views /\ m \in Reports
    BY <1>0, <2>1, <2>2 DEF Views, Reports
  <2> HIDE DEF m
  <2>4. sent' \in Seq(Reports) /\ Len(sent') = Len(sent) + 1
    BY <1>0, <2>1, <2>3, AppendProperties
  <2>5. handled' \in 0 .. Len(sent')
    BY <1>0, <2>1, <2>4
  <2>6. \A n \in 0 .. Len(sent) : \A place : /\ LoadedAt(n, place) => LoadedAt(n, place)'
                                             /\ PlacedAt(n, place) => PlacedAt(n, place)'
    BY <1>0, <2>1, <2>3, LoadedStays
  <2>7. LoadedAt(handled, world.loading)'
    BY <1>0, <2>1, <2>6 DEF LoadedAt
  <2>8. PlacedAt(handled, world.position)'
    BY <1>0, <2>1, <2>6 DEF PlacedAt
  <2> QED BY <1>0, <2>1, <2>3, <2>4, <2>5, <2>7, <2>8 DEF FollowInv
<1>9. ASSUME PollMessages PROVE FollowInv'
  <2> DEFINE b == [world EXCEPT !.pc = "tick", !.position = lastState.position]
             w == FoldLeft(handlePlayerInputMessage, b, SubSeq(sent, handled + 1, Len(sent)))
  <2>1. /\ world.pc = "wait" /\ handled' = Len(sent) /\ UNCHANGED <<view, sent, lastState, seen>>
    BY <1>9 DEF PollMessages
  <2>2. world' = w
    BY <1>9 DEF PollMessages
  <2>3. /\ b \in Worlds /\ b.pc = "tick"
        /\ b.loading = world.loading /\ b.position = world.position
    BY <1>0, <2>1 DEF Worlds
  <2> HIDE DEF b
  <2>4. /\ w \in Worlds /\ w.pc = "tick"
        /\ LoadedAt(Len(sent), w.loading) /\ PlacedAt(Len(sent), w.position)
    BY <1>0, <2>3, MessagesHandled
  <2> HIDE DEF w
  <2>5. Len(sent) \in 0 .. Len(sent)
    BY <1>0
  <2> QED BY <1>0, <2>1, <2>2, <2>4, <2>5 DEF FollowInv, LoadedAt, PlacedAt
<1>10. ASSUME Publish PROVE FollowInv'
  <2>1. /\ world' = [world EXCEPT !.pc = "wait"]
        /\ lastState' = [tick |-> lastState.tick + 1, position |-> world.position,
                         loading |-> world.loading]
        /\ UNCHANGED <<view, sent, handled, seen>>
    BY <1>10 DEF Publish
  <2>2. /\ world' \in Worlds /\ world'.position = world.position /\ world'.loading = world.loading
    BY <1>0, <2>1 DEF Worlds
  <2>3. lastState' \in States /\ seen'.tick <= lastState'.tick
    BY <1>0, <2>1 DEF Worlds, States
  <2> QED BY <1>0, <2>1, <2>2, <2>3 DEF FollowInv, LoadedAt, PlacedAt
<1>11. ASSUME Join PROVE FollowInv'
  <2>1. /\ world.pc = "wait" /\ world' = [world EXCEPT !.pc = "joined"]
        /\ UNCHANGED <<view, sent, handled, lastState, seen>>
    BY <1>11 DEF Join
  <2>2. /\ world' \in Worlds /\ world'.position = world.position /\ world'.loading = world.loading
    BY <1>0, <2>1 DEF Worlds
  <2> QED BY <1>0, <2>1, <2>2 DEF FollowInv, LoadedAt, PlacedAt
<1> QED BY <1>2, <1>3, <1>4, <1>5, <1>6, <1>7, <1>8, <1>9, <1>10, <1>11 DEF ClientNext

\* The world is where the newest message says.
LEMMA WorldIsThere == ASSUME FollowInv PROVE WorldFollows
<1> DEFINE unlocked == {i \in 1 .. handled : ~ sent[i].locked}
           latest == IF unlocked = {} THEN 0 ELSE CHOOSE i \in unlocked : \A j \in unlocked : j <= i
<1>0. handled \in Nat
  BY DEF FollowInv
<1>1. world.loading = IF latest = 0 THEN 0 ELSE sent[latest].position
  <2>1. CASE \A i \in 1 .. handled : sent[i].locked
    <3>1. unlocked = {}
      BY <2>1
    <3> QED BY <3>1, <2>1 DEF FollowInv, LoadedAt
  <2>2. ASSUME NEW i \in 1 .. handled, ~ sent[i].locked, world.loading = sent[i].position,
               \A j \in i + 1 .. handled : sent[j].locked
        PROVE  world.loading = IF latest = 0 THEN 0 ELSE sent[latest].position
    <3>1. i \in unlocked /\ unlocked \subseteq 1 .. handled
      BY <2>2
    <3>2. ASSUME NEW j \in unlocked PROVE j <= i
      <4>1. j \in 1 .. handled /\ j \notin i + 1 .. handled
        BY <2>2
      <4> QED BY <4>1, <1>0
    <3> HIDE DEF unlocked
    <3>3. \A k \in unlocked : (\A j \in unlocked : j <= k) => k = i
      <4>1. \A k \in unlocked : k <= i /\ k \in Int /\ i \in Int
        BY <3>1, <3>2, <1>0
      <4>2. \A k \in unlocked : i <= k /\ k <= i => k = i
        BY <4>1
      <4> QED BY <3>1, <4>1, <4>2
    <3>4. latest = i
      BY <3>1, <3>2, <3>3
    <3>5. i # 0
      OBVIOUS
    <3> QED BY <2>2, <3>4, <3>5
  <2> QED BY <2>1, <2>2 DEF FollowInv, LoadedAt
<1> QED BY <1>1 DEF WorldFollows, FollowInv, PlacedAt

\* The player moves only while a key bound to that direction is held, or where the wheel set
\* the direction or its key went up under other modifiers than those it went down with
\* (GameView::handleEvent, glfwKeyboardToPlayerEvent); and the world's thread has the player
\* where the newest message it handled says, and loads land around the newest place that
\* was not locked (World::handlePlayerInputMessage).  For any keys, settings and events.
THEOREM ClientStaysSound == ClientSpec => []ClientSound
<1>1. ClientInit => MovesInv /\ FollowInv
  BY MovesStart, FollowStarts
<1>2. (MovesInv /\ FollowInv) /\ [ClientNext]_clientVars => (MovesInv /\ FollowInv)'
  BY MovesKept, FollowKept
<1>3. MovesInv /\ FollowInv => ClientSound
  BY MovesFollow, WorldIsThere DEF ClientSound
<1> QED BY <1>1, <1>2, <1>3, PTL DEF ClientSpec
=============================================================================
