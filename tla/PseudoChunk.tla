---------------------------- MODULE PseudoChunk ----------------------------
(***************************************************************************)
(* The geometry of land: the surface of a true chunk, the data of pseudo-  *)
(* chunks aggregated from true chunks (LOD1), from finer pseudo-chunks     *)
(* (LOD2) or generated alone, and the surface of a pseudo-chunk.  A cell   *)
(* holds the mask of its solid corners; cells whose corners are alike are  *)
(* left out.                                                               *)
(***************************************************************************)
EXTENDS Integers, Sequences, FiniteSets

CONSTANTS CHUNK_SIZE_BLOCKS,   \* an even number
          Lands,               \* bound: <<a, b, c>>, solid below y = (a*x + b*z + c) \div 4
          Editable,            \* bound: positions of blocks that edits change
          MaxEdits             \* bound: blocks that differ from the generated land

VARIABLES land, edited

pseudoVars == <<land, edited>>

B == CHUNK_SIZE_BLOCKS
Axes == 1 .. 3     \* x, y, z
Bits == 0 .. 7

Plus(p, q) == [a \in Axes |-> p[a] + q[a]]
Minus(p, q) == [a \in Axes |-> p[a] - q[a]]
Times(n, p) == [a \in Axes |-> n * p[a]]
Cube(S) == [Axes -> S]

\* The corners of a cell, and chunks of a cube, in YXZ order.
Corner == [i \in Bits |-> <<(i \div 2) % 2, i \div 4, i % 2>>]

isBlockSolid(p) ==
  (p[2] < (land[1] * p[1] + land[2] * p[3] + land[3]) \div 4) # (p \in edited)
-----------------------------------------------------------------------------
(* True chunks; a chunk is the position of its first block divided by B    *)

\* Chunk::blockIds
Blocks(chunk, q) == isBlockSolid(Plus(Times(B, chunk), q))

\* The neighbours in the order of the surface task: X+, X-, Y+, Y-, Z+, Z-.
AdjacentChunks == << <<1, 0, 0>>, <<-1, 0, 0>>, <<0, 1, 0>>, <<0, -1, 0>>, <<0, 0, 1>>, <<0, 0, -1>> >>

\* expandBlockIds: the chunk with a layer of its neighbours around it, without edges.
expandBlockIds(chunk) ==
  [p \in Cube(0 .. B + 1) |->
     LET low == {a \in Axes : p[a] = 0}
         high == {a \in Axes : p[a] = B + 1}
         From(n, a, layer) == Blocks(Plus(chunk, AdjacentChunks[n]),
                                     [c \in Axes |-> IF c = a THEN layer ELSE p[c] - 1])
     IN  IF Cardinality(low \cup high) > 1 THEN FALSE
         ELSE IF low = {} /\ high = {} THEN Blocks(chunk, [a \in Axes |-> p[a] - 1])
         ELSE LET a == CHOOSE c \in low \cup high : TRUE
              IN  IF a \in high THEN From(2 * a - 1, a, 0) ELSE From(2 * a, a, B - 1)]

FACE_NORMAL == << <<1, 0, 0>>, <<-1, 0, 0>>, <<0, 1, 0>>, <<0, -1, 0>>, <<0, 0, 1>>, <<0, 0, -1>> >>
FACE_COORD_OFFSET ==
  << << <<1, 0, 1>>, <<1, 0, 0>>, <<1, 1, 0>>, <<1, 1, 1>> >>,
     << <<0, 1, 0>>, <<0, 0, 0>>, <<0, 0, 1>>, <<0, 1, 1>> >>,
     << <<1, 1, 0>>, <<0, 1, 0>>, <<0, 1, 1>>, <<1, 1, 1>> >>,
     << <<0, 0, 1>>, <<0, 0, 0>>, <<1, 0, 0>>, <<1, 0, 1>> >>,
     << <<0, 1, 1>>, <<0, 0, 1>>, <<1, 0, 1>>, <<1, 1, 1>> >>,
     << <<1, 0, 0>>, <<0, 0, 0>>, <<0, 1, 0>>, <<1, 1, 0>> >> >>

\* generate(ChunkAdjacencyRef): the corners of the faces, in their order.
Faces(chunk) ==
  LET ids == expandBlockIds(chunk)
      visible == {f \in Cube(1 .. B) \X (1 .. 6) : ids[f[1]] /\ ~ ids[Plus(f[1], FACE_NORMAL[f[2]])]}
  IN  {[i \in 1 .. 4 |-> Plus(Minus(f[1], <<1, 1, 1>>), FACE_COORD_OFFSET[f[2]][i])] : f \in visible}
-----------------------------------------------------------------------------
(* Data of a LOD1 pseudo-chunk from 27 true chunks                         *)

\* The chunks in the order of the task, relative to the first.
LOD0_DEPENDENCIES ==
  << <<0, 0, 0>>, <<0, 0, 1>>, <<1, 0, 0>>, <<1, 0, 1>>, <<0, 1, 0>>, <<0, 1, 1>>, <<1, 1, 0>>, <<1, 1, 1>>,
     <<2, 0, 0>>, <<2, 0, 1>>, <<2, 1, 0>>, <<2, 1, 1>>, <<0, 2, 0>>, <<0, 2, 1>>, <<1, 2, 0>>, <<1, 2, 1>>,
     <<0, 0, 2>>, <<1, 0, 2>>, <<0, 1, 2>>, <<1, 1, 2>>, <<0, 2, 2>>, <<1, 2, 2>>, <<2, 0, 2>>, <<2, 1, 2>>,
     <<2, 2, 0>>, <<2, 2, 1>>, <<2, 2, 2>> >>

\* Where the blocks of the chunks after the first eight go, in chunks; along an axis
\* where that is 2 only one layer of them does.
ADJACENT_WALK_TABLE ==
  << <<2, 0, 0>>, <<2, 0, 1>>, <<2, 1, 0>>, <<2, 1, 1>>,
     <<0, 2, 0>>, <<0, 2, 1>>, <<1, 2, 0>>, <<1, 2, 1>>,
     <<0, 0, 2>>, <<1, 0, 2>>, <<0, 1, 2>>, <<1, 1, 2>>,
     <<0, 2, 2>>, <<1, 2, 2>>, <<2, 0, 2>>, <<2, 1, 2>>, <<2, 2, 0>>, <<2, 2, 1>> >>

\* The array of all blocks: what each chunk stores where.
Placed(i) == IF i <= 8 THEN Corner[i - 1] ELSE IF i = 27 THEN <<2, 2, 2>> ELSE ADJACENT_WALK_TABLE[i - 8]
SourceOf(q) == CHOOSE i \in 1 .. 27 : Placed(i) = [a \in Axes |-> q[a] \div B]
Expanded(k, q) ==
  LET i == SourceOf(q)
  IN  Blocks(Plus(Times(2, k), LOD0_DEPENDENCIES[i]), Minus(q, Times(B, Placed(i))))

Cells == Cube(0 .. B - 1)
Mixed(mask) == mask # {} /\ mask # Bits
Missing == {}
Stored(mask) == IF Mixed(mask) THEN mask ELSE Missing

\* generateFromLod0
DataFromLod0(k) ==
  [c \in Cells |-> Stored({i \in Bits : Expanded(k, Plus(Times(2, c), Times(2, Corner[i])))})]

\* try_add_edge: the surface points of a cell, for its representative point.
SurfacePoints(k, c) ==
  {e \in Cube(0 .. 2) \X Axes :
     LET q == Plus(Times(2, c), e[1])
     IN  e[1][e[2]] < 2 /\ Expanded(k, q) # Expanded(k, [q EXCEPT ![e[2]] = @ + 1])}
-----------------------------------------------------------------------------
(* Data of a coarser pseudo-chunk from eight finer ones                    *)

\* The mask of a cell from the masks of its eight finer cells: a bit comes from its own
\* cell, and from the last of those that are there when that one is not.
Found(masks) == {i \in Bits : masks[i] # Missing}
LastFound(masks) == CHOOSE i \in Found(masks) : \A j \in Found(masks) : j <= i
OwnerOf(masks, bit) == IF bit \in Found(masks) THEN bit ELSE LastFound(masks)
\* (mutant) Bits of missing cells are taken for empty.
AggregatedKnown(masks) == {bit \in Found(masks) : bit \in masks[bit]}

Aggregated(masks) ==
  IF Found(masks) = {} THEN {} ELSE {bit \in Bits : bit \in masks[OwnerOf(masks, bit)]}

\* Which chunk has the finer cell, and where.
FinerIndex(q) == CHOOSE j \in Bits : Corner[j] = [a \in Axes |-> IF q[a] >= B THEN 1 ELSE 0]
FinerCell(finer, c, i) ==
  LET q == Plus(Times(2, c), Corner[i])
  IN  finer[FinerIndex(q)][[a \in Axes |-> q[a] % B]]

\* generateFromFinerLod
DataFromFiner(finer) == [c \in Cells |-> Stored(Aggregated([i \in Bits |-> FinerCell(finer, c, i)]))]

\* The eight children of a pseudo-chunk in the order of the task.
Children8(k) == [j \in Bits |-> Plus(Times(2, k), Corner[j])]

DataFromLod1(k) ==
  LET finer == [j \in Bits |-> DataFromLod0(Children8(k)[j])] IN DataFromFiner(finer)
-----------------------------------------------------------------------------
(* Data of a pseudo-chunk generated without finer ones; scale is the size  *)
(* of its cells in blocks, heights are in eighths of a block               *)

\* fillLocalPlaneSample: the land at corners of blocks; true chunks sample their centres.
surface_height(x, z) == 2 * (land[1] * x + land[2] * z + land[3]) - land[1] - land[2] - 8

\* values: how far a corner of the chunk's grid is above the land.
Above(scale, k, q) ==
  LET p == Times(scale, Plus(Times(B, k), q)) IN 8 * p[2] - surface_height(p[1], p[3])
SolidCorners(scale, k, c) == {i \in Bits : Above(scale, k, Plus(c, Corner[i])) <= 0}

HaveEmpty(scale, k) == \E q \in Cube(0 .. B) : q[2] = B /\ Above(scale, k, q) > 0
HaveSolid(scale, k) == \E q \in Cube(0 .. B) : q[2] = 0 /\ Above(scale, k, q) <= 0

\* generatePseudoChunk
GeneratedData(scale, k) ==
  [c \in Cells |-> IF HaveEmpty(scale, k) /\ HaveSolid(scale, k) THEN Stored(SolidCorners(scale, k, c))
                   ELSE Missing]

\* The points its cells average, on the edges from solid corners to empty ones: corner,
\* other end and, as numerator and denominator, how far from the one to the other.
GeneratedPoints(scale, k, c) ==
  LET v == [i \in Bits |-> Above(scale, k, Plus(c, Corner[i]))]
      Ends == {e \in SolidCorners(scale, k, c) \X Bits :
                 v[e[2]] > 0 /\ Cardinality({a \in Axes : Corner[e[1]][a] # Corner[e[2]][a]}) = 1}
  IN  {[from |-> e[1], to |-> e[2], num |-> -v[e[1]], den |-> v[e[2]] - v[e[1]]] : e \in Ends}
-----------------------------------------------------------------------------
(* The surface of a pseudo-chunk from its data and that of 18 neighbours   *)

\* The neighbours in the order of the task: faces, then the edges along X, Y and Z.
SURFACE_DEPENDENCIES ==
  << <<0, 0, 0>>,
     <<1, 0, 0>>, <<-1, 0, 0>>, <<0, 1, 0>>, <<0, -1, 0>>, <<0, 0, 1>>, <<0, 0, -1>>,
     <<0, -1, -1>>, <<0, -1, 1>>, <<0, 1, -1>>, <<0, 1, 1>>,
     <<-1, 0, -1>>, <<-1, 0, 1>>, <<1, 0, -1>>, <<1, 0, 1>>,
     <<-1, -1, 0>>, <<1, -1, 0>>, <<-1, 1, 0>>, <<1, 1, 0>> >>

UINT32_MAX == 99
DATA_INDEX_3CUBE_MAP ==
  << UINT32_MAX, 15, UINT32_MAX, 7, 4, 8, UINT32_MAX, 16, UINT32_MAX,
     11, 2, 12, 6, 0, 5, 13, 1, 14,
     UINT32_MAX, 17, UINT32_MAX, 9, 3, 10, UINT32_MAX, 18, UINT32_MAX >>

\* The cells at an edge, by its axis.
EDGE_AXIS_OFFSETS ==
  << << <<0, -1, 0>>, <<0, 0, -1>>, <<0, -1, -1>> >>,
     << <<0, 0, -1>>, <<-1, 0, 0>>, <<-1, 0, -1>> >>,
     << <<-1, 0, 0>>, <<0, -1, 0>>, <<-1, -1, 0>> >> >>

\* The chunk that has the cell at some place, the place in it and what is there.
Third(n) == IF n < 0 THEN 0 ELSE IF n >= B THEN 2 ELSE 1
DataIndex(coord) == DATA_INDEX_3CUBE_MAP[Third(coord[2]) * 9 + Third(coord[1]) * 3 + Third(coord[3]) + 1]
FindCell(datas, coord) ==
  IF DataIndex(coord) = UINT32_MAX THEN Missing
  ELSE datas[DataIndex(coord)][[a \in Axes |-> coord[a] % B]]

\* add_edge, and add_inner_edge where all four cells are in the chunk: the quad at an edge.
QuadCells(base, axis) ==
  [i \in 1 .. 4 |-> IF i = 4 THEN base ELSE Plus(base, EDGE_AXIS_OFFSETS[axis][4 - i])]
add_edge(datas, cell, base, axis, lower_solid) ==
  [from |-> cell, base |-> base, axis |-> axis,
   corners |-> IF lower_solid THEN QuadCells(base, axis)
               ELSE [i \in 1 .. 4 |-> QuadCells(base, axis)[IF i \in {2, 3} THEN 5 - i ELSE i]],
   masks |-> {FindCell(datas, QuadCells(base, axis)[i]) : i \in 1 .. 4}]

\* A cell adds its edges from the lowest corner, and on the upper borders of the chunk
\* the others, those two axes away from either border.
Adds(c, offset) == (\A a \in Axes : offset[a] = 0) \/ (\E a \in Axes : offset[a] = 1 /\ c[a] + 1 = B)

\* has_edge: the edges of a cell from corner i along an axis, where the surface crosses.
Step(a) == [c \in Axes |-> IF c = a THEN 1 ELSE 0]
CrossedEdges(mask) ==
  {e \in Bits \X Axes :
     /\ Corner[e[1]][e[2]] = 0
     /\ \E j \in Bits : Corner[j] = Plus(Corner[e[1]], Step(e[2])) /\ (e[1] \in mask) # (j \in mask)}

\* generate(datas)
Quads(datas) ==
  UNION {{add_edge(datas, c, Plus(c, Corner[e[1]]), e[2], e[1] \in datas[0][c]) :
            e \in {x \in CrossedEdges(datas[0][c]) : Adds(c, Corner[x[1]])}} : c \in Cells}

\* The surface task of a LOD1 pseudo-chunk.
SurfaceOf(k) ==
  LET datas == [n \in 0 .. 18 |-> DataFromLod0(Plus(k, SURFACE_DEPENDENCIES[n + 1]))] IN Quads(datas)
-----------------------------------------------------------------------------
(* Land is generated, and blocks of it are edited.                         *)

Edit ==
  \E p \in Editable :
    /\ Cardinality(edited \cup {p}) <= MaxEdits
    /\ edited' = IF p \in edited THEN edited \ {p} ELSE edited \cup {p}
    /\ UNCHANGED land

PseudoInit == land \in Lands /\ edited = {}
PseudoNext == Edit
PseudoSpec == PseudoInit /\ [][PseudoNext]_pseudoVars
-----------------------------------------------------------------------------
(* Properties, of the chunks at the origin                                 *)

Origin == <<0, 0, 0>>

\* What a cell of a level would hold if it looked at the blocks at its corners.
CornersOf(scale, c) == {i \in Bits : isBlockSolid(Times(scale, Plus(c, Corner[i])))}

\* Data of pseudo-chunks, aggregated over levels and across chunks, holds exactly the
\* cells the surface crosses, with the blocks that are at their corners; their points
\* are averages of at least three ("at least 3 edges were added",
\* pseudo_chunk_data.cpp:194).
DataExact ==
  /\ LET data == DataFromLod0(Origin)
     IN  \A c \in Cells :
           /\ data[c] = Stored(CornersOf(2, c))
           /\ Mixed(data[c]) => Cardinality(SurfacePoints(Origin, c)) >= 3
  /\ LET data == DataFromLod1(Origin) IN \A c \in Cells : data[c] = Stored(CornersOf(4, c))

Cross(u, v) == <<u[2] * v[3] - u[3] * v[2], u[3] * v[1] - u[1] * v[3], u[1] * v[2] - u[2] * v[1]>>
Normal(corners) == Cross(Minus(corners[2], corners[1]), Minus(corners[3], corners[1]))

\* A surface of a pseudo-chunk has no hole and no quad inside out: every edge of the
\* chunk's grid between a solid and an empty corner has a quad, one only where no other
\* chunk draws it too, that faces the empty end; no other edge has one, and the cells
\* it spans are there, though most edges lie between several chunks.
ClosedBetween(quads, SolidEnd(_)) ==
  /\ \A q \in quads :
       /\ \A mask \in q.masks : Mixed(mask)
       /\ SolidEnd(q.base) # SolidEnd(Plus(q.base, Step(q.axis)))
       /\ \A triangle \in {<<1, 2, 3>>, <<2, 4, 3>>} :
            Normal([i \in 1 .. 3 |-> q.corners[triangle[i]]])
              = Times(IF SolidEnd(q.base) THEN 1 ELSE -1, Step(q.axis))
  /\ \A p \in Cube(0 .. B), a \in Axes :
       p[a] < B /\ SolidEnd(p) # SolidEnd(Plus(p, Step(a))) =>
         LET on == {q \in quads : q.base = p /\ q.axis = a}
         IN  on # {} /\ ((\A c \in Axes : p[c] < B) => Cardinality(on) = 1)

SurfaceClosed ==
  LET SolidEnd(p) == isBlockSolid(Times(2, p)) IN ClosedBetween(SurfaceOf(Origin), SolidEnd)

\* So is the surface of generated chunks, of which only those are left without cells that
\* the land does not cross at all; cells have points enough, none at an empty corner.
GeneratedExact ==
  \A scale \in {2, 4} :
    LET Data(k) == GeneratedData(scale, k)
        datas == [n \in 0 .. 18 |-> Data(SURFACE_DEPENDENCIES[n + 1])]
        SolidEnd(p) == Above(scale, Origin, p) <= 0
    IN  /\ ClosedBetween(Quads(datas), SolidEnd)
        /\ \A k \in {Origin} \cup {SURFACE_DEPENDENCIES[n] : n \in 2 .. 7}, c \in Cells :
             /\ Data(k)[c] = Stored(SolidCorners(scale, k, c))
             /\ Mixed(Data(k)[c]) =>
                  /\ Cardinality(GeneratedPoints(scale, k, c)) >= 3
                  /\ \A x \in GeneratedPoints(scale, k, c) : 0 <= x.num /\ x.num < x.den

\* The surface of a true chunk has one face between each of its solid blocks and an empty
\* one, in the chunk or beyond, and it faces the empty one.
FacesExact ==
  LET faces == Faces(Origin)
      Exposed == {e \in Cube(0 .. B - 1) \X (1 .. 6) :
                    isBlockSolid(e[1]) /\ ~ isBlockSolid(Plus(e[1], FACE_NORMAL[e[2]]))}
      Side(p, n) == {q \in Cube(0 .. B) : \A a \in Axes :
                       q[a] - p[a] \in IF FACE_NORMAL[n][a] = 0 THEN {0, 1} ELSE {(FACE_NORMAL[n][a] + 1) \div 2}}
  IN  /\ Cardinality(faces) = Cardinality(Exposed)
      /\ \A e \in Exposed : \E f \in faces : /\ {f[i] : i \in 1 .. 4} = Side(e[1], e[2])
                                             /\ Normal(f) = FACE_NORMAL[e[2]]
=============================================================================
