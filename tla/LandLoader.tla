------------------------------ MODULE LandLoader ------------------------------
(***************************************************************************)
(* LandLoader (src/voxen/gfx/gfx_land_loader.cpp): the boxes of chunks     *)
(* that are asked for around the viewpoint, one per level of detail, and   *)
(* the choice of what to draw among the meshes that are there.  Space has  *)
(* one dimension, so a chunk has two finer ones.  Of the mesh streamer     *)
(* (GfxMeshes) a mesh is sent, becomes ready, and goes when it is not      *)
(* asked for.                                                              *)
(***************************************************************************)
EXTENDS Integers, Sequences

CONSTANTS LAST_RENDERED_LOD, LOAD_BOX_DISTANCE_LOD0, LOAD_BOX_DISTANCE_LODN,
          Viewpoints,   \* bound: in halves of a chunk
          World,        \* bound: the coordinates of chunks that may be asked for
          Tables        \* bound: what the land service may know: key -> "empty" or "mesh"

LODs == 0 .. LAST_RENDERED_LOD
Chunks == {k \in World \X LODs : k[1] % 2 ^ k[2] = 0}

VARIABLES
  tickets,    \* LOD -> m_chunk_tickets and m_chunk_ticket_requests: "none", "asked",
              \*        "granted" when the request is complete, or "held"
  boxes,      \* m_chunk_ticket_boxes: LOD -> <<begin, end>>
  surfaces,   \* last_known_pseudo_chunk_surface_table, without empty and no value apart
  meshes,     \* key -> its mesh: "none", "sent" or "ready"
  queried,    \* keys of the meshes asked for in the last frame
  drawn,      \* keys of the draw list that are not empty
  fresh       \* history: nothing has happened since the last frame

loaderVars == <<tickets, boxes, surfaces, meshes, queried, drawn, fresh>>

LoaderInit ==
  /\ tickets = [lod \in LODs |-> "none"] /\ boxes = [lod \in LODs |-> <<0, 0>>]
  /\ surfaces = <<>>
  /\ meshes = [k \in Chunks |-> "none"] /\ queried = {}
  /\ drawn = {} /\ fresh = FALSE

LoadDistance(lod) == IF lod = 0 THEN LOAD_BOX_DISTANCE_LOD0 ELSE LOAD_BOX_DISTANCE_LODN * 2 ^ lod

\* The box of a level is aligned to the chunks of the next one.
AlignedDown(x, lod) == (x \div 2 ^ (lod + 1)) * 2 ^ (lod + 1)
WantedBox(viewpoint, lod) ==
  LET lo == viewpoint \div 2 - LoadDistance(lod)
      hi == (viewpoint + 1) \div 2 + LoadDistance(lod)
  IN <<AlignedDown(lo, lod), AlignedDown(hi + 2 ^ (lod + 1) - 1, lod)>>

Inside(k, bx) == bx[k[2]][1] <= k[1] /\ k[1] < bx[k[2]][2]
Finer(k) == <<<<k[1], k[2] - 1>>, <<k[1] + 2 ^ (k[2] - 1), k[2] - 1>>>>

\* What makeDrawCommand returns.
makeDrawCommand(k) ==
  IF k \notin DOMAIN surfaces THEN "nullopt"
  ELSE IF surfaces[k] = "empty" THEN "empty"
  ELSE IF meshes[k] = "ready" THEN "draw" ELSE "nullopt"

\* (mutant) The next chunk is not tried when one is not covered.
EachWhileCovered(a, b) ==
  IF a.covered THEN [covered |-> b.covered, draws |-> a.draws \cup b.draws, asked |-> a.asked \cup b.asked]
  ELSE a

\* All finer chunks are tried, whatever comes of the first ones.
Each(a, b) ==
  [covered |-> a.covered /\ b.covered, draws |-> a.draws \cup b.draws, asked |-> a.asked \cup b.asked]

Nowhere == [covered |-> FALSE, draws |-> {}, asked |-> {}]

\* makeDrawListSubtree: whether the chunk is covered, what is drawn for it and the keys
\* that were looked up.  Finer levels go first; a coarser mesh unwinds what they drew.
Subtrees(bx) ==
  LET Subtree[k \in Chunks] ==
        IF ~ Inside(k, bx) THEN Nowhere
        ELSE LET command == makeDrawCommand(k)
                 finer == IF k[2] = 0 THEN Nowhere
                          ELSE Each(Subtree[Finer(k)[1]], Subtree[Finer(k)[2]])
                 unwinds == ~ finer.covered /\ command = "draw"
             IN [covered |-> finer.covered \/ command # "nullopt",
                 draws |-> IF unwinds THEN {k} ELSE finer.draws,
                 asked |-> {k} \cup finer.asked]
  IN Subtree

\* A ticket that is held follows the viewpoint, one that has just come does from the
\* next frame on.
AskedBoxes(viewpoint) ==
  [lod \in LODs |-> IF tickets[lod] \in {"none", "held"} THEN WantedBox(viewpoint, lod) ELSE boxes[lod]]

makeDrawList(viewpoint) ==
  /\ boxes' = AskedBoxes(viewpoint)
  /\ tickets' = [lod \in LODs |-> IF tickets[lod] = "none" THEN "asked"
                                  ELSE IF tickets[lod] = "granted" THEN "held" ELSE tickets[lod]]
  /\ LET subtree == Subtrees(boxes')
         roots == {k \in Chunks : k[2] = LAST_RENDERED_LOD /\ Inside(k, boxes')}
     IN /\ drawn' = UNION {subtree[k].draws : k \in roots}
        /\ queried' = {k \in UNION {subtree[r].asked : r \in roots} :
                         k \in DOMAIN surfaces /\ surfaces[k] = "mesh"}
  /\ meshes' = [k \in Chunks |-> IF k \in queried' /\ meshes[k] = "none" THEN "sent" ELSE meshes[k]]
  /\ fresh' = TRUE
  /\ UNCHANGED surfaces

onNewState ==
  /\ surfaces' \in Tables
  /\ fresh' = FALSE
  /\ UNCHANGED <<tickets, boxes, meshes, queried, drawn>>

\* The land service gives the ticket.
Grant(lod) ==
  /\ tickets[lod] = "asked"
  /\ tickets' = [tickets EXCEPT ![lod] = "granted"]
  /\ fresh' = FALSE
  /\ UNCHANGED <<boxes, surfaces, meshes, queried, drawn>>

\* The streamer's copy completes; a mesh that nobody asked for is dropped.
Stream(k) ==
  /\ \/ meshes[k] = "sent" /\ meshes' = [meshes EXCEPT ![k] = "ready"]
     \/ meshes[k] = "ready" /\ k \notin queried /\ meshes' = [meshes EXCEPT ![k] = "none"]
  /\ fresh' = FALSE
  /\ UNCHANGED <<tickets, boxes, surfaces, queried, drawn>>

LoaderNext ==
  \/ \E v \in Viewpoints : makeDrawList(v)
  \/ onNewState
  \/ \E lod \in LODs : Grant(lod)
  \/ \E k \in Chunks : Stream(k)
-----------------------------------------------------------------------------
Places(k) == k[1] .. k[1] + 2 ^ k[2] - 1
Around(k) == {j \in Chunks : j[2] >= k[2] /\ k[1] \in Places(j)}

\* Keys that are inside the boxes with all that enclose them.
Reached(k) == \A j \in Around(k) : Inside(j, boxes)
Usable(k) == Reached(k) /\ makeDrawCommand(k) # "nullopt"

\* Whatever boxes the levels have while their tickets come and follow the viewpoint, and
\* whatever meshes there are: no two chunks drawn overlap; a place is drawn, or known to
\* be empty, whenever a chunk in reach can show it; a coarser chunk is drawn only where a
\* finer one is missing; and the meshes of all chunks in reach are asked for, those that
\* are not drawn too, so that they are kept.
LoaderSound ==
  /\ \A j, k \in drawn : j # k => Places(j) \cap Places(k) = {}
  /\ \A k \in Chunks : k[2] > 0 => (Inside(Finer(k)[1], boxes) <=> Inside(Finer(k)[2], boxes))
  /\ fresh =>
       /\ \A k \in DOMAIN surfaces : Usable(k) => \A p \in Places(k) :
            \/ \E j \in drawn : p \in Places(j)
            \/ \E j \in Around(<<p, 0>>) : Usable(j) /\ makeDrawCommand(j) = "empty"
       /\ \A k \in drawn : Usable(k) /\
            (k[2] > 0 => \E p \in Places(k) : \A j \in Around(<<p, 0>>) : j[2] < k[2] => ~ Usable(j))
       /\ \A k \in DOMAIN surfaces : Reached(k) /\ surfaces[k] = "mesh" => meshes[k] # "none"
=============================================================================
