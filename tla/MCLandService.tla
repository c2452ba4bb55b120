---------------------------- MODULE MCLandService ----------------------------
(***************************************************************************)
(* A world two chunks high with three coarser LODs above it, LOD 3 beyond  *)
(* direct generation; tickets for octahedra at LODs 0 and 1, for a box at  *)
(* LOD 3 and for an empty box, which is refused.                           *)
(***************************************************************************)
EXTENDS LandService, TLC

CONSTANTS c1, c2

TwoClients == {c1, c2}
ColumnAreas == {Octahedron(0, 0, 1), Octahedron(1, 0, 1), Box(3, 0, 8), Box(0, 1, 1)}
LowerChunk == {Key(0, 0)}
Symmetry == Permutations(TwoClients)
=============================================================================
