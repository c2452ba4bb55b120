------------------------------ MODULE LandKeys ------------------------------
(***************************************************************************)
(* Chunk keys of the land subsystem, on one vertical column of the world:  *)
(* a key is a LOD and the altitude of its base.  Chunk coordinates only    *)
(* meet in products of per-axis offsets, and the vertical axis is the one  *)
(* with world bounds, so a column shows every case of every axis.          *)
(*                                                                         *)
(* What a result is made of (...Sources) is written in one half of         *)
(* land_service.cpp, what a finished result makes outdated (...Dependents) *)
(* in the other half; nothing in the code ties the two together.           *)
(***************************************************************************)
EXTENDS Integers, FiniteSets

CONSTANTS MinY,              \* MIN_WORLD_Y_CHUNK
          MaxY,              \* MAX_WORLD_Y_CHUNK, itself inside the world
          MaxLod,            \* NUM_LOD_SCALES - 1
          MaxGeneratableLod, \* coarsest LOD generated without its children
          MaxBoxSize,        \* MAX_TICKET_BOX_AREA_SIZE
          MaxOctaRadius      \* MAX_TICKET_OCTA_AREA_RADIUS

ASSUME LandKeysAssumption ==
    /\ MinY \in Int /\ MaxY \in Int /\ MinY <= MaxY
    /\ MaxLod \in Nat /\ MaxGeneratableLod \in Nat
    /\ MaxBoxSize \in Nat /\ MaxOctaRadius \in Nat

Key(lod, y) == [lod |-> lod, y |-> y]

Scale(lod) == 2 ^ lod

\* The first multiple of the scale at or below y.
Base(lod, y) == (y \div Scale(lod)) * Scale(lod)

InWorld(k) == MinY <= k.y /\ k.y <= MaxY

Keys == {k \in [lod : 0..MaxLod, y : MinY..MaxY] : k.y = Base(k.lod, k.y)}

ParentLodKey(k) == Key(k.lod + 1, Base(k.lod + 1, k.y))

SurfaceNeighbours(k) == {Key(k.lod, k.y - Scale(k.lod)), Key(k.lod, k.y + Scale(k.lod))}

\* Keys, besides k, whose surfaces finished data of k makes outdated.
SurfaceDependents(k) == SurfaceNeighbours(k)

\* The keys whose data a surface is made of, its own key aside.  Those out of
\* the world are stood for by dummies that never change.
SurfaceSources(k) == {d \in SurfaceNeighbours(k) : InWorld(d)}

\* The keys pseudo-chunk data is aggregated from: true chunks up to and
\* including the next pseudo-chunk's first one for LOD 1, children above it.
AggregatedFrom(k) ==
    IF k.lod = 1
    THEN {Key(0, k.y + i) : i \in 0..2}
    ELSE {Key(k.lod - 1, k.y), Key(k.lod - 1, k.y + Scale(k.lod - 1))}

DataSources(k) == {d \in AggregatedFrom(k) : InWorld(d)}

\* Keys whose data finished data of k makes outdated.
\* (mutant) Only the one that has k for its tail.
DataDependentsTail(k) ==
    IF k.lod = 0 THEN {ParentLodKey(Key(0, k.y - 1))} ELSE {ParentLodKey(k)}
DataDependents(k) ==
    IF k.lod = 0
    THEN {ParentLodKey(k), ParentLodKey(Key(0, k.y - 1))}
    ELSE {ParentLodKey(k)}

(***************************************************************************)
(* Ticket areas.  A box covers [lo, hi) at a LOD, an octahedron the keys   *)
(* within a scaled radius of its pivot.                                    *)
(***************************************************************************)
Box(lod, lo, hi) == [shape |-> "box", lod |-> lod, lo |-> lo, hi |-> hi]
Octahedron(lod, pivot, radius) ==
    [shape |-> "octahedron", lod |-> lod, pivot |-> pivot, radius |-> radius]

ValidArea(a) ==
    /\ a.lod <= MaxLod
    /\ IF a.shape = "box"
       THEN a.lo < a.hi /\ (a.hi - a.lo) \div Scale(a.lod) <= MaxBoxSize
       ELSE a.radius \in 1..MaxOctaRadius

AreaKeys(a) ==
    IF a.shape = "box"
    THEN LET first == IF a.lo < MinY THEN MinY ELSE a.lo
             past  == IF a.hi > MaxY THEN MaxY ELSE a.hi
         IN  {Key(a.lod, y) : y \in {v \in first..(past - 1) :
                                        (v - first) % Scale(a.lod) = 0}}
    ELSE {k \in {Key(a.lod, a.pivot + Scale(a.lod) * i) : i \in -a.radius..a.radius} :
            InWorld(k)}
=============================================================================
