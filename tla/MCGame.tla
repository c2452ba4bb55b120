------------------------------- MODULE MCGame -------------------------------
(***************************************************************************)
(* What a player sees and does: the renderer, its render graph, the        *)
(* terrain of the world, the geometry of land and the storage of blocks,   *)
(* coroutines of tasks, and the client with its world.  A behaviour runs   *)
(* one of them and leaves the others in their initial states.              *)
(***************************************************************************)
EXTENDS GfxSystem, Terrain, PseudoChunk, Client, OctahedraWalker

CONSTANTS k1, k2, c1, c2, sub1, sub2, sub3,
          Resources, Passes, MaxPasses, MaxFrames,
          Counters, SubTasks, Task, None, Bodies,
          Storages, Values, NODES, LEAVES, ELEMENTS, Contents, Lossy, MaxCalls,
          LAST_RENDERED_LOD, LOAD_BOX_DISTANCE_LOD0, LOAD_BOX_DISTANCE_LODN, Viewpoints, World, Tables

VARIABLES
  component,
  recorded, states, usage, attached, created, destroyed, visible, frame, graphPhase,
  bodies, begun, state, blocked, next, prev, base, top, running, complete, frames,
  storages, stored, calls,
  tickets, boxes, surfaces, meshes, queried, drawn, fresh

MeshKeys == {k1, k2}

Graph == INSTANCE RenderGraph WITH commands <- recorded, handles <- attached,
                                   published <- visible, phase <- graphPhase
\* What the passes themselves are written with.
Uses == INSTANCE RenderGraph WITH Passes <- {}, commands <- recorded, handles <- attached,
                                  published <- visible, phase <- graphPhase
Coro == INSTANCE TaskCoro WITH step <- begun
Storage == INSTANCE ChunkStorage
Loader == INSTANCE LandLoader

graphVars == <<recorded, states, usage, attached, created, destroyed, visible, frame, graphPhase>>
coroVars == <<bodies, begun, state, blocked, next, prev, base, top, running, complete, frames>>
storageVars == <<storages, stored, calls>>
loaderVars == <<tickets, boxes, surfaces, meshes, queried, drawn, fresh>>
viewVars == <<loaderVars, walkerVars>>

ASSUME StorageAssumption == Storage!PositionsExact
-----------------------------------------------------------------------------
(* The renderer: meshes of one stream and of two come, change and go in    *)
(* small pools over many ticks; the window changes its size and loses its  *)
(* surface; transient data and constants outgrow their buffers.  Two       *)
(* frames may be pending.                                                  *)

Sizes == 1 :> 1 @@ 2 :> 2
MainAndDma == {"main", "dma"}

Quiet == [ticks |-> 1, faults |-> 0, versions |-> [k \in MeshKeys |-> 0], draws |-> {{}},
          counts |-> {[s \in Streams |-> IF s = 1 THEN 1 ELSE 0]},
          constants |-> {<<1>>}, scratch |-> {1}, dynamic |-> {0}]

MeshPlan == [Quiet EXCEPT !.ticks = 8, !.versions[k1] = 1, !.draws = {{k1}, {k1, k2}}]
StreamPlan == [Quiet EXCEPT !.ticks = 7, !.versions[k1] = 1, !.draws = {{}, {k1}},
                            !.counts = {[s \in Streams |-> 1]}]
WindowPlan == [Quiet EXCEPT !.ticks = 4, !.faults = 2, !.dynamic = {0, 1}]
DataPlan == [Quiet EXCEPT !.ticks = 6, !.constants = {<<1>>, <<2, 2>>}, !.scratch = {1, 3}]

AllPlans == {MeshPlan, StreamPlan, WindowPlan, DataPlan}
-----------------------------------------------------------------------------
(* The render graph: a double-buffered image, one with two mips, a depth   *)
(* buffer and a dynamic buffer, among passes that read and write them.     *)

Part(mips, sibling, image, dynamic) ==
  [mips |-> mips, sibling |-> sibling, image |-> image, dynamic |-> dynamic]

GraphResources ==
  [output |-> Part(1, "output", TRUE, FALSE), depth |-> Part(1, "depth", TRUE, FALSE),
   now |-> Part(1, "before", TRUE, FALSE), before |-> Part(1, "now", TRUE, FALSE),
   chain |-> Part(2, "chain", TRUE, FALSE), counts |-> Part(1, "counts", FALSE, TRUE)]

Sampled(r, first, last, stage) ==
  Uses!makeImageViewUsage(r, first, last, {stage}, {"sampled_read"}, "read_only", FALSE)
StoredTo(r, first, last, discard) ==
  Uses!makeImageViewUsage(r, first, last, {"compute"}, {"storage_write"}, "general", discard)
Counted(stage, access) == Uses!makeBufferUsage("counts", {stage}, {access})
Color(r, mip, clear) == Uses!ColorTarget(r, mip, clear)

GraphPasses ==
  { <<Counted("compute", "storage_write")>>,
    <<Counted("compute", "storage_read"), StoredTo("now", 1, 1, TRUE)>>,
    <<Counted("indirect", "indirect_read"), Color("output", 1, TRUE)>>,
    <<StoredTo("chain", 1, 2, FALSE)>>,
    <<Sampled("chain", 1, 1, "fragment"), Color("chain", 2, FALSE)>>,
    <<Sampled("chain", 1, 2, "fragment"), Sampled("before", 1, 1, "compute"),
      Color("now", 1, TRUE), Uses!DepthTarget("depth", 1, TRUE)>>,
    <<Sampled("chain", 2, 2, "vertex"), Color("output", 1, FALSE)>>,
    <<Sampled("chain", 2, 2, "compute"), StoredTo("chain", 1, 1, TRUE)>> }
-----------------------------------------------------------------------------
(* The terrain: two superchunks of three levels.  The position is a finest *)
(* chunk: it is wanted, and those beside its ancestors the coarser the     *)
(* further they are.                                                       *)

Places == {<<1, 1, 1>>, <<1, 2, 1>>, <<2, 1, 1>>}

Common(p, k) == Cardinality({n \in DOMAIN k : n <= Len(p) /\ SubSeq(p, 1, n) = SubSeq(k, 1, n)})
LodTable ==
  [p \in Places |-> [k \in ChunkKeys |->
     IF Common(p, k) = Len(k) THEN 0 ELSE CHUNK_MAX_LOD + 1 - Common(p, k)]]
NearTable == [p \in Places |-> {p[1]}]
-----------------------------------------------------------------------------
(* Coroutines: sub-tasks that end at once, suspend themselves or deep      *)
(* below, one after the other, and throw.                                  *)

TwoCounters == {c1, c2}
ThreeSubTasks == {sub1, sub2, sub3}

Body(t, x, y, z) == Task :> t @@ sub1 :> x @@ sub2 :> y @@ sub3 :> z

Await(c) == [op |-> "await", on |-> c]
Call(s) == [op |-> "call", on |-> s]
Throw == [op |-> "throw", on |-> None]
Alone == {<<>>, <<Await(c1)>>, <<Await(c1), Await(c2)>>, <<Throw>>, <<Await(c1), Throw>>}
Calling == {<<Call(sub2)>>, <<Await(c1), Call(sub2), Await(c2)>>, <<Call(sub2), Call(sub3)>>,
            <<Call(sub2), Throw>>}
Deeper == {<<Call(sub3)>>, <<Await(c2), Call(sub3), Await(c2)>>}
Roots == {<<Call(sub1)>>, <<Await(c2), Call(sub1), Await(c1)>>, <<Await(c1), Await(c2)>>}

CallsThird(body) == \E i \in DOMAIN body : body[i] = Call(sub3)
CoroBodies ==
  {b \in {Body(t, x, y, z) : t \in Roots, x \in Alone \cup Calling, y \in Alone \cup Deeper, z \in Alone} :
     ~ (CallsThird(b[sub1]) /\ CallsThird(b[sub2]))}
-----------------------------------------------------------------------------
(* Geometry: flat land, a slope and empty land, with blocks at borders of  *)
(* chunks, or far enough from the surface, dug out or put there.           *)

ThreeLands == {<<0, 0, 4>>, <<2, 4, 2>>, <<0, 0, -40>>}
EditableBlocks == {<<0, 0, 0>>, <<1, 1, 1>>, <<2, 2, 2>>, <<4, 4, 4>>, <<0, 2, 4>>, <<2, 4, 0>>, <<1, 2, 4>>, <<4, 0, 2>>}

(* Storage: two nodes of three leaves of two values, of all the shapes.    *)

Leaf(a, b) == [e \in {0, 1} |-> IF e = 0 THEN a ELSE b]
Node(x, y, z) == [j \in 0 .. 2 |-> IF j = 0 THEN x ELSE IF j = 1 THEN y ELSE z]
Whole(v) == Node(Leaf(v, v), Leaf(v, v), Leaf(v, v))
Nodes == {Whole(0), Whole(1), Whole(2), Node(Leaf(1, 1), Leaf(0, 2), Leaf(2, 2)), Node(Leaf(1, 2), Leaf(1, 1), Leaf(1, 0))}
ChunkContents == {c \in [{0, 1} -> Nodes] : c[0] = c[1] \/ c[0] \in {Whole(1), Whole(0)} \/ c[1] = Whole(2)}

(* The client: settings that let the wheel steer, and ones with two keys   *)
(* for a direction, a key with two meanings and values that cannot be read. *)

KeyScheme ==
  << <<"forward", << <<"W">> >> >>, <<"backward", << <<"S">> >> >>,
     <<"pause", << <<"LEFT">>, <<"ESC">> >> >>, <<"faster", << <<"ScrollUp">> >> >>,
     <<"lock", << <<"F">> >> >>, <<"modify", << <<"RIGHT">> >> >> >>
WheelSteers == [backward |-> << <<"S">>, <<"ScrollDown">> >>]
KeySettings ==
  {WheelSteers,
   [forward |-> << <<"W">>, <<"UP">> >>, backward |-> << <<"SHIFT", "W">> >>,
    pause |-> << <<"ScrollDown">>, <<"ScrollUp", "W">> >>, lock |-> << <<"ESC">> >>,
    faster |-> << <<"SHIFT">> >>]}
PressedKeys == {<<"keyboard", "W">>, <<"keyboard", "UP">>, <<"keyboard", "ESC">>, <<"keyboard", "1">>, <<"mouse", "RIGHT">>}
-----------------------------------------------------------------------------
(* The loader of land: two viewpoints, and what is known of a few chunks    *)
(* beside places that nothing is known of.                                 *)

TwoViewpoints == {-8, -4}
LoaderWorld == -8 .. 7
Coarsest == <<-8, 2>> :> "mesh"
Middle == <<-8, 1>> :> "mesh" @@ <<-4, 1>> :> "mesh"
Finest == <<-6, 0>> :> "mesh" @@ <<-5, 0>> :> "empty"
LoaderTables == {Middle @@ Finest, Coarsest @@ Finest, <<-8, 2>> :> "empty" @@ Middle}
-----------------------------------------------------------------------------
InGfx ==
  /\ component = "gfx" /\ Next
  /\ UNCHANGED <<component, graphVars, terrainVars, coroVars, pseudoVars, storageVars, clientVars, viewVars>>
InGraph ==
  /\ component = "graph" /\ Graph!GraphNext
  /\ UNCHANGED <<component, vars, terrainVars, coroVars, pseudoVars, storageVars, clientVars, viewVars>>
InTerrain ==
  /\ component = "terrain" /\ TerrainNext
  /\ UNCHANGED <<component, vars, graphVars, coroVars, pseudoVars, storageVars, clientVars, viewVars>>
InCoro ==
  /\ component = "coro" /\ Coro!CoroNext
  /\ UNCHANGED <<component, vars, graphVars, terrainVars, pseudoVars, storageVars, clientVars, viewVars>>
InPseudo ==
  /\ component = "pseudo" /\ PseudoNext
  /\ UNCHANGED <<component, vars, graphVars, terrainVars, coroVars, storageVars, clientVars, viewVars>>
InStorage ==
  /\ component = "storage" /\ Storage!StorageNext
  /\ UNCHANGED <<component, vars, graphVars, terrainVars, coroVars, pseudoVars, clientVars, viewVars>>
InClient ==
  /\ component = "client" /\ ClientNext
  /\ UNCHANGED <<component, vars, graphVars, terrainVars, coroVars, pseudoVars, storageVars, viewVars>>
InLoader ==
  /\ component = "loader" /\ Loader!LoaderNext
  /\ UNCHANGED <<component, vars, graphVars, terrainVars, coroVars, pseudoVars, storageVars, clientVars, walkerVars>>
InWalk ==
  /\ component = "walk" /\ step
  /\ UNCHANGED <<component, vars, graphVars, terrainVars, coroVars, pseudoVars, storageVars, clientVars, loaderVars>>

\* Only the component that runs is given all of its initial states.
GameInit ==
  /\ component \in {"gfx", "graph", "terrain", "coro", "pseudo", "storage", "client", "loader", "walk"}
  /\ component # "gfx" => plan = MeshPlan
  /\ component # "coro" => bodies = Body(<<Call(sub1)>>, <<>>, <<>>, <<>>)
  /\ component # "pseudo" => land = <<0, 0, 4>>
  /\ component # "client" => bound = BoundBy(WheelSteers)
  /\ Init /\ Graph!GraphInit /\ TerrainInit /\ Coro!CoroInit
  /\ PseudoInit /\ Storage!StorageInit /\ ClientInit
  /\ Loader!LoaderInit /\ WalkerInit
  /\ component # "walk" => walker.max = MaxRadius

GameNext == InGfx \/ InGraph \/ InTerrain \/ InCoro \/ InPseudo \/ InStorage \/ InClient
            \/ InLoader \/ InWalk

GameVars == <<component, vars, graphVars, terrainVars, coroVars, pseudoVars, storageVars, clientVars,
              viewVars>>

GameSpec == GameInit /\ [][GameNext]_GameVars

-----------------------------------------------------------------------------
(* Properties; what they say in detail stands in the modules.  Those of    *)
(* the renderer, the client and the walker are stated in their modules.    *)

\* Between conflicting accesses that passes declare stands a barrier of the right scope, an
\* image is in the layout its pass expects (render_graph_builder.cpp), and the handles a
\* pass sees are alive and made for its use (render_graph_runner.cpp).
GraphSound == component = "graph" => Graph!BarriersSound /\ Graph!HandlesSound

\* The active chunks of the old terrain (controller.cpp) cover each engaged superchunk
\* once, and those shown have their data, while tasks load and the cache takes chunks.
TerrainSound == component = "terrain" => ActiveCover /\ ShownFilled

\* The list of awaiting coroutines (task_coro.cpp) is the chain of suspended calls from the
\* task to the innermost one, a coroutine goes on only when what it awaited is over, and
\* the frames of sub-tasks (task_coro.hpp) exist as long as something leads to them.
CoroSound == component = "coro" => Coro!AwaitListExact /\ Coro!AwaitsKept /\ Coro!FramesExact

\* Data of pseudo-chunks (pseudo_chunk_data.cpp) are what the land and its edits make of
\* them, or land_generator.cpp of land without edits; surfaces (pseudo_chunk_surface.cpp)
\* have no hole and face the empty side.
GeometrySound ==
  component = "pseudo" => DataExact /\ SurfaceClosed /\ FacesExact /\ (edited = {} => GeneratedExact)

\* What compressed_chunk_storage.cpp compresses comes back, block by block and as a whole,
\* from copies and from storages that were moved.
RoundTrip == component = "storage" => Storage!RoundTrip

\* Chunks that gfx_land_loader.cpp draws do not overlap, cover all that chunks in reach can
\* show, the finer where there are meshes of it, and keep the meshes in reach asked for.
LoaderSound == component = "loader" => Loader!LoaderSound
=============================================================================
