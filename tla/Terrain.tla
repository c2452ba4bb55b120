------------------------------ MODULE Terrain ------------------------------
(***************************************************************************)
(* The terrain controller of the world (src/common/terrain): octrees of    *)
(* chunks that refine around the point of interest, loaded by tasks and    *)
(* kept for a while in a cache once unloaded, and the world's tick that    *)
(* drives it and publishes the active chunks (src/server/world.cpp).       *)
(* A chunk key is the path from its superchunk; geometry is the table      *)
(* Lods of the level of detail each position asks of each chunk.           *)
(***************************************************************************)
EXTENDS Integers, Sequences, FiniteSets, SequencesExt, Functions

CONSTANTS Bases, Fanout, CHUNK_MAX_LOD,
          Lods,           \* position -> key -> level of detail
          Engaged,        \* position -> superchunks near it
          SUPERCHUNK_MAX_AGE, TERRAIN_MAX_DIRECT_OP_COUNT, CHUNK_CACHE_SET_SIZE,
          UnloadLoading,  \* bound: may a superchunk go while one of its chunks loads
          MaxMoves        \* bound: moves of the point of interest

VARIABLES
  blocks,     \* key -> control block: state, over active, chunk
  idle,       \* superchunk -> idle_age
  handles,    \* m_async_chunk_loads: key -> chunk
  loads,      \* chunk -> how far its load task is
  cache,      \* the one set of the cache, a sequence of chunks and empty slots
  filled,     \* chunks that have their data
  published,  \* the active chunks of the last world state
  position, moves

terrainVars == <<blocks, idle, handles, loads, cache, filled, published, position, moves>>

ChunkKeys == UNION {{<<b>> \o path : path \in [1 .. n -> 1 .. Fanout]} : b \in Bases, n \in 0 .. CHUNK_MAX_LOD}
Lod(k) == CHUNK_MAX_LOD + 1 - Len(k)
Parent(k) == Front(k)
ChildKeys(k) == IF Lod(k) = 0 THEN {} ELSE {Append(k, i) : i \in 1 .. Fanout}
Below(k) == {x \in ChunkKeys : Len(x) > Len(k) /\ SubSeq(x, 1, Len(k)) = k}

\* How updateChunk walks: a chunk, then what is below each of its children in turn.
Walk ==
  LET below[k \in ChunkKeys] ==
        <<k>> \o FlattenSeq([i \in 1 .. (IF Lod(k) = 0 THEN 0 ELSE Fanout) |-> below[Append(k, i)]])
      roots == SetToSeq(Bases)
  IN  FlattenSeq([i \in DOMAIN roots |-> below[<<roots[i]>>]])

\* Nobody looks from nowhere.
Nowhere == <<>>
LodDirection(k) == IF position = Nowhere THEN CHUNK_MAX_LOD + 2 ELSE Lods[position][k]
-----------------------------------------------------------------------------
(* ChunkCache; chunk objects are <<key, number>>                           *)

KeyOf(c) == c[1]

Empty == <<>>
Cached(q) == Range(q) \ {Empty}
SlotsOf(q, k) == {i \in DOMAIN q : q[i] # Empty /\ KeyOf(q[i]) = k}

\* insert: in place of the same chunk, in the last empty slot, or, when there is none,
\* behind the others, the first of which goes.
Inserted(q, c) ==
  LET same == SlotsOf(q, KeyOf(c))
      empty == {i \in DOMAIN q : q[i] = Empty}
  IN  IF same # {} THEN [i \in DOMAIN q |-> IF i \in same THEN c ELSE q[i]]
      ELSE IF empty # {} THEN [q EXCEPT ![Max(empty)] = c]
      ELSE Append(Tail(q), c)
-----------------------------------------------------------------------------
(* Controller; w is what a tick changes: blocks, handles, loads, cache,    *)
(* quota and the command each chunk has from its parent                    *)

Has(w, k) == k \in DOMAIN w.blocks
Children(w, k) == {c \in ChildKeys(k) : Has(w, c)}

Held(w) == {w.blocks[k].chunk : k \in DOMAIN w.blocks} \cup Cached(w.cache) \cup DOMAIN w.loads
           \cup Range(w.handles) \cup published

\* enqueueLoadingChunk
Loaded(w, k) ==
  LET n == CHOOSE i \in 1 .. 4 : <<k, i>> \notin Held(w) /\ \A j \in 1 .. i - 1 : <<k, j>> \in Held(w)
      c == <<k, n>>
  IN  [w EXCEPT !.blocks = (k :> [state |-> "Loading", over |-> FALSE, chunk |-> c]) @@ @,
                !.handles = (k :> c) @@ @,
                !.loads = (c :> "queued") @@ @]

Command(w, k, cmd) ==
  [w EXCEPT !.cmd = [x \in ChunkKeys |-> IF x \in ChildKeys(k) THEN cmd ELSE @[x]]]

Turn(w, k, state, over) == [w EXCEPT !.blocks[k].state = state, !.blocks[k].over = over]

\* TerrainLoader::unload and the end of the control block.
Unloaded(w, k) ==
  [w EXCEPT !.cache = Inserted(@, w.blocks[k].chunk),
            !.blocks = [x \in DOMAIN @ \ {k} |-> @[x]]]

updateChunkLoading(w, k) ==
  IF w.loads[w.handles[k]] = "done"
  THEN [Turn(w, k, "Standby", FALSE) EXCEPT !.handles = [x \in DOMAIN @ \ {k} |-> @[x]]]
  ELSE w

WantsCoarser(w, k) ==
  /\ LodDirection(k) >= Lod(k)
  /\ \A c \in ChildKeys(k) : w.blocks[c].state = "Active" /\ LodDirection(c) > Lod(c)

updateChunkStandby(w, k) ==
  LET over == w.blocks[k].over /\ w.quota < TERRAIN_MAX_DIRECT_OP_COUNT
  IN  CASE over /\ WantsCoarser(w, k) ->
             Command(Turn([w EXCEPT !.quota = @ + 1], k, "Active", FALSE), k, "BecomeStandby")
        [] over /\ ~ WantsCoarser(w, k) -> w
        [] ~ over /\ w.cmd[k] = "BecomeActive" -> Turn(w, k, "Active", w.blocks[k].over)
        [] ~ over /\ w.cmd[k] = "Nothing" ->
             IF Children(w, k) = {} /\ LodDirection(k) > Lod(k) + 1 THEN Unloaded(w, k) ELSE w

WantsFiner(w, k) ==
  LodDirection(k) < Lod(k) /\ w.quota + Fanout <= TERRAIN_MAX_DIRECT_OP_COUNT

\* (mutant) The finer chunks may still be loading.
FinerEnqueued(w, k) == Children(w, k) = ChildKeys(k)

FinerReady(w, k) ==
  Children(w, k) = ChildKeys(k) /\ \A c \in ChildKeys(k) : w.blocks[c].state # "Loading"

updateChunkActive(w, k) ==
  LET missing == SetToSeq(ChildKeys(k) \ Children(w, k))
  IN  CASE w.cmd[k] = "BecomeStandby" -> Turn(w, k, "Standby", w.blocks[k].over)
        [] w.cmd[k] = "Nothing" /\ WantsFiner(w, k) ->
             IF FinerReady(w, k)
             THEN Command(Turn([w EXCEPT !.quota = @ + Fanout], k, "Standby", TRUE), k, "BecomeActive")
             ELSE FoldLeft(Loaded, w, missing)
        [] OTHER -> w

updateChunk(w, k) ==
  IF ~ Has(w, k) THEN w
  ELSE CASE w.blocks[k].state = "Loading" -> updateChunkLoading(w, k)
         [] w.blocks[k].state = "Standby" -> updateChunkStandby(w, k)
         [] w.blocks[k].state = "Active" -> updateChunkActive(w, k)

\* engageSuperchunks
Near == IF position = Nowhere THEN {} ELSE Engaged[position]
EngageAll(w) == FoldLeft(Loaded, w, SetToSeq({<<b>> : b \in Near} \ DOMAIN w.blocks))
AgeAfter(b, w) == IF b \in Near THEN 1 ELSE idle[b] + 1

\* A tick: superchunks too long out of interest go with all they hold, the others are
\* updated; a loaded root becomes active.
Ticked ==
  LET w == EngageAll([blocks |-> blocks, handles |-> handles, loads |-> loads, cache |-> cache,
                      quota |-> 0, cmd |-> [k \in ChunkKeys |-> "Nothing"]])
      kicked(k) == Len(k) = 1 /\ w.blocks[k].state = "Standby" /\ ~ w.blocks[k].over
      roots == {k \in DOMAIN w.blocks : kicked(k)}
      old == {b \in Bases : Has(w, <<b>>) /\ AgeAfter(b, w) > SUPERCHUNK_MAX_AGE}
      step(x, k) == CASE k[1] \notin old -> updateChunk(x, k)
                      [] k[1] \in old /\ Has(x, k) -> Unloaded(x, k)
                      [] OTHER -> x
  IN  FoldLeft(step, [w EXCEPT !.cmd = [k \in ChunkKeys |-> IF k \in roots THEN "BecomeActive" ELSE @[k]]],
               Walk)

ActiveIn(B) == {k \in DOMAIN B : B[k].state = "Active"}

\* Loads nobody has a handle of are forgotten when done, data with its chunk.
Pending(w) == {c \in DOMAIN w.loads : w.loads[c] # "done" \/ c \in Range(w.handles)}

\* World::update: the player's position, then the controller's tick.
Tick ==
  \E w \in {Ticked} :
    LET gone == {k \in DOMAIN blocks : ~ Has(w, <<k[1]>>)}
    IN  /\ UnloadLoading \/ \A k \in gone : blocks[k].state # "Loading"
        /\ blocks' = w.blocks /\ handles' = w.handles /\ cache' = w.cache
        /\ loads' = [c \in Pending(w) |-> w.loads[c]]
        /\ idle' = [b \in Bases |-> IF Has(w, <<b>>) THEN AgeAfter(b, w) ELSE 0]
        /\ published' = {w.blocks[k].chunk : k \in ActiveIn(w.blocks)}
        /\ filled' = filled \cap (Held(w) \cup published')
        /\ UNCHANGED <<position, moves>>

\* handlePlayerInputMessage
Move ==
  /\ moves < MaxMoves
  /\ \E p \in DOMAIN Lods \ {position} : position' = p
  /\ moves' = moves + 1
  /\ UNCHANGED <<blocks, idle, handles, loads, cache, filled, published>>
-----------------------------------------------------------------------------
(* TerrainLoader::load, on a thread of the task service                    *)

Lookup(c) ==
  /\ c \in DOMAIN loads /\ loads[c] = "queued"
  /\ IF SlotsOf(cache, KeyOf(c)) = {}
     THEN loads' = [loads EXCEPT ![c] = "generating"] /\ UNCHANGED <<cache, filled>>
     ELSE \E i \in SlotsOf(cache, KeyOf(c)) :
            /\ loads' = [loads EXCEPT ![c] = "done"]
            /\ filled' = (filled \ {cache[i]}) \cup (IF cache[i] \in filled THEN {c} ELSE {})
            /\ cache' = [cache EXCEPT ![i] = Empty]
  /\ UNCHANGED <<blocks, idle, handles, published, position, moves>>

Generate(c) ==
  /\ c \in DOMAIN loads /\ loads[c] = "generating"
  /\ loads' = [loads EXCEPT ![c] = "done"]
  /\ filled' = filled \cup {c}
  /\ UNCHANGED <<blocks, idle, handles, cache, published, position, moves>>

TerrainInit ==
  /\ blocks = <<>> /\ handles = <<>> /\ loads = <<>>
  /\ cache = [i \in 1 .. CHUNK_CACHE_SET_SIZE |-> Empty]
  /\ filled = {} /\ published = {}
  /\ idle = [b \in Bases |-> 0]
  /\ position = Nowhere /\ moves = 0

TerrainNext == Tick \/ Move \/ \E c \in DOMAIN loads : Lookup(c) \/ Generate(c)

TerrainSpec == TerrainInit /\ [][TerrainNext]_terrainVars
-----------------------------------------------------------------------------
(* Properties                                                              *)

Path(k) == {SubSeq(k, 1, n) : n \in 1 .. Len(k)}
Shown(k) == k \in DOMAIN blocks /\ blocks[k].state = "Active"

\* The active chunks of a superchunk that was ever shown cover it once: every finest
\* chunk has one active ancestor, those above it are over active and none below is
\* (ChunkControlBlock::validateState).
ActiveCover ==
  /\ \A k \in DOMAIN blocks : Len(k) > 1 => Parent(k) \in DOMAIN blocks
  /\ \A b \in Bases : (\E k \in ActiveIn(blocks) : k[1] = b) =>
       \A leaf \in {k \in ChunkKeys : Lod(k) = 0 /\ k[1] = b} :
         Cardinality({k \in Path(leaf) : Shown(k)}) = 1
  /\ \A k \in DOMAIN blocks : blocks[k].over <=> \E x \in Below(k) : Shown(x)

\* What the world shows has its data, and no chunk is both in use and in the cache
\* (TerrainLoader, ChunkCache).
ShownFilled ==
  /\ published \subseteq filled
  /\ \A k \in DOMAIN blocks : blocks[k].chunk \notin Cached(cache)
  /\ Range(handles) = {blocks[k].chunk : k \in {x \in DOMAIN blocks : blocks[x].state = "Loading"}}

\* A chunk that is unloaded has been loaded (loader.cpp:55).
UnloadsLoaded == Cached(cache) \cap DOMAIN loads = {}
=============================================================================
