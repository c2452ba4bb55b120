# Voxen in TLA+

Voxen is a voxel engine. At its bottom lies a service layer, in which threads
hand each other tasks, messages, memory and completion counters; on it stand a
land service, which keeps a world of chunks up to date with what is built out of
them, a renderer whose GPU works on frames the CPU has long left behind, and a
world that ticks in a thread of its own. What can go wrong there goes wrong
between two atomic operations of two threads, between a message and the state it
finds when it arrives, between a resource and the frame that still uses it, and
in data structures whose versions share memory. These modules model the engine
step by step. TLC checks the models on small instances, TLAPS proves what matters
most for all instances.

Paths below are relative to `src/src/voxen` unless they start with `src/`.

- [Parts of the system](#parts-of-the-system)
- [Modules](#modules)
- [How state and actions correspond to the code](#how-state-and-actions-correspond-to-the-code)
- [What the runs check](#what-the-runs-check)
- [Bounds, and why they are enough](#bounds-and-why-they-are-enough)
- [Fairness](#fairness)
- [What is proved](#what-is-proved)
- [Disagreements with the comments](#disagreements-with-the-comments)
- [What is not modelled](#what-is-not-modelled)
- [Plan](#plan)

## Parts of the system

| Part | State | Operations | Hard because |
|---|---|---|---|
| `AsyncCounterTracker` (svc) | next counter; per list a completed prefix (atomic) and out-of-order segments (locked) | allocate, complete, check, trim | the prefix moves without the lock |
| `TaskQueueSet` (svc) | per slave a ring of task pointers, one atomic word with both indices, wait flag and stop flag | push, pop or wait, try pop, stop, destroy | lock-free, the reservation and the store are two steps |
| `TaskService`, slaves, handles, builder (svc) | headers with one atomic word (references, continuations, waiting and finished bits), local queue of each slave | enqueue, wait, run, complete, await, stop | completion runs up the tree of continuations, each level racing with others |
| Coroutine tasks (svc) | the counter a coroutine is blocked on, the list of awaiting sub-tasks | await, call, resume, unwind | a sub-task runs on its caller's stack until it suspends, and ends on another one |
| `MessagingService` (svc) | routes, pool of inbound queues, messages with an atomic word (references, status, waiting) | register, send, poll, wait, complete, cancel by leaving | the route and the queue are under different locks; requests travel both ways |
| `AsyncFileIoService`, `FutexWorkCounter` (svc, util) | command queue, work counter with a stop bit | read, write, stop | commands are counted and queued under different words |
| `ServiceLocator`, `Engine` (svc) | services, factories, services being started, their order | request, find, destroy | the lock is dropped around factories, which request in turn and may throw |
| `FutexLock`, `FutexRWLock` (os) | one 32-bit word each | lock, try, unlock, shared variants | sleepers must be remembered in the word |
| `PipeMemoryAllocator` (common) | slab of each thread, garbage and free lists, live counters | allocate, deallocate, collect | every thread deallocates, one collects, owners leave |
| `SharedObjectPool`, `PrivateObjectPool` (common) | slabs, free list through the objects, reference counts | allocate, share, release | the free list of the first is a lock-free stack |
| `V8gHashTrie`, `V8gFlatMap` (common) | versioned items in nodes or arrays that copies share | insert, erase, find, copy, compare | shared nodes are copied before a change, and only then |
| Land storage tree (land) | counted nodes, versions, masks of live keys | access, remove, look up, copy | nodes are shared between ticks; constructions may fail |
| Pools of the old code (extras, common/terrain) | places with counts, free ranges | allocate, share, free, collect | last pointers go on any thread; ranges split and merge |
| `LandService` (land) | metastate per key, cleanup order, tickets, chunk and surface tables, flags of this tick | request/adjust/drop tickets, edit, tick, destroy | tasks finish in any order on other threads; staleness and reference counting of keys |
| Chunks, pseudo-chunks, surfaces (land) | compressed blocks; cells and quads | compress, expand, aggregate, triangulate | what is left out must be reconstructed at every border |
| Device, frame ticks (gfx) | timelines of the queues, destroy queue, packs of frames in flight | submit, wait, enqueue for destruction, start a tick | the CPU may know less than the GPU has done, never more |
| Frame resources, mesh streamer (gfx) | command pools, transient buffers, frame contexts, pools and transfers of meshes | per frame | every resource outlives the frame that frees it |
| Swapchain, render graph (gfx) | acquired image, surface; resources, barriers, commands | per frame, rebuild | faults of the window system, recreation under frames in flight; who waits for whom |
| `LandLoader` (gfx) | boxes of tickets per level, surfaces, meshes asked for | per frame | boxes come and move one by one, any mesh may be missing |
| Old terrain (common/terrain, server) | octree of control blocks, cache, loads | per tick | chunks split, join and unload while tasks load them |
| Input, `GameView`, main loop, world thread | bindings, direction and mode of movement, messages, published state | callbacks, frame, tick | keys go down in one mode and up in another; two loops at their own pace |

How they interact. A producer of tasks allocates a counter from the tracker,
builds a header in pipe memory and pushes a pointer to it into the ring of a
slave. The slave asks the tracker which counters of the task are still
incomplete, runs the functor, and completes the header: flag, references,
counter, wake. The land service runs on the world's thread with a message queue: it
enqueues tasks, whose ends arrive as messages through the messaging service, and
publishes tables that the world hands to the main thread with its state. The main
thread polls events, sends the player's state to the world, and draws: the loader
of land picks meshes out of the newest tables, the streamer copies them to the
GPU through the DMA queue, the render graph replays its commands, and the frame's
tick is completed by the timelines of the queues. Locks are the futex locks of `os`.
Threads share atomics, locked data and immutable versions; nothing is persisted, so
there is no crash recovery, and messages within the process are neither lost nor
duplicated by any medium. What makes the code hard is interleaving, memory and GPU
resources that are reclaimed elsewhere, stops that race with work, result messages
that describe an older state than the one they meet, and faults half way: a
construction or an allocation that fails, a window that is lost.

What makes each part correct:

- tracker: a counter is complete exactly when completed, whatever the order; the
  lists stay as small as the gaps in them
- ring: a FIFO queue; a slot belongs to one thread at a time; no task sleeps in the
  ring of a sleeping slave
- tasks: everything they wait for has ended before they begin; they complete once,
  after their continuations, with their resources released; the header is freed by its
  last owner; every task completes; `wait` returns
- coroutines: the list of awaiting coroutines is the chain of calls that are
  suspended; a coroutine is resumed when, and only when, what it awaits is over
- locks: exclusion; whoever sleeps is woken
- file service, locator: commands complete once, in order; a service outlives those that depend
  on it, and a failed start leaves nothing behind
- allocators and pools: live blocks do not overlap and keep their memory; slabs and
  places are neither lost nor owned twice; garbage is collected
- containers: each copy stands for the map it was made of, whatever happens
  to the others; a comparison reports exactly what differs
- messaging: a message has as many owners as its count says; queues are owned by one
  agent or free; order per queue; one status per request; `wait` returns
- land: no result comes back for a forgotten key; tasks read generated data; newer
  data is never replaced by older data; everything made of outdated data is made
  again; a ticket has one owner; no task outlives the service
- geometry and storage: what is compressed comes back; surfaces of levels of detail are closed and face
  the right way
- renderer: nothing the GPU may touch is destroyed or reused; the CPU believes only what is true;
  pools of meshes are exact; what conflicts is ordered by a barrier; what can be shown is drawn, once
- terrain: the active chunks cover the land once and have their data
- client and world: the player moves as the held keys say; the world follows the
  client's messages and stops when told

## Modules

| Module | Models | Source |
|---|---|---|
| `AsyncCounters` | abstract: allocated and completed counters | svc/async_counter_tracker.hpp |
| `AsyncCounterTracker` | the tracker | svc/async_counter_tracker.cpp |
| `BoundedQueue` | abstract: a bounded FIFO queue that may be stopped | svc/task_queue_set.hpp |
| `TaskQueue` | one ring of the set, its slave, its producers, the stop | svc/task_queue_set.cpp |
| `TaskService` | slaves, headers, continuations, handles | svc/task_service*.cpp, task_handle.cpp, task_builder.cpp |
| `TaskCoro` | one task's coroutine and its sub-tasks | svc/task_coro.cpp, `src/include/voxen/svc/task_coro.hpp` |
| `AsyncFileIo` | threads that push commands, the I/O thread, the stop | svc/async_file_io_service.cpp, util/futex_work_counter.cpp |
| `ServiceLocator` | threads that request services over a dependency graph | svc/service_locator.cpp |
| `Messaging` | agents, queues, routes, requests | svc/messaging_private.cpp, message_queue.cpp, message_handling.cpp |
| `FutexLock`, `FutexRWLock` | the two locks | os/futex.cpp |
| `PipeMemoryAllocator` | slabs and the collecting thread | common/pipe_memory_allocator.cpp |
| `SharedObjectPool`, `PrivateObjectPool` | the two object pools | common/shared_object_pool.cpp, private_object_pool.cpp |
| `HashTrie`, `FlatMap` | the versioned containers | `src/include/voxen/common/v8g_*_impl.hpp` |
| `StorageTree` | paths of keys; the tree of counted nodes | land/land_storage_tree*.cpp, storage_tree_utils.cpp |
| `FixedPool` | the chunk pools of the old terrain | `src/src/common/terrain/allocator.cpp`, `src/include/extras/fixed_pool.hpp`, `refcnt_ptr.hpp` |
| `LinearAllocator` | the allocator of ranges | `src/include/extras/linear_allocator.hpp` |
| `LandKeys` | keys of one column: parents, neighbours, areas | `src/include/voxen/land/chunk_key.hpp`, land/chunk_ticket.cpp, land/land_service.cpp |
| `LandService` | the service, the tasks it enqueues, ticket owners and editors | land/land_service.cpp |
| `ChunkStorage` | compressed blocks of a chunk | land/compressed_chunk_storage.cpp |
| `PseudoChunk` | data of pseudo-chunks, aggregated and generated, surfaces of both kinds of chunk | land/pseudo_chunk_data.cpp, pseudo_chunk_surface.cpp, land_generator.cpp |
| `OctahedraWalker` | the order in which a ticket's keys are visited | util/concentric_octahedra_walker.cpp |
| `GfxDevice` | queues, timelines, the destroy queue, frame ticks, the GPU | gfx/vk/vk_device.cpp, gfx/frame_tick_source.cpp |
| `GfxTransient` | command pools, transient buffers, the DMA command buffer | gfx/vk/vk_command_allocator.cpp, vk_transient_buffer_allocator.cpp, vk_dma_system.cpp |
| `GfxMeshes` | the mesh streamer | gfx/vk/vk_mesh_streamer.cpp |
| `GfxSwapchain` | frame contexts, swapchain, the render graph's resources across frames | gfx/vk/frame_context.cpp, vk_swapchain.cpp, render_graph_runner.cpp |
| `GfxSystem` | a frame: what every component does in it, in its order | gfx/gfx_system.cpp |
| `RenderGraph` | the accesses passes declare, what the builder records, what the runner does with it | gfx/vk/render_graph_builder.cpp, render_graph_private.cpp, render_graph_runner.cpp |
| `LandLoader` | boxes and the choice of meshes | gfx/gfx_land_loader.cpp |
| `Terrain` | the controller, loader and cache of the old terrain, the world's tick | `src/src/common/terrain`, `src/src/server/world.cpp` |
| `Client` | bindings, callbacks, the game view, the main loop, the world's thread | `src/src/client`, `src/src/common/gameview.cpp`, svc/main_thread_service.cpp, `src/src/server/world.cpp` |
| `SequenceLemmas` | facts about sequences, minima and the operators the models use | |
| `*_proof` | theorems; `GfxMeshes_proof` the lemmas about the streamer | |
| `MC*` | small instances for TLC (`TaskQueueStop` and `FutexRWLockLost` need none) | |

How they are composed. `TaskService` stands on the two abstract specifications: its
queues are `BoundedQueue`s without the bound and its counters are `AsyncCounters`,
which `TaskQueue` and `AsyncCounterTracker` are shown to implement. `LandService`
extends `LandKeys` and stands on the promises of `TaskService` (a task runs once,
after all it waits for) and of `Messaging` (reports of a thread arrive once, in order). `GfxSystem` extends
`GfxSwapchain` and `GfxMeshes`, which extend `GfxTransient` and this `GfxDevice`: one frame is a
sequence of steps of all of them, with the GPU in between. `LandLoader` stands on what the mesh streamer
promises. `Client` is the composition of the input adapter, the game view, the main loop and the world.

`MCSharedData`, `MCServices`, `MCContainers` and `MCGame` hold the instances of
components that do not touch each other's state: a variable `component`, chosen
at the start, tells which of them runs, and the others stay as they are. Their
state space is the sum of those of the components, and each property
is that of one component.

## How state and actions correspond to the code

### Services and threads

**AsyncCounterTracker.** `fully` and `segments` are `fully_completed_value` and
`out_of_order_segments` of each list. Each access to the atomic word and each
critical section is a step; a critical section that reads or exchanges the word is
split there and `lock` is held across the parts. `completeCounter` is
`CompleteInOrder`, or `CompleteInsert`, `CompleteCollapse` (repeatedly) and
`CompleteReturn`; `isCounterComplete` is `CheckPrefix` and `CheckSegments`;
`trimCompleteCounters` is `TrimCall` and, per element, `TrimPrefix` and
`TrimSegments`, with the swaps on `span`. `AddToSegments` is the insertion with its three
cases: extend to the left, to the right, start a segment.

**TaskQueue.** `index` is the 64-bit word as a record, `items` are the slots. A
push loads, probes the slot, reserves with a compare-exchange, stores, wakes; a pop
loads, waits (compare-exchange of the wait flag, then the futex call, which compares
with the word loaded before) or reserves and takes. `Stop*` is `requestStopAll` with
its `new_index` computed once. Threads keep the word they loaded in `seen`; `order` and `popped`
record what was pushed and popped.

**TaskService.** `word` is the header's atomic word. A slave's `pc` follows the
loop of the slave thread: `PopOrWait` and `TryPop` take a task, `Drain` walks the
local queue, `Execute` and `Continue` run a functor that enqueues its
continuations, `Check` is the separate look at the continuation count.
`doCompleteAndUnref` calls itself for the parent, so a slave has a `stack` of
activations, and each atomic operation in it is a step (`CompleteParent`, `CompleteFlag`,
`CompleteUnref`, `CompleteCounter`, `CompleteWake`). What tasks do is
a `program`: who waits for whom, whose continuations they are, what they await.

**TaskCoro.** `running` is the native stack of coroutine frames; `next`, `prev`, `base`
and `top` are the pointers that make suspended frames a list. `CallSubTask` runs the sub-task at
once; a frame that suspends suspends its caller (`Suspended`, `BlockedOnSubTask`), and the links made before the
list had a base task are "stolen" by it (`UpdatedStack`). `Resume` continues the list's end when its counter is
complete; `Finish` returns or throws into whoever awaits. `bodies` is what each coroutine awaits, calls and throws,
`frames` the coroutines whose memory has not been given back: that of a sub-task goes when its caller has taken the result.

**Messaging.** A thread that sends has looked a route up and has yet to push (`Send`,
`Push`): between the two the agent may leave (`Unregister`, `ClearQueue`, `FreeQueue`)
and its queue be taken by another. `completeRequest` is `SetStatus`, `WakeRequester`
and the forwarding or release. `WaitMessages` and `AwaitRequest` begin the two waits, each followed by
its own check and sleep steps. Handlers that a receiver has or lacks, and whether
they throw, are open at every message.

**AsyncFileIo.** `counter` is the word of `FutexWorkCounter`, `ioQueue` the locked queue. A push queues,
counts and wakes (`Push`, `AddWork`, `Wake`); the I/O thread loads and sleeps on the word, takes the whole
queue, performs commands one by one and takes them off the counter; the destructor sets the stop bit, wakes and joins.

**ServiceLocator.** One step per critical section of the two locks. A thread's `frames` are its calls of
`requestService`, from its own to the innermost a factory made; `Start` moves the service to `pending`, `Depend` is the
factory's next request, `Constructed` publishes the instance, `FactoryFails` and `Unwind` are exceptions on their way up. `pending` is one list for all
threads, as in the code; `crossed` remembers that a call looked at it while another thread was starting a service.

**FutexLock, FutexRWLock.** `payload` is the word. One step per atomic operation
and per futex call; sleeping compares the word and suspends in one step, as the
kernel does; a wake-up moves any sleeping thread. `Spurious` wakes a thread for no reason.

### Memory and containers

**PipeMemoryAllocator.** `bytes` and `live` are the control block at the start of a
slab, `own` the thread-local slab. `Allocate` is the fast path; `Replace`,
`NewSlab` (or `NewSlabFails`) and `Place` the slow one. The collecting thread holds the lock while it looks at
garbage slabs one by one (`GcScan`), deletes outside the lock (`GcDelete`), and sleeps.
`Exit` is the destructor of the thread-local slab.

**SharedObjectPool, PrivateObjectPool.** `link` is what a freed object holds in its first bytes. Taking from the list is
a load of `top`, a read of the link, and a compare-exchange (`Allocate`, `ReadNext`, `Pop`); giving back is the mirror. The layout of a slab
(sizes, offsets of the reference counts) is checked by itself over sizes and hints. The private pool is the same without atomics.

**HashTrie, FlatMap.** `heap` holds the trie's nodes with their capacities, so that sharing is real; `Insert` and `Erase`
are the recursions of the code, which copy a node of an older version, promote items to nodes, grow, and shrink.
`Copy` takes a copy and begins a timeline, `Assign` goes back to one. `VisitDiff` is the recursion over two tries, and over two arrays in
`FlatMap`. The containers' contents are kept beside them as plain functions.

**StorageTree.** `nodes` is the heap: place, tick, masks, counts, items. `Access` and `RemoveKey` walk down and make nodes writable on
the way (`Writable`, the code's "moo"), with a construction failing at any one of them; `Lookup` is what a reader
sees. Chunks, duoctree and triquadtree nodes have operators of their own; `PathOf` and `KeyOf` are the arithmetic from keys to the bits of a path and back.

**FixedPool.** `occupied` are the bitmaps, `usage` the counts of objects. Taking a place, counting, destroying and clearing the bit are
steps of their own; a thread may be between any two of them (`doing`).

**LinearAllocator.** `freeRanges` is the ordered list. Sizes and alignments are rounded in numbers of `ArenaWidth` bits, as the code does
in 32.

### Land

**LandService.** Only its own thread touches `work` (the metastates, the
cleanup order, unfinished tasks) and the tables. A tick is `BeginTick`, any number of `Handle...` steps, one per
message, and `FinishTick`, which applies this tick's invalidations, updates keys of
tickets and visits keys for cleanup, in the code's order. Tasks run when their waits
are complete, at any time between steps, in any order (`Run...`), fill in objects the service holds pointers to and
report with a message. What a task computes is what it was made of, so that an outdated result can be told from
a current one. Ages are kept relative to the tick.

**ChunkStorage.** A storage has its masks and nodes as the code packs them; `Compressed` is the constructor with its loop over nodes, leaves and
blocks, `expand` and `load` read it back by counting bits. Edits, copies and moves are calls.

**PseudoChunk.** `Faces`, `DataFromLod0`, `DataFromLod1`, `GeneratedData` and `SurfaceOf` are the five algorithms, over masks of solid corners. The state is the land and
the blocks that were edited; properties are about what the algorithms make of it.

**OctahedraWalker.** The fields of the object; `step` is the call.

### Renderer

**GfxDevice, GfxTransient, GfxMeshes, GfxSwapchain, GfxSystem.** The first four hold the components' state and their
functions as operators on it; `GfxSystem` is `drawFrame`, one action per call that waits or hands
resources back, in the code's order: `StartTick`, `BeginCommands`, `BeginTransient`, `BeginMeshes`, `AwaitFrame`, `Acquire`, `Record`, `Submit`,
`WaitAndReset`, `Present`, `EndTick`. Between any two the GPU may finish a submission (`Gpu`). `finished` is
what the GPU's timelines say, `device.observed` what the CPU has read of them. `uses` are the resources that recorded or unfinished command buffers touch,
`released` those the last step destroyed or reset: they must never meet. `Fault` is an outdated
swapchain or a lost surface, which may come at the acquisition, while the frame is recorded, and at the presentation.

**RenderGraph.** `Declare` adds a pass: `resolveBufferHazards` and `resolveImageHazards` look at `states`, the
last accesses of each part of a resource, and add barriers to `commands`. `Finalize` creates resources, `Publish` and
`RunCommands` are a frame, which exchanges the two images of a double-buffered one, `Rebuild` starts again.

**LandLoader.** `makeDrawList` is a frame: boxes follow the viewpoint where their ticket is held, and `Subtrees` is `makeDrawListSubtree`,
with the meshes it asks for and the draw list it unwinds. `Grant` gives a ticket, `Stream` is a mesh that becomes ready or is
dropped, `onNewState` a new table.

### World and client

**Terrain.** `blocks` are the control blocks. `Tick` is the world's: engagement of superchunks, `updateChunk` over all of them in the code's order, unloading, the published list.
`Lookup` and `Generate` are the two steps of a load task, which looks into the cache at any time. A position's effect is a table of the
level of detail that each chunk should have.

**Client.** `Press`, `Repeat`, `Release`, `Scroll` and `Modifier` are the window's callbacks, inside of `PollEvents`; `Update` and `DrawFrame` the rest of the main
loop. `PollMessages` and `Publish` are the two halves of the world's tick; `Stop` and `Join` its destructor. `held` remembers with which modifiers a key was
pressed and repeated, `loose` the directions that nothing held will end: those that the wheel has set, and those whose key went up under other modifiers.

## What the runs check

Each configuration is named after its run in `PROJECT.json`. For every property
there is a mutant there: a change to one mapped definition, like a bug somebody
could make, under which the run finds the property violated. Mutants stand next to
the definition they change and are marked `(mutant)`.

Five runs pass. A behaviour of `SharedData`, `Services`, `Containers` and `Game` runs one component:

| Run | Component | Instance | Shows |
|---|---|---|---|
| `SharedData` | tracker | 2 threads, 1 list, counters up to 5, spans of 2 to trim | `Exact`: prefix and segments are the completed counters. `SegmentsSound`: sorted, merged, no more segments than gaps, and a trim keeps what is incomplete. `StaleOnce`: a check may deny a complete counter once, never twice. `Promised`: refines `AsyncCounters`. |
| | object pools | 2 slabs of 2 objects, 2 threads of which one allocates; the private pool | `PoolsExact`: every object has its owners or is free, once |
| `Services` | lock | 3 threads, 2 calls each, 2 spins | `Exclusion`, `SleepersCounted` |
| | messaging | a server, a client that comes and goes, 2 messages of any kind, batches of 2, 3 queues | `MessagesExact`: counts of owners, order per queue. `StatusOnce` |
| | ring | 2 producers of a task each, ring of 1, stop at any time | `RingConsistent`, `ImplementsQueue` (refines `BoundedQueue`) |
| | tasks | 2 slaves and 3 tasks (one waits for another, a coroutine awaits that), or 1 slave and 4 tasks (a chain of continuations and a task that waits for its root) | `WorkSound`: counts are exact; tasks begin after what they wait for and complete after their continuations |
| | files | 2 threads, commands, stop at any time | `CommandsInOrder` |
| | locator | 2 threads with a request each, 5 services, two of them in a circle, factories that throw | `StartsSound`: a service is started after all that it needs, however calls cross. While they do not, a service is also started once and destroyed before those it depends on, a circle is reported only when there is one, failed starts leave nothing |
| | all of them | | `AllReturn`: calls of `lock`, file commands and the destructor, waits on requests, pushes and pops, tasks and waits on their handles all come to an end |
| `Containers` | pipe allocator | 2 threads, 3 slabs of 8 bytes, small and aligned requests, 2 allocations each | `PipeSound`: live blocks are disjoint, their slabs kept. `Recycled` |
| | trie, flat map | 7 keys, or 4 with 2 versions, or 3 with 3 versions and 2 copies; 3 keys and 3 versions | `TrieExact`, `FlatMapExact` |
| | shared lock | 2 writers, 2 readers, 4 calls | `Exclusion`: a writer is alone, and the word counts its holders (proved for any number) |
| | storage tree | 3 nested keys, 2 trees, 5 calls, a construction that fails | `TreeSound` |
| | chunk pools | 2 threads, 2 pools of 1, 2 pointers each | `FixedExact` |
| | linear allocator | 14 of 32 units, sizes 1, 3, 4, alignments 1, 4 | `ArenaExact` |
| `LandService` | | column of 2 chunks and LODs 1 to 3 above, 2 ticket owners, 2 calls, 4 ticks | `Accounted`: the service knows its keys, tasks and tickets, no result comes back for a forgotten key. `ReadsGenerated`. `Remembered`: everything made of outdated data is marked or being made again. `SurfacesInOrder`, `DrainedOnDestroy` |
| `Game` | renderer | 4 plans: meshes, streams, window, data | `InFlightKept`: nothing in use is released. `TicksSound`: what is believed complete is, frames in flight are limited. `SurfaceOutlives`. `MeshesSound`: pools are exact, a mesh called ready is uploaded |
| | render graph | up to 3 of 8 passes, 3 frames | `GraphSound`: conflicting accesses are ordered and find their layout; handles are alive and made for what is done with them |
| | old terrain | 2 superchunks of 3 levels, 3 positions, 4 moves | `TerrainSound`: active chunks cover the land once and have their data |
| | coroutines | 3 sub-tasks, 2 counters, hundreds of programs | `CoroSound`: the list is the chain of suspended calls; a coroutine goes on when what it awaited is over; frames live as long as something leads to them |
| | geometry | chunks of 2 blocks a side, 3 lands, 2 edits | `GeometrySound`: data at two levels is exact, aggregated or generated, surfaces are closed and face the right way |
| | storage | 2 nodes of 3 leaves of 2 blocks, 2 calls | `RoundTrip` |
| | client | 2 settings, 4 events, 2 loops | `ClientSound`: the player moves only while a key for it is held, or where the wheel or changed modifiers have left a direction on; the world follows messages |
| | loader | 3 levels, 16 places, 2 viewpoints | `LoaderSound`: what is drawn covers what can be shown, once |
| | walker | radii up to 3 | `WalkExact`: nearest first, none left out or repeated |

Seven runs end in a counterexample:

| Run | Violates | Instance |
|---|---|---|
| `TaskQueueStop` | `StopReachesSlave` | 1 producer, ring of 2 |
| `TaskServiceFork` | `CompletedOnce` | 2 slaves, a task with two continuations |
| `FutexRWLockLost` | `SleepersCounted` | the shared lock as above, 5 calls |
| `LandServiceReaggregation` | `ReaggregationForced` | the land service as above |
| `StorageTreeLive` | `NullOnlyIfAbsent` | the storage tree as above |
| `TerrainUnload` | `UnloadsLoaded` | the terrain, with `UnloadLoading` |
| `CrossingCallers` | `CircularOnlyIfCircular` | the locator as above |

`UnloadLoading` and `Lossy` are bounds on the inputs: where they are FALSE, the passing run leaves out the situation
in which the code is known to fail, so that it can tell of everything else. (`Lossy` is FALSE in every run: what it leaves out is
among the disagreements.) `crossed` and `loose` are histories: the properties that read them say less of what comes after such a moment, and the instances reach it.

Type invariants (`TypeOK`) are conjuncts of the first property of a component of the service layer; those of the
tracker and the lock are proved. In the other modules they would say nothing that the evaluation of
the actions does not.

## Bounds, and why they are enough

*Tracker.* Lists share nothing but the allocation of counters, so one list shows what
any shows; that they do not disturb each other is part of the proof, for any number.
Five counters make room for two segments with gaps below and between, which meet when the gap
closes on either side; two threads race prefix against segments. The proof has no
bounds on any of them.

*Ring.* One slot is full after one push, so the second producer meets the full ring,
the slot in use and the slave's turn between freeing the index and taking the task.
`IndexModulus` is 8, large enough never to be reached: the wrap itself is not checked
(below). The ring of `TaskQueueStop` is never full; only the wait and the stop matter there.

*Tasks.* The programs have what is hard about each relation: a wait, an await, a
continuation of a continuation, and a task that waits for a whole tree; two slaves
where the tasks run freely. The chain of continuations runs on one slave, because two slaves
with continuations meet the double completion of `TaskServiceFork`. `RunLength` (50 in the code) is 1: an independent
task is executed in between, then the slave returns to those that wait.

*Coroutines.* Three sub-tasks call each other in a chain or one after the other; each ends at once, suspends
once or twice, or throws before or after it has suspended. Every combination of these is a program.

*Locks.* Three threads are a holder, a sleeper and a newcomer. Two calls each let
everyone be each of them in turn. The lost wake-up needs two readers and two writers
and both calls of one of the readers, five in all.

*Messaging.* Two messages meet each other in a batch and in a queue, and a request
meets its own way back. Three queues are one each and one more for the client that
returns, or for a second registration. One client leaves and returns, with its
requests on their way.

*Locator.* The dependencies of the engine's own services and two services that need each other; a factory may throw at every turn. Two threads with one request each meet in
every place of `requestService`, and their calls cross or do not; what a third one would add is in the proof.

*Allocator.* A slab of eight bytes, one of control data, is exhausted by the
allocations of one thread; three slabs are one per thread and one on its way through
the lists. The threshold of free slabs is 0, so that slabs are deleted and mapped again.

*Containers.* Tries have two roots and nodes of four slots, so that seven keys share nodes on three levels and fill them beyond their first capacity. Three versions and two copies are
an item older than, of, and newer than a copy. The tree's keys are a chunk, its enclosing node and the subnode between, so that each is removed above and below
the others; five calls are an access or two, a copy, an access that copies the path, and a removal or two. `StorageTreeLive` has six.
Pools have two slabs, so that one ends while the other begins.

*Land.* Neighbouring keys of the same LOD, a key with two children and one with
chunks of a neighbour under it all occur in a column of two chunks. LOD 0 is generated,
LOD 1 made of its chunks, LOD 2 directly when virgin, LOD 3 of LOD 2. `StaleAge` 1 (750 in
the code) lets keys be forgotten within 4 ticks; `KeysPerTick` 1 (500) makes a
ticket's keys wait for later ticks; `VisitsPerTick` 4 (1000). Two calls are a ticket
and an edit under it, a ticket moved or dropped, or two owners. Calls of owners that are
alike and edits of one chunk are enough, because the second chunk and higher keys are reached as neighbours
and parents.

*Geometry.* A chunk of two blocks has blocks in every corner, and all its cells lie at borders, where the algorithms are hard. Lands are flat, sloped and empty;
two edits dig holes or put blocks next to or apart from each other, at faces, edges and corners between chunks.

*Renderer.* Two frames in flight, as in the code. Eight ticks let a mesh be uploaded, drawn, forgotten
(`STALE_KEY_AGE_THRESHOLD` 1), its pool be emptied and destroyed (2), and a new version come meanwhile; two
meshes share a pool of three elements, so that a moved one leaves waste. A mesh that is forgotten while it is being moved
would need a ninth tick and is not reached. The plans vary one thing at a time: a window
that is outdated or lost up to twice; scratch and constant buffers that grow. Every frame may find the GPU any number of submissions behind.

*Render graph.* Passes with a double-buffered image, an image of two mips read and written in part, a depth buffer and a dynamic buffer; three passes are a write,
and two readers or a second write.

*Loader.* Three levels have a middle one, whose coarser and finer neighbours may each be missing. *Terrain.* A superchunk of three levels can split, split again and join while the position comes back; the second one is far, ages and is unloaded.

*Client.* Four events are two keys pressed and released across a change of mode; the second setting has two keys for one action and a key with two actions,
the first one also the wheel for a direction. Modifiers change at any time.

`CHECK_DEADLOCK FALSE` is given where bounded calls end or the service has stopped.

### What the models leave out

Memory is sequentially consistent. The orders on the atomics were read along with
the code; two look too weak, which no run can show: the `fetch_or` at svc/message_handling.cpp:91 releases only,
while a status it finds is then acted upon, and the last `fetch_sub` of `src/include/extras/fixed_pool.hpp` releases only, while the object is then destroyed.
Reference counts do not overflow
(16 bits; a task or message would need 65536 owners). Failed allocations are modelled where they are part of the algorithm:
in `PipeMemoryAllocator`, `SharedObjectPool` and `StorageTree`. Weak compare-exchanges that fail for no reason repeat
the same turn and are left out.

## Fairness

Weak fairness, with one exception, of steps a running thread is about to take. The operating system runs every ready
thread, which is weak fairness, and promises nothing about who wins a race.

- Ring: begun pushes, the slave's loop and a begun stop go on; nobody has to push
  or to stop. Where `TaskQueue` is checked alone (`TaskQueueStop`) the slave calls `popTaskOrWait` or, with tasks of its own to attend to,
  `tryPopTask`; that it runs out of such tasks again and again is strong fairness of the
  blocking call, and stands for what `AllReturn` says of the task service.
- Tasks: every slave thread and every thread in `wait` goes on. No fairness of
  enqueuing, of calls of `wait`, of the stop.
- Lock: `Steps` includes `Unlock`, since a lock is only worth waiting for if
  holders release it. A wake-up may go to any sleeper; the lock is unfair, but with bounded calls
  nobody can overtake for ever, which is what `AllReturn` says of it.
- Pipe allocator: the collecting thread runs, nobody else has to.
- Messaging: begun operations go on and servers poll or wait again. Timeouts and spurious
  wake-ups are not counted on, so that a lost wake-up shows.
- Files: begun pushes, the I/O thread and a begun destructor go on.

The shared lock and the land service have no liveness properties: the first loses wake-ups (below),
in the second ticks are bounded. In the renderer waits are guards: the GPU finishes in any order of queues and at any
pace, so that what a wait must not overlook shows as safety. The containers have calls that return.

## What is proved

For every value of the constants, by TLAPS. All theorems are about the
specifications as TLC checks them.

**MCSharedData_proof, the completion counters.** `TypeCorrect`, `ExactCompletion`,
`StaleAtMostOnce`, `CompletionIsStable`, `TrackerImplementsCounters` and `SegmentsStaySound`, for any number of
threads, lists and counters, from `ListsAssumption` (there is a list) and
`BoundsAssumption`. All but the last follow from one inductive invariant, `IInv`:

- `TypeOK`, and `ArgsOK`: what the thread's `pc` tells about its arguments (a thread
  that inserts has claimed its counter and not yet marked it);
- `InsertersDiffer`: no two threads insert the same counter;
- `CursorsOK`: the cursor and `remaining` of a trim are within its span;
- `SegmentsOK`: each segment is well-formed, its first value not above its last;
- `ExactEverywhere`: *every* value of every list is covered exactly if its counter is
  marked; `Exact` says this of the allocated ones only, which is not inductive, for an
  allocation would have to know that nothing covers the new counter;
- `StaleOnce`.

The heart of the argument is `AddToSegmentsAdds`: whichever of its three cases
applies, the insertion into a list of segments adds exactly the given value to what they
cover. It rests on lemmas about the merge of neighbours and on
`SequenceLemmas`, facts about insertion, removal and prefixes of sequences. The
collapse moves a segment that begins right above the prefix into it and so covers the same. Each
action then is an instance of `CoverOneMore`, `CoverTheSame` or `PrefixGrows`.
The refinement maps `completed` to the covered counters, which the invariant says are the marked ones. 

`SegmentsStaySound` adds two parts. `SegmentsOrdered`: of any two segments, neighbours or not, the later one in the list ends below the
other with a gap between them, and all begin above the prefix. The pairwise form is what an insertion can be shown to keep without induction over the
list (`AddKeepsOrder`): the value is in no segment, for its counter is unmarked, and `AddToSegments` puts it where nothing else
touches it. The bound on the number of segments then follows from `GapIncomplete`: the counter right above each segment but the first is allocated, being below a marked
one, and not marked, being covered by nothing, and these counters differ. `SpanRearranged`: the span of a running trim is its argument rearranged, by a
permutation that a swap extends (`SwapRearranges`), and what lies behind `remaining` is marked; so what is not complete is kept as often as it was there (`KeptOccurrences`).

**MCSharedData_proof, the object pools.** `PoolsStayExact`, of `AnySpec`, for any finite set of threads and any sizes, slabs and numbers of pointers, under `PoolAssumption`: at most one
thread allocates, the limit within which the property is true of the code (Disagreements). An object that was given out, is in no thread's hands and has no pointers is `Resting`, and
`Listed` says that the links lead from the top through exactly these, each once; that the links end, that the recursive walk of `PoolExact` finds what rests, and that pops and pushes keep the
list follow (`ListedWalk`, `ListedPop`, `ListedPush`). What defeats the stale link is `SeenListed`: what the allocating thread has seen on top
rests until that thread takes it, whatever is pushed over it, so the link it has read is still the one that is there when the exchange succeeds. `MoversApart`, `RefsCounted` and `LiveCounted` balance threads, pointers and counts. The
private pool is the same list without interleaving.

**MCServices_proof.** About `AnySpec`, the specification of the run `Services`, whatever the constants. Each component
has an invariant over its own variables, which holds whichever component runs; a step of `AnySpec` is one of the component or leaves these variables alone.

- *Lock*: `TypeCorrect`, `MutualExclusion` and `NoLostWakeUp`, for any number of threads, of the lock's own `Spec`. The invariant adds to the
  three properties `LocalsOK`: a thread spins while it has turns left, and announces itself on a lock it saw taken.
  `SleepersCounted` is inductive given the exclusion: the only step that clears the mark is the unlock, which goes
  on to wake, and a woken thread that takes the lock marks it again.
- *Files*: `CommandsPerformedInOrder`, for finitely many threads that push. A command is counted after it is queued, and taken off the
  count only after a batch, so `QueueCounted` balances three numbers: the count less what was performed of the batch, and the threads between queuing and counting,
  are the length of the queue. `QueueOrder` says that performed, current and queued commands are those pushed, in order.
- *Ring*: `RingStaysConsistent` and `RingImplementsQueue` (every step is a step of `BoundedQueue` or a stutter), for any finite set of producers under `NoWrapAround`: the tasks pushed are
  fewer than the values of an index. Where indices wrap around, a producer that was asleep all the while takes a reused index for the one it read; the code (31 bits) has the same
  limit, which is listed among the disagreements. `SlotsOK` is the strengthening: a slot is empty, or holds the task that the order of reservations
  puts there, or is reserved for a producer about to store it, and no two of those meet because the indices in use differ by less than the ring's size (`SlotsApart`). Producers may hold stale copies of the word (`SeenOK`).
- *Locator*: `ServicesStartSoundly`, for any services, any acyclic or cyclic dependencies, any number of callers and of requests, and no further assumption. That a service is
  started only after what it needs is so for every interleaving: `CallsOK` knows of every call on every stack how far it has come, and what a factory has been
  given is in `startOrder` for good (`StartedOK`). The rest is said while no call has looked at `pending_services` during a start by another thread (`crossed`):
  then at most one thread is starting (`OthersStart`), the entries are exactly its calls (`PendingOK`), so the circle that is found is one (`CircleFound`), the entry that is taken off is the
  caller's own, and nothing is started twice (`StartedOnce`). After such a moment it is false of the code (`CrossingCallers`).

**Messages_proof.** `MessagesStayExact` and `StatusIsSetOnce`, of `AnySpec`, for any agents, queues and numbers of messages, and no further assumption. The invariant says for
each message the place it is in (`Located`): about to be pushed, in one queue, in the batch of one receiver, lost with a queue or gone; and where its request's handle is. From there
the count is the number of owners (`Counted`), and `OrderedOK`, that messages from one agent to another are in every place in the order they were sent, follows from
the identities growing. The status of a request is set while its message has still to come back (`StatusOK`), hence once. `Apart` and `FlowKept` carry the
parts of the invariant an action does not touch; most actions move one message from one place to another and are instances of `Moved`.

**GfxSystem_proof.** `TicksStaySound`, `SurfaceStays`, `MeshesStaySound` and `FlightsKept`, of `Spec` of `GfxSystem`: all four invariants of the renderer that the run
`Game` checks, for any number of frames in flight, queues, streams, keys, sizes and plans. The assumptions: a frame may be pending (`PendingAssumption`), a plan names existing keys and asks for
amounts, and no mesh is larger than a pool (`PlansAssumption`, and `QueuesAssumption`, `MeshesAssumption`, `TransientAssumption`: elements and steps of sizes are not zero, keys and streams are finite in number).
The invariant has three parts, of which each uses those before it.

- Time, `TicksInv`. `TimelinesInOrder`: what is seen of a queue is finished, what is finished was submitted. `UsesPending`: a use is not finished, belongs to no completed tick,
  and was submitted unless its command buffer is being recorded (`Recording`), which depends on the step of the frame. `PacksCover`: a pack of timelines that the tick source keeps covers all uses of its tick and of
  those before, which is why completing it completes them; `TicksPacked`: every tick between the completed and the current one has its pack, so that a wait for a tick always finds one. `SetsServed`: the last
  ticks have each their own set of command pools, so the tick waited for is exactly MAX_PENDING_FRAMES old and `FramesLimited` follows. `FramesSubmitted`: semaphores and contexts wait for submitted values.
  Steps that change neither ticks nor timelines are instances of one lemma each (`QuietKeeps`, `RecordingKeeps`, `SubmittingKeeps`).
  `SurfaceOutlives` is inductive with one addition (`SurfaceKept`): nothing is drawn without a swapchain.
- Meshes, `MeshInv`: the streamer's state between two steps is `Good` (below), nothing being in hand.
- Flight, `FlightInv`. A resource is released in two ways, and the invariant says of each why nobody uses it any more. What waits in the destroy queue (`JunkKept`) is
  `Retired`, that is, no longer reachable from the pools, contexts, images and graph from which new commands are recorded, and its uses are no later than the tick of its item. What is reset in place is dated: the uses of a
  command pool by the tick of its set (`SetsKept`), those of a context and its constant buffers by the context's timeline (`FramesKept`), those of the semaphores of
  an image by the swapchain's (`ImagesKept`); each bound excepts the commands now being recorded, and `RingApart` (no two contexts have a constant buffer in common) keeps these to the
  current context. `MainKept` says which resources only the main queue uses, whose timeline is the one waited for. `TicksInv` turns a completed tick or
  value into no pending use, and that is what every release has waited for. `FlightStep` lists how far a step may change all this, `FlightKeeps` shows that
  such a step preserves `FlightInv`, and one lemma per action (`...Flies`) that the action is one and that what it releases is not in use.

**GfxMeshes_proof.** The lemmas about the mesh streamer and its staging buffers that the previous module uses. `Good` is the invariant in the middle of an operation, with one
mesh's allocations in hand; every operation of `GfxMeshes` keeps it, from a single allocation to the fold over the keys visited in a tick.

- `Housed`: every mesh, ready, in transfer or in hand, has space of its own in a pool of its element size, and each pool's counts are the sums of what lies in it. Sums are over
  sets, so the module proves first what a fold over a finite set is when one element is added, taken or exchanged: by the least counterexample, as the induction theorems of the library cannot be used.
- `PoolsUsed`, `Touched`: no use of a pool is later than the pool's last access, so a pool whose last access is complete may be reset, and a pool with a use has been allocated from since its reset, so one that is stale may be destroyed; `BuffersUsed` says the same of the staging buffers.
- `CopiesKnown`: what is ready was copied, and what is not was recorded or submitted no later than its transfer's tick, so that the completion of that tick makes it ready.

**Containers_proof.** The shared lock, the chunk pool of the old terrain and the pipe allocator.

`ReadersWriterExclusion`, for any finite set of readers, any writers, and
`Assumptions`: nobody is both during a call. `Exclusion` speaks of the number of shared holders, so the invariant is
kept in terms of the set `Sharers`: `CountOK` says that the word's count is its cardinality, `WriterOK` that the exclusive bit is set while one writer
holds the lock and no reader does, `RolesOK` which steps a reader and a writer can be at. Each action is then an instance of one of five lemmas:
`QuietStep` (nobody takes or leaves the lock, though the waiting bit may change), `TakenStep`, `FreedStep`, `JoinedStep`,
`LeftStep`. That sleepers are remembered is not proved: it is false (`FutexRWLockLost`).

`PoolStaysExact`, of `FixedSpec`, for any finite set of threads and any numbers of pointers, subpools and places, of which `FixedAssumption` asks only that one of the threads
allocates. The count of an object is the cardinality of a set of pointers that changes while a release is under way: the pointer still has the object that it no
longer counts for. `DoingOK` says what a thread is in the middle of (in particular that an assignment's new object is held by another pointer of the same thread, which nobody
else can drop), `CellOK` for each object that it is held, or being destroyed by one thread, or free; `SubpoolsOK` that the list has no subpool twice. `HolderAdded` and `ReleaseKeeps` are the arithmetic.

`PipeStaysSound`, of `PipeSpec`, for any finite set of slabs, any threads, sizes and alignments; `RequestsAssumption` asks that a request fits an empty slab, which the code
makes sure of with `MAX_ALLOC_SIZE` and `MAX_ALIGNMENT`. `Whereabouts` has every mapped slab with one thread, on one list, or about to be deleted; `BlocksOK` has the blocks of a slab in
the part its `bytes` count, and as many as its `live` says, so that a slab whose count is seen at zero has none, whatever threads do between that look and its reuse: nobody
allocates in a garbage slab. `StepsOK` carries what a thread has been promised across the lock, first of all that the slab `replaceSlab` returned has room (`Ready`).

**World_proof.** The player and the land around, in three parts.

- *Keys*: `DataDependentsExact` and `SurfaceDependentsExact`, at any altitude
  and for the nine LODs: the keys a finished task's completion invalidates are exactly
  those whose sources contain its key. The first is the arithmetic of parents (a division
  by a power of two that is rounded) against that of children.
- *Walker*: `WalkStaysExact`, of `WalkerSpec`, for any radius. The invariant orders the points of an octahedron as the walker does, by row, by place in the row and
  by side (`Passed`), and says that what has been visited is what is nearer than the present octahedron and what was passed of it. One lemma for each way a
  step can end: below the base, the next point of a row, the next row, the next octahedron.
- *Client*: `ClientStaysSound`, of `ClientSpec`, for any keys, settings, modifiers and numbers of events and frames, and no further assumption. `MovesInv` says that a direction is
  set only while a key is held that meant it when it was pressed or repeated, or the direction is in `loose`. The release of the last such key ends the direction, or is the release of
  something else because the modifiers have changed; that is when it becomes loose. `FollowInv` says where the world is after the messages it has handled; a poll handles several, which is a fold over the rest of the queue and is taken message by message.

Checked by TLC only, and not proved:

- liveness (`AllReturn`, `Recycled`, `DrainedOnDestroy`): under fairness it is outside what TLAPS can prove here;
- the land service and the containers (tries, tree, linear allocator): their modules have recursive
  operators or compute with folds over data; what those return for every input needs an induction the installed provers
  cannot instantiate. `WorkSound` of the tasks rests on a recursive count of descendants in the same way;
- the render graph, terrain, loader of land and coroutines (Plan).

## Disagreements with the comments

Seven runs end in a counterexample to something a comment says; `findings` of
`PROJECT.json` quotes the lines.

- `TaskQueueStop`. The slave raises the wait flag and then sleeps on the word from
  before. If the stop clears the flag in between, that word is current again, the wake
  was too early, and the slave sleeps through the stop; the destructor's join hangs.
- `TaskServiceFork`. The last continuation may end between the end of the functor and the
  look at the continuation count, and complete the task; the slave, which
  finds no continuations, completes it again. The code's own TODO suspects it.
- `FutexRWLockLost`. A reader that was last clears the waiting bit after the lock has been
  taken and waited for anew, and wakes one thread, which may be a reader: a writer is left asleep
  on a free lock.
- `LandServiceReaggregation`. New data of a chunk marks the data of a coarser key outdated, but a
  ticketed key looks at that flag only after its surface flag, which nothing
  sets. A key of LOD 1 or higher that was shown once never follows an edit under it.
- `StorageTreeLive`. A node copied at a later tick forgets which keys were accessed: a lookup of one finds nothing, and the removal
  of another may destroy the node.
- `TerrainUnload`. A superchunk that has aged is unloaded with chunks that still load; the cache gets
  them empty while their tasks fill them.
- `CrossingCallers`. Services being started are in one list for all threads, and the lock is released while a factory runs: a thread that requests
  what another thread is starting is told of a circular dependency where there is none. (What leaves the list is its last entry, whosever it is, so such calls may also
  start a service twice; the locator's class comment says that its functions are fully thread-safe.)

Others were met while modelling and have no run. They behave in the models as in the code,
and the properties are stated so as not to depend on them, or the instances leave them out where that is said.

Services and threads:

- `requestStopAll` computes the new word once, so a second turn of its loop stores
  outdated indices (svc/task_queue_set.cpp:304); the destructor's loop to drain the rings pops nothing
  once they are stopped (:67).
- The 31-bit indices of a ring are compared without regard for the wrap (:96, :99). A task that pushes into the full ring of its own slave waits for
  itself (:116).
- A continuation may run before the functor that enqueues it has ended (svc/task_builder.hpp:28).
- Tasks left in the queues when the service stops are never run, and who waits for them waits for ever (svc/task_service_slave.cpp:183).
- A message pushed to the queue of an agent that has just left ends in a free queue or in
  its next owner's (svc/messaging_private.cpp:292), not dropped (messaging_private.hpp:148).
- Requests in the queue of an agent that leaves are released and never marked `Dropped`
  (svc/messaging_private.cpp:157, `src/include/voxen/svc/message_handling.hpp:26`): `wait` on them never returns. `AllReturn`
  speaks of agents that stay.
- A plain handler's exception loses the rest of the batch (svc/message_queue.cpp:125), and polling goes on as long as
  messages arrive, not just through those "queued at this moment" (`src/include/voxen/svc/message_queue.hpp:121`).
- The I/O thread leaves when it has seen the stop, with the commands pushed since it last took the queue (svc/async_file_io_service.cpp:106): their
  counters never complete.
- Two threads that allocate from one `SharedObjectPool` may lose an object: the link read from the top of the free list may be stale when
  the exchange succeeds. The header says "This pool IS thread-safe" (`src/include/voxen/common/shared_object_pool.hpp:190`), the code relies on one allocating thread (common/shared_object_pool.cpp:142); the
  slab size is not what the hint of the constructor promises (hpp:203).

Containers:

- `visitDiff` of the flat map ends with the last item of the new container, so that removals above it are not reported
  (`src/include/voxen/common/v8g_flat_map_impl.hpp:273`), although v8g_flat_map.hpp:167 promises every pair that was added, removed or updated. `FlatMapExact`
  leaves that case open: it asks for every change up to that item, and for nothing that is not a change.
- Removing an item of a full node of the storage tree moves items over the data behind them (land/land_storage_tree_nodes.cpp:128); removing from one that is not
  full reads one place that was never written. Items of a tree copied in the same tick are written in place.
- A size near the largest number is aligned up to zero and granted as an empty range, although the allocator means to "Outright reject unfeasibly big
  requests" (`src/include/extras/linear_allocator.hpp:52`). The instance has no such size. Only the tests use this allocator.
- The allocation from a chunk pool is marked "TODO: not thread-safe"; the instance has one allocating thread. Assigning to a pointer from inside of its own object (`p = p->next`) releases
  the object before it reads from it.

Land:

- An edit that changes nothing does not report and leaves the pending count up for ever (land/land_service.cpp:118);
  the count has eight bits (:133).
- A block edit handled by the land service's last poll enqueues a task that nobody waits for (:233).
- A coarse key that is forgotten and referenced again counts as virgin and is generated without
  the edits below it (:654).
- The top row of a box ticket is left out (:285) and a ticket of more than 500 * 750 keys may lose some between two
  updates (:323).
- A chunk whose nodes are uniform but differ comes back filled with the value of the last: `met_uniform_node` is set by a node of zeros only
  (land/compressed_chunk_storage.cpp:141), although the comment at :145 says "Several different uniform values, disable it". The run leaves such chunks out (`Lossy`).
- An edit rewrites its chunk in place while tasks of neighbours may read it (land/land_service.cpp:115); `RunEdit` is one step, and no property depends on what they read then.
- The copy constructor of a storage of blocks swaps the arguments of its `std::copy`; the `bool` variant's `load` and `expand` do not read what its
  constructor writes. The program uses neither.
- Border edges of a pseudo-chunk that lie two axes away get their quad from two chunks (land/pseudo_chunk_surface.cpp:519, `||`); generated data of virgin
  pseudo-chunks need not agree with aggregated data next to it (the code says so). More than 65535 vertices break the
  indices, and block ids above 255 the keys of vertices.

Renderer:

- The tick source erases from the first complete pack on, the comment (gfx/frame_tick_source.cpp:96) speaks of what is behind it; both come to the same with packs in order.
- A second read in another stage, after a read that had its barrier, gets none (gfx/vk/render_graph_builder.cpp:512, :580), although render_graph_builder.hpp:167 says that "Proper synchronization
  operations according to `usage` will be automatically recorded". `BarriersSound` excepts it (`Shared`).
- Nothing orders a frame's accesses after those of the frame before; the previous image of a pair loses its contents by the
  transition from UNDEFINED that begins each frame. A view whose first mip is not 0 with all remaining mips counts too many. The old graph of the land pass fills draw commands and
  dispatches them without a barrier.

World and client:

- The assertion of `parseToken` (`src/src/client/input_event_adapter.cpp:493`) fails for a setting that cannot be read when the default is several keys (`PauseGame`).
- A key released with other modifiers than it was pressed with is released as another one: the player walks on. A direction that settings bind to the wheel is never released either.
  `HeldMoves` names these two cases (`loose`) and no other.
- Choosing an item after a click in the same frame changes the block that is put. World ticks before the first message load the
  terrain around the origin, where the player is not.
- The cache takes the data out of a chunk when it is loaded again, which readers of an older world state may still hold
  (`src/src/common/terrain/cache.cpp:21`). The direction of a coarser chunk is the logarithm of a
  distance, converted to an unsigned number.

## What is not modelled

`PROJECT.json` lists every part with its status. In short:

- pure input and output, the window, configuration, logging, the Vulkan driver's calls: nothing
  a model would tell;
- numeric code (terrain noise, positions and normals of vertices, the camera, images, hashing): its inputs
  and outputs are in `LandService` as what was made of what, in `PseudoChunk` as masks;
- the old Vulkan backend and the font renderer, which are created once and draw in order;
- copies of task handles, the early trim of long lists of counters, and several agents on one thread;
- x and z of chunk keys: `LandKeys` is one column; the three axes are treated alike
  except for the world's height. The loader of land and the terrain have one dimension for the same reason;
- one scratch buffer stands for the few of a frame's recording, and an attachment for one that is written: no function of the code makes a read-only one;
- the contents of a cache with several sets, iterators of containers, and functions without a caller;
- UIDs and developer tools, which interact with nothing.

## Plan

Theorems to add, in this order:

1. `CoroSound`, by an invariant that follows the call tree of the coroutines.
2. `ArenaExact`, once the program uses the linear allocator.

Models to extend: copies of task handles; a second lane of the world (x) in `LandKeys`; dependencies between frames in
`RenderGraph`, once the code records them; once the list of pending services is each thread's own, `StartsSound` without `crossed`.
