---------------------------- MODULE MCContainers ----------------------------
(***************************************************************************)
(* Memory, containers and the lock of shared tables side by side: the pipe *)
(* allocator with slabs of eight bytes, one of them control data, the      *)
(* versioned maps and trees, the pools of the old code, and FutexRWLock,   *)
(* which guards the routes of messages.  A behaviour runs one of them and  *)
(* leaves the others in their initial states.                              *)
(***************************************************************************)
EXTENDS FutexRWLock, PipeMemoryAllocator, FixedPool, TLC

CONSTANTS t1, t2, s1, s2, s3, w1, w2, r1, r2,
          KeySets, HashBits, ROOT_NODES_LOG2, NodeBits, ItemSize, NodeItemSize, MaxCopies,
          FlatKeys, FlatTimelines, FlatCopies,
          DuoLevels, TriBits, RootItems, TreePaths, Capacity, Trees, Failing, MaxTreeCalls,
          ArenaWidth, FullSize, Granularity, Sizes, Aligns

VARIABLES
  component,
  bound, heap, trie, copies, timeline, contents,
  items, snapshots, now, map,
  nodes, roots, tick, treeCalls, stored,
  freeRanges, used, notified

Trie == INSTANCE HashTrie
Flat == INSTANCE FlatMap
Tree == INSTANCE StorageTree WITH calls <- treeCalls, MaxCalls <- MaxTreeCalls
Arena == INSTANCE LinearAllocator

ASSUME DisjointThreads == ThreadsAssumption
ASSUME ArenaAssumption == Arena!ArenaAssumption
ASSUME TreePathsSound == Tree!PathsSound([x : -66..66, y : -5..4, lod : 0..3])

TwoWriters == {w1, w2}
TwoReaders == {r1, r2}
TwoThreads == {t1, t2}
ThreeSlabs == {s1, s2, s3}
SmallAndAligned == {<<1, 1>>, <<2, 4>>}

\* More keys with fewer versions: with one timeline nodes fill, grow and shrink, with
\* three they are shared with two copies.
SmallTries == {<<{0, 1, 4, 5, 8, 9, 12}, 1>>, <<{0, 1, 4, 16}, 2>>, <<{0, 1, 4}, 3>>}

\* A chunk, a subnode of the node that encloses it, and that node.
NodePaths ==
  LET Path(x, y, lod) == Tree!PathOf([x |-> x, y |-> y, lod |-> lod])
  IN <<Path(0, 0, 0), Path(0, 0, 1), Path(0, 0, 2)>>

trieVars == <<bound, heap, trie, copies, timeline, contents>>
flatVars == <<items, snapshots, now, map>>
treeVars == <<nodes, roots, tick, treeCalls, stored>>
arenaVars == <<freeRanges, used, notified>>
otherVars == <<trieVars, flatVars, treeVars, fixedVars, arenaVars, vars>>
allVars == <<component, pipeVars, otherVars>>

InPipe(A) == component = "pipe" /\ A /\ UNCHANGED <<component, otherVars>>
InTrie ==
  /\ component = "trie" /\ Trie!Next
  /\ UNCHANGED <<component, pipeVars, flatVars, treeVars, fixedVars, arenaVars, vars>>
InFlat ==
  /\ component = "flat" /\ Flat!Next
  /\ UNCHANGED <<component, pipeVars, trieVars, treeVars, fixedVars, arenaVars, vars>>
InTree ==
  /\ component = "tree" /\ Tree!Next
  /\ UNCHANGED <<component, pipeVars, trieVars, flatVars, fixedVars, arenaVars, vars>>

InFixed ==
  /\ component = "fixed" /\ FixedNext
  /\ UNCHANGED <<component, pipeVars, trieVars, flatVars, treeVars, arenaVars, vars>>
InArena ==
  /\ component = "arena" /\ Arena!ArenaNext
  /\ UNCHANGED <<component, pipeVars, trieVars, flatVars, treeVars, fixedVars, vars>>
InLock(A) ==
  /\ component = "lock" /\ A
  /\ UNCHANGED <<component, pipeVars, trieVars, flatVars, treeVars, fixedVars, arenaVars>>

\* Only the component that runs is given all of its initial states.
AnyInit ==
  /\ component \in {"pipe", "trie", "flat", "tree", "fixed", "arena", "lock"}
  /\ PipeInit /\ Trie!Init /\ Flat!Init /\ Tree!Init
  /\ FixedInit /\ Arena!ArenaInit /\ Init
  /\ component # "pipe" => want = [t \in Threads |-> <<1, 1>>]
  /\ component # "trie" => timeline = 1 /\ Cardinality(bound[1]) = 3

AnyNext == InPipe(PipeNext) \/ InTrie \/ InFlat \/ InTree \/ InFixed \/ InArena \/ InLock(Next)

\* The allocator's collecting thread runs.
AnySpec == AnyInit /\ [][AnyNext]_allVars /\ WF_pipeVars(component = "pipe" /\ GcSteps)

-----------------------------------------------------------------------------
(* Properties; what they say in detail stands in the modules.  Those of the *)
(* pipe allocator are PipeSound and Recycled there, those of the chunk      *)
(* pool and of the lock FixedExact and Exclusion.                          *)

\* The free ranges of extras/linear_allocator.hpp and those handed out fill the arena
\* without overlap, free neighbours are merged, and the owner hears that all came back
\* exactly when it did.
ArenaExact == component = "arena" => Arena!ArenaExact

\* Every copy of the land storage tree (land_storage_tree.cpp) has the keys put into it,
\* each node it can reach is alive and counted, whatever the other copies do and
\* even if a construction fails half way.
TreeSound == component = "tree" => Tree!TreeSound

\* A lookup in the storage tree does not deny a key that was accessed and not removed
\* (land_storage_tree.hpp).
NullOnlyIfAbsent == component = "tree" => Tree!NullOnlyIfAbsent

\* Every copy of a hash trie (v8g_hash_trie_impl.hpp) stands for the map it was made of
\* while nodes are shared, copied, grown and shrunk; a difference of two copies
\* names each key that differs once.
TrieExact == component = "trie" => Trie!TrieExact

\* The same of the sorted array (v8g_flat_map_impl.hpp), as far as differences go that are not
\* removals above its largest key.
FlatMapExact == component = "flat" => Flat!FlatMapExact
=============================================================================
