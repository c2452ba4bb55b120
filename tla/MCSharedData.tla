---------------------------- MODULE MCSharedData ----------------------------
(***************************************************************************)
(* What many threads share, side by side: the completion counters, and the *)
(* object pools with slabs of a few objects.  A behaviour runs one of them *)
(* and leaves the others in their initial states.                          *)
(***************************************************************************)
EXTENDS AsyncCounterTracker

CONSTANTS t1, t2,
          Holders, Allocators, MaxObjects, MaxSlabs, MaxRefs,
          MaxPrivate, MaxPrivateSlabs

VARIABLES
  component,
  top, link, slabs, initial, liveCount, refs, poolPc, mine, seen, next, held,
  freed, links, newest, started, lives, owned

Pool == INSTANCE SharedObjectPool WITH Threads <- Holders
Private == INSTANCE PrivateObjectPool

ASSUME SlabLayout ==
  \A size \in {1, 8, 13, 16, 30, 100}, hint \in {1, 2, 7, 64} : Pool!LayoutSound(size, hint)

TwoThreads == {t1, t2}
Symmetry == Permutations(Threads)

sharedVars == <<top, link, slabs, initial, liveCount, refs, poolPc, mine, seen, next, held>>
privateVars == <<freed, links, newest, started, lives, owned>>
allVars == <<component, vars, sharedVars, privateVars>>

InTracker == component = "tracker" /\ Next /\ UNCHANGED <<component, sharedVars, privateVars>>
InShared == component = "shared" /\ Pool!Next /\ UNCHANGED <<component, vars, privateVars>>
InPrivate == component = "private" /\ Private!Next /\ UNCHANGED <<component, vars, sharedVars>>

AnyInit ==
  /\ component \in {"tracker", "shared", "private"}
  /\ Init /\ Pool!Init /\ Private!Init
AnyNext == InTracker \/ InShared \/ InPrivate
AnySpec == AnyInit /\ [][AnyNext]_allVars
-----------------------------------------------------------------------------
\* Each object of a pool (shared_object_pool.cpp, private_object_pool.cpp) is handed out to
\* its owners, as many as are counted, or lies once on a free list: none is lost or given twice.
PoolsExact ==
  /\ component = "shared" => Pool!PoolExact
  /\ component = "private" => Private!PrivateExact
=============================================================================
