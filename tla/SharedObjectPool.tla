--------------------------- MODULE SharedObjectPool ---------------------------
(***************************************************************************)
(* SharedObjectPool and SharedPoolPtr (src/voxen/common/                   *)
(* shared_object_pool.cpp): counted objects in slabs of bytes, with one    *)
(* lock-free list of freed objects whose links are stored in the objects.  *)
(* Every atomic operation is a step.                                       *)
(***************************************************************************)
EXTENDS Integers, FiniteSets

CONSTANTS Threads,      \* threads that hold pointers
          Allocators,   \* those among them that allocate
          MaxObjects,   \* m_max_objects: objects of one slab
          MaxSlabs,     \* bound: slabs the system can give
          MaxRefs       \* bound: references to one object

(* The layout of a slab: the objects from its start, the header at its end, *)
(* and below the header the counters, backwards.  Offsets are in bytes.     *)

REF_COUNTER_SIZE == 2
SLAB_HEADER_SIZE == 24
POINTER_SIZE == 8

AdjustedSize(size) == IF size < POINTER_SIZE THEN POINTER_SIZE ELSE size

BitCeil(n) == CHOOSE p \in {2^k : k \in 0 .. 16} : p >= n /\ p < 2 * n

\* calcSlabSize leaves room for one byte of each counter.
SlabSize(size, hint) ==
  LET packed == hint * AdjustedSize(size) + hint
      aligned == ((packed + POINTER_SIZE - 1) \div POINTER_SIZE) * POINTER_SIZE
  IN  BitCeil(aligned + SLAB_HEADER_SIZE)

CalcMaxObjects(size, hint) ==
  (SlabSize(size, hint) - SLAB_HEADER_SIZE) \div (AdjustedSize(size) + REF_COUNTER_SIZE)

\* getRefCounter of the object at an offset.
RefCounter(size, hint, offset) ==
  SlabSize(size, hint) - SLAB_HEADER_SIZE
    - REF_COUNTER_SIZE * (offset \div AdjustedSize(size) + 1)

\* In a slab the objects, their counters and the header lie apart.  Checked for some
\* sizes by the modules that instantiate this one.
LayoutSound(size, hint) ==
  LET n == CalcMaxObjects(size, hint)
      Offset(i) == i * AdjustedSize(size)
      Counter(i) == RefCounter(size, hint, Offset(i))
  IN  /\ n > 0
      /\ \A i \in 0 .. n - 1 :
           /\ Counter(i) + REF_COUNTER_SIZE <= SlabSize(size, hint) - SLAB_HEADER_SIZE
           /\ i > 0 => Counter(i) + REF_COUNTER_SIZE <= Counter(i - 1)
           /\ Offset(n - 1) + AdjustedSize(size) <= Counter(i)

\* An object is its slab and its index there; its counter is its own.
Nil == <<>>
Objects == (1 .. MaxSlabs) \X (0 .. MaxObjects - 1)

VARIABLES
  top,        \* m_last_freed_object
  link,       \* object -> the pointer stored in its first bytes
  slabs,      \* number of slabs; m_newest_slab is the last one
  initial,    \* initial_objects of the newest slab
  liveCount,  \* slab -> live_allocations
  refs,       \* object -> its reference counter
  poolPc,     \* thread -> the step it takes next
  mine,       \* thread -> the object it takes or returns
  seen,       \* thread -> its local last_freed_object or next_freed_object
  next,       \* thread -> next_freed_object of allocate
  held        \* history: thread -> object -> number of its pointers to it

local == <<mine, seen, next>>
vars == <<top, link, slabs, initial, liveCount, refs, poolPc, local, held>>
-----------------------------------------------------------------------------
Init ==
  /\ top = Nil /\ link = [o \in Objects |-> Nil]
  /\ slabs = 0 /\ initial = 0
  /\ liveCount = [n \in 1 .. MaxSlabs |-> 0]
  /\ refs = [o \in Objects |-> 0]
  /\ poolPc = [t \in Threads |-> "idle"]
  /\ mine = [t \in Threads |-> Nil] /\ seen = [t \in Threads |-> Nil]
  /\ next = [t \in Threads |-> Nil]
  /\ held = [t \in Threads |-> [o \in Objects |-> 0]]

Goto(t, step) == poolPc' = [poolPc EXCEPT ![t] = step]

\* The locals of a finished loop are gone.
Forget(t) == seen' = [seen EXCEPT ![t] = Nil] /\ next' = [next EXCEPT ![t] = Nil]
-----------------------------------------------------------------------------
(* allocate                                                                *)

Allocate(t) ==
  /\ poolPc[t] = "idle" /\ t \in Allocators
  /\ seen' = [seen EXCEPT ![t] = top]
  /\ Goto(t, IF top = Nil THEN "fresh" ELSE "read")
  /\ UNCHANGED <<top, link, slabs, initial, liveCount, refs, mine, next, held>>

ReadNext(t) ==
  /\ poolPc[t] = "read"
  /\ next' = [next EXCEPT ![t] = link[seen[t]]]
  /\ Goto(t, "pop")
  /\ UNCHANGED <<top, link, slabs, initial, liveCount, refs, mine, seen, held>>

\* (mutant) Stores the next object without a comparison.
PopBlind(t) ==
  /\ poolPc[t] = "pop"
  /\ top' = next[t] /\ mine' = [mine EXCEPT ![t] = seen[t]] /\ Goto(t, "revive")
  /\ Forget(t)
  /\ UNCHANGED <<link, slabs, initial, liveCount, refs, held>>

\* The compare-exchange loads the top when it fails.
Pop(t) ==
  /\ poolPc[t] = "pop"
  /\ \/ /\ top = seen[t]
        /\ top' = next[t] /\ mine' = [mine EXCEPT ![t] = seen[t]]
        /\ Goto(t, "revive") /\ Forget(t)
     \/ /\ top # seen[t]
        /\ seen' = [seen EXCEPT ![t] = top] /\ next' = [next EXCEPT ![t] = Nil]
        /\ Goto(t, IF top = Nil THEN "fresh" ELSE "read")
        /\ UNCHANGED <<top, mine>>
  /\ UNCHANGED <<link, slabs, initial, liveCount, refs, held>>

Revive(t) ==
  /\ poolPc[t] = "revive"
  /\ liveCount' = [liveCount EXCEPT ![mine[t][1]] = @ + 1]
  /\ refs' = [refs EXCEPT ![mine[t]] = 1]
  /\ Goto(t, "construct")
  /\ UNCHANGED <<top, link, slabs, initial, local, held>>

\* Under the lock: the next object of the newest slab, or the first of a new one.
Fresh(t) ==
  /\ poolPc[t] = "fresh"
  /\ LET full == slabs = 0 \/ initial = MaxObjects
         n == IF full THEN slabs + 1 ELSE slabs
         i == IF full THEN 0 ELSE initial
         o == <<n, i>>
     IN /\ full => slabs < MaxSlabs
        /\ slabs' = n /\ initial' = i + 1
        /\ liveCount' = [liveCount EXCEPT ![n] = @ + 1]
        /\ refs' = [refs EXCEPT ![o] = 1]
        /\ mine' = [mine EXCEPT ![t] = o]
  /\ Goto(t, "construct")
  /\ UNCHANGED <<top, link, seen, next, held>>

\* operator new throws: nothing has changed.
FreshFails(t) ==
  /\ poolPc[t] = "fresh"
  /\ slabs = 0 \/ initial = MaxObjects
  /\ Goto(t, "idle")
  /\ UNCHANGED <<top, link, slabs, initial, liveCount, refs, local, held>>

\* SharedObjectPool::allocate: the constructor of the object writes its bytes, or
\* throws and the object goes back.
Construct(t) ==
  /\ poolPc[t] = "construct"
  /\ link' = [link EXCEPT ![mine[t]] = Nil]
  /\ \/ /\ held' = [held EXCEPT ![t][mine[t]] = @ + 1]
        /\ mine' = [mine EXCEPT ![t] = Nil] /\ Goto(t, "idle")
     \/ Goto(t, "uncount") /\ UNCHANGED <<mine, held>>
  /\ UNCHANGED <<top, slabs, initial, liveCount, refs, seen, next>>
-----------------------------------------------------------------------------
(* SharedPoolPtr                                                           *)

\* A copy, in the same thread or in another one.
Copy(t, u, o) ==
  /\ poolPc[t] = "idle" /\ held[t][o] > 0
  /\ refs[o] < MaxRefs
  /\ refs' = [refs EXCEPT ![o] = @ + 1]
  /\ held' = [held EXCEPT ![u][o] = @ + 1]
  /\ UNCHANGED <<top, link, slabs, initial, liveCount, poolPc, local>>

\* reset: the last pointer destroys the object and returns it.
Reset(t, o) ==
  /\ poolPc[t] = "idle" /\ held[t][o] > 0
  /\ held' = [held EXCEPT ![t][o] = @ - 1]
  /\ refs' = [refs EXCEPT ![o] = @ - 1]
  /\ IF refs[o] = 1
     THEN mine' = [mine EXCEPT ![t] = o] /\ Goto(t, "uncount")
     ELSE UNCHANGED <<mine, poolPc>>
  /\ UNCHANGED <<top, link, slabs, initial, liveCount, seen, next>>
-----------------------------------------------------------------------------
(* deallocate                                                              *)

Uncount(t) ==
  /\ poolPc[t] = "uncount"
  /\ liveCount' = [liveCount EXCEPT ![mine[t][1]] = @ - 1]
  /\ Goto(t, "load")
  /\ UNCHANGED <<top, link, slabs, initial, refs, local, held>>

LoadTop(t) ==
  /\ poolPc[t] = "load"
  /\ seen' = [seen EXCEPT ![t] = top]
  /\ Goto(t, "link")
  /\ UNCHANGED <<top, link, slabs, initial, liveCount, refs, mine, next, held>>

Link(t) ==
  /\ poolPc[t] = "link"
  /\ link' = [link EXCEPT ![mine[t]] = seen[t]]
  /\ Goto(t, "push")
  /\ UNCHANGED <<top, slabs, initial, liveCount, refs, local, held>>

Push(t) ==
  /\ poolPc[t] = "push"
  /\ \/ /\ top = seen[t]
        /\ top' = mine[t] /\ mine' = [mine EXCEPT ![t] = Nil]
        /\ Goto(t, "idle") /\ Forget(t)
     \/ /\ top # seen[t]
        /\ seen' = [seen EXCEPT ![t] = top]
        /\ Goto(t, "link") /\ UNCHANGED <<top, mine, next>>
  /\ UNCHANGED <<link, slabs, initial, liveCount, refs, held>>
-----------------------------------------------------------------------------
Steps(t) ==
  \/ Allocate(t) \/ ReadNext(t) \/ Pop(t) \/ Revive(t)
  \/ Fresh(t) \/ FreshFails(t) \/ Construct(t)
  \/ Uncount(t) \/ LoadTop(t) \/ Link(t) \/ Push(t)

Next ==
  \E t \in Threads :
    \/ Steps(t)
    \/ \E o \in Objects : Reset(t, o) \/ \E u \in Threads : Copy(t, u, o)

Spec == Init /\ [][Next]_vars
-----------------------------------------------------------------------------
(* Properties                                                              *)

\* The list of freed objects: Hop[n] is the n-th pointer from the top.
Hop[n \in 0 .. Cardinality(Objects)] ==
  IF n = 0 THEN top ELSE LET o == Hop[n - 1] IN IF o = Nil THEN Nil ELSE link[o]
FreeList == {Hop[n] : n \in 0 .. Cardinality(Objects)} \ {Nil}

Pointers(o) == Cardinality({p \in Threads \X (1 .. MaxRefs) : p[2] <= held[p[1]][o]})

GivenOut == {o \in Objects : o[1] < slabs \/ (o[1] = slabs /\ o[2] < initial)}

Movers(o) == {t \in Threads : mine[t] = o}

\* Every object a slab has given out is either pointed to, or on the list once, or on
\* its way between them in one thread: none is handed out twice, freed while
\* somebody points to it, or orphaned ("causing undetectable memory leak").  Its
\* counter is the number of pointers and live_allocations is exact.
PoolExact ==
  /\ Hop[Cardinality(Objects)] = Nil
  /\ FreeList \subseteq GivenOut
  /\ \A o \in GivenOut :
       /\ Cardinality(Movers(o)) + (IF o \in FreeList THEN 1 ELSE 0)
            + (IF Pointers(o) > 0 THEN 1 ELSE 0) = 1
       /\ Pointers(o) > 0 => refs[o] = Pointers(o)
  /\ \A n \in 1 .. MaxSlabs :
       liveCount[n] =
         Cardinality({o \in Objects : o[1] = n /\
           (Pointers(o) > 0 \/ \E t \in Movers(o) : poolPc[t] \in {"construct", "uncount"})})
=============================================================================
