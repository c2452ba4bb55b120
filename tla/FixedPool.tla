------------------------------ MODULE FixedPool ------------------------------
(***************************************************************************)
(* The chunks of the old terrain (src/common/terrain/allocator.cpp): a     *)
(* list of fixed_pool's (extras/fixed_pool.hpp), whose objects are held by *)
(* refcnt_ptr's (extras/refcnt_ptr.hpp) of any thread.  An object is its   *)
(* subpool and its place there.  Locked sections are single steps.         *)
(***************************************************************************)
EXTENDS Integers, FiniteSets, Sequences, SequencesExt

CONSTANTS Holders,       \* threads with pointers
          Main,          \* the one that allocates and collects: "TODO: not thread-safe"
          SUBPOOL_SIZE,
          MaxSubpools,   \* bound: subpools that can exist at a time
          MaxPointers    \* bound: pointers of a thread, fewer than 256 in all

ASSUME FixedAssumption ==
  /\ IsFiniteSet(Holders) /\ Main \in Holders
  /\ SUBPOOL_SIZE \in Nat \ {0} /\ MaxSubpools \in Nat /\ MaxPointers \in Nat

Pools == 1 .. MaxSubpools
Objects == Pools \X (0 .. SUBPOOL_SIZE - 1)
Nothing == <<>>
PointersOf == Holders \X (1 .. MaxPointers)

VARIABLES
  subpools,      \* m_subpools, a list of members of Pools
  gcIter,        \* m_fast_gc_iter: a subpool, or 0 for end()
  occupied,      \* m_used_bitmap's: the objects whose bits are set
  usage,         \* object -> m_usage_counts
  built,         \* history: constructed objects
  pointers,      \* pointer -> its m_object
  doing          \* thread -> what it is in the middle of

fixedVars == <<subpools, gcIter, occupied, usage, built, pointers, doing>>

Idle == [at |-> "idle"]

FixedInit ==
  /\ subpools = <<>> /\ gcIter = 0 /\ occupied = {}
  /\ usage = [o \in Objects |-> 0] /\ built = {}
  /\ pointers = [p \in PointersOf |-> Nothing]
  /\ doing = [t \in Holders |-> Idle]

Vacant(pool) == {o \in Objects : o[1] = pool} \ occupied
occupy_zero(pool) == CHOOSE o \in Vacant(pool) : \A other \in Vacant(pool) : o[2] <= other[2]

\* A constructor may throw: the bit is cleared again.
Constructed(o, p) ==
  \/ /\ occupied' = occupied \cup {o} /\ built' = built \cup {o}
     /\ usage' = [usage EXCEPT ![o] = 1]
     /\ pointers' = [pointers EXCEPT ![p] = o]
  \/ UNCHANGED <<occupied, built, usage, pointers>>

allocate(p) ==
  /\ doing[p[1]] = Idle /\ p[1] = Main /\ pointers[p] = Nothing
  /\ doing' = [doing EXCEPT ![Main] = [at |-> "allocate", n |-> 1, into |-> p]]
  /\ UNCHANGED <<subpools, gcIter, occupied, usage, built, pointers>>

\* The subpools are tried one after the other, each under its lock.
TrySubpool ==
  LET n == doing[Main].n
  IN /\ doing[Main].at = "allocate" /\ n <= Len(subpools)
     /\ IF Vacant(subpools[n]) = {}
          THEN /\ doing' = [doing EXCEPT ![Main].n = n + 1]
               /\ UNCHANGED <<occupied, usage, built, pointers>>
          ELSE /\ Constructed(occupy_zero(subpools[n]), doing[Main].into)
               /\ doing' = [doing EXCEPT ![Main] = Idle]
     /\ UNCHANGED <<subpools, gcIter>>

NewSubpool ==
  /\ doing[Main].at = "allocate" /\ doing[Main].n > Len(subpools)
  /\ \E pool \in Pools \ Range(subpools) :
       /\ \A other \in Pools \ Range(subpools) : pool <= other
       /\ subpools' = Append(subpools, pool)
       /\ Constructed(<<pool, 0>>, doing[Main].into)
  /\ doing' = [doing EXCEPT ![Main] = Idle]
  /\ UNCHANGED gcIter

\* A copy, for this thread or moved to another.
Copy(p, q) ==
  /\ doing[p[1]] = Idle /\ doing[q[1]].at \in {"idle", "allocate"} /\ pointers[p] # Nothing
  /\ pointers[q] = Nothing
  /\ doing[q[1]].at = "allocate" => doing[q[1]].into # q
  /\ usage' = [usage EXCEPT ![pointers[p]] = @ + 1]
  /\ pointers' = [pointers EXCEPT ![q] = pointers[p]]
  /\ UNCHANGED <<subpools, gcIter, occupied, built, doing>>

\* release_ref: the count is taken back, by the last owner the object is destroyed, and
\* then its bit is cleared.  The pointer takes the object `to` afterwards.
release_ref(p, to) ==
  LET o == pointers[p]
      rest(at) == [at |-> at, object |-> o, of |-> p, to |-> to]
  IN /\ usage' = [usage EXCEPT ![o] = @ - 1]
     /\ doing' = [doing EXCEPT ![p[1]] = rest(IF usage[o] = 1 THEN "destroy" ELSE "take")]
     /\ UNCHANGED <<subpools, gcIter, occupied, built, pointers>>

Reset(p) == doing[p[1]] = Idle /\ pointers[p] # Nothing /\ release_ref(p, Nothing)

\* (mutant) A pointer assigned to itself gives its object up first.
AssignAlways(p, q) ==
  /\ doing[p[1]] = Idle /\ pointers[p] # Nothing /\ p[1] = q[1]
  /\ release_ref(p, pointers[q])

\* operator=(const refcnt_ptr &), which does nothing between pointers to one object.
Assign(p, q) ==
  /\ doing[p[1]] = Idle /\ pointers[p] # Nothing /\ p[1] = q[1]
  /\ pointers[p] # pointers[q]
  /\ release_ref(p, pointers[q])

Destroy(t) ==
  /\ doing[t].at = "destroy"
  /\ built' = built \ {doing[t].object}
  /\ doing' = [doing EXCEPT ![t].at = "clear"]
  /\ UNCHANGED <<subpools, gcIter, occupied, usage, pointers>>

Clear(t) ==
  /\ doing[t].at = "clear"
  /\ occupied' = occupied \ {doing[t].object}
  /\ doing' = [doing EXCEPT ![t].at = "take"]
  /\ UNCHANGED <<subpools, gcIter, usage, built, pointers>>

Take(t) ==
  LET to == doing[t].to
  IN /\ doing[t].at = "take"
     /\ pointers' = [pointers EXCEPT ![doing[t].of] = to]
     /\ usage' = IF to = Nothing THEN usage ELSE [usage EXCEPT ![to] = @ + 1]
     /\ doing' = [doing EXCEPT ![t] = Idle]
     /\ UNCHANGED <<subpools, gcIter, occupied, built>>

\* One subpool is looked at in every call, and leaves when it is free.
gcFast ==
  LET it == IF gcIter = 0 THEN Head(subpools) ELSE gcIter
      n == CHOOSE k \in DOMAIN subpools : subpools[k] = it
  IN /\ doing[Main] = Idle /\ subpools # <<>>
     /\ gcIter' = IF n = Len(subpools) THEN 0 ELSE subpools[n + 1]
     /\ subpools' = IF Vacant(it) = {o \in Objects : o[1] = it} THEN RemoveAt(subpools, n) ELSE subpools
     /\ UNCHANGED <<occupied, usage, built, pointers, doing>>

FixedNext ==
  \/ \E p \in PointersOf :
       \/ allocate(p) \/ Reset(p)
       \/ \E q \in PointersOf : Copy(p, q) \/ Assign(p, q)
  \/ TrySubpool \/ NewSubpool \/ gcFast
  \/ \E t \in Holders : Destroy(t) \/ Clear(t) \/ Take(t)

FixedSpec == FixedInit /\ [][FixedNext]_fixedVars
-----------------------------------------------------------------------------
\* Pointers but for those that have given their object up.
Held(o) ==
  {p \in PointersOf : pointers[p] = o /\ ~ (doing[p[1]].at \in {"destroy", "clear", "take"} /\ doing[p[1]].of = p)}
Dying(o, at) == {t \in Holders : doing[t].at \in at /\ doing[t].object = o}

\* However threads copy, assign and drop pointers while chunks are allocated: an object is
\* constructed as long as somebody points to it, then one thread destroys it, and only then
\* may its place be given out or its subpool go.
FixedExact ==
  \A o \in Objects :
    /\ usage[o] = Cardinality(Held(o))
    /\ Cardinality(Dying(o, {"destroy", "clear"})) <= 1
    /\ o \in built <=> Held(o) # {} \/ Dying(o, {"destroy"}) # {}
    /\ o \in occupied <=> Held(o) # {} \/ Dying(o, {"destroy", "clear"}) # {}
    /\ Held(o) # {} => Dying(o, {"destroy", "clear"}) = {}
    /\ o \in occupied => o[1] \in Range(subpools)
=============================================================================
