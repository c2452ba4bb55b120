-------------------------- MODULE PrivateObjectPool --------------------------
(***************************************************************************)
(* PrivateObjectPool (src/voxen/common/private_object_pool.cpp): objects   *)
(* of one thread in slabs, with a list of freed objects whose links are    *)
(* stored in the objects.  An object is its slab and its index there.      *)
(***************************************************************************)
EXTENDS Integers, FiniteSets, Sequences

CONSTANTS MaxPrivate,    \* m_max_objects: objects of one slab
          MaxPrivateSlabs \* bound: slabs the system can give

Null == <<>>
PrivateObjects == (1 .. MaxPrivateSlabs) \X (0 .. MaxPrivate - 1)

VARIABLES
  freed,      \* m_last_freed_object
  links,      \* object -> the pointer stored in its first bytes
  newest,     \* number of slabs; m_newest_slab is the last one
  started,    \* initial_objects of the newest slab
  lives,      \* m_live_allocations
  owned       \* history: objects with an owner

vars == <<freed, links, newest, started, lives, owned>>

Init ==
  /\ freed = Null /\ links = [o \in PrivateObjects |-> Null]
  /\ newest = 0 /\ started = 0 /\ lives = 0
  /\ owned = {}

\* The object freed last, otherwise the next one of the newest slab.
Allocate ==
  \/ /\ freed # Null
     /\ freed' = links[freed] /\ owned' = owned \cup {freed}
     /\ lives' = lives + 1
     /\ UNCHANGED <<links, newest, started>>
  \/ /\ freed = Null
     /\ LET full == newest = 0 \/ started = MaxPrivate
        IN  /\ full => newest < MaxPrivateSlabs
            /\ newest' = IF full THEN newest + 1 ELSE newest
            /\ started' = IF full THEN 1 ELSE started + 1
     /\ owned' = owned \cup {<<newest', started' - 1>>}
     /\ lives' = lives + 1
     /\ UNCHANGED <<freed, links>>

\* The owner's Deleter, or a constructor that throws.
Deallocate(o) ==
  /\ o \in owned
  /\ owned' = owned \ {o} /\ lives' = lives - 1
  /\ links' = [links EXCEPT ![o] = freed]
  /\ freed' = o
  /\ UNCHANGED <<newest, started>>

\* The user writes the bytes of an object that it owns.
Use(o) ==
  /\ o \in owned
  /\ links' = [links EXCEPT ![o] = Null]
  /\ UNCHANGED <<freed, newest, started, lives, owned>>

Next == Allocate \/ \E o \in PrivateObjects : Deallocate(o) \/ Use(o)
-----------------------------------------------------------------------------
\* The list of freed objects: Hops[n] is the n-th pointer.
Hops[n \in 0 .. Cardinality(PrivateObjects)] ==
  IF n = 0 THEN freed ELSE LET o == Hops[n - 1] IN IF o = Null THEN Null ELSE links[o]
Freed == {Hops[n] : n \in 0 .. Cardinality(PrivateObjects)} \ {Null}

\* An object given out has one owner or is on the list of freed ones, never both and
\* never none, the list ends, and m_live_allocations counts the owned ones.
PrivateExact ==
  /\ Hops[Cardinality(PrivateObjects)] = Null
  /\ owned \cap Freed = {}
  /\ owned \cup Freed =
       {o \in PrivateObjects : o[1] < newest \/ (o[1] = newest /\ o[2] < started)}
  /\ lives = Cardinality(owned)
=============================================================================
