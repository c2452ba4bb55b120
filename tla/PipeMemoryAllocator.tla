------------------------- MODULE PipeMemoryAllocator -------------------------
(***************************************************************************)
(* PipeMemoryAllocator (src/voxen/common/pipe_memory_allocator.cpp):       *)
(* every thread allocates downwards from a slab it owns, slabs it has      *)
(* exhausted become garbage, and a thread of the service frees garbage     *)
(* slabs without live allocations and deletes free slabs in excess.        *)
(*                                                                         *)
(* The two lists are under one lock, which the collecting thread holds     *)
(* during a whole pass; the counter of live allocations is decreased by    *)
(* any thread at any time.  The order of the lists does not matter and     *)
(* they are sets here.                                                     *)
(***************************************************************************)
EXTENDS Integers, FiniteSets

CONSTANTS Threads,
          Slabs,        \* addresses that newSlab may return
          SLAB_SIZE,
          CONTROL_SIZE, \* sizeof(PipeMemorySlabControl), at the low end of a slab
          Requests,     \* pairs <<size, align>> the program allocates
          Threshold,    \* destroy_free_slabs_threshold
          MaxAllocs,    \* bound: calls of allocate by one thread
          NoSlab

\* Where tryAllocate puts `size` bytes below the `allocated` highest ones: the
\* offset in the slab, whose address is a multiple of every alignment.
Offset(allocated, size, align) ==
  ((SLAB_SIZE - allocated - size) \div align) * align

ASSUME SlabAssumption ==
  /\ SLAB_SIZE \in Nat /\ CONTROL_SIZE \in Nat \ {0} /\ CONTROL_SIZE < SLAB_SIZE
  /\ NoSlab \notin Slabs /\ IsFiniteSet(Slabs)
  /\ Threshold \in Nat /\ MaxAllocs \in Nat

\* Every request fits an empty slab: a slab is twice as large as the largest one.
ASSUME RequestsAssumption ==
  \A r \in Requests :
    /\ r \in (Nat \ {0}) \X (Nat \ {0})
    /\ Offset(0, r[1], r[2]) >= CONTROL_SIZE

VARIABLES
  mapped,     \* slabs between newSlab and deleteSlab
  bytes,      \* slab -> ctl.allocated_bytes
  live,       \* slab -> ctl.live_allocations
  own,        \* thread -> t_this_thread_slab
  pipePc,         \* thread -> the step it takes next
  want,       \* thread -> the request it serves
  allocs,     \* thread -> number of calls of allocate so far
  gc,         \* m_gc_slabs
  free,       \* m_free_slabs
  gcPc,       \* the step the collecting thread takes next
  scan,       \* garbage slabs the current pass has not looked at
  doomed,     \* slab_to_delete
  running,    \* g_slab_gc_run_flag
  objects     \* history: allocations not yet deallocated

threadVars == <<own, pipePc, want, allocs>>
gcVars == <<gcPc, scan, doomed, running>>
pipeVars == <<mapped, bytes, live, threadVars, gc, free, gcVars, objects>>
-----------------------------------------------------------------------------
Locked == gcPc = "scan"

PipeInit ==
  /\ mapped = {}
  /\ bytes = [s \in Slabs |-> 0] /\ live = [s \in Slabs |-> 0]
  /\ own = [t \in Threads |-> NoSlab] /\ pipePc = [t \in Threads |-> "run"]
  /\ want \in [Threads -> Requests] /\ allocs = [t \in Threads |-> 0]
  /\ gc = {} /\ free = {}
  /\ gcPc = "check" /\ scan = {} /\ doomed = NoSlab /\ running = TRUE
  /\ objects = {}
-----------------------------------------------------------------------------
(* allocate and deallocate                                                 *)

Fits(s, r) == Offset(bytes[s], r[1], r[2]) >= CONTROL_SIZE

BytesAfter(s, r) == SLAB_SIZE - Offset(bytes[s], r[1], r[2])

\* tryAllocate succeeds in slab s.
tryAllocate(s, r) ==
  /\ bytes' = [bytes EXCEPT ![s] = BytesAfter(s, r)]
  /\ live' = [live EXCEPT ![s] = @ + 1]
  /\ objects' = objects \cup
       {[slab |-> s, offset |-> Offset(bytes[s], r[1], r[2]), size |-> r[1]]}

Allocate(t, r) ==
  /\ pipePc[t] = "run" /\ running
  /\ allocs[t] < MaxAllocs /\ allocs' = [allocs EXCEPT ![t] = @ + 1]
  /\ want' = [want EXCEPT ![t] = r]
  /\ IF own[t] # NoSlab /\ Fits(own[t], r)
     THEN tryAllocate(own[t], r) /\ UNCHANGED pipePc
     ELSE pipePc' = [pipePc EXCEPT ![t] = "replace"] /\ UNCHANGED <<bytes, live, objects>>
  /\ UNCHANGED <<mapped, own, gc, free, gcVars>>

Released(t) == NoSlab

\* replaceSlab under the lock: the exhausted slab becomes garbage, a free slab
\* takes its place if there is one.
Replace(t) ==
  /\ pipePc[t] = "replace" /\ ~Locked
  /\ gc' = gc \cup ({own[t]} \ {NoSlab})
  /\ \/ \E s \in free :
          /\ free' = free \ {s} /\ own' = [own EXCEPT ![t] = s]
          /\ pipePc' = [pipePc EXCEPT ![t] = "place"]
     \/ /\ free = {}
        /\ own' = [own EXCEPT ![t] = Released(t)] /\ pipePc' = [pipePc EXCEPT ![t] = "new"]
        /\ UNCHANGED free
  /\ UNCHANGED <<mapped, bytes, live, want, allocs, gcVars, objects>>

\* Outside of the lock; the system may be out of memory, and allocate throws.
NewSlab(t) ==
  /\ pipePc[t] = "new"
  /\ \E s \in Slabs \ mapped :
       /\ mapped' = mapped \cup {s}
       /\ bytes' = [bytes EXCEPT ![s] = 0] /\ live' = [live EXCEPT ![s] = 0]
       /\ own' = [own EXCEPT ![t] = s]
  /\ pipePc' = [pipePc EXCEPT ![t] = "place"]
  /\ UNCHANGED <<want, allocs, gc, free, gcVars, objects>>

NewSlabFails(t) ==
  /\ pipePc[t] = "new"
  /\ pipePc' = [pipePc EXCEPT ![t] = "run"]
  /\ UNCHANGED <<mapped, bytes, live, own, want, allocs, gc, free, gcVars, objects>>

Place(t) ==
  /\ pipePc[t] = "place"
  /\ tryAllocate(own[t], want[t])
  /\ pipePc' = [pipePc EXCEPT ![t] = "run"]
  /\ UNCHANGED <<mapped, own, want, allocs, gc, free, gcVars>>

\* By any thread, whoever allocated it.
Deallocate(o) ==
  /\ o \in objects
  /\ objects' = objects \ {o}
  /\ live' = [live EXCEPT ![o.slab] = @ - 1]
  /\ UNCHANGED <<mapped, bytes, threadVars, gc, free, gcVars>>
-----------------------------------------------------------------------------
(* The end of a thread: ThreadSlabDeleter                                  *)

\* Deletes the slab unless it has live allocations.
Exit(t) ==
  /\ pipePc[t] = "run"
  /\ IF own[t] # NoSlab /\ live[own[t]] # 0
     THEN pipePc' = [pipePc EXCEPT ![t] = "exiting"] /\ UNCHANGED <<mapped, own>>
     ELSE /\ mapped' = mapped \ {own[t]}
          /\ own' = [own EXCEPT ![t] = NoSlab] /\ pipePc' = [pipePc EXCEPT ![t] = "exited"]
  /\ UNCHANGED <<bytes, live, want, allocs, gc, free, gcVars, objects>>

\* putGarbageSlab.
ExitPut(t) ==
  /\ pipePc[t] = "exiting" /\ ~Locked
  /\ gc' = gc \cup {own[t]}
  /\ own' = [own EXCEPT ![t] = NoSlab] /\ pipePc' = [pipePc EXCEPT ![t] = "exited"]
  /\ UNCHANGED <<mapped, bytes, live, want, allocs, free, gcVars, objects>>
-----------------------------------------------------------------------------
(* The collecting thread, the service and the end of the program           *)

GcCheck ==
  /\ gcPc = "check"
  /\ gcPc' = IF running THEN "sleep" ELSE "stopped"
  /\ UNCHANGED <<mapped, bytes, live, threadVars, gc, free, scan, doomed, running, objects>>

Excess == Cardinality(free) > Threshold

\* After the sleep: takes the lock and, of too many free slabs, one.
GcBegin ==
  /\ gcPc = "sleep"
  /\ \/ /\ Excess
        /\ \E s \in free : doomed' = s /\ free' = free \ {s}
     \/ /\ ~Excess /\ UNCHANGED <<doomed, free>>
  /\ scan' = gc
  /\ gcPc' = "scan"
  /\ UNCHANGED <<mapped, bytes, live, threadVars, gc, running, objects>>

\* (mutant) A slab with one live allocation counts as dead.
DeadAlmost(s) == live[s] <= 1

Dead(s) == live[s] = 0

\* (mutant) Slabs without live allocations stay garbage.
GcScanSkips(s) ==
  /\ gcPc = "scan" /\ s \in scan
  /\ scan' = scan \ {s}
  /\ UNCHANGED <<mapped, bytes, live, threadVars, gc, free, gcPc, doomed, running, objects>>

ResetBytes(s) == 0

\* One turn of the loop: a slab without live allocations becomes free.
GcScan(s) ==
  /\ gcPc = "scan" /\ s \in scan
  /\ scan' = scan \ {s}
  /\ IF Dead(s)
     THEN /\ bytes' = [bytes EXCEPT ![s] = ResetBytes(s)]
          /\ gc' = gc \ {s} /\ free' = free \cup {s}
     ELSE UNCHANGED <<bytes, gc, free>>
  /\ UNCHANGED <<mapped, live, threadVars, gcPc, doomed, running, objects>>

GcUnlock ==
  /\ gcPc = "scan" /\ scan = {}
  /\ gcPc' = "delete"
  /\ UNCHANGED <<mapped, bytes, live, threadVars, gc, free, scan, doomed, running, objects>>

GcDelete ==
  /\ gcPc = "delete"
  /\ mapped' = mapped \ {doomed}
  /\ doomed' = NoSlab
  /\ gcPc' = "check"
  /\ UNCHANGED <<bytes, live, threadVars, gc, free, scan, running, objects>>

\* ~PipeMemoryAllocator.  "Every allocation must be deallocated *before* the
\* service is stopped" is the obligation of the program, as is that nobody
\* allocates any more.
Stop ==
  /\ running /\ objects = {} /\ \A t \in Threads : pipePc[t] \in {"run", "exiting", "exited"}
  /\ running' = FALSE
  /\ UNCHANGED <<mapped, bytes, live, threadVars, gc, free, gcPc, scan, doomed, objects>>

\* ~SlabCollection, after the destructors of all threads.
DestroyAll ==
  /\ gcPc = "stopped" /\ \A t \in Threads : pipePc[t] = "exited"
  /\ mapped' = mapped \ (gc \cup free)
  /\ gc' = {} /\ free' = {}
  /\ gcPc' = "destroyed"
  /\ UNCHANGED <<bytes, live, threadVars, scan, doomed, running, objects>>
-----------------------------------------------------------------------------
GcSteps == GcCheck \/ GcBegin \/ (\E s \in Slabs : GcScan(s)) \/ GcUnlock \/ GcDelete

ThreadSteps(t) ==
  \/ \E r \in Requests : Allocate(t, r)
  \/ Replace(t) \/ NewSlab(t) \/ NewSlabFails(t) \/ Place(t) \/ Exit(t) \/ ExitPut(t)

PipeNext ==
  \/ \E t \in Threads : ThreadSteps(t)
  \/ \E o \in objects : Deallocate(o)
  \/ GcSteps \/ Stop \/ DestroyAll

PipeSpec == PipeInit /\ [][PipeNext]_pipeVars

\* The collecting thread runs; nobody has to allocate or to deallocate.
FairPipeSpec == PipeSpec /\ WF_pipeVars(GcSteps)
-----------------------------------------------------------------------------
(* Properties                                                              *)

Blocks == [slab : Slabs, offset : CONTROL_SIZE .. SLAB_SIZE - 1, size : {r[1] : r \in Requests}]

PipeTypeOK ==
  /\ mapped \subseteq Slabs
  /\ bytes \in [Slabs -> 0 .. SLAB_SIZE - CONTROL_SIZE]
  /\ live \in [Slabs -> Nat]
  /\ own \in [Threads -> Slabs \cup {NoSlab}]
  /\ pipePc \in [Threads -> {"run", "replace", "new", "place", "exiting", "exited"}]
  /\ want \in [Threads -> Requests]
  /\ allocs \in [Threads -> 0 .. MaxAllocs]
  /\ gc \subseteq Slabs /\ free \subseteq Slabs /\ scan \subseteq gc
  /\ gcPc \in {"check", "sleep", "scan", "delete", "stopped", "destroyed"}
  /\ doomed \in Slabs \cup {NoSlab}
  /\ running \in BOOLEAN
  /\ objects \subseteq Blocks

\* Two live allocations never share a byte, and none reaches out of its slab,
\* through all reuses of the slabs; "now this must succeed": the slab that
\* replaceSlab returned has room.
Disjoint ==
  /\ PipeTypeOK
  /\ \A o \in objects :
       /\ o.offset + o.size <= SLAB_SIZE
       /\ \A p \in objects \ {o} :
            o.slab = p.slab => o.offset + o.size <= p.offset \/ p.offset + p.size <= o.offset
  /\ \A t \in Threads : pipePc[t] = "place" => own[t] # NoSlab /\ Fits(own[t], want[t])

\* Where a slab is: with a thread, garbage, free or about to be deleted.
Places(s) == {t \in Threads : own[t] = s} \X {"own"}
               \cup ({s} \cap gc) \X {"gc"} \cup ({s} \cap free) \X {"free"}
               \cup ({s} \cap {doomed}) \X {"doomed"}

\* A live allocation keeps its slab, which is not deleted, not free and not about to
\* be deleted ("deleting slab with live allocations remaining" never happens); its
\* counter is the number of its live allocations, whoever deallocates them; and
\* every slab is in one place only, and none is lost.
LiveKept ==
  /\ \A o \in objects : o.slab \in mapped \ (free \cup {doomed})
  /\ \A s \in mapped : live[s] = Cardinality({o \in objects : o.slab = s})
  /\ \A s \in Slabs : Cardinality(Places(s)) = IF s \in mapped THEN 1 ELSE 0

\* Blocks that pipe_memory_allocator.cpp handed out and that were not returned do not
\* overlap, and the slab under each is neither recycled nor deleted by the collecting thread.
PipeSound == Disjoint /\ LiveKept

\* A slab that its thread has left is recycled once its last block is returned, by
\* whichever thread that happens (the garbage list of pipe_memory_allocator.cpp): again
\* and again no garbage slab is empty, as long as the collector runs.
Recycled == []<>(~running \/ \A s \in gc : \E o \in objects : o.slab = s)
=============================================================================
