----------------------------- MODULE GfxMeshes -----------------------------
(***************************************************************************)
(* The mesh streamer (src/voxen/gfx/vk/vk_mesh_streamer.cpp): meshes, each *)
(* of several streams of elements, live in pools of GPU memory; a new      *)
(* version of a mesh is copied by the DMA queue and can be drawn when the  *)
(* tick of the copy has completed.  Space of a pool comes back when all of *)
(* it is free, so pools with much waste have their meshes moved away.      *)
(***************************************************************************)
EXTENDS GfxTransient

CONSTANTS Keys, Streams,
          ElementSize,              \* stream -> size of its elements
          POOL_SIZE_BYTES,
          STALE_KEY_AGE_THRESHOLD, STALE_POOL_AGE_THRESHOLD

ASSUME MeshesAssumption ==
  /\ IsFiniteSet(Keys) /\ IsFiniteSet(Streams)
  /\ ElementSize \in [Streams -> Nat \ {0}]
  /\ POOL_SIZE_BYTES \in Nat
  /\ STALE_KEY_AGE_THRESHOLD \in Nat /\ STALE_POOL_AGE_THRESHOLD \in Nat

VARIABLES
  infos,      \* m_key_info_map: key -> [access, ready, allocs, pending], of known keys
  visits,     \* m_lru_visit_order: key -> tick of its next visit
  transfers,  \* m_transfers: [key, tick, version, allocs], oldest first
  pools,      \* m_pools: [id, element, allocated, freed, exhausted, moving,
              \*           allocation, access]
  made        \* number of pools created so far

meshVars == <<infos, visits, transfers, pools, made>>

MeshesInit ==
  /\ infos = <<>>
  /\ visits = <<>>
  /\ transfers = <<>>
  /\ pools = <<>>
  /\ made = 0

NoAllocation == [id |-> 0, from |-> 0, to |-> 0, at |-> 0]
Size(a) == a.to - a.from
PoolRes(id) == <<"meshes", id>>
Index(ps, id) == CHOOSE i \in DOMAIN ps : ps[i].id = id
-----------------------------------------------------------------------------
(* Pools                                                                   *)

\* A pool that an allocation of elements of one size may look at.
Eligible(p, element) == ~p.moving /\ p.element \in {0, element}

Fits(p, n, element) == (p.allocated + n) * element <= POOL_SIZE_BYTES

\* allocate: the first eligible pool with room, or a new one; those it passes over
\* are exhausted.
Allocate(w, n, element, tick) ==
  LET ps == w.pools
      fit == {i \in DOMAIN ps : Eligible(ps[i], element) /\ Fits(ps[i], n, element)}
      i == IF fit = {} THEN Len(ps) + 1 ELSE Least(fit)
      p == IF fit = {}
           THEN [id |-> w.made + 1, element |-> element, allocated |-> 0, freed |-> 0,
                 exhausted |-> FALSE, moving |-> FALSE, allocation |-> tick, access |-> tick]
           ELSE ps[i]
      taken == [p EXCEPT !.element = element, !.allocated = @ + n,
                         !.allocation = tick, !.access = tick]
  IN  [alloc |-> [id |-> p.id, from |-> p.allocated, to |-> p.allocated + n,
                  at |-> device.submitted["dma"] + 1],
       made |-> IF fit = {} THEN w.made + 1 ELSE w.made,
       pools |-> [j \in 1 .. Larger(Len(ps), i) |->
                    IF j = i THEN taken
                    ELSE IF j < i /\ Eligible(ps[j], element) THEN [ps[j] EXCEPT !.exhausted = TRUE]
                    ELSE ps[j]]]

\* deallocate, of the allocations of all streams.
Freed(ps, allocs) ==
  [i \in DOMAIN ps |->
     [ps[i] EXCEPT !.freed =
        FoldFunction(LAMBDA a, n : IF a.id = ps[i].id THEN n + Size(a) ELSE n, @, allocs)]]

Accessed(ps, allocs, tick) ==
  [i \in DOMAIN ps |->
     IF \E s \in Streams : allocs[s].id = ps[i].id THEN [ps[i] EXCEPT !.access = tick] ELSE ps[i]]

Unallocated == [s \in Streams |-> NoAllocation]
-----------------------------------------------------------------------------
(* Operations.  Each takes and returns what it may change, as a record w of *)
(* infos, visits, transfers, pools, made, transient, and what the commands  *)
(* it recorded use: copied in copies, drawn in draws.                       *)

Here == [infos |-> infos, visits |-> visits, transfers |-> transfers, pools |-> pools,
         made |-> made, transient |-> transient, drawn |-> {}, copied |-> {}]

\* transferUpload of one stream: space in a pool, staging memory, a copy.
UploadStream(w, allocs, s, n, tick) ==
  LET room == Allocate(w, n, ElementSize[s], tick)
      staging == Taken(w.transient, n * ElementSize[s], 1, tick)
  IN  [w |-> [w EXCEPT !.pools = room.pools, !.made = room.made, !.transient = staging.state,
                       !.copied = @ \cup CopyUses(CommandsForDma(commands), staging.res,
                                                  PoolRes(room.alloc.id))],
       allocs |-> [allocs EXCEPT ![s] = room.alloc]]

\* transferDefragment of one stream: the pool it leaves counts as accessed.
MoveStream(w, allocs, s, from, tick) ==
  LET seen == [w EXCEPT !.pools = Accessed(@, [Unallocated EXCEPT ![s] = from], tick)]
      room == Allocate(seen, Size(from), ElementSize[s], tick)
  IN  [w |-> [seen EXCEPT !.pools = room.pools, !.made = room.made,
                          !.copied = @ \cup CopyUses(CommandsForDma(commands), PoolRes(from.id),
                                                     PoolRes(room.alloc.id))],
       allocs |-> [allocs EXCEPT ![s] = room.alloc]]

transferUpload(w, n, tick) ==
  FoldLeft(LAMBDA x, s : UploadStream(x.w, x.allocs, s, n[s], tick), [w |-> w, allocs |-> Unallocated],
           SetToSeq({s \in Streams : n[s] > 0}))

transferDefragment(w, from, tick) ==
  FoldLeft(LAMBDA x, s : MoveStream(x.w, x.allocs, s, from[s], tick), [w |-> w, allocs |-> Unallocated],
           SetToSeq({s \in Streams : from[s] # NoAllocation}))

\* The transfer of the streams is pending until their copies are complete.
Transfer(all, k, version, tick) ==
  [all.w EXCEPT !.transfers = Append(@, [key |-> k, tick |-> tick, version |-> version,
                                         allocs |-> all.allocs]),
                !.infos[k].pending = version]

Put(f, k, v) == [x \in DOMAIN f \cup {k} |-> IF x = k THEN v ELSE f[x]]

\* addMesh: n[s] elements of each stream; a key never seen before gets its visit.
AddMesh(w, k, version, n, tick) ==
  LET known == k \in DOMAIN w.infos
      info == IF known THEN [w.infos[k] EXCEPT !.access = tick]
              ELSE [access |-> tick, ready |-> INVALID, allocs |-> Unallocated, pending |-> INVALID]
      v == [w EXCEPT !.infos = Put(@, k, info),
                     !.visits = IF known THEN @ ELSE Put(@, k, tick + STALE_KEY_AGE_THRESHOLD)]
  IN  Transfer(transferUpload(v, n, tick), k, version, tick)

\* queryMesh of a known key: the key and the pools of its ready version are in use.
QueryMesh(w, k, tick) ==
  [w EXCEPT !.infos[k].access = tick,
            !.pools = IF w.infos[k].ready = INVALID THEN @
                      ELSE Accessed(@, w.infos[k].allocs, tick)]

\* The newest version of a key, ready or on its way.
NewestVersion(w, k) ==
  IF k \notin DOMAIN w.infos THEN INVALID ELSE Larger(w.infos[k].ready, w.infos[k].pending)

PoolsOf(w, k) ==
  LET allocs == w.infos[k].allocs
  IN {PoolRes(allocs[s].id) : s \in {x \in Streams : allocs[x] # NoAllocation}}

\* LandLoaderImpl::makeDrawCommand: asks for the mesh of a chunk whose surface has
\* the version `latest`, sends it when the streamer has only older ones, and draws
\* what was ready when it asked.
MakeDrawCommand(w, k, latest, n, tick) ==
  LET asked == IF k \in DOMAIN w.infos THEN QueryMesh(w, k, tick) ELSE w
      sent == IF NewestVersion(w, k) < latest THEN AddMesh(asked, k, latest, n, tick) ELSE asked
  IN  [sent EXCEPT !.drawn = @ \cup (IF k \in DOMAIN w.infos /\ w.infos[k].ready # INVALID
                                     THEN PoolsOf(w, k) ELSE {})]
-----------------------------------------------------------------------------
(* onFrameTickBegin                                                        *)

\* The version of a transfer becomes the ready one of its key.
Readied(info, tx) ==
  [info EXCEPT !.ready = tx.version, !.allocs = tx.allocs,
               !.pending = IF @ = tx.version THEN INVALID ELSE @]

\* (mutant) The space of the version before is not given back.
CompleteTransferKeeping(w) ==
  LET tx == Head(w.transfers)
      known == tx.key \in DOMAIN w.infos
  IN  [w EXCEPT
         !.transfers = Tail(@),
         !.pools = IF known THEN @ ELSE Freed(@, tx.allocs),
         !.infos = IF known THEN [@ EXCEPT ![tx.key] = Readied(w.infos[tx.key], tx)] ELSE @]

\* The oldest transfer has completed: its space becomes the ready one of the key, or
\* is freed when the key went away meanwhile.
CompleteTransfer(w) ==
  LET tx == Head(w.transfers)
      known == tx.key \in DOMAIN w.infos
  IN  [w EXCEPT
         !.transfers = Tail(@),
         !.pools = Freed(@, IF known THEN w.infos[tx.key].allocs ELSE tx.allocs),
         !.infos = IF known THEN [@ EXCEPT ![tx.key] = Readied(w.infos[tx.key], tx)] ELSE @]

TransferDone(tx, completed) == tx.tick <= completed

CompleteTransfers(w, completed) ==
  LET late == {i \in DOMAIN w.transfers : ~TransferDone(w.transfers[i], completed)}
      n == IF late = {} THEN Len(w.transfers) ELSE Least(late) - 1
  IN  FoldLeft(LAMBDA x, i : CompleteTransfer(x), w, [i \in 1 .. n |-> i])

\* A visited key is dropped when it was not asked for during a long time, or moved
\* out of a pool that is being emptied.
StaleKey(info, completed) == info.access + STALE_KEY_AGE_THRESHOLD <= completed

MustMove(w, k) ==
  /\ w.infos[k].ready # INVALID /\ w.infos[k].pending = INVALID
  /\ \E s \in Streams : LET a == w.infos[k].allocs[s]
                        IN  a # NoAllocation /\ w.pools[Index(w.pools, a.id)].moving

VisitKey(w, k, completed, tick) ==
  IF k \in DOMAIN w.infos /\ ~StaleKey(w.infos[k], completed)
  THEN LET moved == IF MustMove(w, k)
                    THEN Transfer(transferDefragment(w, w.infos[k].allocs, tick), k, w.infos[k].ready, tick)
                    ELSE w
       IN  [moved EXCEPT !.visits[k] = w.infos[k].access + STALE_KEY_AGE_THRESHOLD]
  ELSE [w EXCEPT !.visits = Restrict(@, DOMAIN @ \ {k}),
                 !.pools = IF k \in DOMAIN w.infos THEN Freed(@, w.infos[k].allocs) ELSE @,
                 !.infos = Restrict(@, DOMAIN @ \ {k})]

\* visitOldest: the keys whose visit is due, the latest visit last.
LatestVisit(visit, K) == CHOOSE k \in K : \A j \in K : visit[j] <= visit[k]

VisitKeys(w, completed, tick) ==
  MapThenFoldSet(LAMBDA k, x : VisitKey(x, k, completed, tick), w, LAMBDA k : k,
                 LAMBDA K : LatestVisit(w.visits, K),
                 {k \in DOMAIN w.visits : w.visits[k] <= completed})

\* A pool all of whose space was freed starts anew once the GPU is done with it.
Emptied(p, completed) == p.allocated > 0 /\ p.allocated = p.freed /\ p.access <= completed

\* A pool that could not serve and wastes more than a quarter is emptied.
Wasteful(p) ==
  LET total == POOL_SIZE_BYTES \div p.element
  IN  p.exhausted /\ 4 * (total - p.allocated + p.freed) > total

Swept(p, completed) ==
  LET q == IF Emptied(p, completed)
           THEN [p EXCEPT !.allocated = 0, !.freed = 0, !.exhausted = FALSE, !.moving = FALSE,
                          !.element = 0]
           ELSE p
  IN  IF Wasteful(q) THEN [q EXCEPT !.moving = TRUE] ELSE q

StalePool(p, completed) ==
  p.allocated = 0 /\ p.allocation + STALE_POOL_AGE_THRESHOLD <= completed

SweepPools(w, completed) ==
  LET swept == [i \in DOMAIN w.pools |-> Swept(w.pools[i], completed)]
  IN  [w EXCEPT !.pools = Kept(swept, {p \in Range(swept) : ~StalePool(p, completed)})]

\* The space that comes back: pools reset or destroyed.
SweptRes(w, completed) ==
  {PoolRes(w.pools[i].id) : i \in {j \in DOMAIN w.pools : Emptied(w.pools[j], completed)
                                     \/ StalePool(Swept(w.pools[j], completed), completed)}}

Begun(completed, tick) == VisitKeys(CompleteTransfers(Here, completed), completed, tick)
-----------------------------------------------------------------------------
(* Properties                                                              *)

\* The allocations in a pool that are ready or being written.
AllocsOf(id) ==
  {[k |-> x[1], s |-> x[2], a |-> infos[x[1]].allocs[x[2]]] :
     x \in {y \in (DOMAIN infos) \X Streams : infos[y[1]].allocs[y[2]].id = id}}
  \cup {[k |-> x[1], s |-> x[2], a |-> transfers[x[1]].allocs[x[2]]] :
     x \in {y \in (DOMAIN transfers) \X Streams : transfers[y[1]].allocs[y[2]].id = id}}

\* The counts of a pool are exact, so it comes back when the last mesh leaves it and
\* never before: live meshes lie in existing pools of their element size and apart
\* from each other (allocate, deallocate, and every path that drops a key or transfer).
PoolsExact ==
  /\ \A i \in DOMAIN pools :
       LET live == AllocsOf(pools[i].id)
       IN  /\ pools[i].allocated - pools[i].freed = FoldSet(LAMBDA x, n : n + Size(x.a), 0, live)
           /\ \A x \in live : pools[i].element = ElementSize[x.s]
                              /\ x.a.to * pools[i].element <= POOL_SIZE_BYTES
                              /\ x.a.to <= pools[i].allocated
           /\ \A x, y \in live : x # y => x.a.to <= y.a.from \/ y.a.to <= x.a.from
  /\ \A k \in DOMAIN infos, s \in Streams :
       infos[k].allocs[s] # NoAllocation => \E i \in DOMAIN pools : pools[i].id = infos[k].allocs[s].id

\* What may be drawn is there: the copies of the ready version have finished on the
\* GPU, and a newer one that was sent is on its way.
ReadyUploaded ==
  \A k \in DOMAIN infos :
    /\ \A s \in Streams : infos[k].allocs[s].at <= finished["dma"]
    /\ infos[k].pending # INVALID =>
         \E i \in DOMAIN transfers : transfers[i].key = k /\ transfers[i].version = infos[k].pending

\* The pools of the streamer hold each mesh in a range of its own and count what is
\* wasted, and a mesh that may be drawn has been uploaded whole (vk_mesh_streamer.cpp).
MeshesSound == PoolsExact /\ ReadyUploaded
=============================================================================
