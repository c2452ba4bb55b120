---------------------------- MODULE GfxTransient ----------------------------
(***************************************************************************)
(* What the frames of the renderer record commands with and upload data    *)
(* through: the command allocator (vk_command_allocator.cpp), the          *)
(* transient buffer allocator (vk_transient_buffer_allocator.cpp) and the  *)
(* DMA system (vk_dma_system.cpp), under src/voxen/gfx/vk.                 *)
(***************************************************************************)
EXTENDS GfxDevice

CONSTANTS POOL_MAX_EXCESS_CMDBUFS,
          STALE_BUFFER_AGE_THRESHOLD,
          MIN_BUFFER_SIZE_TARGET, MAX_BUFFER_SIZE_TARGET,
          BUFFER_SIZE_STEP

ASSUME TransientAssumption ==
  /\ BUFFER_SIZE_STEP \in Nat \ {0}
  /\ MIN_BUFFER_SIZE_TARGET \in Nat /\ MAX_BUFFER_SIZE_TARGET \in Nat

VARIABLES
  commands,   \* CommandAllocator: set, tick_ids, pools, buffers, index
  transient,  \* TransientBufferAllocator (one type): free, used, bytes, average, made
  dma         \* DmaSystem: is a command buffer open

Sets == 0 .. MAX_PENDING_FRAMES - 1
Least(S) == CHOOSE x \in S : \A y \in S : x <= y

\* The elements of a sequence that are in S, in their order.
Kept(s, S) == FoldLeft(LAMBDA t, x : IF x \in S THEN Append(t, x) ELSE t, <<>>, s)
-----------------------------------------------------------------------------
(* CommandAllocator: one pool per set and queue; a set serves one tick.     *)

Pool(c, s, q) == <<"commands", s, q, c.pools[s][q]>>

\* allocate: the next buffer of the current set, a new one when they are used up.
Allocated(c, q) ==
  IF c.index[q] < c.buffers[c.set][q] THEN [c EXCEPT !.index[q] = @ + 1]
  ELSE [c EXCEPT !.buffers[c.set][q] = @ + 1, !.index[q] = c.buffers[c.set][q] + 1]

\* onFrameTickBegin, up to the wait: the set of the new tick and the tick that used
\* it last.
SetOf(tick) == tick % MAX_PENDING_FRAMES

Exchanged(c, tick) == [c EXCEPT !.set = SetOf(tick), !.tick_ids[SetOf(tick)] = tick]

MustWait(c, completed, tick) == c.tick_ids[SetOf(tick)] > completed

ResetPools(c) == {Pool(c, c.set, q) : q \in Queues}

\* onFrameTickEnd: a pool with too many buffers not used in this tick is replaced.
Excessive(c) == {q \in Queues : c.buffers[c.set][q] > c.index[q] + POOL_MAX_EXCESS_CMDBUFS}

Shrunk(c) ==
  [c EXCEPT !.pools[c.set] = [q \in Queues |-> IF q \in Excessive(c) THEN @[q] + 1 ELSE @[q]],
            !.buffers[c.set] = [q \in Queues |-> IF q \in Excessive(c) THEN 0 ELSE @[q]],
            !.index = [q \in Queues |-> 0]]
-----------------------------------------------------------------------------
(* TransientBufferAllocator: buffers given out from the top down; a free one *)
(* that cannot serve a request moves to the used list until its last tick   *)
(* has completed.                                                           *)

BufferRes(id) == <<"transient", id>>

RoundUp(n, step) == ((n + step - 1) \div step) * step
Clamp(n, lo, hi) == IF n < lo THEN lo ELSE IF n > hi THEN hi ELSE n
Larger(m, n) == IF m > n THEN m ELSE n

\* addBuffer: sized after the average use of a tick, never below the request.
NewBuffer(t, size) ==
  LET n == RoundUp(Larger(Clamp(t.average, MIN_BUFFER_SIZE_TARGET, MAX_BUFFER_SIZE_TARGET), size),
                   BUFFER_SIZE_STEP)
  IN  [id |-> t.made + 1, size |-> n, top |-> n, tick |-> INVALID]

\* allocate: passes over the buffers that are too full, which are done with.
Fitting(t, size) == {i \in DOMAIN t.free : t.free[i].top >= size}

\* The buffer that serves a request and what the allocator becomes.
Taken(t, size, align, tick) ==
  LET fit == Fitting(t, size)
      passed == IF fit = {} THEN Len(t.free) ELSE Least(fit) - 1
      b == IF fit = {} THEN NewBuffer(t, size) ELSE t.free[Least(fit)]
      top == ((b.top - size) \div align) * align
      rest == IF fit = {} THEN <<>> ELSE SubSeq(t.free, Least(fit) + 1, Len(t.free))
  IN  [res |-> BufferRes(b.id),
       state |-> [free |-> <<[b EXCEPT !.top = top, !.tick = tick]>> \o rest,
                  used |-> t.used \o SubSeq(t.free, 1, passed),
                  bytes |-> t.bytes + b.top - top,
                  average |-> t.average,
                  made |-> IF fit = {} THEN b.id ELSE t.made]]

Stale(b, completed, tick) ==
  b.tick <= completed /\ b.tick + STALE_BUFFER_AGE_THRESHOLD < tick

\* (mutant) Forgets that the last tick may still run.
RecyclableEarly(b, completed) == b.tick <= completed + 1

\* onFrameTickBegin: destroys stale buffers, resets the used ones whose tick has
\* completed and appends them to the free list.
Recyclable(b, completed) == b.tick <= completed

Recycled(t, completed, tick) ==
  LET stale == {b \in Range(t.free) \cup Range(t.used) : Stale(b, completed, tick)}
      done == {b \in Range(t.used) : Recyclable(b, completed)}
      back == Kept(t.used, done \ stale)
  IN  [t EXCEPT !.free = Kept(@, Range(@) \ stale)
                          \o [i \in DOMAIN back |-> [back[i] EXCEPT !.top = back[i].size]],
                !.used = Kept(@, Range(@) \ done)]

RecycledRes(t, completed, tick) ==
  {BufferRes(b.id) : b \in {x \in Range(t.free) : Stale(x, completed, tick)}
                        \cup {x \in Range(t.used) : Recyclable(x, completed)}}

\* onFrameTickEnd: the average of what a tick allocates.
Averaged(t) == [t EXCEPT !.average = (t.average + t.bytes) \div 2, !.bytes = 0]
-----------------------------------------------------------------------------
(* DmaSystem: the copies of a tick go into one command buffer.              *)

DmaInit == dma = FALSE

\* ensureCmdBuffer
CommandsForDma(c) == IF dma THEN c ELSE Allocated(c, "dma")

\* uploadToBuffer and copyBufferToBuffer: what the copy reads and writes, and the
\* pool of the command buffer it is recorded in.
CopyUses(c, src, dst) == {src, dst, Pool(c, c.set, "dma")}

\* flush: submits the open command buffer, if there is one.
Flushed(d) == IF dma THEN Submitted(d, "dma") ELSE d
=============================================================================
