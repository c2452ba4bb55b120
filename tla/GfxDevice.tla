----------------------------- MODULE GfxDevice -----------------------------
(***************************************************************************)
(* The device of the renderer (src/voxen/gfx/vk/vk_device.cpp) and the     *)
(* frame ticks built on it (src/voxen/gfx/frame_tick_source.cpp).          *)
(*                                                                         *)
(* The CPU submits command buffers to queues; the GPU finishes those of a  *)
(* queue in order and at its own pace.  A submission is known by its place *)
(* in its queue, the value its timeline semaphore gets when it finishes.   *)
(* What a recorded or submitted command buffer touches is kept in `uses`   *)
(* until it finishes; `released` is what the last step destroyed or reset. *)
(***************************************************************************)
EXTENDS Integers, Sequences, FiniteSets, SequencesExt, FiniteSetsExt, Functions

CONSTANTS Queues,               \* the device's queues
          MAX_PENDING_FRAMES    \* Consts::MAX_PENDING_FRAMES

ASSUME PendingAssumption == MAX_PENDING_FRAMES \in Nat \ {0}
ASSUME QueuesAssumption == IsFiniteSet(Queues) /\ {"main", "dma"} \subseteq Queues

VARIABLES
  finished,   \* queue -> value of its timeline semaphore
  device,     \* Device: submitted, observed, destroy_queue, tick
  ticks,      \* FrameTickSource: current, completed, packs (new to old)
  uses,       \* unfinished uses [res, queue, at, tick] of resources by the GPU
  released    \* resources destroyed or reset by the last step

gpuVars == <<finished, uses, released>>
INVALID == -1
-----------------------------------------------------------------------------
(* Device                                                                  *)

\* The uses of resources R by the command buffer recorded next for queue q.
Recorded(R, q) ==
  {[res |-> r, queue |-> q, at |-> device.submitted[q] + 1, tick |-> ticks.current] : r \in R}

\* submitCommands: the timeline advances after a successful submission.
Submitted(d, q) == [d EXCEPT !.submitted[q] = @ + 1]

\* waitForTimeline: looks at the semaphore unless the value was seen before, and
\* returns once the GPU is there.
CanReturn(d, q, value) == value <= d.observed[q] \/ value <= finished[q]

Waited(d, q, value) == IF value <= d.observed[q] THEN d ELSE [d EXCEPT !.observed[q] = finished[q]]

\* waitForTimelines: all queues at once, never looking back.
CanReturnAll(values) == \A q \in Queues : values[q] <= finished[q]

WaitedAll(d, values) ==
  [d EXCEPT !.observed = [q \in Queues |-> IF @[q] > values[q] THEN @[q] ELSE values[q]]]

\* How many items at the front of the queue date from ticks up to `tick`.
SafeCount(queue, tick) ==
  LET late == {i \in DOMAIN queue : queue[i].tick > tick}
  IN  IF late = {} THEN Len(queue) ELSE (CHOOSE i \in late : \A j \in late : i <= j) - 1

\* processDestroyQueue: what it destroys and what it leaves.
Destroyed(d, tick) ==
  {d.destroy_queue[i].res : i \in 1 .. SafeCount(d.destroy_queue, tick)}

Processed(d, tick) ==
  [d EXCEPT !.destroy_queue = SubSeq(@, SafeCount(@, tick) + 1, Len(@))]

\* enqueueJunkItem, for each item of a sequence.
Enqueued(d, items) ==
  [d EXCEPT !.destroy_queue = @ \o [i \in DOMAIN items |-> [res |-> items[i], tick |-> d.tick]]]

\* forceCompletion: waits until the device is idle and destroys everything queued.
Idle == \A q \in Queues : finished[q] = device.submitted[q]

Forced(d) == [d EXCEPT !.observed = d.submitted, !.destroy_queue = <<>>]

ForceDestroyed(d) == {d.destroy_queue[i].res : i \in DOMAIN d.destroy_queue}

\* The GPU finishes the next submission of a queue.
GpuFinish(q) ==
  /\ finished[q] < device.submitted[q]
  /\ finished' = [finished EXCEPT ![q] = @ + 1]
  /\ uses' = {u \in uses : u.queue # q \/ u.at > finished[q] + 1}
  /\ released' = {}
  /\ UNCHANGED <<device, ticks>>
-----------------------------------------------------------------------------
(* FrameTickSource                                                         *)

TicksInit == ticks = [current |-> 1, completed |-> 0, packs |-> <<>>]

\* (mutant) Looks at one queue only.
SomeComplete(pack) == \E q \in Queues : pack.timelines[q] <= finished[q]

\* TimelinePack::allComplete, against what the semaphores show now.
AllComplete(pack) == \A q \in Queues : pack.timelines[q] <= finished[q]

\* startNextTick: pops complete packs from the old end up to the first one that is
\* not, then records the tick that ends here or takes it as completed at once.
Popped ==
  LET left == {i \in DOMAIN ticks.packs : ~AllComplete(ticks.packs[i])}
  IN  IF left = {} THEN 0 ELSE CHOOSE i \in left : \A j \in left : i >= j

StartedWith(pack) ==
  LET left == SubSeq(ticks.packs, 1, Popped)
  IN  [current |-> ticks.current + 1,
       completed |-> CASE AllComplete(pack) -> ticks.current
                       [] ~AllComplete(pack) /\ Popped < Len(ticks.packs) ->
                            ticks.packs[Popped + 1].tick
                       [] OTHER -> ticks.completed,
       packs |-> IF AllComplete(pack) THEN left ELSE <<pack>> \o left]

StartedNext == StartedWith([tick |-> ticks.current, timelines |-> device.submitted])

\* The same call brings the device's view of the timelines up to date.
ObservedNow(d) == [d EXCEPT !.observed = finished]

\* waitTickCompletion: waits for the pack of that tick and drops the older ones;
\* the pack itself stays, to be popped by the next startNextTick.
PackOf(tick) == CHOOSE i \in DOMAIN ticks.packs : ticks.packs[i].tick = tick

WaitedTick(tick) ==
  IF tick <= ticks.completed THEN ticks
  ELSE [ticks EXCEPT !.packs = SubSeq(@, 1, PackOf(tick)), !.completed = tick]

WaitedTickDevice(d, tick) ==
  IF tick <= ticks.completed THEN d ELSE WaitedAll(d, ticks.packs[PackOf(tick)].timelines)

CanReturnTick(tick) ==
  tick <= ticks.completed \/ CanReturnAll(ticks.packs[PackOf(tick)].timelines)
-----------------------------------------------------------------------------
(* Properties                                                              *)

\* Nothing the GPU may still touch is destroyed or reset: command pools, buffers,
\* descriptor pools, swapchain images, semaphores (every enqueueDestroy, reset and
\* direct vkDestroy of the renderer).
InFlightKept == \A u \in uses : u.res \notin released

\* What the CPU believes about the GPU is true: a timeline seen is finished, nothing
\* recorded in a tick called completed is still to run, and items wait in tick order.
CompletionSound ==
  /\ \A q \in Queues : device.observed[q] <= finished[q]
  /\ \A u \in uses : u.tick > ticks.completed
  /\ ticks.completed < ticks.current
  /\ \A i, j \in DOMAIN ticks.packs : i < j => ticks.packs[i].tick > ticks.packs[j].tick
  /\ \A i \in DOMAIN ticks.packs :
       ticks.packs[i].tick <= ticks.completed => AllComplete(ticks.packs[i])
  /\ \A i, j \in DOMAIN device.destroy_queue :
       i < j => device.destroy_queue[i].tick <= device.destroy_queue[j].tick
=============================================================================
