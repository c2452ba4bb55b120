----------------------------- MODULE GfxSystem -----------------------------
(***************************************************************************)
(* GfxSystem::drawFrame (src/voxen/gfx/gfx_system.cpp) with everything it  *)
(* calls: a frame tick begins in every component, the render graph is      *)
(* executed, the tick ends in every component.  The CPU runs one step at a *)
(* time; between any two the GPU may finish submissions.                   *)
(***************************************************************************)
EXTENDS GfxMeshes, GfxSwapchain

CONSTANTS Plans     \* bound: what a behaviour may ask of the renderer

ASSUME PlansAssumption ==
  /\ CONST_UPLOAD_BUFFER_STARTING_SIZE \in Nat
  /\ \A p \in Plans :
       /\ p.constants \subseteq Seq(Nat) /\ p.dynamic \subseteq Nat /\ p.scratch \subseteq Nat
       /\ p.draws \subseteq SUBSET Keys
       /\ \A n \in p.counts : /\ n \in [Streams -> Nat]
                             /\ \A s \in Streams : n[s] * ElementSize[s] <= POOL_SIZE_BYTES

VARIABLES
  phase,      \* the step of drawFrame taken next
  passed,     \* the completed tick handed to the components of this tick
  latest,     \* key -> version of its surface in the land state
  faults,     \* number of faults of the window system so far
  plan        \* the plan of this behaviour

vars == <<finished, device, ticks, uses, released, commands, transient, dma,
          infos, visits, transfers, pools, made, ring, swapchain, graph,
          phase, passed, latest, faults, plan>>

frameVars == <<ring, swapchain, graph>>
recordVars == <<commands, transient, dma>>
-----------------------------------------------------------------------------
\* After the constructor: tick 1 has begun, the font atlas is being copied by a
\* command buffer of its own.
FontUpload ==
  Taken([free |-> <<>>, used |-> <<>>, bytes |-> 0, average |-> 0, made |-> 0], 1, 1, 1)

Init ==
  LET font == FontUpload
      set == SetOf(1)
  IN  /\ finished = [q \in Queues |-> 0]
      /\ device = [submitted |-> [q \in Queues |-> IF q = "main" THEN 1 ELSE 0],
                   observed |-> [q \in Queues |-> 0], destroy_queue |-> <<>>, tick |-> 1]
      /\ TicksInit
      /\ commands = [set |-> set, tick_ids |-> [s \in Sets |-> IF s = set THEN 1 ELSE INVALID],
                     pools |-> [s \in Sets |-> [q \in Queues |-> 0]],
                     buffers |-> [s \in Sets |-> [q \in Queues |-> IF s = set /\ q = "main" THEN 1 ELSE 0]],
                     index |-> [q \in Queues |-> IF q = "main" THEN 1 ELSE 0]]
      /\ transient = font.state
      /\ uses = {[res |-> r, queue |-> "main", at |-> 1, tick |-> 1] :
                   r \in {font.res, Pool(commands, set, "main")}}
      /\ released = {}
      /\ DmaInit /\ MeshesInit /\ RingInit /\ SwapchainInit /\ GraphInit
      /\ phase = "idle"
      /\ passed = 0
      /\ latest = [k \in Keys |-> 0]
      /\ faults = 0
      /\ plan \in Plans

Goto(p) == phase' = p /\ UNCHANGED plan

\* startNextTick and Device::onFrameTickBegin.
StartTick ==
  /\ phase = "idle" /\ ticks.current < plan.ticks
  /\ ticks' = StartedNext
  /\ passed' = StartedNext.completed
  /\ released' = Destroyed(device, passed')
  /\ device' = [Processed(ObservedNow(device), passed') EXCEPT !.tick = ticks'.current]
  /\ Goto("commands")
  /\ UNCHANGED <<finished, uses, recordVars, meshVars, frameVars, latest, faults>>

\* CommandAllocator::onFrameTickBegin: waits for the tick that used the set before.
BeginCommands ==
  LET new == ticks.current
      old == commands.tick_ids[SetOf(new)]
      wait == MustWait(commands, passed, new)
  IN  /\ phase = "commands"
      /\ IF wait
         THEN /\ CanReturnTick(old)
              /\ device' = WaitedTickDevice(device, old)
              /\ ticks' = WaitedTick(old)
         ELSE UNCHANGED <<device, ticks>>
      /\ commands' = Exchanged(commands, new)
      /\ released' = ResetPools(commands')
      /\ Goto("transient")
      /\ UNCHANGED <<finished, uses, transient, dma, meshVars, frameVars, passed, latest, faults>>

\* TransientBufferAllocator::onFrameTickBegin.
BeginTransient ==
  /\ phase = "transient"
  /\ transient' = Recycled(transient, passed, ticks.current)
  /\ released' = RecycledRes(transient, passed, ticks.current)
  /\ Goto("meshes")
  /\ UNCHANGED <<finished, device, ticks, uses, commands, dma, meshVars, frameVars, passed,
                 latest, faults>>

SetMeshes(w) ==
  /\ infos' = w.infos /\ visits' = w.visits /\ transfers' = w.transfers
  /\ pools' = w.pools /\ made' = w.made

RecordCopies(w) ==
  /\ dma' = (dma \/ w.copied # {})
  /\ commands' = IF w.copied # {} THEN CommandsForDma(commands) ELSE commands

\* MeshStreamer::onFrameTickBegin.
BeginMeshes ==
  LET w == Begun(passed, ticks.current)
  IN  /\ phase = "meshes"
      /\ SetMeshes(SweepPools(w, passed))
      /\ RecordCopies(w)
      /\ uses' = uses \cup Recorded(w.copied, "dma")
      /\ released' = SweptRes(w, passed)
      /\ transient' = w.transient
      /\ Goto("acquire")
      /\ UNCHANGED <<finished, device, ticks, frameVars, passed, latest, faults>>
-----------------------------------------------------------------------------
(* RenderGraphRunner::executeGraph                                         *)

\* acquireImage waits for the frame that used the same semaphores; the first call
\* reuses them.
AwaitFrame ==
  /\ phase = "acquire"
  /\ CanReturn(device, "main", swapchain.previous[swapchain.frame])
  /\ device' = Waited(device, "main", swapchain.previous[swapchain.frame])
  /\ swapchain' = [swapchain EXCEPT !.retries = 0]
  /\ released' = {AcquireSemaphore(swapchain), PresentSemaphore(swapchain)}
  /\ Goto("acquiring")
  /\ UNCHANGED <<finished, ticks, uses, recordVars, meshVars, ring, graph, passed, latest, faults>>

Acquire ==
  /\ phase = "acquiring"
  /\ swapchain' = [swapchain EXCEPT !.acquired = TRUE]
  /\ released' = {}
  /\ Goto("record")
  /\ UNCHANGED <<finished, device, ticks, uses, recordVars, meshVars, ring, graph, passed,
                 latest, faults>>

Fault == faults < plan.faults /\ faults' = faults + 1

\* VK_ERROR_OUT_OF_DATE_KHR
Outdate(s) ==
  /\ Fault
  /\ swapchain' \in Recreated(s)
  /\ device' = Enqueued(device, <<ChainRes(s)>>)
  /\ released' = {}

\* (mutant) The swapchains that wait to be destroyed are left to their tick.
LoseSurfaceOnly(s) ==
  /\ Fault /\ Idle
  /\ swapchain' \in Resurfaced(s)
  /\ released' = {ChainRes(s)}
  /\ device' = [device EXCEPT !.observed = device.submitted]

\* VK_ERROR_SURFACE_LOST_KHR
LoseSurface(s) ==
  /\ Fault /\ Idle
  /\ swapchain' \in Resurfaced(s)
  /\ released' = ForceDestroyed(device) \cup {ChainRes(s)}
  /\ device' = Forced(device)

\* Another error, or a recreation that fails: nothing is left to draw to.
Break(s) ==
  /\ Fault /\ Idle
  /\ swapchain' = Broken(s)
  /\ released' = ForceDestroyed(device) \cup {ChainRes(s)}
  /\ device' = Forced(device)
  /\ Goto("dead")

Reacquire ==
  LET again == [swapchain EXCEPT !.retries = @ + 1]
  IN  /\ phase = "acquiring"
      /\ \/ /\ swapchain.retries < RETRY_LIMIT
            /\ Outdate(again) \/ LoseSurface(again)
            /\ Goto("acquiring")
         \/ Break(swapchain)
      /\ UNCHANGED <<finished, ticks, uses, recordVars, meshVars, ring, graph, passed, latest>>

\* The land state may have a newer surface of a chunk by the time of a frame.
Newer ==
  {v \in [Keys -> 0 .. 1] : \A k \in Keys : v[k] \in latest[k] .. plan.versions[k]}

DrawList(K, versions, n) ==
  FoldLeft(LAMBDA w, k : MakeDrawCommand(w, k, versions[k], n[k], ticks.current), Here, SetToSeq(K))

\* The constants of a frame.
UploadAll(sizes) ==
  FoldLeft(Uploaded, [buffers |-> ring.buffers[ring.current], made |-> ring.made, res |-> {}], sizes)

\* What the passes use: the frame context, the image and its semaphores, resources of the
\* graph, and others: meshes, constants and transient data.
PassUses(g, other) ==
  Recorded({ContextRes(ring.current), GraphRes(g), DynamicRes(g), ChainRes(swapchain),
            AcquireSemaphore(swapchain), PresentSemaphore(swapchain)} \cup other, "main")

\* From the acquisition to the end of the recording.
Record ==
  /\ phase = "record"
  /\ \E K \in plan.draws, versions \in Newer, n \in [Keys -> plan.counts],
        sizes \in plan.constants, scratch \in plan.scratch, dynamic \in plan.dynamic :
       LET w == DrawList(K, versions, n)
           constants == UploadAll(sizes)
           t == Taken(w.transient, scratch, 1, ticks.current)
           rebuild == Outdated(graph, swapchain)
           g == IF rebuild THEN Rebuilt(graph, swapchain) ELSE graph
           junk == (IF rebuild THEN <<GraphRes(graph), DynamicRes(graph)>> ELSE <<>>)
                   \o (IF TooSmall(g, dynamic) THEN <<DynamicRes(g)>> ELSE <<>>)
       IN  /\ latest' = versions
           /\ SetMeshes(w)
           /\ RecordCopies(w)
           /\ transient' = t.state
           /\ ring' = [ring EXCEPT !.buffers[ring.current] = constants.buffers, !.made = constants.made]
           /\ graph' = Sized(g, dynamic)
           /\ device' = Enqueued(device, junk)
           /\ uses' = uses \cup Recorded(w.copied, "dma")
                         \cup PassUses(graph', w.drawn \cup {t.res} \cup constants.res)
  /\ released' = {}
  /\ Goto("submit")
  /\ UNCHANGED <<finished, ticks, swapchain, passed, faults>>

\* submitAndAdvance: submits the current context; the next one is waited for and
\* reset.  A failed submission gives up the whole ring.
Submit ==
  /\ phase = "submit"
  /\ device' = Submitted(device, "main")
  /\ ring' = Advanced(ring, device'.submitted["main"])
  /\ released' = {}
  /\ Goto("reset")
  /\ UNCHANGED <<finished, ticks, uses, recordVars, meshVars, swapchain, graph, passed, latest,
                 faults>>

SubmitFails ==
  /\ phase = "submit" /\ Fault
  /\ device' = Enqueued(device, [f \in 1 .. MAX_PENDING_FRAMES |-> ContextRes(f - 1)])
  /\ released' = {}
  /\ Goto("dead")
  /\ UNCHANGED <<finished, ticks, uses, recordVars, meshVars, frameVars, passed, latest>>

WaitAndReset ==
  /\ phase = "reset"
  /\ CanReturn(device, "main", ring.timelines[ring.current])
  /\ device' = Enqueued(Waited(device, "main", ring.timelines[ring.current]), Junk(ring))
  /\ released' = ResetRes(ring)
  /\ ring' = ResetContext(ring)
  /\ Goto("present")
  /\ UNCHANGED <<finished, ticks, uses, recordVars, meshVars, swapchain, graph, passed, latest,
                 faults>>

Present ==
  LET s == Presented(swapchain, device.submitted["main"])
  IN  /\ phase = "present"
      /\ \/ /\ swapchain' = s /\ released' = {}
            /\ UNCHANGED <<device, faults>>
            /\ Goto("end")
         \/ (Outdate(s) \/ LoseSurface(s)) /\ Goto("end")
         \/ Break(s)
      /\ UNCHANGED <<finished, ticks, uses, recordVars, meshVars, ring, graph, passed, latest>>

\* The components' onFrameTickEnd: the DMA commands of the tick are submitted, then
\* the allocators take stock.
EndTick ==
  LET excess == SetToSeq({Pool(commands, commands.set, q) : q \in Excessive(commands)})
  IN  /\ phase = "end"
      /\ device' = Enqueued(Flushed(device), excess)
      /\ dma' = FALSE
      /\ transient' = Averaged(transient)
      /\ commands' = Shrunk(commands)
      /\ released' = {}
      /\ Goto("idle")
      /\ UNCHANGED <<finished, ticks, uses, meshVars, frameVars, passed, latest, faults>>
-----------------------------------------------------------------------------
Draw ==
  \/ BeginCommands \/ BeginTransient \/ BeginMeshes
  \/ AwaitFrame \/ Acquire \/ Reacquire \/ Record \/ Submit \/ SubmitFails \/ WaitAndReset
  \/ Present \/ EndTick

Gpu(q) ==
  GpuFinish(q) /\ UNCHANGED <<recordVars, meshVars, frameVars, phase, passed, latest, faults, plan>>

Next == StartTick \/ Draw \/ \E q \in Queues : Gpu(q)

Spec == Init /\ [][Next]_vars
-----------------------------------------------------------------------------
(* Properties                                                              *)

\* The CPU waits for nothing it has not submitted.
AwaitedSubmitted ==
  /\ \A i \in DOMAIN ticks.packs, q \in Queues :
       ticks.packs[i].timelines[q] <= device.submitted[q]
  /\ \A f \in Frames : /\ ring.timelines[f] <= device.submitted["main"]
                        /\ swapchain.previous[f] <= device.submitted["main"]
  /\ phase = "commands" /\ MustWait(commands, passed, ticks.current) =>
       LET old == commands.tick_ids[SetOf(ticks.current)]
       IN  old <= ticks.completed \/ \E i \in DOMAIN ticks.packs : ticks.packs[i].tick = old

\* What the CPU believes about the GPU is true, it is never more than MAX_PENDING_FRAMES
\* ticks ahead once it has its command pools (startNextTick, waitTickCompletion,
\* forceCompletion), and every frame that begins can end: nothing is awaited that was not
\* submitted (the waits of CommandAllocator, FrameContext and Swapchain).
TicksSound ==
  /\ CompletionSound
  /\ phase \notin {"idle", "commands"} => ticks.current - ticks.completed <= MAX_PENDING_FRAMES
  /\ AwaitedSubmitted
=============================================================================
