---------------------------- MODULE GfxSwapchain ----------------------------
(***************************************************************************)
(* Where the frames of the renderer are recorded and shown: the ring of    *)
(* frame contexts (frame_context.cpp), the swapchain (vk_swapchain.cpp)    *)
(* and the resources of the render graph (render_graph_runner.cpp,         *)
(* render_graph_private.cpp), under src/voxen/gfx/vk.                      *)
(***************************************************************************)
EXTENDS GfxDevice

CONSTANTS CONST_UPLOAD_BUFFER_STARTING_SIZE,
          RETRY_LIMIT

VARIABLES
  ring,       \* FrameContextRing: current; of each context timelines, buffers; made
  swapchain,  \* Swapchain: frame, acquired, previous, surface, chain, extent, retries, bad
  graph       \* RenderGraphPrivate: made, known extent, size of a dynamic buffer

Frames == 0 .. MAX_PENDING_FRAMES - 1
-----------------------------------------------------------------------------
(* Frame contexts                                                          *)

RingInit ==
  ring = [current |-> 0,
          timelines |-> [f \in Frames |-> 0],
          buffers |-> [f \in Frames |-> <<>>],
          made |-> 0]

\* The context's command pool and descriptor pools are reset together.
ContextRes(f) == <<"context", f>>
ConstRes(id) == <<"constants", id>>

Greater(m, n) == IF m > n THEN m ELSE n

\* addConstantUploadBuffer: what is taken from the buffer at once is not free.
AddedBuffer(made, size, taken) == [id |-> made + 1, size |-> size, free |-> size - taken]

\* allocateConstantUpload: the first buffer with room, or a new one, half as large
\* again as the last.  x is the state: buffers, made, and res, what uploads use.
Uploaded(x, size) ==
  LET bufs == x.buffers
      fit == {i \in DOMAIN bufs : bufs[i].free >= size}
      i == CHOOSE n \in fit : \A j \in fit : n <= j
      first == Greater(size, CONST_UPLOAD_BUFFER_STARTING_SIZE)
      grown == LET n == Greater(first, bufs[Len(bufs)].size) IN n + n \div 2
  IN  IF fit # {}
      THEN [x EXCEPT !.buffers[i].free = @ - size, !.res = @ \cup {ConstRes(bufs[i].id)}]
      ELSE [buffers |-> Append(bufs, AddedBuffer(x.made, IF bufs = <<>> THEN first ELSE grown, size)),
            made |-> x.made + 1, res |-> x.res \cup {ConstRes(x.made + 1)}]

\* submit, then the next context becomes the current one.
Advanced(r, value) ==
  [r EXCEPT !.timelines[r.current] = value,
            !.current = (r.current + 1) % MAX_PENDING_FRAMES]

\* waitAndReset, after the wait: several constant buffers are replaced by one of
\* what they held and a sixteenth more; a single one is emptied.
HeldBytes(bufs) == FoldLeft(LAMBDA n, b : n + b.size - b.free, 0, bufs)

Junk(r) ==
  LET bufs == r.buffers[r.current]
  IN  IF Len(bufs) > 1 THEN [i \in DOMAIN bufs |-> ConstRes(bufs[i].id)] ELSE <<>>

ResetContext(r) ==
  LET bufs == r.buffers[r.current]
      held == HeldBytes(bufs)
  IN  IF Len(bufs) > 1
      THEN [r EXCEPT !.made = @ + 1,
                     !.buffers[r.current] = <<AddedBuffer(r.made, held + held \div 16, 0)>>]
      ELSE [r EXCEPT !.buffers[r.current] =
                       [i \in DOMAIN bufs |-> [bufs[i] EXCEPT !.free = bufs[i].size]]]

\* What the reset gives back to the CPU: the pools and the one constant buffer.
ResetRes(r) ==
  LET bufs == r.buffers[r.current]
  IN  {ContextRes(r.current)} \cup (IF Len(bufs) = 1 THEN {ConstRes(bufs[1].id)} ELSE {})
-----------------------------------------------------------------------------
(* Swapchain                                                               *)

SwapchainInit ==
  swapchain = [frame |-> 0, acquired |-> FALSE, previous |-> [f \in Frames |-> 0],
               surface |-> 1, chain |-> 1, extent |-> 1, retries |-> 0, bad |-> FALSE]

\* A swapchain with its images and views, of the surface it was created for.
ChainRes(s) == <<"swapchain", s.chain, s.surface>>
AcquireSemaphore(s) == <<"acquire", s.frame>>
PresentSemaphore(s) == <<"present", s.frame>>

\* recreateSwapchain: the old one is queued for destruction, the window may have
\* another extent by now.
Recreated(s) == {[s EXCEPT !.chain = @ + 1, !.extent = e] : e \in {1, 2}}

\* After a lost surface: everything is destroyed at once and created again.
Resurfaced(s) == {[t EXCEPT !.surface = @ + 1] : t \in Recreated(s)}

\* What a failed recreation leaves: nothing to draw to ever again.
Broken(s) == [s EXCEPT !.bad = TRUE, !.acquired = FALSE]

\* presentImage: the image goes back and the next frame's semaphores are up.
Presented(s, value) ==
  [s EXCEPT !.previous[s.frame] = value, !.acquired = FALSE,
            !.frame = (s.frame + 1) % MAX_PENDING_FRAMES]
-----------------------------------------------------------------------------
(* Resources of the render graph                                           *)

GraphInit == graph = [made |-> 1, extent |-> swapchain.extent, dynamic |-> 0, grown |-> 0]

GraphRes(g) == <<"graph", g.made>>
DynamicRes(g) == <<"dynamic", g.made, g.grown>>

\* executeGraph after the acquisition: a swapchain of another size rebuilds the
\* graph, whose resources are queued for destruction (RenderGraphPrivate::clear).
Outdated(g, s) == g.extent # s.extent

Rebuilt(g, s) == [g EXCEPT !.made = @ + 1, !.extent = s.extent, !.dynamic = 0, !.grown = 0]

\* setDynamicBufferSize: a larger buffer replaces one that is too small.
TooSmall(g, size) == g.dynamic < size

Sized(g, size) ==
  IF TooSmall(g, size) THEN [g EXCEPT !.dynamic = size, !.grown = @ + 1] ELSE g
-----------------------------------------------------------------------------
(* Properties                                                              *)

\* A surface outlives every swapchain created for it: those that wait in the destroy
\* queue are gone before a lost surface is destroyed (acquireImage, presentImage).
SurfaceOutlives ==
  \A i \in DOMAIN device.destroy_queue :
    LET r == device.destroy_queue[i].res
    IN  r[1] = "swapchain" => r[3] = swapchain.surface /\ r[2] < swapchain.chain /\ ~swapchain.bad
=============================================================================
