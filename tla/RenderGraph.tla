---------------------------- MODULE RenderGraph ----------------------------
(***************************************************************************)
(* The render graph under src/voxen/gfx/vk: a graph declares resources and *)
(* passes to RenderGraphBuilder, which puts barriers between the passes;   *)
(* RenderGraphRunner creates the resources, replays the commands in every  *)
(* frame and builds the graph again when the window changes.  One thread   *)
(* runs all of it; what it must get right is the order the GPU will see.   *)
(***************************************************************************)
EXTENDS Integers, Sequences, FiniteSets, SequencesExt

CONSTANTS Resources,   \* name -> [mips, sibling, image, dynamic]; "output" is the swapchain's
          Passes,      \* bound: the passes a graph may declare, each a sequence of uses
          MaxPasses,   \* bound: passes of a graph
          MaxFrames    \* bound: executions and rebuilds

VARIABLES
  commands,    \* the barrier and pass commands, in order
  states,      \* part of a resource -> its last accesses
  usage,       \* resource -> usages its create info asks for
  handles,     \* resource -> handle of its private part, 0 for none
  created,     \* handle -> usages it was created with
  destroyed,   \* handles given to enqueueDestroy
  published,   \* resource -> handle its public object shows
  frame,       \* executions and rebuilds so far, what the frame before published
  phase

graphVars == <<commands, states, usage, handles, created, destroyed, published, frame, phase>>

-----------------------------------------------------------------------------
(* What passes declare: the accesses to resources, and what the resources   *)
(* must be created for because of them.                                    *)

UNDEFINED == "undefined"

KNOWN_WRITE_FLAGS == {"color_write", "depth_write", "transfer_write", "storage_write"}
Writes(access) == access \cap KNOWN_WRITE_FLAGS
Reads(access) == access \ KNOWN_WRITE_FLAGS

ImageUsages ==
  [color_read |-> "color", color_write |-> "color", depth_read |-> "depth", depth_write |-> "depth",
   transfer_read |-> "source", transfer_write |-> "target", sampled_read |-> "sampled",
   storage_read |-> "storage", storage_write |-> "storage"]

BufferUsages ==
  [indirect_read |-> "indirect", uniform_read |-> "uniform", transfer_read |-> "source",
   transfer_write |-> "target", sampled_read |-> "texel", storage_read |-> "storage",
   storage_write |-> "storage"]

\* A use of the mips `first` to `last` of a resource.
Use(r, first, last, stages, access, layout, discard) ==
  [res |-> r, first |-> first, last |-> last, stages |-> stages, access |-> access,
   layout |-> layout, discard |-> discard]

makeBufferUsage(r, stages, access) == Use(r, 1, 1, stages, access, UNDEFINED, FALSE)

makeImageViewUsage(r, first, last, stages, access, layout, discard) ==
  Use(r, first, last, stages, access, layout, discard)

\* Targets of a render pass; a cleared one loses what it held.  (Those marked read_only are
\* left out: no make... function of the builder makes one.)
ColorTarget(r, mip, clear) ==
  Use(r, mip, mip, {"color_output"}, {"color_read", "color_write"}, "attachment", clear)

DepthTarget(r, mip, clear) ==
  Use(r, mip, mip, {"early_tests", "late_tests"}, {"depth_read", "depth_write"}, "attachment", clear)
-----------------------------------------------------------------------------
Names == DOMAIN Resources
Parts == UNION {{r} \X (1 .. Resources[r].mips) : r \in Names}
Owned == Names \ {"output"}
Sibling(r) == Resources[r].sibling

Fresh == [layout |-> UNDEFINED, stages |-> {}, read |-> {}, write |-> {}]
-----------------------------------------------------------------------------
(* RenderGraphBuilder; b is [commands, states, usage]                      *)

PartsOf(u) == {u.res} \X (u.first .. u.last)
After(u, layout) ==
  [layout |-> layout, stages |-> u.stages, read |-> Reads(u.access), write |-> Writes(u.access)]

\* Not accessed before or read after read: the accesses add up.
Joined(s, u) ==
  [s EXCEPT !.stages = @ \cup u.stages, !.read = @ \cup Reads(u.access),
            !.write = @ \cup Writes(u.access)]

\* (mutant) A write after reads needs no barrier.
NoHazardUnwritten(old, u) == old.write = {}

NoHazard(old, u) == old.write = {} /\ (old.read = {} \/ Writes(u.access) = {})

\* What some parts were last used for, taken together.
Together(s, P) ==
  [stages |-> UNION {s[p].stages : p \in P}, read |-> UNION {s[p].read : p \in P},
   write |-> UNION {s[p].write : p \in P}]

Barrier(parts, old, u, from, to) ==
  [parts |-> parts, src |-> old.stages, src_access |-> old.read \cup old.write,
   dst |-> u.stages, dst_access |-> u.access, old |-> from, new |-> to]

IsBarrier(cmd) == cmd.kind = "barrier"
IsPass(cmd) == cmd.kind = "pass"

\* Barriers join the barrier command before the next pass.
AddBarriers(cmds, B) ==
  IF cmds # <<>> /\ IsBarrier(Last(cmds))
  THEN [cmds EXCEPT ![Len(cmds)].barriers = @ \cup B]
  ELSE Append(cmds, [kind |-> "barrier", barriers |-> B])

resolveBufferHazards(b, u) ==
  LET p == <<u.res, 1>>
      old == b.states[p]
  IN  IF NoHazard(old, u)
      THEN [b EXCEPT !.states[p] = Joined(@, u)]
      ELSE [b EXCEPT !.commands = AddBarriers(@, {Barrier({p}, old, u, UNDEFINED, UNDEFINED)}),
                     !.states[p] = After(u, UNDEFINED)]

\* One barrier for all the mips when they have one layout or lose their contents, else
\* one barrier for each.
resolveImageHazards(b, u) ==
  LET P == PartsOf(u)
      old == Together(b.states, P)
      layouts == {b.states[p].layout : p \in P}
      from == IF u.discard THEN UNDEFINED ELSE b.states[<<u.res, u.first>>].layout
      uniform == u.discard \/ Cardinality(layouts) = 1
      B == IF uniform THEN {Barrier(P, old, u, from, u.layout)}
           ELSE {Barrier({p}, b.states[p], u, b.states[p].layout, u.layout) : p \in P}
  IN  IF uniform /\ NoHazard(old, u) /\ from = u.layout
      THEN [b EXCEPT !.states = [p \in Parts |-> IF p \in P THEN Joined(@[p], u) ELSE @[p]]]
      ELSE [b EXCEPT !.commands = AddBarriers(@, B),
                     !.states = [p \in Parts |-> IF p \in P THEN After(u, u.layout) ELSE @[p]]]

UsagesOf(u) ==
  LET table == IF Resources[u.res].image THEN ImageUsages ELSE BufferUsages
  IN  {table[a] : a \in u.access}

resolveUse(b, u) ==
  LET known == [b EXCEPT !.usage[u.res] = @ \cup UsagesOf(u)]
  IN  IF Resources[u.res].image THEN resolveImageHazards(known, u)
      ELSE resolveBufferHazards(known, u)

\* makeComputePass and makeRenderPass: the barriers of the uses, then the pass.
WithPass(b, pass) ==
  LET resolved == FoldLeft(resolveUse, b, pass)
  IN  [resolved EXCEPT !.commands = Append(@, [kind |-> "pass", uses |-> pass])]

NewBuilder ==
  [commands |-> <<>>, states |-> [p \in Parts |-> Fresh], usage |-> [r \in Names |-> {}]]

Builder == [commands |-> commands, states |-> states, usage |-> usage]

SetBuilder(b) == commands' = b.commands /\ states' = b.states /\ usage' = b.usage
-----------------------------------------------------------------------------
(* RenderGraphRunner                                                       *)

\* The swapchain's image goes to the presentation engine last.
ToPresent(b) == resolveImageHazards(b, Use("output", 1, 1, {}, {}, "present", FALSE))

\* A double-buffered image is created for what either of the pair is used for.
Normalized(use) == [r \in Names |-> use[r] \cup use[Sibling(r)]]

Static == {r \in Owned : ~ Resources[r].dynamic}

\* finalizeRebuild: handles for all but the dynamic buffers.
Created(b) ==
  LET first == Len(created)
      all == SetToSeq(Static)
      Handle(r) == IF r \in Static THEN first + (CHOOSE i \in DOMAIN all : all[i] = r) ELSE 0
  IN  /\ handles' = [r \in Names |-> Handle(r)]
      /\ created' = created \o [i \in 1 .. Len(all) |-> Normalized(b.usage)[all[i]]]

\* RenderGraphPrivate::clear
Live == {handles[r] : r \in Owned} \ {0}
Clear == destroyed' = destroyed \cup Live

Unpublished == [r \in Names |-> 0]
NewFrame == [frame EXCEPT !.count = @ + 1, !.before = Unpublished]

GraphInit ==
  /\ commands = <<>> /\ states = NewBuilder.states /\ usage = NewBuilder.usage
  /\ handles = Unpublished /\ published = Unpublished
  /\ created = <<>> /\ destroyed = {}
  /\ frame = [count |-> 0, before |-> Unpublished]
  /\ phase = "declare"

\* A pass of the attached graph's rebuild().
Declare ==
  /\ phase = "declare" /\ Cardinality({i \in DOMAIN commands : IsPass(commands[i])}) < MaxPasses
  /\ \E pass \in Passes : SetBuilder(WithPass(Builder, pass))
  /\ UNCHANGED <<handles, created, destroyed, published, frame, phase>>

\* The rest of attachGraph.
Finalize ==
  /\ phase = "declare" /\ commands # <<>>
  /\ LET b == ToPresent(Builder) IN SetBuilder(b) /\ Created(b)
  /\ phase' = "idle"
  /\ UNCHANGED <<destroyed, published, frame>>

\* rebuildGraph, when the window has changed: everything is dropped and the graph
\* declares itself again.
Declared == LET passes == SelectSeq(commands, IsPass) IN [i \in DOMAIN passes |-> passes[i].uses]

Rebuild ==
  /\ phase = "idle" /\ frame.count < MaxFrames
  /\ Clear
  /\ LET b == ToPresent(FoldLeft(WithPass, NewBuilder, Declared)) IN SetBuilder(b) /\ Created(b)
  /\ published' = Unpublished
  /\ frame' = NewFrame
  /\ UNCHANGED phase

\* publishResourceHandles: the two of a double-buffered image exchange their handles;
\* a dynamic buffer shows none before its size is set.
Publish ==
  /\ phase = "idle" /\ frame.count < MaxFrames
  /\ handles' = [r \in Names |-> handles[Sibling(r)]]
  /\ published' = [r \in Names |-> IF r \in Static THEN handles'[r] ELSE 0]
  /\ frame' = [count |-> frame.count + 1, before |-> published]
  /\ phase' = "executing"
  /\ UNCHANGED <<commands, states, usage, created, destroyed>>

\* RenderGraphExecution::setDynamicBufferSize: the buffer of an earlier frame serves
\* if it is large enough.
setDynamicBufferSize(r) ==
  /\ phase = "executing" /\ r \in Owned \ Static /\ published[r] = 0
  /\ \/ /\ handles[r] # 0
        /\ published' = [published EXCEPT ![r] = handles[r]]
        /\ UNCHANGED <<handles, created, destroyed>>
     \/ /\ destroyed' = destroyed \cup ({handles[r]} \ {0})
        /\ created' = Append(created, usage[r])
        /\ handles' = [handles EXCEPT ![r] = Len(created')]
        /\ published' = [published EXCEPT ![r] = Len(created')]
  /\ UNCHANGED <<commands, states, usage, frame, phase>>

\* The commands are recorded with the handles shown.
RunCommands ==
  /\ phase = "executing" /\ 0 \notin {published[r] : r \in Owned}
  /\ phase' = "idle"
  /\ UNCHANGED <<commands, states, usage, handles, created, destroyed, published, frame>>

GraphNext ==
  \/ Declare \/ Finalize \/ Rebuild \/ Publish \/ RunCommands
  \/ \E r \in Owned : setDynamicBufferSize(r)

GraphSpec == GraphInit /\ [][GraphNext]_graphVars
-----------------------------------------------------------------------------
(* Properties                                                              *)

\* What Vulkan promises of a list of commands: a barrier that waits for an access, or
\* for a stage some earlier barrier has made wait for it, makes its own stages wait.
BarriersOf(k, p) == IF IsBarrier(commands[k]) THEN {x \in commands[k].barriers : p \in x.parts} ELSE {}

Waiting(i, u, p) ==
  LET next(x, met) == (u.stages \subseteq x.src /\ Writes(u.access) \subseteq x.src_access)
                      \/ x.src \cap met # {}
      w[k \in i .. Len(commands)] ==
        IF k = i THEN {}
        ELSE w[k - 1] \cup UNION {x.dst : x \in {y \in BarriersOf(k, p) : next(y, w[k - 1])}}
  IN  w

UsesOf(k, p) == IF IsPass(commands[k]) THEN {u \in Range(commands[k].uses) : p \in PartsOf(u)} ELSE {}

\* A read shares the barrier of an earlier one in the same layout.
Shared(i, j, v, p) ==
  \E k \in i + 1 .. j - 1 : \E x \in UsesOf(k, p) : Writes(x.access) = {} /\ x.layout = v.layout

Conflict(u, v) == Writes(u.access) # {} \/ Writes(v.access) # {} \/ u.layout # v.layout

LayoutOf(p) ==
  LET l[k \in 0 .. Len(commands)] ==
        IF k = 0 THEN UNDEFINED
        ELSE LET B == BarriersOf(k, p) IN IF B = {} THEN l[k - 1] ELSE (CHOOSE x \in B : TRUE).new
  IN  l

\* The commands put every write, and every change of layout, after all that touched
\* the same mip before, and the first access after a write after it; every access
\* finds its layout, and nothing that was written is lost unless the next pass said
\* it may be (resolveBufferHazards, resolveImageHazards).
BarriersSound ==
  \A p \in Parts :
    LET layouts == LayoutOf(p)
    IN  \A k \in DOMAIN commands :
          /\ \A x \in BarriersOf(k, p) :
               /\ x.old \in {layouts[k - 1], UNDEFINED}
               /\ x.old # layouts[k - 1] =>
                    k < Len(commands) /\ \A v \in UsesOf(k + 1, p) : v.discard
          /\ \A u \in UsesOf(k, p) :
               LET waiting == Waiting(k, u, p)
               IN  /\ layouts[k] = u.layout
                   /\ \A j \in k + 1 .. Len(commands) : \A v \in UsesOf(j, p) :
                        Conflict(u, v) /\ (Writes(v.access) = {} => ~ Shared(k, j, v, p))
                          => v.stages \subseteq waiting[j - 1]

\* Every handle is in one place or destroyed; what a frame shows is alive and was made
\* for all its passes do with it, and the previous image of a pair is what the current
\* one was in the frame before (finalizeRebuild, publishResourceHandles, clear).
HandlesSound ==
  /\ Live \cap destroyed = {} /\ Live \cup destroyed = DOMAIN created
  /\ \A r, s \in Owned : handles[r] = handles[s] /\ r # s => handles[r] = 0
  /\ phase = "executing" =>
       \A r \in Owned : published[r] # 0 =>
         /\ published[r] = handles[r]
         /\ usage[r] \subseteq created[published[r]]
         /\ Sibling(r) # r /\ frame.before[r] # 0 => published[Sibling(r)] = frame.before[r]
=============================================================================
