---------------------------- MODULE GfxSystem_proof -------------------------
(***************************************************************************)
(* Proofs about the renderer, for any number of frames in flight, queues,  *)
(* meshes and sizes.  The invariant is the conjunction of what is true of  *)
(* types, of ticks and timelines, of surfaces and swapchains, of meshes    *)
(* (from GfxMeshes_proof) and of what the GPU uses and what waits to be    *)
(* destroyed.                                                              *)
(***************************************************************************)
EXTENDS GfxSystem, GfxMeshes_proof

-----------------------------------------------------------------------------
(* Constants uploaded in a frame                                           *)

ConstBuffers == [id : Nat, size : Int, free : Int]
ConstUploads == [buffers : Seq(ConstBuffers), made : Nat, res : SUBSET {ConstRes(n) : n \in Nat}]

\* One upload takes from a buffer or adds one.
LEMMA UploadedTyped ==
  ASSUME CONST_UPLOAD_BUFFER_STARTING_SIZE \in Nat,
         NEW x \in ConstUploads, NEW size \in Nat
  PROVE  Uploaded(x, size) \in ConstUploads
<1> DEFINE bufs == x.buffers
           fit == {j \in DOMAIN bufs : bufs[j].free >= size}
           i == CHOOSE n \in fit : \A j \in fit : n <= j
           first == Greater(size, CONST_UPLOAD_BUFFER_STARTING_SIZE)
           grown == LET n == Greater(first, bufs[Len(bufs)].size) IN n + n \div 2
           res == {ConstRes(n) : n \in Nat}
<1>1. /\ bufs \in Seq(ConstBuffers) /\ x.made \in Nat /\ x.res \in SUBSET res
      /\ x = [buffers |-> bufs, made |-> x.made, res |-> x.res]
  BY DEF ConstUploads
<1>2. Len(bufs) \in Nat /\ DOMAIN bufs = 1 .. Len(bufs) /\ \A j \in 1 .. Len(bufs) : bufs[j] \in ConstBuffers
  BY <1>1
<1>3. first \in Nat
  BY DEF Greater
<1> HIDE DEF first
<1>4. CASE fit # {}
  <2>1. i \in fit
    <3>1. fit \in SUBSET Nat
      BY <1>2
    <3>2. \E n \in fit : \A j \in fit : n <= j
      BY <3>1, <1>4, LeastExists
    <3> HIDE DEF fit
    <3> QED BY <3>2
  <2> HIDE DEF i
  <2>2. i \in 1 .. Len(bufs) /\ bufs[i] \in ConstBuffers
    BY <2>1, <1>2
  <2>3. [bufs[i] EXCEPT !.free = bufs[i].free - size] \in ConstBuffers
    BY <2>2 DEF ConstBuffers
  <2>4. [bufs EXCEPT ![i] = [bufs[i] EXCEPT !.free = bufs[i].free - size]] \in Seq(ConstBuffers)
    BY <2>2, <2>3, <1>1
  <2>5. ConstRes(bufs[i].id) \in res
    BY <2>2 DEF ConstBuffers
  <2>6. Uploaded(x, size) =
          [x EXCEPT !.buffers = [bufs EXCEPT ![i] = [bufs[i] EXCEPT !.free = bufs[i].free - size]],
                    !.res = x.res \cup {ConstRes(bufs[i].id)}]
    BY <1>4, <1>1 DEF Uploaded, i
  <2> HIDE DEF bufs, res, fit
  <2>7. Uploaded(x, size) =
          [buffers |-> [bufs EXCEPT ![i] = [bufs[i] EXCEPT !.free = bufs[i].free - size]],
           made |-> x.made, res |-> x.res \cup {ConstRes(bufs[i].id)}]
    BY <2>6, <1>1
  <2> QED BY <2>4, <2>5, <2>7, <1>1 DEF ConstUploads, res
<1>5. CASE fit = {}
  <2> DEFINE size2 == IF bufs = <<>> THEN first ELSE grown
             added == AddedBuffer(x.made, size2, size)
  <2>1. size2 \in Int
    <3>1. CASE bufs = <<>>
      BY <3>1, <1>3
    <3>2. CASE bufs # <<>>
      <4>0. Len(bufs) \in 1 .. Len(bufs)
        BY <3>2, <1>1, <1>2
      <4>1. bufs[Len(bufs)].size \in Int
        <5>1. bufs[Len(bufs)] \in ConstBuffers
          BY <4>0, <1>2
        <5> QED BY <5>1 DEF ConstBuffers
      <4> HIDE DEF bufs
      <4> DEFINE n == Greater(first, bufs[Len(bufs)].size)
      <4>2. n \in Int
        BY <4>1, <1>3 DEF Greater
      <4> HIDE DEF n
      <4>3. n + n \div 2 \in Int
        BY <4>2
      <4> QED BY <4>3, <3>2 DEF n
    <3> QED BY <3>1, <3>2
  <2>2. Uploaded(x, size) = [buffers |-> Append(bufs, added), made |-> x.made + 1,
                                 res |-> x.res \cup {ConstRes(x.made + 1)}]
    BY <1>5 DEF Uploaded, first
  <2> HIDE DEF size2, bufs
  <2>3. added \in ConstBuffers
    BY <2>1, <1>1 DEF AddedBuffer, ConstBuffers
  <2>4. ConstRes(x.made + 1) \in res
    BY <1>1
  <2> HIDE DEF added, res
  <2>5. Append(bufs, added) \in Seq(ConstBuffers)
    BY <2>3, <1>1
  <2> QED BY <2>2, <2>4, <2>5, <1>1 DEF ConstUploads, res
<1> QED BY <1>4, <1>5

\* What holds of the first state and is kept by each upload holds of the last.
LEMMA UploadAllKeeps ==
  ASSUME NEW sizes \in Seq(Nat), NEW W,
         [buffers |-> ring.buffers[ring.current], made |-> ring.made, res |-> {}] \in W,
         \A x \in W, size \in Nat : Uploaded(x, size) \in W
  PROVE  UploadAll(sizes) \in W
<1> DEFINE b == [buffers |-> ring.buffers[ring.current], made |-> ring.made, res |-> {}]
           n == Len(sizes)
           f == [p \in W \X Nat |-> Uploaded(p[1], p[2])]
           Fold(g) == g = [t \in SUBSET (1 .. n) |->
                             IF t = {} THEN b ELSE Uploaded(g[t \ {Max(t)}], sizes[Max(t)])]
           fold == CHOOSE g : Fold(g)
<1>1. n \in Nat /\ DOMAIN sizes = 1 .. n /\ sizes \in [1 .. n -> Nat]
  OBVIOUS
<1>2. UploadAll(sizes) = fold[1 .. n]
  BY <1>1 DEF UploadAll, FoldLeft, MapThenFoldSet, Max, Max
<1>3. f \in [W \X Nat -> W]
      /\ \A x \in W, size \in Nat : f[x, size] = Uploaded(x, size)
  OBVIOUS
<1>4. \E g : FoldOf(W, f, b, sizes, n, g)
  <2> HIDE DEF f, n, b
  <2> QED BY <1>1, <1>3, FoldExists DEF b
<1>5. \E g : Fold(g)
  <2>1. PICK g : FoldOf(W, f, b, sizes, n, g)
    BY <1>4
  <2> HIDE DEF f, n, b
  <2>2. /\ g \in [SUBSET (1 .. n) -> W]
        /\ \A t \in SUBSET (1 .. n) :
             g[t] = IF t = {} THEN b ELSE f[g[t \ {Max(t)}], sizes[Max(t)]]
    BY <2>1 DEF FoldOf
  <2>3. ASSUME NEW t \in SUBSET (1 .. n), t # {}
        PROVE  f[g[t \ {Max(t)}], sizes[Max(t)]] = Uploaded(g[t \ {Max(t)}], sizes[Max(t)])
    <3>1. Max(t) \in 1 .. n
      BY <2>3, <1>1, MaxIsGreatest
    <3>2. g[t \ {Max(t)}] \in W /\ sizes[Max(t)] \in Nat
      BY <3>1, <2>2, <1>1
    <3> QED BY <3>2, <1>3
  <2>4. Fold(g)
    BY <2>2, <2>3
  <2> QED BY <2>4
<1>6. Fold(fold)
  BY <1>5
<1> HIDE DEF fold
<1>7. /\ fold[{}] = b
      /\ \A k \in 1 .. n : fold[1 .. k] = Uploaded(fold[1 .. k - 1], sizes[k])
  <2> HIDE DEF b, n
  <2>1. \A t \in SUBSET (1 .. n) :
          fold[t] = IF t = {} THEN b ELSE Uploaded(fold[t \ {Max(t)}], sizes[Max(t)])
    BY <1>6
  <2>2. ASSUME NEW k \in 1 .. n PROVE fold[1 .. k] = Uploaded(fold[1 .. k - 1], sizes[k])
    <3>1. /\ 1 .. k \in SUBSET (1 .. n) /\ 1 .. k # {}
          /\ Max(1 .. k) = k /\ (1 .. k) \ {k} = 1 .. k - 1
      BY LastPlace, <1>1
    <3> QED BY <2>1, <3>1
  <2> QED BY <2>1, <2>2
<1>8. \A k \in 1 .. n : fold[1 .. k - 1] \in W => fold[1 .. k] \in W
  BY <1>1, <1>7
<1>9. fold[1 .. n] \in W
  <2> HIDE DEF n
  <2> QED BY <1>1, <1>7, <1>8, FoldEnds
<1> QED BY <1>2, <1>9

LEMMA UploadAllTyped ==
  ASSUME CONST_UPLOAD_BUFFER_STARTING_SIZE \in Nat,
         NEW sizes \in Seq(Nat),
         [buffers |-> ring.buffers[ring.current], made |-> ring.made, res |-> {}] \in ConstUploads
  PROVE  UploadAll(sizes) \in ConstUploads
BY UploadedTyped, UploadAllKeeps
-----------------------------------------------------------------------------
(* What the state of the renderer is made of, as far as ticks depend on it *)

Timelines == [Queues -> Nat]
Packs == [tick : Nat, timelines : Timelines]

\* What waits to be destroyed.
JunkItems ==
  {ConstRes(n) : n \in Nat} \cup {ContextRes(f) : f \in Frames}
    \cup {Pool(c, s, q) : c \in [pools : [Sets -> [Queues -> Nat]]], s \in Sets, q \in Queues}
    \cup {GraphRes(g) : g \in [made : Nat]} \cup {DynamicRes(g) : g \in [made : Nat, grown : Nat]}
    \cup {ChainRes(s) : s \in [chain : Nat, surface : Nat]}

DestroyQueues == Seq([res : JunkItems, tick : Nat])
DeviceStates ==
  [submitted : Timelines, observed : Timelines, destroy_queue : DestroyQueues, tick : Nat]
TickStates == [current : Nat, completed : Nat, packs : Seq(Packs)]
CommandStates ==
  [set : Sets, tick_ids : [Sets -> Nat \cup {INVALID}],
   pools : [Sets -> [Queues -> Nat]], buffers : [Sets -> [Queues -> Nat]], index : [Queues -> Nat]]
RingStates ==
  [current : Frames, timelines : [Frames -> Nat], buffers : [Frames -> Seq(ConstBuffers)],
   made : Nat]
SwapchainStates ==
  [frame : Frames, acquired : BOOLEAN, previous : [Frames -> Nat], surface : Nat, chain : Nat,
   extent : Nat, retries : Nat, bad : BOOLEAN]
GraphStates == [made : Nat, extent : Nat, dynamic : Nat, grown : Nat]

FramePhases == {"acquire", "acquiring", "record", "submit", "reset", "present", "end"}
Phases == {"idle", "commands", "transient", "meshes", "dead"} \cup FramePhases

GfxTyped ==
  /\ finished \in Timelines
  /\ device \in DeviceStates
  /\ ticks \in TickStates
  /\ \A u \in uses : u.queue \in Queues /\ u.at \in Nat /\ u.tick \in Nat
  /\ commands \in CommandStates
  /\ dma \in BOOLEAN
  /\ ring \in RingStates
  /\ swapchain \in SwapchainStates
  /\ graph \in GraphStates
  /\ phase \in Phases
  /\ passed \in Nat
  /\ plan \in Plans
-----------------------------------------------------------------------------
(* The device                                                              *)

QueueOrdered(d) ==
  /\ \A i, j \in DOMAIN d.destroy_queue :
       i < j => d.destroy_queue[i].tick <= d.destroy_queue[j].tick
  /\ \A i \in DOMAIN d.destroy_queue : d.destroy_queue[i].tick <= d.tick

LEMMA ItemsTyped ==
  ASSUME NEW q \in DestroyQueues
  PROVE  /\ Len(q) \in Nat /\ DOMAIN q = 1 .. Len(q)
         /\ \A i \in 1 .. Len(q) : q[i].tick \in Nat /\ q[i].res \in JunkItems
<1> DEFINE S == [res : JunkItems, tick : Nat]
<1>1. q \in Seq(S)
  BY DEF DestroyQueues
<1>2. \A x \in S : x.tick \in Nat /\ x.res \in JunkItems
  OBVIOUS
<1> HIDE DEF S
<1>3. Len(q) \in Nat /\ DOMAIN q = 1 .. Len(q) /\ \A i \in 1 .. Len(q) : q[i] \in S
  BY <1>1
<1> QED BY <1>2, <1>3

\* New items wait behind the others.
LEMMA EnqueuedItems ==
  ASSUME NEW d \in DeviceStates, NEW items \in Seq(JunkItems)
  PROVE  /\ Enqueued(d, items) \in DeviceStates
         /\ Enqueued(d, items).submitted = d.submitted
         /\ Enqueued(d, items).observed = d.observed
         /\ Enqueued(d, items).tick = d.tick
         /\ QueueOrdered(d) => QueueOrdered(Enqueued(d, items))
         /\ \A r : (\E i \in DOMAIN Enqueued(d, items).destroy_queue :
                      Enqueued(d, items).destroy_queue[i].res = r) =>
              \/ \E i \in DOMAIN d.destroy_queue : d.destroy_queue[i].res = r
              \/ \E i \in DOMAIN items : items[i] = r
<1> DEFINE old == d.destroy_queue
           more == [i \in DOMAIN items |-> [res |-> items[i], tick |-> d.tick]]
           new == old \o more
           e == [submitted |-> d.submitted, observed |-> d.observed, destroy_queue |-> new, tick |-> d.tick]
<1>1. d = [submitted |-> d.submitted, observed |-> d.observed, destroy_queue |-> old, tick |-> d.tick]
      /\ d.submitted \in Timelines /\ d.observed \in Timelines /\ old \in DestroyQueues /\ d.tick \in Nat
  BY DEF DeviceStates
<1>2. Enqueued(d, items) = [d EXCEPT !.destroy_queue = new]
  BY DEF Enqueued
<1>3. /\ more \in DestroyQueues /\ Len(more) = Len(items)
      /\ \A i \in 1 .. Len(items) : more[i].tick = d.tick /\ more[i].res = items[i]
  <2>1. Len(items) \in Nat /\ DOMAIN items = 1 .. Len(items) /\ \A i \in 1 .. Len(items) : items[i] \in JunkItems
    OBVIOUS
  <2> HIDE DEF old
  <2>2. more \in [1 .. Len(items) -> [res : JunkItems, tick : Nat]]
    BY <2>1, <1>1
  <2>3. more \in DestroyQueues /\ Len(more) = Len(items)
    BY <2>1, <2>2 DEF DestroyQueues
  <2> QED BY <2>1, <2>3
<1> HIDE DEF more, old
<1>n. Enqueued(d, items) = e
  BY <1>1, <1>2
<1>o. more \in Seq([res : JunkItems, tick : Nat]) /\ old \in Seq([res : JunkItems, tick : Nat])
  BY <1>1, <1>3 DEF DestroyQueues
<1>4. /\ new \in DestroyQueues /\ Len(new) = Len(old) + Len(more) /\ DOMAIN new = 1 .. Len(old) + Len(more)
      /\ \A i \in 1 .. Len(old) + Len(more) : new[i] = IF i <= Len(old) THEN old[i] ELSE more[i - Len(old)]
  BY <1>o, ConcatProperties DEF DestroyQueues
<1>5. DOMAIN old = 1 .. Len(old) /\ Len(old) \in Nat /\ DOMAIN items = 1 .. Len(items) /\ Len(items) \in Nat
      /\ \A i \in 1 .. Len(old) : old[i].tick \in Nat
  <2>1. DOMAIN old = 1 .. Len(old) /\ Len(old) \in Nat /\ DOMAIN items = 1 .. Len(items) /\ Len(items) \in Nat
    BY <1>o
  <2>2. \A i \in 1 .. Len(old) : old[i].tick \in Nat
    BY <1>1, ItemsTyped
  <2> QED BY <2>1, <2>2
<1> HIDE DEF new
<1>6. /\ e \in DeviceStates /\ e.submitted = d.submitted /\ e.observed = d.observed /\ e.tick = d.tick
      /\ e.destroy_queue = new
  BY <1>1, <1>4 DEF DeviceStates
<1> HIDE DEF e
<1>7. ASSUME QueueOrdered(d) PROVE QueueOrdered(e)
  <2>1. /\ \A i, j \in 1 .. Len(old) : i < j => old[i].tick <= old[j].tick
        /\ \A i \in 1 .. Len(old) : old[i].tick <= d.tick
    BY <1>7, <1>5 DEF QueueOrdered, old
  <2>2. ASSUME NEW i \in 1 .. Len(old) + Len(more)
        PROVE  IF i <= Len(old) THEN i \in 1 .. Len(old) /\ new[i].tick = old[i].tick ELSE new[i].tick = d.tick
    <3>1. CASE i <= Len(old)
      BY <3>1, <1>4, <1>5
    <3>2. CASE ~ (i <= Len(old))
      <4>1. i - Len(old) \in 1 .. Len(items) /\ new[i] = more[i - Len(old)]
        BY <3>2, <1>3, <1>4, <1>5
      <4> QED BY <4>1, <3>2, <1>3
    <3> QED BY <3>1, <3>2
  <2>3. \A i \in 1 .. Len(old) + Len(more) : new[i].tick <= d.tick
    BY <2>1, <2>2, <1>1
  <2>4. ASSUME NEW i \in 1 .. Len(old) + Len(more), NEW j \in 1 .. Len(old) + Len(more), i < j
        PROVE  new[i].tick <= new[j].tick
    <3>1. CASE j <= Len(old)
      BY <3>1, <2>1, <2>2, <2>4, <1>5
    <3>2. CASE ~ (j <= Len(old))
      BY <3>2, <2>2, <2>3
    <3> QED BY <3>1, <3>2
  <2> QED BY <2>3, <2>4, <1>4, <1>6 DEF QueueOrdered
<1>8. ASSUME NEW i \in DOMAIN new
      PROVE  (\E j \in DOMAIN old : old[j].res = new[i].res) \/ (\E j \in DOMAIN items : items[j] = new[i].res)
  <2>1. CASE i <= Len(old)
    BY <2>1, <1>4, <1>5
  <2>2. CASE ~ (i <= Len(old))
    <3>1. i - Len(old) \in 1 .. Len(items) /\ new[i] = more[i - Len(old)]
      BY <2>2, <1>3, <1>4, <1>5
    <3> QED BY <3>1, <1>3, <1>5
  <2> QED BY <2>1, <2>2
<1> QED BY <1>n, <1>6, <1>7, <1>8 DEF old

\* The items of old ticks are at the front.
LEMMA SafeItems ==
  ASSUME NEW q \in DestroyQueues, NEW tick \in Nat
  PROVE  /\ SafeCount(q, tick) \in 0 .. Len(q)
         /\ \A i \in 1 .. SafeCount(q, tick) : q[i].tick <= tick
<1> DEFINE late == {i \in DOMAIN q : q[i].tick > tick}
           least == CHOOSE i \in late : \A j \in late : i <= j
<1>1. Len(q) \in Nat /\ DOMAIN q = 1 .. Len(q) /\ \A i \in 1 .. Len(q) : q[i].tick \in Nat
  BY ItemsTyped
<1>2. SafeCount(q, tick) = IF late = {} THEN Len(q) ELSE least - 1
  BY DEF SafeCount
<1>3. CASE late = {}
  BY <1>1, <1>2, <1>3
<1>4. CASE late # {}
  <2>1. least \in late /\ \A j \in late : least <= j
    <3>1. late \in SUBSET Nat
      BY <1>1
    <3>2. \E i \in late : \A j \in late : i <= j
      BY <3>1, <1>4, LeastExists
    <3> HIDE DEF late
    <3> QED BY <3>2
  <2> HIDE DEF least
  <2>2. least \in 1 .. Len(q)
    BY <2>1, <1>1
  <2>3. ASSUME NEW i \in 1 .. least - 1 PROVE q[i].tick <= tick
    <3>1. i \notin late /\ i \in 1 .. Len(q)
      BY <2>1, <2>2
    <3> QED BY <3>1, <1>1
  <2> QED BY <2>2, <2>3, <1>2, <1>4
<1> QED BY <1>3, <1>4

\* What is left of the queue is in order as before.
LEMMA ProcessedQueue ==
  ASSUME NEW d \in DeviceStates, NEW tick \in Nat
  PROVE  /\ Processed(d, tick) \in DeviceStates
         /\ Processed(d, tick).submitted = d.submitted
         /\ Processed(d, tick).observed = d.observed
         /\ Processed(d, tick).tick = d.tick
         /\ QueueOrdered(d) => QueueOrdered(Processed(d, tick))
         /\ \A i \in DOMAIN Processed(d, tick).destroy_queue :
              \E j \in DOMAIN d.destroy_queue :
                Processed(d, tick).destroy_queue[i] = d.destroy_queue[j]
<1> DEFINE old == d.destroy_queue
           n == SafeCount(old, tick)
           new == SubSeq(old, n + 1, Len(old))
           e == [submitted |-> d.submitted, observed |-> d.observed, destroy_queue |-> new, tick |-> d.tick]
<1>1. d = [submitted |-> d.submitted, observed |-> d.observed, destroy_queue |-> old, tick |-> d.tick]
      /\ d.submitted \in Timelines /\ d.observed \in Timelines /\ old \in DestroyQueues /\ d.tick \in Nat
  BY DEF DeviceStates
<1>2. Processed(d, tick) = [d EXCEPT !.destroy_queue = new]
  BY DEF Processed
<1>3. n \in 0 .. Len(old) /\ Len(old) \in Nat
  BY <1>1, SafeItems, ItemsTyped
<1> HIDE DEF n, old
<1>4. /\ new \in DestroyQueues /\ Len(new) = Len(old) - n
      /\ \A i \in 1 .. Len(old) - n : new[i] = old[n + i]
  <2>1. old \in Seq([res : JunkItems, tick : Nat]) /\ n + 1 \in 1 .. Len(old) + 1
    BY <1>1, <1>3 DEF DestroyQueues
  <2>2. /\ new \in Seq([res : JunkItems, tick : Nat])
        /\ Len(new) = Len(old) - (n + 1) + 1
        /\ \A j \in 1 .. Len(old) - (n + 1) + 1 : new[j] = old[n + 1 + j - 1]
    BY <2>1, SuffixElements
  <2>3. Len(old) - (n + 1) + 1 = Len(old) - n /\ \A j \in 1 .. Len(old) - n : n + 1 + j - 1 = n + j
    BY <1>3
  <2> QED BY <2>2, <2>3 DEF DestroyQueues
<1>5. DOMAIN old = 1 .. Len(old) /\ DOMAIN new = 1 .. Len(new)
  BY <1>1, <1>4, ItemsTyped
<1> HIDE DEF new
<1>n. Processed(d, tick) = e
  BY <1>1, <1>2
<1>6. /\ e \in DeviceStates /\ e.submitted = d.submitted /\ e.observed = d.observed /\ e.tick = d.tick
      /\ e.destroy_queue = new
  BY <1>1, <1>4 DEF DeviceStates
<1> HIDE DEF e
<1>7. \A i \in 1 .. Len(new) : new[i] = old[n + i] /\ n + i \in 1 .. Len(old)
  BY <1>3, <1>4
<1>8. ASSUME QueueOrdered(d) PROVE QueueOrdered(e)
  <2>1. /\ \A i, j \in 1 .. Len(old) : i < j => old[i].tick <= old[j].tick
        /\ \A i \in 1 .. Len(old) : old[i].tick <= d.tick
    BY <1>8, <1>5 DEF QueueOrdered, old
  <2>2. \A i, j \in 1 .. Len(new) : i < j => new[i].tick <= new[j].tick
    <3> SUFFICES ASSUME NEW i \in 1 .. Len(new), NEW j \in 1 .. Len(new), i < j
                 PROVE  new[i].tick <= new[j].tick
      OBVIOUS
    <3>1. n + i < n + j
      BY <1>3
    <3> QED BY <3>1, <1>7, <2>1
  <2>3. \A i \in 1 .. Len(new) : new[i].tick <= d.tick
    BY <1>7, <2>1
  <2> QED BY <2>2, <2>3, <1>5, <1>6 DEF QueueOrdered
<1>9. \A i \in DOMAIN new : \E j \in DOMAIN old : new[i] = old[j]
  BY <1>5, <1>7
<1> QED BY <1>n, <1>6, <1>8, <1>9 DEF old

\* Waiting only shows more of the timelines.
Seen(d, e) ==
  /\ e \in DeviceStates
  /\ e.submitted = d.submitted /\ e.destroy_queue = d.destroy_queue /\ e.tick = d.tick

LEMMA WaitedSees ==
  ASSUME NEW d \in DeviceStates, NEW q \in Queues, NEW value \in Nat, finished \in Timelines
  PROVE  LET e == Waited(d, q, value)
         IN  /\ Seen(d, e)
             /\ \A p \in Queues : e.observed[p] \in {d.observed[p], finished[p]}
<1>1. CASE value <= d.observed[q]
  BY <1>1 DEF Waited, Seen
<1>2. CASE ~ (value <= d.observed[q])
  <2> DEFINE o == [d.observed EXCEPT ![q] = finished[q]]
             e == [submitted |-> d.submitted, observed |-> o, destroy_queue |-> d.destroy_queue, tick |-> d.tick]
  <2>1. Waited(d, q, value) = [d EXCEPT !.observed = o]
    BY <1>2 DEF Waited
  <2>2. d.observed \in Timelines /\ finished[q] \in Nat
    BY DEF DeviceStates, Timelines
  <2>3. o \in Timelines /\ \A p \in Queues : o[p] \in {d.observed[p], finished[p]}
    BY <2>2 DEF Timelines
  <2> HIDE DEF o
  <2>4. Waited(d, q, value) = e
    BY <2>1 DEF DeviceStates
  <2>5. e \in DeviceStates
    BY <2>3 DEF DeviceStates
  <2> QED BY <2>3, <2>4, <2>5 DEF Seen
<1> QED BY <1>1, <1>2

LEMMA WaitedAllSees ==
  ASSUME NEW d \in DeviceStates, NEW values \in Timelines
  PROVE  LET e == WaitedAll(d, values)
         IN  /\ Seen(d, e)
             /\ \A p \in Queues : e.observed[p] \in {d.observed[p], values[p]}
<1> DEFINE o == [q \in Queues |-> IF d.observed[q] > values[q] THEN d.observed[q] ELSE values[q]]
           e == [submitted |-> d.submitted, observed |-> o, destroy_queue |-> d.destroy_queue, tick |-> d.tick]
<1>1. WaitedAll(d, values) = [d EXCEPT !.observed = o]
  BY DEF WaitedAll
<1>2. d.observed \in Timelines
  BY DEF DeviceStates
<1>3. o \in Timelines /\ \A p \in Queues : o[p] \in {d.observed[p], values[p]}
  BY <1>2 DEF Timelines
<1> HIDE DEF o
<1>4. WaitedAll(d, values) = e
  BY <1>1 DEF DeviceStates
<1>5. e \in DeviceStates
  BY <1>3 DEF DeviceStates
<1> QED BY <1>3, <1>4, <1>5 DEF Seen
-----------------------------------------------------------------------------
(* What holds of ticks between any two steps                               *)

\* What is seen of a timeline is finished, and what is finished was submitted.
TimelinesInOrder ==
  \A q \in Queues : device.observed[q] <= finished[q] /\ finished[q] <= device.submitted[q]

\* The command buffer of a queue that is being recorded.
Recording(q) == (q = "main" /\ phase \in {"submit", "dead"}) \/ (q = "dma" /\ dma)

\* A use is not finished, of no completed tick, and submitted or in a command buffer that
\* this tick records.
UsesPending ==
  /\ \A u \in uses :
       /\ finished[u.queue] < u.at
       /\ ticks.completed < u.tick /\ u.tick <= ticks.current
       /\ \/ u.at <= device.submitted[u.queue]
          \/ u.at = device.submitted[u.queue] + 1 /\ u.tick = ticks.current /\ Recording(u.queue)
  /\ dma => phase \in FramePhases \cup {"dead"}

\* Packs date from the last completed tick on and cover what was submitted in their ticks.
PacksOrdered ==
  \A i, j \in DOMAIN ticks.packs : i < j => ticks.packs[i].tick > ticks.packs[j].tick
PacksCover ==
  \A i \in DOMAIN ticks.packs :
    /\ ticks.completed <= ticks.packs[i].tick /\ ticks.packs[i].tick < ticks.current
    /\ \A q \in Queues : ticks.packs[i].timelines[q] <= device.submitted[q]
    /\ ticks.packs[i].tick <= ticks.completed => AllComplete(ticks.packs[i])
    /\ \A u \in uses : u.tick <= ticks.packs[i].tick => u.at <= ticks.packs[i].timelines[u.queue]

\* Each tick that is not completed has its pack.
TicksPacked ==
  /\ ticks.completed < ticks.current
  /\ passed <= ticks.completed
  /\ \A n \in Nat : ticks.completed < n /\ n < ticks.current =>
       \E i \in DOMAIN ticks.packs : ticks.packs[i].tick = n

JunkOrdered == QueueOrdered(device) /\ device.tick = ticks.current

\* Each set of command pools remembers the last tick it served.
LastServed == IF phase = "commands" THEN ticks.current - 1 ELSE ticks.current
SetsServed ==
  /\ \A n \in Nat : n >= 1 /\ LastServed - MAX_PENDING_FRAMES < n /\ n <= LastServed =>
       commands.tick_ids[n % MAX_PENDING_FRAMES] = n
  /\ \A s \in Sets : commands.tick_ids[s] <= LastServed

FramesLimited ==
  phase \notin {"idle", "commands"} => ticks.current - ticks.completed <= MAX_PENDING_FRAMES

\* The values that frames wait for were submitted.
FramesSubmitted ==
  \A f \in Frames : /\ ring.timelines[f] <= device.submitted["main"]
                        /\ swapchain.previous[f] <= device.submitted["main"]

TicksInv ==
  /\ TimelinesInOrder /\ UsesPending /\ PacksOrdered /\ PacksCover /\ TicksPacked /\ JunkOrdered
  /\ SetsServed /\ FramesLimited /\ FramesSubmitted
-----------------------------------------------------------------------------
(* Ticks                                                                   *)

\* Constants are what the assumptions say.
LEMMA GfxConstants ==
  /\ MAX_PENDING_FRAMES \in Nat /\ MAX_PENDING_FRAMES \in Nat \ {0} /\ MAX_PENDING_FRAMES >= 1
  /\ IsFiniteSet(Queues) /\ "main" \in Queues /\ "dma" \in Queues
  /\ CONST_UPLOAD_BUFFER_STARTING_SIZE \in Nat
  /\ \A p \in Plans : p.constants \subseteq Seq(Nat) /\ p.dynamic \subseteq Nat
BY PendingAssumption, QueuesAssumption, PlansAssumption

LEMMA PacksTyped ==
  ASSUME GfxTyped
  PROVE  /\ ticks.packs \in Seq(Packs)
         /\ Len(ticks.packs) \in Nat /\ DOMAIN ticks.packs = 1 .. Len(ticks.packs)
         /\ \A i \in 1 .. Len(ticks.packs) :
              ticks.packs[i].tick \in Nat /\ ticks.packs[i].timelines \in Timelines
<1>1. ticks.packs \in Seq(Packs)
  BY DEF GfxTyped, TickStates
<1>2. \A x \in Packs : x.tick \in Nat /\ x.timelines \in Timelines
  BY DEF Packs
<1> DEFINE p == ticks.packs
<1> HIDE DEF p
<1>3. p \in Seq(Packs) => Len(p) \in Nat /\ DOMAIN p = 1 .. Len(p) /\ \A i \in 1 .. Len(p) : p[i] \in Packs
  OBVIOUS
<1> QED BY <1>1, <1>2, <1>3 DEF p

\* The packs behind the newest one that is not complete are complete.
LEMMA PoppedComplete ==
  ASSUME GfxTyped
  PROVE  /\ Popped \in 0 .. Len(ticks.packs)
         /\ \A i \in 1 .. Len(ticks.packs) : Popped < i => AllComplete(ticks.packs[i])
         /\ (\A i \in 1 .. Len(ticks.packs) : AllComplete(ticks.packs[i])) => Popped = 0
<1> DEFINE n == Len(ticks.packs)
           left == {i \in DOMAIN ticks.packs : ~ AllComplete(ticks.packs[i])}
           last == CHOOSE i \in left : \A j \in left : i >= j
<1>1. n \in Nat /\ DOMAIN ticks.packs = 1 .. n
  BY PacksTyped
<1>2. Popped = IF left = {} THEN 0 ELSE last
  BY DEF Popped
<1>3. CASE left = {}
  BY <1>1, <1>2, <1>3
<1>4. CASE left # {}
  <2>1. last \in left /\ \A j \in left : last >= j
    <3>1. left \in SUBSET (1 .. n)
      BY <1>1
    <3>2. last = Max(left)
      BY DEF Max
    <3> HIDE DEF last, left, n
    <3> QED BY <1>1, <1>4, <3>1, <3>2, MaxIsGreatest
  <2> HIDE DEF last
  <2>2. last \in 1 .. n
    BY <2>1, <1>1
  <2>3. ASSUME NEW i \in 1 .. n, last < i PROVE AllComplete(ticks.packs[i])
    <3>1. i \notin left
      BY <2>1, <2>2, <2>3
    <3> QED BY <3>1, <1>1
  <2>4. ~ \A i \in 1 .. n : AllComplete(ticks.packs[i])
    BY <2>1, <1>1
  <2> QED BY <2>2, <2>3, <2>4, <1>2, <1>4
<1> QED BY <1>3, <1>4

\* The pack of a tick is found.
LEMMA PackFound ==
  ASSUME NEW tick, \E i \in DOMAIN ticks.packs : ticks.packs[i].tick = tick
  PROVE  /\ PackOf(tick) \in DOMAIN ticks.packs
         /\ ticks.packs[PackOf(tick)].tick = tick
BY DEF PackOf

\* The first packs.
LEMMA FirstPacks ==
  ASSUME GfxTyped, NEW n \in 0 .. Len(ticks.packs)
  PROVE  /\ SubSeq(ticks.packs, 1, n) \in Seq(Packs)
         /\ Len(SubSeq(ticks.packs, 1, n)) = n /\ DOMAIN SubSeq(ticks.packs, 1, n) = 1 .. n
         /\ \A i \in 1 .. n : SubSeq(ticks.packs, 1, n)[i] = ticks.packs[i]
<1>1. ticks.packs \in Seq(Packs)
  BY PacksTyped
<1> DEFINE p == ticks.packs
<1> HIDE DEF p
<1>2. p \in Seq(Packs) =>
        (/\ SubSeq(p, 1, n) \in Seq(Packs) /\ Len(SubSeq(p, 1, n)) = n
         /\ \A j \in 1 .. n : SubSeq(p, 1, n)[j] = p[j])
  BY PrefixElements DEF p
<1>3. SubSeq(p, 1, n) \in Seq(Packs) => DOMAIN SubSeq(p, 1, n) = 1 .. Len(SubSeq(p, 1, n))
  OBVIOUS
<1> QED BY <1>1, <1>2, <1>3 DEF p
-----------------------------------------------------------------------------
(* Steps that submit nothing and record nothing                            *)

QuietStep ==
  /\ device' \in DeviceStates
  /\ \A q \in Queues : device'.observed[q] <= finished[q]
  /\ device'.submitted = device.submitted /\ device'.tick = device.tick
  /\ QueueOrdered(device')
  /\ UNCHANGED <<finished, ticks, uses, dma, passed, plan, commands, graph>>
  /\ ring' \in RingStates /\ ring'.timelines = ring.timelines
  /\ swapchain' \in SwapchainStates
  /\ \A f \in Frames : swapchain'.previous[f] \in {swapchain.previous[f], device.submitted["main"]}
  /\ phase \notin {"idle", "commands"} /\ phase' \in Phases \ {"idle", "commands"}
  /\ phase \in {"submit", "dead"} => phase' = "dead"
  /\ dma => phase' \in FramePhases \cup {"dead"}

LEMMA QuietKeeps ==
  ASSUME GfxTyped, TicksInv, QuietStep
  PROVE  GfxTyped' /\ TicksInv'
<1> USE DEF QuietStep
<1>1. GfxTyped'
  BY DEF GfxTyped
<1>2. TimelinesInOrder'
  BY DEF TicksInv, TimelinesInOrder
<1>3. UsesPending'
  <2>1. \A q \in Queues : Recording(q) => Recording(q)'
    BY DEF Recording
  <2> QED BY <2>1 DEF TicksInv, UsesPending, GfxTyped
<1>4. PacksOrdered' /\ PacksCover'
  BY DEF TicksInv, PacksOrdered, PacksCover, AllComplete
<1>5. TicksPacked'
  BY DEF TicksInv, TicksPacked
<1>6. JunkOrdered'
  BY DEF TicksInv, JunkOrdered
<1>7. SetsServed'
  BY DEF TicksInv, SetsServed, LastServed
<1>8. FramesLimited'
  BY DEF TicksInv, FramesLimited
<1>9. FramesSubmitted'
  <2>1. device.submitted["main"] \in Nat
    BY GfxConstants DEF GfxTyped, DeviceStates, Timelines
  <2> QED BY <2>1 DEF TicksInv, FramesSubmitted
<1> QED BY <1>1, <1>2, <1>3, <1>4, <1>5, <1>6, <1>7, <1>8, <1>9 DEF TicksInv

\* What the invariant says of the device, for the lemmas about it.
LEMMA DeviceKnown ==
  ASSUME GfxTyped, TicksInv
  PROVE  /\ device \in DeviceStates /\ finished \in Timelines
         /\ device.submitted \in Timelines /\ device.observed \in Timelines
         /\ device.destroy_queue \in DestroyQueues /\ device.tick \in Nat
         /\ QueueOrdered(device)
         /\ \A q \in Queues : device.observed[q] <= finished[q]
         /\ \A q \in Queues : device.observed[q] \in Nat /\ finished[q] \in Nat /\ device.submitted[q] \in Nat
BY DEF GfxTyped, TicksInv, DeviceStates, Timelines, TimelinesInOrder, JunkOrdered

LEMMA BeginTransientKeeps ==
  ASSUME GfxTyped, TicksInv, BeginTransient
  PROVE  GfxTyped' /\ TicksInv'
<1>1. /\ phase = "transient" /\ phase' = "meshes"
      /\ UNCHANGED <<finished, device, ticks, uses, commands, dma, ring, swapchain, graph, passed, plan>>
  BY DEF BeginTransient, Goto, frameVars
<1>2. ~ dma
  BY <1>1 DEF TicksInv, UsesPending, FramePhases
<1>3. QuietStep
  BY <1>1, <1>2, DeviceKnown DEF QuietStep, Phases, FramePhases, GfxTyped
<1> QED BY <1>3, QuietKeeps

LEMMA AwaitFrameKeeps ==
  ASSUME GfxTyped, TicksInv, AwaitFrame
  PROVE  GfxTyped' /\ TicksInv'
<1> DEFINE value == swapchain.previous[swapchain.frame]
<1>1. /\ phase = "acquire" /\ phase' = "acquiring"
      /\ device' = Waited(device, "main", value)
      /\ swapchain' = [swapchain EXCEPT !.retries = 0]
      /\ UNCHANGED <<finished, ticks, uses, commands, dma, ring, graph, passed, plan>>
  BY DEF AwaitFrame, Goto, recordVars
<1>2. value \in Nat
  BY DEF GfxTyped, SwapchainStates
<1> HIDE DEF value
<1>3. /\ Seen(device, device')
      /\ \A p \in Queues : device'.observed[p] \in {device.observed[p], finished[p]}
  BY <1>1, <1>2, DeviceKnown, GfxConstants, WaitedSees
<1>4. swapchain' \in SwapchainStates /\ swapchain'.previous = swapchain.previous
  BY <1>1 DEF GfxTyped, SwapchainStates
<1>5. \A q \in Queues : device'.observed[q] <= finished[q]
  BY <1>3, DeviceKnown
<1>6. QueueOrdered(device')
  BY <1>3, DeviceKnown DEF QueueOrdered, Seen
<1>7. QuietStep
  BY <1>1, <1>3, <1>4, <1>5, <1>6 DEF QuietStep, Phases, FramePhases, GfxTyped, Seen
<1> QED BY <1>7, QuietKeeps

LEMMA AcquireKeeps ==
  ASSUME GfxTyped, TicksInv, Acquire
  PROVE  GfxTyped' /\ TicksInv'
<1>1. /\ phase = "acquiring" /\ phase' = "record"
      /\ swapchain' = [swapchain EXCEPT !.acquired = TRUE]
      /\ UNCHANGED <<finished, device, ticks, uses, commands, dma, ring, graph, passed, plan>>
  BY DEF Acquire, Goto, recordVars
<1>2. swapchain' \in SwapchainStates /\ swapchain'.previous = swapchain.previous
  BY <1>1 DEF GfxTyped, SwapchainStates
<1>3. QuietStep
  BY <1>1, <1>2, DeviceKnown DEF QuietStep, Phases, FramePhases, GfxTyped
<1> QED BY <1>3, QuietKeeps
-----------------------------------------------------------------------------
(* Faults of the window system                                             *)

\* The device as a quiet step leaves it.
DeviceQuiet ==
  /\ device' \in DeviceStates
  /\ \A q \in Queues : device'.observed[q] <= finished[q]
  /\ device'.submitted = device.submitted /\ device'.tick = device.tick
  /\ QueueOrdered(device')

\* What may be made of the swapchain's state s.
CloseTo(s) ==
  /\ s \in SwapchainStates
  /\ \A f \in Frames : s.previous[f] \in {swapchain.previous[f], device.submitted["main"]}

LEMMA EnqueuedQuiet ==
  ASSUME GfxTyped, TicksInv, NEW items \in Seq(JunkItems), device' = Enqueued(device, items)
  PROVE  DeviceQuiet
<1>1. /\ device' \in DeviceStates
      /\ device'.submitted = device.submitted /\ device'.observed = device.observed
      /\ device'.tick = device.tick
      /\ QueueOrdered(device) => QueueOrdered(device')
  BY EnqueuedItems, DeviceKnown
<1> QED BY <1>1, DeviceKnown DEF DeviceQuiet

LEMMA ForcedQuiet ==
  ASSUME GfxTyped, TicksInv, Idle, device' = Forced(device)
  PROVE  DeviceQuiet /\ device'.destroy_queue = <<>>
<1> DEFINE e == [submitted |-> device.submitted, observed |-> device.submitted,
                 destroy_queue |-> <<>>, tick |-> device.tick]
<1>1. device' = e
  BY DEF Forced, GfxTyped, DeviceStates
<1>2. <<>> \in DestroyQueues
  BY DEF DestroyQueues
<1>3. e \in DeviceStates
  BY <1>2, DeviceKnown DEF DeviceStates
<1>4. \A q \in Queues : e.observed[q] <= finished[q]
  BY DeviceKnown DEF Idle
<1>5. QueueOrdered(e)
  BY DEF QueueOrdered
<1>6. e.submitted = device.submitted /\ e.tick = device.tick /\ e.destroy_queue = <<>>
  OBVIOUS
<1> QED BY <1>1, <1>3, <1>4, <1>5, <1>6 DEF DeviceQuiet

LEMMA RecreatedNear ==
  ASSUME NEW s \in SwapchainStates, NEW t \in Recreated(s)
  PROVE  t \in SwapchainStates /\ t.previous = s.previous /\ t.chain = s.chain + 1
         /\ t.surface = s.surface /\ t.bad = s.bad
<1>1. PICK e \in {1, 2} : t = [s EXCEPT !.chain = @ + 1, !.extent = e]
  BY DEF Recreated
<1>2. s.chain + 1 \in Nat /\ e \in Nat
  BY DEF SwapchainStates
<1> DEFINE n == s.chain + 1
<1>3. t = [s EXCEPT !.chain = n, !.extent = e] /\ n = s.chain + 1
  BY <1>1
<1> HIDE DEF n
<1>4. /\ t.previous = s.previous /\ t.chain = n /\ t.surface = s.surface /\ t.bad = s.bad
      /\ t \in SwapchainStates
  BY <1>2, <1>3 DEF SwapchainStates
<1> QED BY <1>3, <1>4

LEMMA ResurfacedNear ==
  ASSUME NEW s \in SwapchainStates, NEW t \in Resurfaced(s)
  PROVE  t \in SwapchainStates /\ t.previous = s.previous /\ t.bad = s.bad
<1>1. PICK r \in Recreated(s) : t = [r EXCEPT !.surface = @ + 1]
  BY DEF Resurfaced
<1>2. r \in SwapchainStates /\ r.previous = s.previous /\ r.bad = s.bad
  BY RecreatedNear
<1> QED BY <1>1, <1>2 DEF SwapchainStates

LEMMA ChainJunk ==
  ASSUME NEW s \in SwapchainStates
  PROVE  <<ChainRes(s)>> \in Seq(JunkItems)
<1> DEFINE c == [chain |-> s.chain, surface |-> s.surface]
<1>1. c \in [chain : Nat, surface : Nat] /\ ChainRes(c) = ChainRes(s)
  BY DEF SwapchainStates, ChainRes
<1>2. ChainRes(s) \in {ChainRes(x) : x \in [chain : Nat, surface : Nat]}
  BY <1>1
<1>3. ChainRes(s) \in JunkItems
  BY <1>2 DEF JunkItems
<1> QED BY <1>3

LEMMA OutdateQuiet ==
  ASSUME GfxTyped, TicksInv, NEW s, CloseTo(s), Outdate(s)
  PROVE  DeviceQuiet /\ CloseTo(swapchain')
<1>1. /\ swapchain' \in Recreated(s)
      /\ device' = Enqueued(device, <<ChainRes(s)>>)
  BY DEF Outdate
<1>2. DeviceQuiet
  BY <1>1, ChainJunk, EnqueuedQuiet DEF CloseTo
<1>3. CloseTo(swapchain')
  BY <1>1, RecreatedNear DEF CloseTo
<1> QED BY <1>2, <1>3

LEMMA LoseSurfaceQuiet ==
  ASSUME GfxTyped, TicksInv, NEW s, CloseTo(s), LoseSurface(s)
  PROVE  DeviceQuiet /\ CloseTo(swapchain')
<1>1. swapchain' \in Resurfaced(s) /\ device' = Forced(device) /\ Idle
  BY DEF LoseSurface
<1>2. DeviceQuiet
  BY <1>1, ForcedQuiet
<1>3. CloseTo(swapchain')
  BY <1>1, ResurfacedNear DEF CloseTo
<1> QED BY <1>2, <1>3

LEMMA BreakQuiet ==
  ASSUME GfxTyped, TicksInv, NEW s, CloseTo(s), Break(s)
  PROVE  DeviceQuiet /\ CloseTo(swapchain') /\ phase' = "dead" /\ plan' = plan
<1>1. swapchain' = Broken(s) /\ device' = Forced(device) /\ Idle /\ phase' = "dead" /\ plan' = plan
  BY DEF Break, Goto
<1>2. DeviceQuiet
  BY <1>1, ForcedQuiet
<1>3. Broken(s) \in SwapchainStates /\ Broken(s).previous = s.previous
  BY DEF CloseTo, Broken, SwapchainStates
<1> QED BY <1>1, <1>2, <1>3 DEF CloseTo

LEMMA ReacquireKeeps ==
  ASSUME GfxTyped, TicksInv, Reacquire
  PROVE  GfxTyped' /\ TicksInv'
<1> DEFINE again == [swapchain EXCEPT !.retries = @ + 1]
<1>1. /\ phase = "acquiring"
      /\ UNCHANGED <<finished, ticks, uses, commands, dma, ring, graph, passed>>
      /\ \/ (Outdate(again) \/ LoseSurface(again)) /\ phase' = "acquiring" /\ plan' = plan
         \/ Break(swapchain)
  BY DEF Reacquire, Goto, recordVars
<1>2. CloseTo(again) /\ CloseTo(swapchain)
  BY DEF CloseTo, GfxTyped, SwapchainStates
<1> HIDE DEF again
<1>3. DeviceQuiet /\ CloseTo(swapchain') /\ phase' \in {"acquiring", "dead"} /\ plan' = plan
  BY <1>1, <1>2, OutdateQuiet, LoseSurfaceQuiet, BreakQuiet
<1>4. QuietStep
  BY <1>1, <1>3 DEF QuietStep, DeviceQuiet, CloseTo, Phases, FramePhases, GfxTyped
<1> QED BY <1>4, QuietKeeps

LEMMA PresentedNear ==
  ASSUME GfxTyped, TicksInv
  PROVE  CloseTo(Presented(swapchain, device.submitted["main"]))
<1> DEFINE s == Presented(swapchain, device.submitted["main"])
           p == [swapchain.previous EXCEPT ![swapchain.frame] = device.submitted["main"]]
           m == (swapchain.frame + 1) % MAX_PENDING_FRAMES
<1>1. /\ swapchain.frame \in Frames /\ swapchain.previous \in [Frames -> Nat]
      /\ device.submitted["main"] \in Nat /\ swapchain \in SwapchainStates
  BY GfxConstants, DeviceKnown DEF GfxTyped, SwapchainStates
<1>2. m \in Frames
  <2>1. swapchain.frame + 1 \in Nat
    BY <1>1, GfxConstants DEF Frames
  <2> QED BY <2>1, GfxConstants, ModRange DEF Frames
<1>3. /\ p \in [Frames -> Nat]
      /\ \A f \in Frames : p[f] \in {swapchain.previous[f], device.submitted["main"]}
  BY <1>1
<1>4. s = [swapchain EXCEPT !.previous = p, !.acquired = FALSE, !.frame = m]
  BY DEF Presented
<1> HIDE DEF p, m, s
<1>5. s \in SwapchainStates /\ s.previous = p
  BY <1>1, <1>2, <1>3, <1>4 DEF SwapchainStates
<1>6. CloseTo(s)
  BY <1>3, <1>5 DEF CloseTo
<1> QED BY <1>6 DEF s

LEMMA PresentKeeps ==
  ASSUME GfxTyped, TicksInv, Present
  PROVE  GfxTyped' /\ TicksInv'
<1> DEFINE s == Presented(swapchain, device.submitted["main"])
<1>1. /\ phase = "present"
      /\ UNCHANGED <<finished, ticks, uses, commands, dma, ring, graph, passed>>
      /\ \/ swapchain' = s /\ device' = device /\ phase' = "end" /\ plan' = plan
         \/ (Outdate(s) \/ LoseSurface(s)) /\ phase' = "end" /\ plan' = plan
         \/ Break(s)
  BY DEF Present, Goto, recordVars
<1>2. CloseTo(s)
  BY PresentedNear
<1> HIDE DEF s
<1>3. device' = device => DeviceQuiet
  BY DeviceKnown DEF DeviceQuiet
<1>4. DeviceQuiet /\ CloseTo(swapchain') /\ phase' \in {"end", "dead"} /\ plan' = plan
  BY <1>1, <1>2, <1>3, OutdateQuiet, LoseSurfaceQuiet, BreakQuiet
<1>5. QuietStep
  BY <1>1, <1>4 DEF QuietStep, DeviceQuiet, CloseTo, Phases, FramePhases, GfxTyped
<1> QED BY <1>5, QuietKeeps

\* The contexts that a failed submission gives up.
LEMMA ContextJunk ==
  [f \in 1 .. MAX_PENDING_FRAMES |-> ContextRes(f - 1)] \in Seq(JunkItems)
<1> DEFINE items == [f \in 1 .. MAX_PENDING_FRAMES |-> ContextRes(f - 1)]
<1>1. \A f \in 1 .. MAX_PENDING_FRAMES : f - 1 \in Frames
  BY GfxConstants DEF Frames
<1>2. \A f \in Frames : ContextRes(f) \in JunkItems
  BY DEF JunkItems
<1>3. items \in [1 .. MAX_PENDING_FRAMES -> JunkItems]
  BY <1>1, <1>2
<1> HIDE DEF items
<1>4. items \in Seq(JunkItems)
  BY <1>3, GfxConstants
<1> QED BY <1>4 DEF items

LEMMA SubmitFailsKeeps ==
  ASSUME GfxTyped, TicksInv, SubmitFails
  PROVE  GfxTyped' /\ TicksInv'
<1>1. /\ phase = "submit" /\ phase' = "dead"
      /\ device' = Enqueued(device, [f \in 1 .. MAX_PENDING_FRAMES |-> ContextRes(f - 1)])
      /\ UNCHANGED <<finished, ticks, uses, commands, dma, ring, swapchain, graph, passed, plan>>
  BY DEF SubmitFails, Goto, recordVars, frameVars
<1>2. DeviceQuiet
  BY <1>1, ContextJunk, EnqueuedQuiet
<1>3. QuietStep
  BY <1>1, <1>2 DEF QuietStep, DeviceQuiet, Phases, FramePhases, GfxTyped
<1> QED BY <1>3, QuietKeeps
-----------------------------------------------------------------------------
(* The frame contexts                                                      *)

\* What a context's buffers hold is a number.
LEMMA HeldBytesTyped ==
  ASSUME NEW bufs \in Seq(ConstBuffers)
  PROVE  HeldBytes(bufs) \in Int
<1> DEFINE n == Len(bufs)
           f == [p \in Int \X ConstBuffers |-> p[1] + p[2].size - p[2].free]
           Fold(g) == g = [t \in SUBSET (1 .. n) |->
                             IF t = {} THEN 0
                             ELSE g[t \ {Max(t)}] + bufs[Max(t)].size - bufs[Max(t)].free]
           fold == CHOOSE g : Fold(g)
<1>1. n \in Nat /\ DOMAIN bufs = 1 .. n /\ bufs \in [1 .. n -> ConstBuffers]
  OBVIOUS
<1>2. HeldBytes(bufs) = fold[1 .. n]
  BY <1>1 DEF HeldBytes, FoldLeft, MapThenFoldSet, Max, Max
<1>b. \A b \in ConstBuffers : b.size \in Int /\ b.free \in Int
  BY DEF ConstBuffers
<1>3. f \in [Int \X ConstBuffers -> Int]
      /\ \A x \in Int, b \in ConstBuffers : f[x, b] = x + b.size - b.free
  <2>1. \A p \in Int \X ConstBuffers : p[1] \in Int /\ p[2].size \in Int /\ p[2].free \in Int
    BY <1>b
  <2>2. \A p \in Int \X ConstBuffers : p[1] + p[2].size - p[2].free \in Int
    BY <2>1
  <2>3. f \in [Int \X ConstBuffers -> Int]
    BY <2>2
  <2>4. ASSUME NEW x \in Int, NEW b \in ConstBuffers PROVE f[x, b] = x + b.size - b.free
    <3>1. <<x, b>> \in Int \X ConstBuffers
      OBVIOUS
    <3>2. f[<<x, b>>] = <<x, b>>[1] + <<x, b>>[2].size - <<x, b>>[2].free
      BY <3>1
    <3> HIDE DEF f
    <3> QED BY <3>2
  <2> QED BY <2>3, <2>4
<1>4. \E g : FoldOf(Int, f, 0, bufs, n, g)
  <2> HIDE DEF f, n
  <2>0. 0 \in Int
    OBVIOUS
  <2>1. 0 \in Int /\ n \in Nat /\ bufs \in [1 .. n -> ConstBuffers] /\ f \in [Int \X ConstBuffers -> Int]
    BY <2>0, <1>1, <1>3, Zenon
  <2> QED BY <2>1, FoldExists
<1>5. \E g : Fold(g)
  <2>1. PICK g : FoldOf(Int, f, 0, bufs, n, g)
    BY <1>4
  <2> HIDE DEF f, n
  <2>2. /\ g \in [SUBSET (1 .. n) -> Int]
        /\ \A t \in SUBSET (1 .. n) :
             g[t] = IF t = {} THEN 0 ELSE f[g[t \ {Max(t)}], bufs[Max(t)]]
    BY <2>1 DEF FoldOf
  <2>3. ASSUME NEW t \in SUBSET (1 .. n), t # {}
        PROVE  f[g[t \ {Max(t)}], bufs[Max(t)]] = g[t \ {Max(t)}] + bufs[Max(t)].size - bufs[Max(t)].free
    <3>1. Max(t) \in 1 .. n
      BY <2>3, <1>1, MaxIsGreatest
    <3>2. g[t \ {Max(t)}] \in Int /\ bufs[Max(t)] \in ConstBuffers
      BY <3>1, <2>2, <1>1
    <3> QED BY <3>2, <1>3
  <2>4. Fold(g)
    BY <2>2, <2>3
  <2> QED BY <2>4
<1>6. Fold(fold)
  BY <1>5
<1> HIDE DEF fold
<1>7. /\ fold[{}] = 0
      /\ \A k \in 1 .. n : fold[1 .. k] = fold[1 .. k - 1] + bufs[k].size - bufs[k].free
  <2> HIDE DEF n
  <2>1. \A t \in SUBSET (1 .. n) :
          fold[t] = IF t = {} THEN 0 ELSE fold[t \ {Max(t)}] + bufs[Max(t)].size - bufs[Max(t)].free
    BY <1>6
  <2>2. ASSUME NEW k \in 1 .. n
        PROVE  fold[1 .. k] = fold[1 .. k - 1] + bufs[k].size - bufs[k].free
    <3>1. /\ 1 .. k \in SUBSET (1 .. n) /\ 1 .. k # {}
          /\ Max(1 .. k) = k /\ (1 .. k) \ {k} = 1 .. k - 1
      BY LastPlace, <1>1
    <3> QED BY <2>1, <3>1
  <2>3. {} \in SUBSET (1 .. n)
    OBVIOUS
  <2>4. fold[{}] = 0
    BY <2>1, <2>3
  <2> QED BY <2>2, <2>4
<1>8. ASSUME NEW k \in 1 .. n, fold[1 .. k - 1] \in Int PROVE fold[1 .. k] \in Int
  <2>1. bufs[k].size \in Int /\ bufs[k].free \in Int
    BY <1>1, <1>b
  <2>2. fold[1 .. k] = fold[1 .. k - 1] + bufs[k].size - bufs[k].free
    BY <1>7
  <2> HIDE DEF n
  <2> QED BY <2>1, <2>2, <1>8
<1>9. fold[1 .. n] \in Int
  <2> HIDE DEF n
  <2> QED BY <1>1, <1>7, <1>8, FoldEnds
<1> QED BY <1>2, <1>9

\* A reset context has one buffer or none, and the ring keeps its values.
LEMMA ResetTyped ==
  ASSUME NEW r \in RingStates
  PROVE  /\ ResetContext(r) \in RingStates
         /\ ResetContext(r).timelines = r.timelines
         /\ Junk(r) \in Seq(JunkItems)
         /\ \A i \in DOMAIN Junk(r) : \E n \in Nat : Junk(r)[i] = ConstRes(n)
<1> DEFINE bufs == r.buffers[r.current]
           total == HeldBytes(bufs)
           junk == [i \in DOMAIN bufs |-> ConstRes(bufs[i].id)]
           empty == [i \in DOMAIN bufs |-> [bufs[i] EXCEPT !.free = bufs[i].size]]
           merged == AddedBuffer(r.made, total + total \div 16, 0)
<1>1. /\ r.current \in Frames /\ r.buffers \in [Frames -> Seq(ConstBuffers)] /\ r.made \in Nat
      /\ r.timelines \in [Frames -> Nat]
      /\ r = [current |-> r.current, timelines |-> r.timelines, buffers |-> r.buffers, made |-> r.made]
  BY DEF RingStates
<1>2. bufs \in Seq(ConstBuffers)
  BY <1>1
<1> HIDE DEF bufs
<1>b. \A b \in ConstBuffers : b.id \in Nat /\ b.size \in Int /\ [b EXCEPT !.free = b.size] \in ConstBuffers
  BY DEF ConstBuffers
<1>3. Len(bufs) \in Nat /\ DOMAIN bufs = 1 .. Len(bufs) /\ \A i \in 1 .. Len(bufs) : bufs[i] \in ConstBuffers
  BY <1>2
<1>4. total \in Int
  BY <1>2, HeldBytesTyped
<1> HIDE DEF total
<1>5. merged \in ConstBuffers
  <2>1. total + total \div 16 \in Int /\ r.made + 1 \in Nat
    BY <1>1, <1>4
  <2> DEFINE size == total + total \div 16
  <2>2. size \in Int /\ size - 0 \in Int
    BY <2>1
  <2> HIDE DEF size
  <2>3. AddedBuffer(r.made, size, 0) \in ConstBuffers
    BY <2>1, <2>2 DEF AddedBuffer, ConstBuffers
  <2> QED BY <2>3 DEF size
<1> HIDE DEF merged
<1>6. <<merged>> \in Seq(ConstBuffers)
  BY <1>5
<1>7. empty \in Seq(ConstBuffers)
  <2>1. empty \in [1 .. Len(bufs) -> ConstBuffers]
    BY <1>3, <1>b
  <2> HIDE DEF empty
  <2> QED BY <2>1, <1>3
<1> HIDE DEF empty
<1>8. \A x \in Seq(ConstBuffers) : [r.buffers EXCEPT ![r.current] = x] \in [Frames -> Seq(ConstBuffers)]
  BY <1>1
<1>9. ResetContext(r) \in RingStates /\ ResetContext(r).timelines = r.timelines
  <2>1. CASE Len(bufs) > 1
    <3> DEFINE b == [r.buffers EXCEPT ![r.current] = <<merged>>]
               m == r.made + 1
    <3>1. ResetContext(r) = [r EXCEPT !.made = m, !.buffers = b]
      BY <2>1 DEF ResetContext, bufs, total, merged
    <3>2. b \in [Frames -> Seq(ConstBuffers)] /\ m \in Nat
      BY <1>1, <1>6, <1>8
    <3> HIDE DEF b, m
    <3> QED BY <3>1, <3>2, <1>1 DEF RingStates
  <2>2. CASE ~ (Len(bufs) > 1)
    <3> DEFINE b == [r.buffers EXCEPT ![r.current] = empty]
    <3>1. ResetContext(r) = [r EXCEPT !.buffers = b]
      BY <2>2 DEF ResetContext, bufs, empty
    <3>2. b \in [Frames -> Seq(ConstBuffers)]
      BY <1>7, <1>8
    <3> HIDE DEF b
    <3> QED BY <3>1, <3>2, <1>1 DEF RingStates
  <2> QED BY <2>1, <2>2
<1>10. Junk(r) \in Seq(JunkItems) /\ \A i \in DOMAIN Junk(r) : \E n \in Nat : Junk(r)[i] = ConstRes(n)
  <2>1. \A n \in Nat : ConstRes(n) \in JunkItems
    BY DEF JunkItems
  <2>2. \A i \in 1 .. Len(bufs) : bufs[i].id \in Nat
    BY <1>3, <1>b
  <2>3. junk \in [1 .. Len(bufs) -> JunkItems]
    BY <1>3, <2>1, <2>2
  <2>4. \A i \in DOMAIN junk : \E n \in Nat : junk[i] = ConstRes(n)
    BY <1>3, <2>2
  <2> HIDE DEF junk
  <2>5. junk \in Seq(JunkItems)
    BY <2>3, <1>3
  <2>6. Junk(r) = IF Len(bufs) > 1 THEN junk ELSE <<>>
    BY DEF Junk, bufs, junk
  <2>7. <<>> \in Seq(JunkItems) /\ DOMAIN <<>> = {}
    OBVIOUS
  <2> QED BY <2>4, <2>5, <2>6, <2>7
<1> QED BY <1>9, <1>10

LEMMA WaitAndResetKeeps ==
  ASSUME GfxTyped, TicksInv, WaitAndReset
  PROVE  GfxTyped' /\ TicksInv'
<1> DEFINE value == ring.timelines[ring.current]
           d == Waited(device, "main", value)
<1>1. /\ phase = "reset" /\ phase' = "present"
      /\ device' = Enqueued(d, Junk(ring)) /\ ring' = ResetContext(ring)
      /\ UNCHANGED <<finished, ticks, uses, commands, dma, swapchain, graph, passed, plan>>
  BY DEF WaitAndReset, Goto, recordVars
<1>2. value \in Nat /\ ring \in RingStates
  BY DEF GfxTyped, RingStates
<1> HIDE DEF value
<1>3. /\ Seen(device, d)
      /\ \A p \in Queues : d.observed[p] \in {device.observed[p], finished[p]}
  BY <1>2, DeviceKnown, GfxConstants, WaitedSees
<1> HIDE DEF d
<1>4. QueueOrdered(d) /\ d \in DeviceStates /\ \A q \in Queues : d.observed[q] <= finished[q]
  BY <1>3, DeviceKnown DEF QueueOrdered, Seen
<1>5. Junk(ring) \in Seq(JunkItems) /\ ring' \in RingStates /\ ring'.timelines = ring.timelines
  BY <1>1, <1>2, ResetTyped
<1>6. /\ device' \in DeviceStates
      /\ device'.submitted = d.submitted /\ device'.observed = d.observed /\ device'.tick = d.tick
      /\ QueueOrdered(device')
  BY <1>1, <1>4, <1>5, EnqueuedItems
<1>7. QuietStep
  BY <1>1, <1>3, <1>4, <1>5, <1>6 DEF QuietStep, Seen, Phases, FramePhases, GfxTyped
<1> QED BY <1>7, QuietKeeps
-----------------------------------------------------------------------------
(* Steps of the ticks                                                      *)

\* The next tick begins: packs that are complete go, and the tick that ends is recorded
\* or completed at once.
LEMMA StartTickKeeps ==
  ASSUME GfxTyped, TicksInv, StartTick
  PROVE  GfxTyped' /\ TicksInv'
<1> DEFINE pack == [tick |-> ticks.current, timelines |-> device.submitted]
           n == Popped
           left == SubSeq(ticks.packs, 1, n)
           c == ticks'.completed
           d == ObservedNow(device)
           e == Processed(d, c)
<1>1. /\ phase = "idle" /\ phase' = "commands"
      /\ ticks' = StartedWith(pack) /\ passed' = c
      /\ device' = [e EXCEPT !.tick = ticks'.current]
      /\ UNCHANGED <<finished, uses, commands, dma, ring, swapchain, graph, plan>>
  BY DEF StartTick, StartedNext, Goto, recordVars, frameVars
<1>2. /\ ticks.packs \in Seq(Packs) /\ Len(ticks.packs) \in Nat /\ DOMAIN ticks.packs = 1 .. Len(ticks.packs)
      /\ \A i \in 1 .. Len(ticks.packs) : ticks.packs[i].tick \in Nat /\ ticks.packs[i].timelines \in Timelines
  BY PacksTyped
<1>3. ticks.current \in Nat /\ ticks.completed \in Nat /\ passed \in Nat
  BY DEF GfxTyped, TickStates
<1>4. /\ n \in 0 .. Len(ticks.packs)
      /\ \A i \in 1 .. Len(ticks.packs) : n < i => AllComplete(ticks.packs[i])
      /\ (\A i \in 1 .. Len(ticks.packs) : AllComplete(ticks.packs[i])) => n = 0
  BY PoppedComplete
<1>5. pack \in Packs /\ pack.tick = ticks.current /\ pack.timelines = device.submitted
  BY <1>3, DeviceKnown DEF Packs
<1>6. /\ left \in Seq(Packs) /\ Len(left) = n /\ DOMAIN left = 1 .. n
      /\ \A i \in 1 .. n : left[i] = ticks.packs[i]
  BY <1>4, FirstPacks
<1>7. /\ ticks'.current = ticks.current + 1
      /\ c = IF AllComplete(pack) THEN ticks.current
             ELSE IF n < Len(ticks.packs) THEN ticks.packs[n + 1].tick ELSE ticks.completed
      /\ ticks'.packs = IF AllComplete(pack) THEN left ELSE <<pack>> \o left
      /\ ticks' = [current |-> ticks'.current, completed |-> c, packs |-> ticks'.packs]
  <2> HIDE DEF n, pack, left
  <2>1. StartedWith(pack) =
          [current |-> ticks.current + 1,
           completed |-> CASE AllComplete(pack) -> ticks.current
                           [] ~ AllComplete(pack) /\ n < Len(ticks.packs) -> ticks.packs[n + 1].tick
                           [] OTHER -> ticks.completed,
           packs |-> IF AllComplete(pack) THEN left ELSE <<pack>> \o left]
    BY DEF StartedWith, n, left
  <2> QED BY <2>1, <1>1
<1> HIDE DEF n, pack, left, c
\* What the uses and the packs are like before the step.
<1>8. \A u \in uses : u.queue \in Queues /\ u.at \in Nat /\ u.tick \in Nat
                      /\ finished[u.queue] < u.at /\ u.at <= device.submitted[u.queue]
                      /\ ticks.completed < u.tick /\ u.tick <= ticks.current
  BY <1>1 DEF GfxTyped, TicksInv, UsesPending, Recording, FramePhases
<1>9. ~ dma
  BY <1>1 DEF TicksInv, UsesPending, FramePhases
<1>10. /\ \A i \in 1 .. Len(ticks.packs) :
            /\ ticks.completed <= ticks.packs[i].tick /\ ticks.packs[i].tick < ticks.current
            /\ \A q \in Queues : ticks.packs[i].timelines[q] <= device.submitted[q]
            /\ ticks.packs[i].tick <= ticks.completed => AllComplete(ticks.packs[i])
            /\ \A u \in uses : u.tick <= ticks.packs[i].tick => u.at <= ticks.packs[i].timelines[u.queue]
       /\ \A i, j \in 1 .. Len(ticks.packs) : i < j => ticks.packs[i].tick > ticks.packs[j].tick
  BY <1>2 DEF TicksInv, PacksCover, PacksOrdered
<1>11. /\ ticks.completed < ticks.current
       /\ \A m \in Nat : ticks.completed < m /\ m < ticks.current =>
            \E i \in 1 .. Len(ticks.packs) : ticks.packs[i].tick = m
  BY <1>2 DEF TicksInv, TicksPacked
<1>12. \A i \in 1 .. Len(ticks.packs), q \in Queues : ticks.packs[i].timelines[q] \in Nat
  BY <1>2 DEF Timelines
\* The ticks after the step.
<1>13. /\ c \in Nat /\ c < ticks'.current /\ ticks'.packs \in Seq(Packs)
       /\ \A u \in uses : c < u.tick
       /\ PacksOrdered' /\ PacksCover'
       /\ \A m \in Nat : c < m /\ m < ticks'.current => \E i \in DOMAIN ticks'.packs : ticks'.packs[i].tick = m
  <2>1. CASE AllComplete(pack)
    <3>1. c = ticks.current /\ ticks'.packs = left
      BY <2>1, <1>7
    <3>2. \A q \in Queues : device.submitted[q] <= finished[q]
      BY <2>1, <1>5 DEF AllComplete
    <3>3. uses = {}
      <4> SUFFICES ASSUME NEW u \in uses PROVE FALSE
        OBVIOUS
      <4>1. finished[u.queue] \in Nat /\ device.submitted[u.queue] \in Nat
        BY <1>8, DeviceKnown
      <4> QED BY <4>1, <3>2, <1>8
    <3>4. \A i \in 1 .. Len(ticks.packs) : AllComplete(ticks.packs[i])
      <4> SUFFICES ASSUME NEW i \in 1 .. Len(ticks.packs), NEW q \in Queues
                   PROVE  ticks.packs[i].timelines[q] <= finished[q]
        BY DEF AllComplete
      <4>1. ticks.packs[i].timelines[q] <= device.submitted[q] /\ device.submitted[q] <= finished[q]
        BY <1>10, <3>2
      <4> QED BY <4>1, <1>12, DeviceKnown
    <3>5. DOMAIN left = {}
      BY <3>4, <1>4, <1>6
    <3>6. PacksOrdered' /\ PacksCover'
      BY <3>1, <3>5 DEF PacksOrdered, PacksCover
    <3> QED BY <3>1, <3>3, <3>6, <1>3, <1>6, <1>7
  <2>2. CASE ~ AllComplete(pack)
    <3> DEFINE new == <<pack>> \o left
    <3>1. ticks'.packs = new
          /\ c = IF n < Len(ticks.packs) THEN ticks.packs[n + 1].tick ELSE ticks.completed
      BY <2>2, <1>7
    <3>2. /\ new \in Seq(Packs) /\ DOMAIN new = 1 .. n + 1 /\ new[1] = pack
          /\ \A i \in 1 .. n : new[i + 1] = ticks.packs[i]
      <4>1. <<pack>> \in Seq(Packs) /\ Len(<<pack>>) = 1 /\ <<pack>>[1] = pack
        BY <1>5
      <4>2. /\ new \in Seq(Packs) /\ Len(new) = 1 + n
            /\ \A i \in 1 .. 1 + n : new[i] = IF i <= 1 THEN <<pack>>[i] ELSE left[i - 1]
        BY <4>1, <1>6, ConcatProperties
      <4> HIDE DEF new
      <4>3. DOMAIN new = 1 .. Len(new)
        BY <4>2
      <4>4. n \in Nat
        BY <1>4
      <4>5. ASSUME NEW i \in 1 .. n PROVE new[i + 1] = ticks.packs[i]
        <5>1. i + 1 \in 1 .. 1 + n /\ ~ (i + 1 <= 1) /\ i + 1 - 1 = i
          BY <4>4
        <5> QED BY <5>1, <4>2, <1>6
      <4> QED BY <4>1, <4>2, <4>3, <4>4, <4>5
    <3> HIDE DEF new
    <3>3. /\ c \in Nat /\ ticks.completed <= c /\ c < ticks.current
          /\ \A i \in 1 .. n : c < ticks.packs[i].tick \/ (c = ticks.completed /\ n = Len(ticks.packs))
      <4>1. CASE n < Len(ticks.packs)
        <5>1. n + 1 \in 1 .. Len(ticks.packs) /\ c = ticks.packs[n + 1].tick
          BY <4>1, <3>1, <1>2, <1>4
        <5>2. \A i \in 1 .. n : i < n + 1 /\ i \in 1 .. Len(ticks.packs)
          BY <1>4
        <5> QED BY <5>1, <5>2, <1>2, <1>10
      <4>2. CASE ~ (n < Len(ticks.packs))
        BY <4>2, <3>1, <1>3, <1>4, <1>11
      <4> QED BY <4>1, <4>2
    <3>4. ASSUME NEW u \in uses PROVE c < u.tick
      <4>1. CASE n < Len(ticks.packs)
        <5>1. n + 1 \in 1 .. Len(ticks.packs) /\ n < n + 1 /\ c = ticks.packs[n + 1].tick
          BY <4>1, <3>1, <1>2, <1>4
        <5>2. AllComplete(ticks.packs[n + 1])
          BY <5>1, <1>4
        <5> DEFINE p == ticks.packs[n + 1]
        <5>3. /\ u.tick <= p.tick => u.at <= p.timelines[u.queue]
              /\ p.timelines[u.queue] <= finished[u.queue] /\ p.timelines[u.queue] \in Nat
              /\ finished[u.queue] \in Nat /\ p.tick \in Nat
          BY <5>1, <5>2, <1>2, <1>8, <1>10, <1>12, DeviceKnown DEF AllComplete
        <5> HIDE DEF p
        <5>4. ~ (u.tick <= p.tick)
          BY <5>3, <1>8
        <5> QED BY <5>1, <5>3, <5>4, <1>8 DEF p
      <4>2. CASE ~ (n < Len(ticks.packs))
        BY <4>2, <3>1, <1>8
      <4> QED BY <4>1, <4>2
    <3>5. ASSUME NEW i \in 1 .. n + 1
          PROVE  (i = 1 /\ new[i] = pack) \/ (i > 1 /\ i - 1 \in 1 .. n /\ i - 1 \in 1 .. Len(ticks.packs) /\ new[i] = ticks.packs[i - 1])
      <4>1. CASE i = 1
        BY <4>1, <3>2
      <4>2. CASE i # 1
        <5>1. i - 1 \in 1 .. n /\ (i - 1) + 1 = i /\ i - 1 \in 1 .. Len(ticks.packs) /\ i > 1
          BY <4>2, <1>4
        <5> QED BY <5>1, <3>2
      <4> QED BY <4>1, <4>2
    <3>6. PacksOrdered'
      <4> SUFFICES ASSUME NEW i \in 1 .. n + 1, NEW j \in 1 .. n + 1, i < j
                   PROVE  new[i].tick > new[j].tick
        BY <3>1, <3>2 DEF PacksOrdered
      <4>1. j > 1 /\ j - 1 \in 1 .. Len(ticks.packs) /\ new[j] = ticks.packs[j - 1]
        BY <3>5, <1>4
      <4>2. CASE i = 1
        BY <4>1, <4>2, <3>2, <1>2, <1>3, <1>5, <1>10
      <4>3. CASE i # 1
        <5>1. i - 1 \in 1 .. Len(ticks.packs) /\ new[i] = ticks.packs[i - 1] /\ i - 1 < j - 1
          BY <4>3, <3>5, <1>4
        <5> QED BY <4>1, <5>1, <1>10
      <4> QED BY <4>2, <4>3
    <3>7. PacksCover'
      <4> SUFFICES ASSUME NEW i \in 1 .. n + 1
                   PROVE  /\ c <= new[i].tick /\ new[i].tick < ticks'.current
                          /\ \A q \in Queues : new[i].timelines[q] <= device.submitted[q]
                          /\ new[i].tick <= c => AllComplete(new[i])
                          /\ \A u \in uses : u.tick <= new[i].tick => u.at <= new[i].timelines[u.queue]
        <5>1. /\ device'.submitted = device.submitted
          <6>1. d.submitted = device.submitted /\ d \in DeviceStates
            BY DeviceKnown DEF ObservedNow, GfxTyped, DeviceStates
          <6>2. e.submitted = d.submitted /\ e \in DeviceStates
            BY <6>1, <3>3, ProcessedQueue
          <6> HIDE DEF e, d
          <6> QED BY <6>1, <6>2, <1>1 DEF DeviceStates
        <5> QED BY <5>1, <3>1, <3>2, <1>1 DEF PacksCover, AllComplete, c
      <4>1. CASE i = 1
        <5>1. new[i] = pack
          BY <4>1, <3>2
        <5>2. ~ (ticks.current <= c) /\ c <= ticks.current /\ ticks.current < ticks'.current
          BY <3>3, <1>3, <1>7
        <5> QED BY <5>1, <5>2, <1>5, <1>8, DeviceKnown
      <4>2. CASE i # 1
        <5>1. i - 1 \in 1 .. n /\ i - 1 \in 1 .. Len(ticks.packs) /\ new[i] = ticks.packs[i - 1]
          BY <4>2, <3>5
        <5> DEFINE p == ticks.packs[i - 1]
        <5>2. /\ p.tick < ticks.current /\ p.tick \in Nat
              /\ \A q \in Queues : p.timelines[q] <= device.submitted[q]
              /\ p.tick <= ticks.completed => AllComplete(p)
              /\ \A u \in uses : u.tick <= p.tick => u.at <= p.timelines[u.queue]
              /\ ticks.completed <= p.tick
          BY <5>1, <1>2, <1>10
        <5>3. c < p.tick \/ c = ticks.completed
          BY <5>1, <3>3
        <5> HIDE DEF p
        <5>4. c <= p.tick /\ p.tick < ticks'.current /\ (p.tick <= c => AllComplete(p))
          BY <5>2, <5>3, <3>3, <1>3, <1>7
        <5> QED BY <5>1, <5>2, <5>4 DEF p
      <4> QED BY <4>1, <4>2
    <3>8. ASSUME NEW m \in Nat, c < m, m < ticks'.current
          PROVE  \E i \in 1 .. n + 1 : new[i].tick = m
      <4>1. CASE m = ticks.current
        <5>1. 1 \in 1 .. n + 1
          BY <1>4
        <5> QED BY <5>1, <4>1, <3>2, <1>5
      <4>2. CASE m # ticks.current
        <5>1. m < ticks.current /\ ticks.completed < m
          BY <4>2, <3>3, <3>8, <1>3, <1>7
        <5>2. PICK i \in 1 .. Len(ticks.packs) : ticks.packs[i].tick = m
          BY <5>1, <1>11
        <5>3. i \in 1 .. n
          <6>1. CASE n < Len(ticks.packs)
            <7>1. n + 1 \in 1 .. Len(ticks.packs) /\ c = ticks.packs[n + 1].tick
              BY <6>1, <3>1, <1>2, <1>4
            <7>2. i # n + 1 /\ ~ (n + 1 < i)
              BY <7>1, <5>2, <3>8, <1>2, <1>10
            <7> QED BY <7>2, <1>4
          <6>2. CASE ~ (n < Len(ticks.packs))
            BY <6>2, <1>4
          <6> QED BY <6>1, <6>2
        <5>4. i + 1 \in 1 .. n + 1 /\ new[i + 1] = ticks.packs[i]
          BY <5>3, <3>2, <1>4
        <5> QED BY <5>2, <5>4
      <4> QED BY <4>1, <4>2
    <3>9. c < ticks'.current
      BY <3>3, <1>3, <1>7
    <3> QED BY <3>1, <3>2, <3>3, <3>4, <3>6, <3>7, <3>8, <3>9
  <2> QED BY <2>1, <2>2
\* The device after the step.
<1>14. /\ device' \in DeviceStates /\ device'.submitted = device.submitted /\ device'.observed = finished
       /\ device'.tick = ticks'.current /\ QueueOrdered(device')
  <2>1. d \in DeviceStates /\ d.submitted = device.submitted /\ d.observed = finished /\ d.tick = device.tick
        /\ d.destroy_queue = device.destroy_queue
    BY DeviceKnown DEF ObservedNow, GfxTyped, DeviceStates
  <2>2. QueueOrdered(d)
    BY <2>1, DeviceKnown DEF QueueOrdered
  <2>3. /\ e \in DeviceStates /\ e.submitted = d.submitted /\ e.observed = d.observed /\ e.tick = d.tick
        /\ QueueOrdered(e)
    BY <2>1, <2>2, <1>13, ProcessedQueue
  <2> HIDE DEF e, d
  <2>4. device.tick = ticks.current /\ ticks'.current = ticks.current + 1 /\ ticks'.current \in Nat
    BY <1>3, <1>7 DEF TicksInv, JunkOrdered
  <2>5. /\ device' \in DeviceStates /\ device'.submitted = e.submitted /\ device'.observed = e.observed
        /\ device'.tick = ticks'.current /\ device'.destroy_queue = e.destroy_queue
    BY <2>3, <2>4, <1>1 DEF DeviceStates
  <2>6. DOMAIN e.destroy_queue = 1 .. Len(e.destroy_queue) /\ \A i \in 1 .. Len(e.destroy_queue) : e.destroy_queue[i].tick \in Nat
    BY <2>3, ItemsTyped DEF DeviceStates
  <2>7. \A i \in DOMAIN e.destroy_queue : e.destroy_queue[i].tick <= ticks'.current
    BY <2>1, <2>3, <2>4, <2>6, <1>3 DEF QueueOrdered
  <2>8. QueueOrdered(device')
    BY <2>3, <2>5, <2>7 DEF QueueOrdered
  <2> QED BY <2>1, <2>3, <2>5, <2>8
<1>15. ticks' \in TickStates
  <2> DEFINE a == ticks'.current
             p == ticks'.packs
  <2>1. a \in Nat /\ c \in Nat /\ p \in Seq(Packs) /\ ticks' = [current |-> a, completed |-> c, packs |-> p]
    BY <1>3, <1>7, <1>13
  <2> HIDE DEF a, p
  <2> QED BY <2>1 DEF TickStates
<1>16. GfxTyped'
  BY <1>1, <1>13, <1>14, <1>15 DEF GfxTyped, Phases, c
<1>17. TimelinesInOrder'
  BY <1>1, <1>14, DeviceKnown DEF TicksInv, TimelinesInOrder
<1>18. UsesPending'
  <2>1. uses' = uses /\ finished' = finished /\ dma' = dma
    BY <1>1
  <2>2. ASSUME NEW u \in uses
        PROVE  /\ finished[u.queue] < u.at
               /\ ticks'.completed < u.tick /\ u.tick <= ticks'.current
               /\ u.at <= device'.submitted[u.queue]
    BY <1>3, <1>7, <1>8, <1>13, <1>14 DEF c
  <2> QED BY <2>1, <2>2, <1>9 DEF UsesPending
<1>19. TicksPacked'
  BY <1>1, <1>13 DEF TicksPacked, c
<1>20. JunkOrdered'
  BY <1>14 DEF JunkOrdered
<1>21. SetsServed'
  <2>1. LastServed' = LastServed
    BY <1>1, <1>3, <1>7 DEF LastServed
  <2> QED BY <2>1, <1>1 DEF TicksInv, SetsServed
<1>22. FramesLimited'
  BY <1>1 DEF FramesLimited
<1>23. FramesSubmitted'
  BY <1>1, <1>14 DEF TicksInv, FramesSubmitted
<1> QED BY <1>13, <1>16, <1>17, <1>18, <1>19, <1>20, <1>21, <1>22, <1>23 DEF TicksInv

\* What waiting for a tick makes of the ticks and of the device.
TicksReached ==
  /\ ticks' \in TickStates /\ ticks'.current = ticks.current
  /\ ticks.completed <= ticks'.completed
  /\ device' \in DeviceStates
  /\ device'.submitted = device.submitted /\ device'.tick = device.tick
  /\ QueueOrdered(device')
  /\ \A q \in Queues : device'.observed[q] <= finished[q]
  /\ \A u \in uses : ticks'.completed < u.tick
  /\ PacksOrdered' /\ PacksCover'
  /\ ticks'.completed < ticks'.current
  /\ \A m \in Nat : ticks'.completed < m /\ m < ticks'.current =>
       \E i \in DOMAIN ticks'.packs : ticks'.packs[i].tick = m

LEMMA WaitedTickReaches ==
  ASSUME GfxTyped, TicksInv, NEW tick \in Nat, ticks.completed < tick, tick < ticks.current,
         CanReturnTick(tick),
         ticks' = WaitedTick(tick), device' = WaitedTickDevice(device, tick),
         UNCHANGED <<finished, uses>>
  PROVE  TicksReached /\ ticks'.completed = tick
<1> DEFINE p == PackOf(tick)
           pack == ticks.packs[p]
           left == SubSeq(ticks.packs, 1, p)
<1>1. /\ ticks.packs \in Seq(Packs) /\ Len(ticks.packs) \in Nat /\ DOMAIN ticks.packs = 1 .. Len(ticks.packs)
      /\ \A i \in 1 .. Len(ticks.packs) : ticks.packs[i].tick \in Nat /\ ticks.packs[i].timelines \in Timelines
  BY PacksTyped
<1>2. /\ ticks.current \in Nat /\ ticks.completed \in Nat
      /\ ticks = [current |-> ticks.current, completed |-> ticks.completed, packs |-> ticks.packs]
  BY DEF GfxTyped, TickStates
<1>3. p \in 1 .. Len(ticks.packs) /\ pack.tick = tick
  <2>1. \E i \in DOMAIN ticks.packs : ticks.packs[i].tick = tick
    BY DEF TicksInv, TicksPacked
  <2> QED BY <2>1, <1>1, PackFound
<1>4. ~ (tick <= ticks.completed)
  BY <1>2
<1>5. \A q \in Queues : pack.timelines[q] <= finished[q]
  BY <1>4 DEF CanReturnTick, CanReturnAll
<1>6. device' = WaitedAll(device, pack.timelines)
  BY <1>4 DEF WaitedTickDevice
<1>7. ticks' = [ticks EXCEPT !.packs = left, !.completed = tick]
  BY <1>4 DEF WaitedTick
<1> HIDE DEF p
<1>8. /\ left \in Seq(Packs) /\ DOMAIN left = 1 .. p
      /\ \A i \in 1 .. p : left[i] = ticks.packs[i]
  <2>1. p \in 0 .. Len(ticks.packs)
    BY <1>1, <1>3
  <2> QED BY <2>1, FirstPacks
<1> HIDE DEF left
<1>9. /\ ticks' \in TickStates /\ ticks'.current = ticks.current /\ ticks'.completed = tick
      /\ ticks'.packs = left
  BY <1>2, <1>7, <1>8 DEF TickStates
<1>10. pack.timelines \in Timelines
  BY <1>1, <1>3
<1>11. /\ Seen(device, device')
       /\ \A q \in Queues : device'.observed[q] \in {device.observed[q], pack.timelines[q]}
  BY <1>6, <1>10, DeviceKnown, WaitedAllSees
<1>12. \A i \in 1 .. Len(ticks.packs) :
            /\ ticks.packs[i].tick < ticks.current
            /\ \A q \in Queues : ticks.packs[i].timelines[q] <= device.submitted[q]
            /\ \A u \in uses : u.tick <= ticks.packs[i].tick => u.at <= ticks.packs[i].timelines[u.queue]
  BY <1>1 DEF TicksInv, PacksCover
<1>13. \A i, j \in 1 .. Len(ticks.packs) : i < j => ticks.packs[i].tick > ticks.packs[j].tick
  BY <1>1 DEF TicksInv, PacksOrdered
<1>14. \A i \in 1 .. p : i \in 1 .. Len(ticks.packs) /\ (i < p \/ i = p)
  BY <1>1, <1>3
<1>15. \A q \in Queues : device'.observed[q] <= finished[q]
  BY <1>5, <1>11, DeviceKnown
<1>16. QueueOrdered(device')
  BY <1>11, DeviceKnown DEF QueueOrdered, Seen
<1>17. \A u \in uses : tick < u.tick
  <2> SUFFICES ASSUME NEW u \in uses, u.tick <= tick PROVE FALSE
    BY DEF GfxTyped
  <2>1. /\ u.queue \in Queues /\ u.at \in Nat /\ finished[u.queue] < u.at
    BY DEF GfxTyped, TicksInv, UsesPending
  <2>2. u.at <= pack.timelines[u.queue]
    BY <1>3, <1>12
  <2>3. pack.timelines[u.queue] <= finished[u.queue] /\ pack.timelines[u.queue] \in Nat /\ finished[u.queue] \in Nat
    BY <2>1, <1>5, <1>10, DeviceKnown DEF Timelines
  <2> HIDE DEF pack
  <2> QED BY <2>1, <2>2, <2>3
<1>18. PacksOrdered'
  BY <1>8, <1>9, <1>13, <1>14 DEF PacksOrdered
<1>19. PacksCover'
  <2> SUFFICES ASSUME NEW i \in 1 .. p
               PROVE  /\ tick <= ticks.packs[i].tick /\ ticks.packs[i].tick < ticks.current
                      /\ \A q \in Queues : ticks.packs[i].timelines[q] <= device.submitted[q]
                      /\ ticks.packs[i].tick <= tick => AllComplete(ticks.packs[i])
                      /\ \A u \in uses : u.tick <= ticks.packs[i].tick => u.at <= ticks.packs[i].timelines[u.queue]
    BY <1>8, <1>9, <1>11 DEF PacksCover, AllComplete, Seen
  <2>1. i \in 1 .. Len(ticks.packs)
    BY <1>14
  <2>2. CASE i = p
    BY <2>1, <2>2, <1>3, <1>5, <1>12 DEF AllComplete
  <2>3. CASE i < p
    <3>1. ticks.packs[i].tick > tick
      BY <2>1, <2>3, <1>3, <1>13
    <3>2. ticks.packs[i].tick \in Nat
      BY <2>1, <1>1
    <3> QED BY <3>1, <3>2, <2>1, <1>12
  <2> QED BY <2>2, <2>3, <1>14
<1>20. ASSUME NEW m \in Nat, tick < m, m < ticks.current
       PROVE  \E i \in 1 .. p : ticks.packs[i].tick = m
  <2>1. ticks.completed < m
    BY <1>2, <1>20
  <2>2. PICK i \in 1 .. Len(ticks.packs) : ticks.packs[i].tick = m
    BY <2>1, <1>1, <1>20 DEF TicksInv, TicksPacked
  <2>3. ~ (p < i)
    BY <2>2, <1>3, <1>13, <1>20
  <2> QED BY <2>2, <2>3, <1>3
<1> QED BY <1>2, <1>8, <1>9, <1>11, <1>15, <1>16, <1>17, <1>18, <1>19, <1>20 DEF TicksReached, Seen

\* A new tick takes the command pools of the tick MAX_PENDING_FRAMES before, which has
\* completed by then.
LEMMA BeginCommandsKeeps ==
  ASSUME GfxTyped, TicksInv, BeginCommands
  PROVE  GfxTyped' /\ TicksInv'
<1> DEFINE new == ticks.current
           s == new % MAX_PENDING_FRAMES
           old == commands.tick_ids[s]
<1>1. /\ phase = "commands" /\ phase' = "transient"
      /\ IF old > passed
         THEN /\ CanReturnTick(old)
              /\ device' = WaitedTickDevice(device, old)
              /\ ticks' = WaitedTick(old)
         ELSE UNCHANGED <<device, ticks>>
      /\ commands' = [commands EXCEPT !.set = s, !.tick_ids[s] = new]
      /\ UNCHANGED <<finished, uses, dma, ring, swapchain, graph, passed, plan>>
  BY DEF BeginCommands, MustWait, Exchanged, SetOf, Goto, frameVars
<1>2. /\ ticks \in TickStates /\ new \in Nat /\ ticks.completed \in Nat /\ passed \in Nat
      /\ ticks.completed < new /\ passed <= ticks.completed
      /\ \A m \in Nat : ticks.completed < m /\ m < new =>
           \E i \in DOMAIN ticks.packs : ticks.packs[i].tick = m
  BY DEF GfxTyped, TickStates, TicksInv, TicksPacked
<1>3. s \in Sets
  BY <1>2, GfxConstants, ModRange DEF Sets
<1>4. /\ commands.tick_ids \in [Sets -> Nat \cup {INVALID}]
      /\ \A n \in Nat : n >= 1 /\ new - 1 - MAX_PENDING_FRAMES < n /\ n <= new - 1 =>
           commands.tick_ids[n % MAX_PENDING_FRAMES] = n
      /\ \A t \in Sets : commands.tick_ids[t] <= new - 1
  BY <1>1 DEF GfxTyped, CommandStates, TicksInv, SetsServed, LastServed
<1>5. INVALID = -1 /\ (old \in Nat \/ old = -1) /\ old <= new - 1
  BY <1>3, <1>4 DEF INVALID
<1> DEFINE o == old
<1>o. o \in Int /\ (o \in Nat \/ o = -1) /\ o <= new - 1 /\ o = old
  BY <1>5
<1> HIDE DEF o, s, new
<1>6. TicksReached /\ (ticks'.completed = ticks.completed \/ ticks'.completed = o)
      /\ (o <= ticks'.completed)
  <2>1. CASE ~ (o > passed) \/ o <= ticks.completed
    <3>1. UNCHANGED <<device, ticks>>
      <4>1. CASE o > passed
        BY <4>1, <2>1, <1>1, <1>o DEF WaitedTick, WaitedTickDevice
      <4>2. CASE ~ (o > passed)
        BY <4>2, <1>1, <1>o
      <4> QED BY <4>1, <4>2
    <3>2. o <= ticks.completed
      BY <2>1, <1>2, <1>o
    <3>3. PacksOrdered' /\ PacksCover'
      BY <3>1, <1>1 DEF TicksInv, PacksOrdered, PacksCover, AllComplete
    <3>4. \A u \in uses : ticks.completed < u.tick
      BY DEF TicksInv, UsesPending
    <3> QED BY <3>1, <3>2, <3>3, <3>4, <1>2, DeviceKnown DEF TicksReached, new
  <2>2. CASE o > passed /\ ~ (o <= ticks.completed)
    <3>1. o \in Nat /\ ticks.completed < o /\ o < ticks.current
      BY <2>2, <1>2, <1>o DEF new
    <3>2. TicksReached /\ ticks'.completed = o
      BY <3>1, <2>2, <1>1, <1>o, WaitedTickReaches
    <3> QED BY <3>1, <3>2
  <2> QED BY <2>1, <2>2
<1>7. commands' \in CommandStates
      /\ commands'.tick_ids = [commands.tick_ids EXCEPT ![s] = new]
  <2> DEFINE t == [commands.tick_ids EXCEPT ![s] = new]
  <2>1. commands' = [commands EXCEPT !.set = s, !.tick_ids = t]
    BY <1>1
  <2>2. t \in [Sets -> Nat \cup {INVALID}]
    BY <1>2, <1>3, <1>4 DEF new
  <2> HIDE DEF t
  <2>3. commands \in CommandStates
    BY DEF GfxTyped
  <2>4. commands' \in CommandStates /\ commands'.tick_ids = t
    BY <2>1, <2>2, <2>3, <1>3 DEF CommandStates
  <2> QED BY <2>4 DEF t
<1>8. ~ dma
  BY <1>1 DEF TicksInv, UsesPending, FramePhases
<1>9. GfxTyped'
  BY <1>1, <1>6, <1>7 DEF GfxTyped, TicksReached, Phases
<1>10. TimelinesInOrder'
  BY <1>1, <1>6 DEF TicksInv, TimelinesInOrder, TicksReached
<1>11. UsesPending'
  <2>1. \A q \in Queues : ~ Recording(q)
    BY <1>1, <1>8 DEF Recording
  <2> QED BY <2>1, <1>1, <1>6, <1>8 DEF TicksInv, UsesPending, TicksReached, GfxTyped
<1>12. PacksOrdered' /\ PacksCover'
  BY <1>6 DEF TicksReached
<1>13. TicksPacked'
  <2>1. ticks.completed <= ticks'.completed /\ ticks'.completed \in Nat
    BY <1>6 DEF TicksReached, TickStates
  <2> QED BY <2>1, <1>1, <1>2, <1>6 DEF TicksReached, TicksPacked
<1>14. JunkOrdered'
  BY <1>6 DEF TicksInv, JunkOrdered, TicksReached
<1>15. SetsServed'
  <2>1. LastServed' = new
    BY <1>1, <1>6 DEF LastServed, TicksReached, new
  <2>2. ASSUME NEW n \in Nat, n >= 1, new - MAX_PENDING_FRAMES < n, n <= new
        PROVE  commands'.tick_ids[n % MAX_PENDING_FRAMES] = n
    <3>1. CASE n = new
      BY <3>1, <1>3, <1>4, <1>7 DEF s
    <3>2. CASE n # new
      <4>0. new \in Nat /\ MAX_PENDING_FRAMES \in Nat \ {0}
        BY <1>2, GfxConstants DEF new
      <4>1. n < new /\ new - n < MAX_PENDING_FRAMES
            /\ new - 1 - MAX_PENDING_FRAMES < n /\ n <= new - 1
        BY <4>0, <3>2, <2>2
      <4>2. n % MAX_PENDING_FRAMES # s
        BY <4>0, <4>1, ModApart DEF s
      <4>3. n % MAX_PENDING_FRAMES \in Sets
        BY <4>0, ModRange DEF Sets
      <4> HIDE DEF s
      <4>4. commands.tick_ids[n % MAX_PENDING_FRAMES] = n
        BY <4>1, <2>2, <1>4
      <4> QED BY <4>2, <4>3, <4>4, <1>4, <1>7
    <3> QED BY <3>1, <3>2
  <2>3. ASSUME NEW t \in Sets PROVE commands'.tick_ids[t] <= new
    <3>1. CASE t = s
      BY <3>1, <1>2, <1>3, <1>4, <1>7 DEF new
    <3>2. CASE t # s
      <4>1. commands.tick_ids[t] <= new - 1 /\ (commands.tick_ids[t] \in Nat \/ commands.tick_ids[t] = -1)
        BY <1>4, <1>5
      <4>2. commands'.tick_ids[t] = commands.tick_ids[t]
        BY <3>2, <1>4, <1>7
      <4> QED BY <4>1, <4>2, <1>2 DEF new
    <3> QED BY <3>1, <3>2
  <2> QED BY <2>1, <2>2, <2>3 DEF SetsServed
<1>16. FramesLimited'
  <2>1. ticks'.completed \in Nat /\ ticks'.current = new /\ new \in Nat /\ MAX_PENDING_FRAMES \in Nat \ {0}
    BY <1>2, <1>6, GfxConstants DEF TicksReached, TickStates, new
  <2>2. CASE new <= MAX_PENDING_FRAMES
    BY <2>1, <2>2 DEF FramesLimited
  <2>3. CASE new > MAX_PENDING_FRAMES
    <3> DEFINE n == new - MAX_PENDING_FRAMES
    <3>1. n \in Nat /\ n >= 1 /\ new - 1 - MAX_PENDING_FRAMES < n /\ n <= new - 1 /\ n + MAX_PENDING_FRAMES = new
      BY <2>1, <2>3
    <3> HIDE DEF n
    <3>2. n % MAX_PENDING_FRAMES = s
      <4>1. (n + MAX_PENDING_FRAMES) % MAX_PENDING_FRAMES = n % MAX_PENDING_FRAMES
        BY <3>1, <2>1, ModNext
      <4> QED BY <4>1, <3>1 DEF s
    <3>3. o = n
      BY <3>1, <3>2, <1>4, <1>o
    <3> QED BY <3>1, <3>3, <2>1, <1>6 DEF FramesLimited
  <2> QED BY <2>1, <2>2, <2>3
<1>17. FramesSubmitted'
  BY <1>1, <1>6 DEF TicksInv, FramesSubmitted, TicksReached
<1> QED BY <1>9, <1>10, <1>11, <1>12, <1>13, <1>14, <1>15, <1>16, <1>17 DEF TicksInv
-----------------------------------------------------------------------------
(* Steps that record                                                       *)

\* What is recorded waits in the command buffers of this tick.
RecordingStep(copied, drawings) ==
  /\ uses' = uses \cup Recorded(copied, "dma") \cup Recorded(drawings, "main")
  /\ dma' \in BOOLEAN /\ (dma => dma') /\ (copied # {} => dma')
  /\ phase \in {"meshes", "record"} /\ phase' \in {"acquire", "submit"}
  /\ drawings # {} => phase' = "submit"
  /\ UNCHANGED <<finished, ticks, passed, plan, swapchain>>
  /\ ring' \in RingStates /\ ring'.timelines = ring.timelines
  /\ graph' \in GraphStates
  /\ commands' \in CommandStates /\ commands'.tick_ids = commands.tick_ids
  /\ DeviceQuiet

LEMMA RecordingKeeps ==
  ASSUME GfxTyped, TicksInv, NEW copied, NEW drawings, RecordingStep(copied, drawings)
  PROVE  GfxTyped' /\ TicksInv'
<1> USE DEF RecordingStep, DeviceQuiet
<1>1. /\ ticks.current \in Nat /\ ticks.completed \in Nat /\ ticks.completed < ticks.current
      /\ \A q \in Queues : device.submitted[q] \in Nat /\ finished[q] \in Nat /\ finished[q] <= device.submitted[q]
  BY DeviceKnown DEF GfxTyped, TickStates, TicksInv, TicksPacked, TimelinesInOrder
<1>2. ASSUME NEW u \in uses'
      PROVE  \/ u \in uses
             \/ /\ u.queue \in Queues /\ u.at = device.submitted[u.queue] + 1 /\ u.tick = ticks.current
                /\ (u.queue = "dma" /\ dma') \/ (u.queue = "main" /\ phase' = "submit")
  <2>1. CASE u \in uses
    BY <2>1
  <2>2. CASE u \in Recorded(copied, "dma")
    <3>1. PICK r \in copied : u = [res |-> r, queue |-> "dma", at |-> device.submitted["dma"] + 1, tick |-> ticks.current]
      BY <2>2 DEF Recorded
    <3> QED BY <3>1, GfxConstants
  <2>3. CASE u \in Recorded(drawings, "main")
    <3>1. PICK r \in drawings : u = [res |-> r, queue |-> "main", at |-> device.submitted["main"] + 1, tick |-> ticks.current]
      BY <2>3 DEF Recorded
    <3> QED BY <3>1, GfxConstants
  <2> QED BY <2>1, <2>2, <2>3
<1>3. ASSUME NEW u \in uses' PROVE u.queue \in Queues /\ u.at \in Nat /\ u.tick \in Nat
  BY <1>1, <1>2 DEF GfxTyped
<1>4. GfxTyped'
  BY <1>3 DEF GfxTyped, Phases, FramePhases
<1>5. TimelinesInOrder'
  BY DEF TicksInv, TimelinesInOrder
<1>6. UsesPending'
  <2>1. \A q \in Queues : Recording(q) => Recording(q)'
    BY DEF Recording
  <2>2. ASSUME NEW u \in uses'
        PROVE  /\ finished[u.queue] < u.at
               /\ ticks.completed < u.tick /\ u.tick <= ticks.current
               /\ \/ u.at <= device.submitted[u.queue]
                  \/ u.at = device.submitted[u.queue] + 1 /\ u.tick = ticks.current /\ Recording(u.queue)'
    <3>1. CASE u \in uses
      BY <3>1, <2>1 DEF TicksInv, UsesPending, GfxTyped
    <3>2. CASE u \notin uses
      BY <3>2, <1>1, <1>2 DEF Recording
    <3> QED BY <3>1, <3>2
  <2>3. phase' \in FramePhases
    BY DEF FramePhases
  <2> QED BY <2>2, <2>3 DEF UsesPending
<1>7. PacksOrdered'
  BY DEF TicksInv, PacksOrdered
<1>8. PacksCover'
  <2> SUFFICES ASSUME NEW i \in DOMAIN ticks.packs, NEW u \in uses', u.tick <= ticks.packs[i].tick
               PROVE  u.at <= ticks.packs[i].timelines[u.queue]
    BY DEF TicksInv, PacksCover, AllComplete
  <2>1. ticks.packs[i].tick < ticks.current /\ ticks.packs[i].tick \in Nat
    BY PacksTyped DEF TicksInv, PacksCover
  <2>2. u.tick # ticks.current
    BY <1>1, <2>1
  <2>3. u \in uses
    BY <1>2, <2>2
  <2> QED BY <2>3 DEF TicksInv, PacksCover
<1>9. TicksPacked'
  BY DEF TicksInv, TicksPacked
<1>10. JunkOrdered'
  BY DEF TicksInv, JunkOrdered
<1>11. SetsServed'
  BY DEF TicksInv, SetsServed, LastServed
<1>12. FramesLimited'
  BY DEF TicksInv, FramesLimited
<1>13. FramesSubmitted'
  BY DEF TicksInv, FramesSubmitted
<1> QED BY <1>4, <1>5, <1>6, <1>7, <1>8, <1>9, <1>10, <1>11, <1>12, <1>13 DEF TicksInv

\* The command buffer for copies.
LEMMA CommandsForDmaTyped ==
  ASSUME GfxTyped
  PROVE  /\ CommandsForDma(commands) \in CommandStates
         /\ CommandsForDma(commands).tick_ids = commands.tick_ids
<1> DEFINE c == commands
           q == "dma"
           i == [c.index EXCEPT ![q] = @ + 1]
           j == [c.index EXCEPT ![q] = c.buffers[c.set][q] + 1]
           b == [c.buffers EXCEPT ![c.set][q] = @ + 1]
<1>1. /\ c \in CommandStates /\ q \in Queues
      /\ c.set \in Sets /\ c.index \in [Queues -> Nat] /\ c.buffers \in [Sets -> [Queues -> Nat]]
  BY GfxConstants DEF GfxTyped, CommandStates
<1>2. c.buffers[c.set] \in [Queues -> Nat] /\ c.buffers[c.set][q] \in Nat /\ c.index[q] \in Nat
  BY <1>1
<1>3. i \in [Queues -> Nat] /\ j \in [Queues -> Nat] /\ b \in [Sets -> [Queues -> Nat]]
  BY <1>1, <1>2
<1>4. Allocated(c, q) = [c EXCEPT !.index = i] \/ Allocated(c, q) = [c EXCEPT !.buffers = b, !.index = j]
  BY DEF Allocated
<1>5. CommandsForDma(c) = c \/ CommandsForDma(c) = Allocated(c, q)
  BY DEF CommandsForDma
<1> HIDE DEF i, j, b, c, q
<1>6. [c EXCEPT !.index = i] \in CommandStates /\ [c EXCEPT !.index = i].tick_ids = c.tick_ids
  BY <1>1, <1>3 DEF CommandStates
<1>7. [c EXCEPT !.buffers = b, !.index = j] \in CommandStates
      /\ [c EXCEPT !.buffers = b, !.index = j].tick_ids = c.tick_ids
  BY <1>1, <1>3 DEF CommandStates
<1>8. CommandsForDma(c) \in CommandStates /\ CommandsForDma(c).tick_ids = c.tick_ids
  BY <1>1, <1>4, <1>5, <1>6, <1>7
<1> QED BY <1>8 DEF c

LEMMA CopiesRecorded ==
  ASSUME GfxTyped, NEW w, RecordCopies(w)
  PROVE  /\ commands' \in CommandStates /\ commands'.tick_ids = commands.tick_ids
         /\ dma' \in BOOLEAN /\ (dma => dma') /\ (w.copied # {} => dma')
<1>1. dma' = (dma \/ w.copied # {})
      /\ commands' = IF w.copied # {} THEN CommandsForDma(commands) ELSE commands
  BY DEF RecordCopies
<1>2. commands \in CommandStates
  BY DEF GfxTyped
<1>3. commands' \in CommandStates /\ commands'.tick_ids = commands.tick_ids
  BY <1>1, <1>2, CommandsForDmaTyped
<1> QED BY <1>1, <1>3

LEMMA BeginMeshesKeeps ==
  ASSUME GfxTyped, TicksInv, BeginMeshes
  PROVE  GfxTyped' /\ TicksInv'
<1> DEFINE w == Begun(passed, ticks.current)
<1>1. /\ phase = "meshes" /\ phase' = "acquire"
      /\ RecordCopies(w)
      /\ uses' = uses \cup Recorded(w.copied, "dma")
      /\ UNCHANGED <<finished, device, ticks, ring, swapchain, graph, passed, plan>>
  BY DEF BeginMeshes, Goto, frameVars
<1> HIDE DEF w
<1>2. Recorded({}, "main") = {}
  BY DEF Recorded
<1>3. DeviceQuiet
  BY <1>1, DeviceKnown DEF DeviceQuiet
<1>4. RecordingStep(w.copied, {})
  BY <1>1, <1>2, <1>3, CopiesRecorded DEF RecordingStep, GfxTyped
<1> QED BY <1>4, RecordingKeeps

\* What a frame makes of the graph and its resources.
LEMMA RebuiltTyped ==
  ASSUME NEW g \in GraphStates, NEW s \in SwapchainStates
  PROVE  Rebuilt(g, s) \in GraphStates
<1> DEFINE m == g.made + 1
           e == s.extent
<1>1. Rebuilt(g, s) = [g EXCEPT !.made = m, !.extent = e, !.dynamic = 0, !.grown = 0]
  BY DEF Rebuilt
<1>2. m \in Nat /\ e \in Nat
  BY DEF GraphStates, SwapchainStates
<1> HIDE DEF m, e
<1>3. Rebuilt(g, s) = [made |-> m, extent |-> e, dynamic |-> 0, grown |-> 0]
  BY <1>1 DEF GraphStates
<1> QED BY <1>2, <1>3 DEF GraphStates

LEMMA SizedTyped ==
  ASSUME NEW g \in GraphStates, NEW size \in Nat
  PROVE  Sized(g, size) \in GraphStates
<1>1. Sized(g, size) = g
      \/ Sized(g, size) = [made |-> g.made, extent |-> g.extent, dynamic |-> size, grown |-> g.grown + 1]
  BY DEF Sized, GraphStates
<1>2. g.made \in Nat /\ g.extent \in Nat /\ g.grown + 1 \in Nat
  BY DEF GraphStates
<1> QED BY <1>1, <1>2 DEF GraphStates

LEMMA GraphJunk ==
  ASSUME NEW g \in GraphStates
  PROVE  GraphRes(g) \in JunkItems /\ DynamicRes(g) \in JunkItems
<1> DEFINE a == [made |-> g.made]
           b == [made |-> g.made, grown |-> g.grown]
<1>1. /\ a \in [made : Nat] /\ GraphRes(a) = GraphRes(g)
      /\ b \in [made : Nat, grown : Nat] /\ DynamicRes(b) = DynamicRes(g)
  BY DEF GraphStates, GraphRes, DynamicRes
<1>2. /\ GraphRes(g) \in {GraphRes(x) : x \in [made : Nat]}
      /\ DynamicRes(g) \in {DynamicRes(x) : x \in [made : Nat, grown : Nat]}
  BY <1>1
<1> QED BY <1>2 DEF JunkItems

\* What a frame records, and what it rebuilds.
RecordsWith(w, t, g, sizes, size, rebuild) ==
  /\ sizes \in plan.constants /\ size \in plan.dynamic /\ rebuild \in BOOLEAN
  /\ g = IF rebuild THEN Rebuilt(graph, swapchain) ELSE graph
  /\ RecordCopies(w)
  /\ ring' = [ring EXCEPT !.buffers[ring.current] = UploadAll(sizes).buffers,
                          !.made = UploadAll(sizes).made]
  /\ graph' = Sized(g, size)
  /\ device' = Enqueued(device,
                 (IF rebuild THEN <<GraphRes(graph), DynamicRes(graph)>> ELSE <<>>)
                 \o (IF TooSmall(g, size) THEN <<DynamicRes(g)>> ELSE <<>>))
  /\ uses' = uses \cup Recorded(w.copied, "dma")
               \cup PassUses(graph', w.drawn \cup {t.res} \cup UploadAll(sizes).res)

DrawsWith(w, t, scratch) ==
  /\ scratch \in plan.scratch
  /\ \E K \in plan.draws, versions \in Newer, n \in [Keys -> plan.counts] : w = DrawList(K, versions, n)
  /\ t = Taken(w.transient, scratch, 1, ticks.current)
  /\ SetMeshes(w) /\ transient' = t.state

LEMMA RecordMakes ==
  ASSUME Record
  PROVE  \E w, t, g, sizes, size, rebuild, scratch :
           RecordsWith(w, t, g, sizes, size, rebuild) /\ DrawsWith(w, t, scratch)
<1>1. PICK K \in plan.draws, versions \in Newer, n \in [Keys -> plan.counts],
           sizes \in plan.constants, scratch \in plan.scratch, dynamic \in plan.dynamic :
        LET w == DrawList(K, versions, n)
            constants == UploadAll(sizes)
            t == Taken(w.transient, scratch, 1, ticks.current)
            rebuild == Outdated(graph, swapchain)
            g == IF rebuild THEN Rebuilt(graph, swapchain) ELSE graph
            junk == (IF rebuild THEN <<GraphRes(graph), DynamicRes(graph)>> ELSE <<>>)
                    \o (IF TooSmall(g, dynamic) THEN <<DynamicRes(g)>> ELSE <<>>)
        IN  /\ latest' = versions
            /\ SetMeshes(w)
            /\ RecordCopies(w)
            /\ transient' = t.state
            /\ ring' = [ring EXCEPT !.buffers[ring.current] = constants.buffers, !.made = constants.made]
            /\ graph' = Sized(g, dynamic)
            /\ device' = Enqueued(device, junk)
            /\ uses' = uses \cup Recorded(w.copied, "dma")
                          \cup PassUses(graph', w.drawn \cup {t.res} \cup constants.res)
  BY Zenon DEF Record
<1> DEFINE w == DrawList(K, versions, n)
           t == Taken(w.transient, scratch, 1, ticks.current)
           rebuild == graph.extent # swapchain.extent
           g == IF rebuild THEN Rebuilt(graph, swapchain) ELSE graph
<1>2. rebuild \in BOOLEAN
  OBVIOUS
<1>3. rebuild = Outdated(graph, swapchain)
  BY DEF Outdated
<1> HIDE DEF rebuild, w, t
<1>4. RecordsWith(w, t, g, sizes, dynamic, rebuild)
  BY <1>1, <1>2, <1>3, Zenon DEF RecordsWith, w, t
<1>5. DrawsWith(w, t, scratch)
  BY <1>1, Zenon DEF DrawsWith, w, t
<1> HIDE DEF g
<1> QED BY <1>4, <1>5, Zenon

LEMMA RecordKeeps ==
  ASSUME GfxTyped, TicksInv, Record
  PROVE  GfxTyped' /\ TicksInv'
<1>1. /\ phase = "record" /\ phase' = "submit"
      /\ UNCHANGED <<finished, ticks, swapchain, passed, plan>>
  BY DEF Record, Goto
<1>p. PICK w, t, g, sizes, size, rebuild : RecordsWith(w, t, g, sizes, size, rebuild)
  BY RecordMakes
<1>2. /\ sizes \in plan.constants /\ size \in plan.dynamic /\ rebuild \in BOOLEAN
      /\ g = IF rebuild THEN Rebuilt(graph, swapchain) ELSE graph
      /\ RecordCopies(w)
      /\ ring' = [ring EXCEPT !.buffers[ring.current] = UploadAll(sizes).buffers,
                              !.made = UploadAll(sizes).made]
      /\ graph' = Sized(g, size)
      /\ device' = Enqueued(device,
                     (IF rebuild THEN <<GraphRes(graph), DynamicRes(graph)>> ELSE <<>>)
                     \o (IF TooSmall(g, size) THEN <<DynamicRes(g)>> ELSE <<>>))
      /\ uses' = uses \cup Recorded(w.copied, "dma")
                   \cup PassUses(graph', w.drawn \cup {t.res} \cup UploadAll(sizes).res)
  BY <1>p DEF RecordsWith
<1>3. /\ plan \in Plans /\ sizes \in Seq(Nat) /\ size \in Nat
      /\ graph \in GraphStates /\ swapchain \in SwapchainStates /\ ring \in RingStates
  <2>1. plan \in Plans /\ graph \in GraphStates /\ swapchain \in SwapchainStates /\ ring \in RingStates
    BY DEF GfxTyped
  <2>2. plan.constants \subseteq Seq(Nat) /\ plan.dynamic \subseteq Nat
    BY <2>1, GfxConstants
  <2> QED BY <2>1, <2>2, <1>2
<1>4. g \in GraphStates
  BY <1>2, <1>3, RebuiltTyped
<1>5. graph' \in GraphStates
  BY <1>2, <1>3, <1>4, SizedTyped
<1>6. DeviceQuiet
  <2> DEFINE a == IF rebuild THEN <<GraphRes(graph), DynamicRes(graph)>> ELSE <<>>
             b == IF TooSmall(g, size) THEN <<DynamicRes(g)>> ELSE <<>>
  <2>1. a \in Seq(JunkItems) /\ b \in Seq(JunkItems)
    BY <1>3, <1>4, GraphJunk
  <2>2. device' = Enqueued(device, a \o b)
    BY <1>2
  <2> HIDE DEF a, b
  <2>3. a \o b \in Seq(JunkItems)
    BY <2>1
  <2> QED BY <2>2, <2>3, EnqueuedQuiet
<1>7. ring' \in RingStates /\ ring'.timelines = ring.timelines
  <2> DEFINE x == UploadAll(sizes)
             b == [ring.buffers EXCEPT ![ring.current] = x.buffers]
             m == x.made
  <2>1. [buffers |-> ring.buffers[ring.current], made |-> ring.made, res |-> {}] \in ConstUploads
    BY <1>3 DEF ConstUploads, RingStates
  <2>2. x \in ConstUploads
    BY <2>1, <1>3, UploadAllTyped, GfxConstants
  <2>3. x.buffers \in Seq(ConstBuffers) /\ m \in Nat
    BY <2>2 DEF ConstUploads
  <2>4. ring' = [ring EXCEPT !.buffers = b, !.made = m]
    BY <1>2
  <2> HIDE DEF x, m
  <2>5. b \in [Frames -> Seq(ConstBuffers)]
    BY <2>3, <1>3 DEF RingStates
  <2> HIDE DEF b
  <2> QED BY <2>3, <2>4, <2>5, <1>3 DEF RingStates
<1>8. \E S : uses' = uses \cup Recorded(w.copied, "dma") \cup Recorded(S, "main")
  BY <1>2 DEF PassUses
<1>9. PICK S : uses' = uses \cup Recorded(w.copied, "dma") \cup Recorded(S, "main")
  BY <1>8
<1>10. RecordingStep(w.copied, S)
  BY <1>1, <1>2, <1>5, <1>6, <1>7, <1>9, CopiesRecorded DEF RecordingStep
<1> QED BY <1>10, RecordingKeeps
-----------------------------------------------------------------------------
(* Steps that submit                                                       *)

\* What was recorded for a queue is submitted, or is still being recorded.
SubmittingStep ==
  /\ device' \in DeviceStates
  /\ device'.observed = device.observed /\ device'.tick = device.tick
  /\ QueueOrdered(device')
  /\ \A q \in Queues : \/ device'.submitted[q] = device.submitted[q] + 1
                       \/ device'.submitted[q] = device.submitted[q] /\ (Recording(q) => Recording(q)')
  /\ UNCHANGED <<finished, ticks, uses, passed, plan, swapchain, graph>>
  /\ ring' \in RingStates
  /\ \A f \in Frames : ring'.timelines[f] \in {ring.timelines[f], device'.submitted["main"]}
  /\ commands' \in CommandStates /\ commands'.tick_ids = commands.tick_ids
  /\ dma' \in BOOLEAN /\ (dma' => phase' = "reset")
  /\ phase \in {"submit", "end"} /\ phase' \in {"reset", "idle"}

LEMMA SubmittingKeeps ==
  ASSUME GfxTyped, TicksInv, SubmittingStep
  PROVE  GfxTyped' /\ TicksInv'
<1> USE DEF SubmittingStep
<1>1. GfxTyped'
  BY DEF GfxTyped, Phases, FramePhases
<1>2. \A q \in Queues : /\ device.submitted[q] \in Nat /\ device'.submitted[q] \in Nat
                        /\ device.submitted[q] <= device'.submitted[q]
                        /\ finished[q] \in Nat /\ finished[q] <= device.submitted[q]
                        /\ device.observed[q] <= finished[q]
  BY DeviceKnown DEF TicksInv, TimelinesInOrder
<1>3. TimelinesInOrder'
  BY <1>2 DEF TimelinesInOrder
<1>4. UsesPending'
  <2>1. ASSUME NEW u \in uses
        PROVE  /\ finished[u.queue] < u.at
               /\ ticks.completed < u.tick /\ u.tick <= ticks.current
               /\ \/ u.at <= device'.submitted[u.queue]
                  \/ u.at = device'.submitted[u.queue] + 1 /\ u.tick = ticks.current /\ Recording(u.queue)'
    <3>1. u.queue \in Queues /\ u.at \in Nat
      BY DEF GfxTyped
    <3>2. /\ finished[u.queue] < u.at
          /\ ticks.completed < u.tick /\ u.tick <= ticks.current
          /\ \/ u.at <= device.submitted[u.queue]
             \/ u.at = device.submitted[u.queue] + 1 /\ u.tick = ticks.current /\ Recording(u.queue)
      BY DEF TicksInv, UsesPending
    <3>3. CASE u.at <= device.submitted[u.queue]
      BY <3>1, <3>2, <3>3, <1>2
    <3>4. CASE u.at = device.submitted[u.queue] + 1 /\ u.tick = ticks.current /\ Recording(u.queue)
      BY <3>1, <3>2, <3>4, <1>2
    <3> QED BY <3>2, <3>3, <3>4
  <2> QED BY <2>1 DEF UsesPending, FramePhases
<1>5. PacksOrdered'
  BY DEF TicksInv, PacksOrdered
<1>6. PacksCover'
  <2>1. ASSUME NEW i \in DOMAIN ticks.packs, NEW q \in Queues
        PROVE  ticks.packs[i].timelines[q] <= device'.submitted[q]
    <3>1. ticks.packs[i].timelines[q] <= device.submitted[q] /\ ticks.packs[i].timelines[q] \in Nat
      BY PacksTyped DEF TicksInv, PacksCover, Timelines
    <3> QED BY <3>1, <1>2
  <2> QED BY <2>1 DEF TicksInv, PacksCover, AllComplete
<1>7. TicksPacked'
  BY DEF TicksInv, TicksPacked
<1>8. JunkOrdered'
  BY DEF TicksInv, JunkOrdered
<1>9. SetsServed'
  BY DEF TicksInv, SetsServed, LastServed
<1>10. FramesLimited'
  BY DEF TicksInv, FramesLimited
<1>11. FramesSubmitted'
  <2>1. /\ "main" \in Queues
        /\ \A f \in Frames : ring.timelines[f] \in Nat /\ swapchain.previous[f] \in Nat
    BY GfxConstants DEF GfxTyped, RingStates, SwapchainStates
  <2>2. \A f \in Frames : ring.timelines[f] <= device'.submitted["main"]
                              /\ swapchain.previous[f] <= device'.submitted["main"]
    BY <2>1, <1>2 DEF TicksInv, FramesSubmitted
  <2> QED BY <2>1, <2>2, <1>2 DEF FramesSubmitted
<1> QED BY <1>1, <1>3, <1>4, <1>5, <1>6, <1>7, <1>8, <1>9, <1>10, <1>11 DEF TicksInv

LEMMA SubmittedGrows ==
  ASSUME NEW d \in DeviceStates, NEW q \in Queues
  PROVE  /\ Submitted(d, q) \in DeviceStates
         /\ Submitted(d, q).submitted = [d.submitted EXCEPT ![q] = @ + 1]
         /\ Submitted(d, q).observed = d.observed /\ Submitted(d, q).tick = d.tick
         /\ Submitted(d, q).destroy_queue = d.destroy_queue
<1> DEFINE s == [d.submitted EXCEPT ![q] = @ + 1]
<1>1. Submitted(d, q) = [d EXCEPT !.submitted = s]
  BY DEF Submitted
<1>2. s \in Timelines
  BY DEF DeviceStates, Timelines
<1> HIDE DEF s
<1> DEFINE e == [submitted |-> s, observed |-> d.observed, destroy_queue |-> d.destroy_queue, tick |-> d.tick]
<1>3. Submitted(d, q) = e
  BY <1>1 DEF DeviceStates
<1>4. e \in DeviceStates
  BY <1>2 DEF DeviceStates
<1> QED BY <1>3, <1>4 DEF s

LEMMA SubmitKeeps ==
  ASSUME GfxTyped, TicksInv, Submit
  PROVE  GfxTyped' /\ TicksInv'
<1> DEFINE value == device'.submitted["main"]
           t == [ring.timelines EXCEPT ![ring.current] = value]
           c == (ring.current + 1) % MAX_PENDING_FRAMES
<1>1. /\ phase = "submit" /\ phase' = "reset"
      /\ device' = Submitted(device, "main")
      /\ ring' = Advanced(ring, value)
      /\ UNCHANGED <<finished, ticks, uses, commands, dma, swapchain, graph, passed, plan>>
  BY DEF Submit, Goto, recordVars
<1>2. /\ device' \in DeviceStates
      /\ device'.submitted = [device.submitted EXCEPT !["main"] = @ + 1]
      /\ device'.observed = device.observed /\ device'.tick = device.tick
      /\ device'.destroy_queue = device.destroy_queue
  BY <1>1, SubmittedGrows, GfxConstants, DeviceKnown
<1>3. QueueOrdered(device')
  BY <1>2, DeviceKnown DEF QueueOrdered
<1>4. ASSUME NEW q \in Queues
      PROVE  \/ device'.submitted[q] = device.submitted[q] + 1
             \/ device'.submitted[q] = device.submitted[q] /\ (Recording(q) => Recording(q)')
  <2>1. CASE q = "main"
    BY <2>1, <1>2, DeviceKnown DEF Timelines
  <2>2. CASE q # "main"
    BY <2>2, <1>1, <1>2, DeviceKnown DEF Timelines, Recording
  <2> QED BY <2>1, <2>2
<1>5. value \in Nat
  BY <1>2, GfxConstants DEF DeviceStates, Timelines
<1>6. ring \in RingStates /\ ring.current \in Frames /\ ring.timelines \in [Frames -> Nat]
  BY DEF GfxTyped, RingStates
<1>7. c \in Frames
  <2>1. ring.current + 1 \in Nat
    BY <1>6, GfxConstants DEF Frames
  <2> QED BY <2>1, GfxConstants, ModRange DEF Frames
<1>8. ring' = [ring EXCEPT !.timelines = t, !.current = c]
  BY <1>1 DEF Advanced
<1> HIDE DEF c, value
<1>9. t \in [Frames -> Nat] /\ \A f \in Frames : t[f] \in {ring.timelines[f], value}
  BY <1>5, <1>6
<1> HIDE DEF t
<1>10. ring' \in RingStates /\ ring'.timelines = t
  BY <1>6, <1>7, <1>8, <1>9 DEF RingStates
<1>11. SubmittingStep
  BY <1>1, <1>2, <1>3, <1>4, <1>9, <1>10 DEF SubmittingStep, GfxTyped, value
<1> QED BY <1>11, SubmittingKeeps

\* Command pools with too many buffers.
ExcessPools == SetToSeq({Pool(commands, commands.set, q) : q \in Excessive(commands)})

LEMMA ExcessJunk ==
  ASSUME GfxTyped
  PROVE  /\ ExcessPools \in Seq(JunkItems)
         /\ \A i \in DOMAIN ExcessPools : ExcessPools[i][1] = "commands"
         /\ \A i \in DOMAIN ExcessPools : \E q \in Excessive(commands) : ExcessPools[i] = Pool(commands, commands.set, q)
<1> DEFINE Q == Excessive(commands)
           S == {Pool(commands, commands.set, q) : q \in Q}
           f == [q \in Q |-> Pool(commands, commands.set, q)]
<1>1. Q \in SUBSET Queues
  BY DEF Excessive
<1> HIDE DEF Q
<1>2. IsFiniteSet(Q)
  BY <1>1, GfxConstants, FS_Subset
<1>3. f \in Surjection(Q, S)
  BY DEF Surjection
<1>4. IsFiniteSet(S)
  <2> HIDE DEF f, S
  <2> QED BY <1>2, <1>3, FS_Surjection
<1>5. commands.set \in Sets /\ commands.pools \in [Sets -> [Queues -> Nat]]
  BY DEF GfxTyped, CommandStates
<1>6. ASSUME NEW r \in S PROVE r \in JunkItems /\ r[1] = "commands"
  <2>1. PICK q \in Queues : r = Pool(commands, commands.set, q)
    BY <1>1
  <2> DEFINE c == [pools |-> commands.pools]
             s == commands.set
  <2>2. c \in [pools : [Sets -> [Queues -> Nat]]] /\ r = Pool(c, s, q) /\ s \in Sets
    BY <2>1, <1>5 DEF Pool
  <2>3. r[1] = "commands"
    BY <2>1 DEF Pool
  <2> HIDE DEF c, s
  <2>4. r \in {Pool(x, y, z) : x \in [pools : [Sets -> [Queues -> Nat]]], y \in Sets, z \in Queues}
    BY <2>2
  <2> QED BY <2>3, <2>4 DEF JunkItems
<1>7. ExcessPools = SetToSeq(S)
  BY DEF ExcessPools, Q
<1> HIDE DEF S
<1>8. ExcessPools \in Seq(S)
  BY <1>4, <1>7, SetToSeqPlaces
<1> DEFINE e == ExcessPools
<1>e. e \in Seq(S)
  BY <1>8
<1> HIDE DEF e
<1>9. Len(e) \in Nat /\ DOMAIN e = 1 .. Len(e) /\ \A i \in 1 .. Len(e) : e[i] \in S
  BY <1>e
<1>10. e \in [1 .. Len(e) -> JunkItems]
  BY <1>e, <1>6, <1>9
<1>11. e \in Seq(JunkItems)
  BY <1>9, <1>10
<1>12. \A i \in DOMAIN e : e[i][1] = "commands"
  BY <1>6, <1>9
<1>13. \A i \in DOMAIN e : \E q \in Q : e[i] = Pool(commands, commands.set, q)
  BY <1>9 DEF S
<1> QED BY <1>11, <1>12, <1>13 DEF e, Q

LEMMA ShrunkTyped ==
  ASSUME NEW c \in CommandStates
  PROVE  Shrunk(c) \in CommandStates /\ Shrunk(c).tick_ids = c.tick_ids
<1> DEFINE E == Excessive(c)
           p == [c.pools EXCEPT ![c.set] = [q \in Queues |-> IF q \in E THEN c.pools[c.set][q] + 1 ELSE c.pools[c.set][q]]]
           b == [c.buffers EXCEPT ![c.set] = [q \in Queues |-> IF q \in E THEN 0 ELSE c.buffers[c.set][q]]]
           i == [q \in Queues |-> 0]
<1>1. /\ c.set \in Sets
      /\ c.pools \in [Sets -> [Queues -> Nat]] /\ c.buffers \in [Sets -> [Queues -> Nat]]
  BY DEF CommandStates
<1>2. Shrunk(c) = [c EXCEPT !.pools = p, !.buffers = b, !.index = i]
  BY DEF Shrunk
<1> HIDE DEF E
<1>3. c.pools[c.set] \in [Queues -> Nat] /\ c.buffers[c.set] \in [Queues -> Nat]
  BY <1>1
<1>4. p \in [Sets -> [Queues -> Nat]] /\ b \in [Sets -> [Queues -> Nat]] /\ i \in [Queues -> Nat]
  BY <1>1, <1>3
<1> HIDE DEF p, b, i
<1> QED BY <1>2, <1>4 DEF CommandStates

LEMMA EndTickKeeps ==
  ASSUME GfxTyped, TicksInv, EndTick
  PROVE  GfxTyped' /\ TicksInv'
<1> DEFINE d == Flushed(device)
<1>1. /\ phase = "end" /\ phase' = "idle"
      /\ device' = Enqueued(d, ExcessPools)
      /\ dma' = FALSE
      /\ commands' = Shrunk(commands)
      /\ UNCHANGED <<finished, ticks, uses, ring, swapchain, graph, passed, plan>>
  BY DEF EndTick, ExcessPools, Goto, frameVars
<1>2. /\ d \in DeviceStates /\ d.observed = device.observed /\ d.tick = device.tick
      /\ d.destroy_queue = device.destroy_queue
      /\ d.submitted = IF dma THEN [device.submitted EXCEPT !["dma"] = @ + 1] ELSE device.submitted
  BY DeviceKnown, GfxConstants, SubmittedGrows DEF Flushed
<1> HIDE DEF d
<1>3. QueueOrdered(d)
  BY <1>2, DeviceKnown DEF QueueOrdered
<1>4. /\ device' \in DeviceStates /\ device'.submitted = d.submitted
      /\ device'.observed = d.observed /\ device'.tick = d.tick
      /\ QueueOrdered(device')
  BY <1>1, <1>2, <1>3, ExcessJunk, EnqueuedItems
<1>5. commands' \in CommandStates /\ commands'.tick_ids = commands.tick_ids
  BY <1>1, ShrunkTyped DEF GfxTyped
<1>6. ASSUME NEW q \in Queues
      PROVE  \/ device'.submitted[q] = device.submitted[q] + 1
             \/ device'.submitted[q] = device.submitted[q] /\ (Recording(q) => Recording(q)')
  <2>1. CASE q = "dma" /\ dma
    BY <2>1, <1>2, <1>4, DeviceKnown DEF Timelines
  <2>2. CASE ~ (q = "dma" /\ dma)
    <3>1. ~ Recording(q)
      BY <2>2, <1>1 DEF Recording
    <3> QED BY <3>1, <2>2, <1>2, <1>4, DeviceKnown DEF Timelines
  <2> QED BY <2>1, <2>2
<1>7. SubmittingStep
  BY <1>1, <1>2, <1>4, <1>5, <1>6 DEF SubmittingStep, GfxTyped, RingStates
<1> QED BY <1>7, SubmittingKeeps
-----------------------------------------------------------------------------
(* The GPU                                                                 *)

LEMMA GpuKeeps ==
  ASSUME GfxTyped, TicksInv, NEW q \in Queues, Gpu(q)
  PROVE  GfxTyped' /\ TicksInv'
<1>1. /\ finished[q] < device.submitted[q]
      /\ finished' = [finished EXCEPT ![q] = @ + 1]
      /\ uses' = {u \in uses : u.queue # q \/ u.at > finished[q] + 1}
      /\ UNCHANGED <<device, ticks, commands, dma, ring, swapchain, graph, phase, passed, plan>>
  BY DEF Gpu, GpuFinish, recordVars, frameVars
<1>2. /\ finished' \in Timelines
      /\ \A p \in Queues : finished[p] <= finished'[p] /\ finished'[p] <= device.submitted[p]
      /\ \A p \in Queues : p # q => finished'[p] = finished[p]
      /\ finished'[q] = finished[q] + 1
  <2>1. \A p \in Queues : finished[p] \in Nat /\ device.submitted[p] \in Nat /\ finished[p] <= device.submitted[p]
    BY DeviceKnown DEF TicksInv, TimelinesInOrder
  <2>2. finished' \in Timelines /\ \A p \in Queues : finished'[p] = IF p = q THEN finished[q] + 1 ELSE finished[p]
    BY <1>1, DeviceKnown DEF Timelines
  <2> QED BY <2>1, <2>2, <1>1
<1>3. GfxTyped'
  BY <1>1, <1>2 DEF GfxTyped
<1>4. TimelinesInOrder'
  <2>1. \A p \in Queues : device.observed[p] \in Nat /\ device.observed[p] <= finished[p] /\ finished[p] \in Nat /\ finished'[p] \in Nat
    BY <1>2, DeviceKnown DEF Timelines
  <2> QED BY <2>1, <1>1, <1>2 DEF TimelinesInOrder
<1>5. UsesPending'
  <2>1. ASSUME NEW u \in uses' PROVE u \in uses /\ finished'[u.queue] < u.at
    <3>1. u \in uses /\ (u.queue # q \/ u.at > finished[q] + 1) /\ u.queue \in Queues
      BY <1>1 DEF GfxTyped
    <3>2. finished[u.queue] < u.at /\ u.at \in Nat
      BY <3>1 DEF TicksInv, UsesPending, GfxTyped
    <3> QED BY <3>1, <3>2, <1>2, DeviceKnown
  <2>2. \A p \in Queues : Recording(p)' = Recording(p)
    BY <1>1 DEF Recording
  <2>3. ASSUME NEW u \in uses'
        PROVE  /\ ticks.completed < u.tick /\ u.tick <= ticks.current
               /\ \/ u.at <= device.submitted[u.queue]
                  \/ u.at = device.submitted[u.queue] + 1 /\ u.tick = ticks.current /\ Recording(u.queue)'
    BY <2>1, <2>2 DEF TicksInv, UsesPending, GfxTyped
  <2>4. dma => phase \in FramePhases \cup {"dead"}
    BY DEF TicksInv, UsesPending
  <2> QED BY <2>1, <2>3, <2>4, <1>1 DEF UsesPending
<1>6. PacksOrdered'
  BY <1>1 DEF TicksInv, PacksOrdered
<1>7. PacksCover'
  <2>1. ASSUME NEW i \in DOMAIN ticks.packs, AllComplete(ticks.packs[i])
        PROVE  \A p \in Queues : ticks.packs[i].timelines[p] <= finished'[p]
    <3> TAKE p \in Queues
    <3>1. ticks.packs[i].timelines[p] \in Nat
      BY PacksTyped DEF Timelines
    <3>2. ticks.packs[i].timelines[p] <= finished[p] /\ finished[p] \in Nat /\ finished'[p] \in Nat
      BY <2>1, <1>2, DeviceKnown DEF AllComplete, Timelines
    <3> QED BY <3>1, <3>2, <1>2
  <2>2. \A u \in uses' : u \in uses
    BY <1>1
  <2> QED BY <2>1, <2>2, <1>1 DEF TicksInv, PacksCover, AllComplete
<1>8. TicksPacked' /\ JunkOrdered' /\ SetsServed' /\ FramesLimited'
  BY <1>1 DEF TicksInv, TicksPacked, JunkOrdered, SetsServed, LastServed, FramesLimited, QueueOrdered
<1>9. FramesSubmitted'
  BY <1>1 DEF TicksInv, FramesSubmitted
<1> QED BY <1>3, <1>4, <1>5, <1>6, <1>7, <1>8, <1>9 DEF TicksInv
-----------------------------------------------------------------------------
(* Surfaces and swapchains                                                 *)

\* Without a swapchain nothing is drawn any more.
SurfaceKept == SurfaceOutlives /\ (swapchain.bad => phase = "dead")

\* What waits to be destroyed waited before or is no swapchain.
JunkFrom ==
  \A i \in DOMAIN device'.destroy_queue :
    \/ \E j \in DOMAIN device.destroy_queue : device'.destroy_queue[i].res = device.destroy_queue[j].res
    \/ device'.destroy_queue[i].res[1] # "swapchain"

SameChain(s) == s.surface = swapchain.surface /\ s.chain = swapchain.chain /\ s.bad = swapchain.bad

LEMMA ChainsStay ==
  ASSUME SurfaceKept, phase # "dead", JunkFrom, SameChain(swapchain')
  PROVE  SurfaceKept'
BY DEF SurfaceKept, SurfaceOutlives, JunkFrom, SameChain

LEMMA QueueStays ==
  ASSUME device'.destroy_queue = device.destroy_queue
  PROVE  JunkFrom
BY DEF JunkFrom

LEMMA EnqueuedJunk ==
  ASSUME NEW d \in DeviceStates, d.destroy_queue = device.destroy_queue,
         NEW items \in Seq(JunkItems), \A i \in DOMAIN items : items[i][1] # "swapchain",
         device' = Enqueued(d, items)
  PROVE  JunkFrom
<1>1. \A r : (\E i \in DOMAIN device'.destroy_queue : device'.destroy_queue[i].res = r) =>
               \/ \E i \in DOMAIN d.destroy_queue : d.destroy_queue[i].res = r
               \/ \E i \in DOMAIN items : items[i] = r
  BY EnqueuedItems
<1> SUFFICES ASSUME NEW i \in DOMAIN device'.destroy_queue
             PROVE  \/ \E j \in DOMAIN device.destroy_queue : device'.destroy_queue[i].res = device.destroy_queue[j].res
                    \/ device'.destroy_queue[i].res[1] # "swapchain"
  BY DEF JunkFrom
<1> DEFINE r == device'.destroy_queue[i].res
<1>r. \E j \in DOMAIN device'.destroy_queue : device'.destroy_queue[j].res = r
  OBVIOUS
<1> HIDE DEF r
<1>2. (\E j \in DOMAIN device.destroy_queue : device.destroy_queue[j].res = r) \/ (\E j \in DOMAIN items : items[j] = r)
  BY <1>1, <1>r, Zenon
<1>3. (\E j \in DOMAIN device.destroy_queue : r = device.destroy_queue[j].res) \/ r[1] # "swapchain"
  BY <1>2
<1> QED BY <1>3 DEF r

LEMMA ChainItems ==
  ASSUME NEW r \in JunkItems, r[1] = "swapchain"
  PROVE  r[2] \in Nat
<1>1. \E s \in [chain : Nat, surface : Nat] : r = ChainRes(s)
  BY DEF JunkItems, ConstRes, ContextRes, Pool, GraphRes, DynamicRes
<1> QED BY <1>1 DEF ChainRes

LEMMA OutdateSurface ==
  ASSUME GfxTyped, SurfaceKept, phase # "dead", NEW s \in SwapchainStates, SameChain(s), Outdate(s)
  PROVE  SurfaceKept'
<1>1. /\ swapchain' \in Recreated(s)
      /\ device' = Enqueued(device, <<ChainRes(s)>>)
  BY DEF Outdate
<1>2. swapchain'.chain = swapchain.chain + 1 /\ swapchain'.surface = swapchain.surface
      /\ swapchain'.bad = swapchain.bad /\ swapchain.chain \in Nat
  BY <1>1, RecreatedNear DEF SameChain, GfxTyped, SwapchainStates
<1>3. device \in DeviceStates /\ device.destroy_queue \in DestroyQueues
  BY DEF GfxTyped, DeviceStates
<1>4. \A r : (\E i \in DOMAIN device'.destroy_queue : device'.destroy_queue[i].res = r) =>
               \/ \E i \in DOMAIN device.destroy_queue : device.destroy_queue[i].res = r
               \/ r = ChainRes(s)
  <2> DEFINE items == <<ChainRes(s)>>
  <2>1. items \in Seq(JunkItems)
    BY ChainJunk
  <2>2. \A i \in DOMAIN items : items[i] = ChainRes(s)
    OBVIOUS
  <2>3. device' = Enqueued(device, items)
    BY <1>1
  <2> HIDE DEF items
  <2> QED BY <2>1, <2>2, <2>3, <1>3, EnqueuedItems
<1>5. ~ swapchain.bad
  BY DEF SurfaceKept
<1>6. ASSUME NEW i \in DOMAIN device'.destroy_queue, device'.destroy_queue[i].res[1] = "swapchain"
      PROVE  /\ device'.destroy_queue[i].res[3] = swapchain'.surface
             /\ device'.destroy_queue[i].res[2] < swapchain'.chain
  <2> DEFINE r == device'.destroy_queue[i].res
  <2>1. CASE r = ChainRes(s)
    <3>1. r[2] = swapchain.chain /\ r[3] = swapchain.surface
      BY <2>1 DEF ChainRes, SameChain
    <3> QED BY <3>1, <1>2
  <2>2. CASE \E j \in DOMAIN device.destroy_queue : device.destroy_queue[j].res = r
    <3>1. PICK j \in DOMAIN device.destroy_queue : device.destroy_queue[j].res = r
      BY <2>2
    <3>2. r[3] = swapchain.surface /\ r[2] < swapchain.chain
      BY <3>1, <1>6 DEF SurfaceKept, SurfaceOutlives
    <3>3. r[2] \in Nat
      BY <3>1, <1>3, <1>6, ItemsTyped, ChainItems
    <3> QED BY <3>2, <3>3, <1>2
  <2> QED BY <2>1, <2>2, <1>4
<1> QED BY <1>2, <1>5, <1>6 DEF SurfaceKept, SurfaceOutlives

\* A lost surface leaves nothing to be destroyed, whatever comes next.
LEMMA EmptySurface ==
  ASSUME device'.destroy_queue = <<>>, swapchain'.bad => phase' = "dead"
  PROVE  SurfaceKept'
<1>1. DOMAIN device'.destroy_queue = {}
  OBVIOUS
<1> QED BY <1>1 DEF SurfaceKept, SurfaceOutlives

LEMMA LoseSurfaceKeeps ==
  ASSUME GfxTyped, TicksInv, SurfaceKept, phase # "dead",
         NEW s \in SwapchainStates, SameChain(s), LoseSurface(s)
  PROVE  SurfaceKept'
<1>1. swapchain' \in Resurfaced(s) /\ device' = Forced(device) /\ Idle
  BY DEF LoseSurface
<1>2. swapchain'.bad = swapchain.bad /\ device'.destroy_queue = <<>>
  BY <1>1, ResurfacedNear, ForcedQuiet DEF SameChain
<1> QED BY <1>2, EmptySurface DEF SurfaceKept

LEMMA BreakSurface ==
  ASSUME GfxTyped, TicksInv, NEW s, Break(s)
  PROVE  SurfaceKept'
<1>1. device' = Forced(device) /\ Idle /\ phase' = "dead"
  BY DEF Break, Goto
<1> QED BY <1>1, ForcedQuiet, EmptySurface

LEMMA SurfaceStep ==
  ASSUME GfxTyped, TicksInv, SurfaceKept, Next
  PROVE  SurfaceKept'
<1>0. /\ device \in DeviceStates /\ swapchain \in SwapchainStates
      /\ device = [submitted |-> device.submitted, observed |-> device.observed,
                   destroy_queue |-> device.destroy_queue, tick |-> device.tick]
      /\ SameChain(swapchain)
  BY DEF GfxTyped, DeviceStates, SameChain
<1>1. CASE StartTick
  <2> DEFINE d == ObservedNow(device)
             c == StartedNext.completed
             e == Processed(d, c)
  <2>1. /\ phase = "idle" /\ phase' = "commands" /\ swapchain' = swapchain
        /\ passed' = c
        /\ device' = [Processed(d, passed') EXCEPT !.tick = ticks'.current]
    BY <1>1 DEF StartTick, Goto, frameVars
  <2>2. c \in Nat
    <3>1. GfxTyped'
      BY <1>1, StartTickKeeps
    <3> QED BY <3>1, <2>1 DEF GfxTyped
  <2>3. d \in DeviceStates /\ d.destroy_queue = device.destroy_queue
    BY DeviceKnown DEF ObservedNow, GfxTyped, DeviceStates
  <2> HIDE DEF d, c
  <2>4. /\ e \in DeviceStates
        /\ \A i \in DOMAIN e.destroy_queue : \E j \in DOMAIN d.destroy_queue : e.destroy_queue[i] = d.destroy_queue[j]
    BY <2>2, <2>3, ProcessedQueue
  <2>5. device' = [e EXCEPT !.tick = ticks'.current]
    BY <2>1
  <2> HIDE DEF e
  <2>6. device'.destroy_queue = e.destroy_queue
    BY <2>4, <2>5 DEF DeviceStates
  <2>7. JunkFrom
    BY <2>3, <2>4, <2>6 DEF JunkFrom
  <2> QED BY <2>1, <2>7, <1>0, ChainsStay
<1>2. CASE BeginCommands
  <2>1. /\ phase = "commands" /\ swapchain' = swapchain
        /\ device' = device \/ \E tick : device' = WaitedTickDevice(device, tick)
    BY <1>2 DEF BeginCommands, Goto, frameVars
  <2>2. device'.destroy_queue = device.destroy_queue
    BY <2>1, <1>0 DEF WaitedTickDevice, WaitedAll
  <2> QED BY <2>1, <2>2, <1>0, QueueStays, ChainsStay
<1>3. CASE BeginTransient
  <2>1. phase = "transient" /\ swapchain' = swapchain /\ device' = device
    BY <1>3 DEF BeginTransient, Goto, frameVars
  <2> QED BY <2>1, <1>0, QueueStays, ChainsStay
<1>4. CASE BeginMeshes
  <2>1. phase = "meshes" /\ swapchain' = swapchain /\ device' = device
    BY <1>4 DEF BeginMeshes, Goto, frameVars
  <2> QED BY <2>1, <1>0, QueueStays, ChainsStay
<1>5. CASE AwaitFrame
  <2>1. /\ phase = "acquire" /\ swapchain' = [swapchain EXCEPT !.retries = 0]
        /\ device' = Waited(device, "main", swapchain.previous[swapchain.frame])
    BY <1>5 DEF AwaitFrame, Goto
  <2>2. device'.destroy_queue = device.destroy_queue
    BY <2>1, <1>0 DEF Waited
  <2>3. SameChain(swapchain')
    BY <2>1, <1>0 DEF SameChain, SwapchainStates
  <2> QED BY <2>1, <2>2, <2>3, QueueStays, ChainsStay
<1>6. CASE Acquire
  <2>1. phase = "acquiring" /\ swapchain' = [swapchain EXCEPT !.acquired = TRUE] /\ device' = device
    BY <1>6 DEF Acquire, Goto
  <2>2. SameChain(swapchain')
    BY <2>1, <1>0 DEF SameChain, SwapchainStates
  <2> QED BY <2>1, <2>2, QueueStays, ChainsStay
<1>7. CASE Reacquire
  <2> DEFINE again == [swapchain EXCEPT !.retries = @ + 1]
  <2>1. /\ phase = "acquiring"
        /\ Outdate(again) \/ LoseSurface(again) \/ Break(swapchain)
    BY <1>7 DEF Reacquire
  <2>2. again \in SwapchainStates /\ SameChain(again)
    BY <1>0 DEF SameChain, SwapchainStates
  <2> HIDE DEF again
  <2> QED BY <2>1, <2>2, OutdateSurface, LoseSurfaceKeeps, BreakSurface
<1>8. CASE Record
  <2>1. phase = "record" /\ swapchain' = swapchain
    BY <1>8 DEF Record, Goto
  <2>p. PICK w, t, g, sizes, size, rebuild : RecordsWith(w, t, g, sizes, size, rebuild)
    BY <1>8, RecordMakes
  <2>2. /\ rebuild \in BOOLEAN /\ size \in plan.dynamic
        /\ g = IF rebuild THEN Rebuilt(graph, swapchain) ELSE graph
        /\ device' = Enqueued(device,
                       (IF rebuild THEN <<GraphRes(graph), DynamicRes(graph)>> ELSE <<>>)
                       \o (IF TooSmall(g, size) THEN <<DynamicRes(g)>> ELSE <<>>))
    BY <2>p DEF RecordsWith
  <2> DEFINE a == IF rebuild THEN <<GraphRes(graph), DynamicRes(graph)>> ELSE <<>>
             b == IF TooSmall(g, size) THEN <<DynamicRes(g)>> ELSE <<>>
  <2>3. g \in GraphStates /\ graph \in GraphStates
    BY <2>2, RebuiltTyped DEF GfxTyped
  <2>4. \A x \in GraphStates : GraphRes(x)[1] # "swapchain" /\ DynamicRes(x)[1] # "swapchain"
    BY DEF GraphRes, DynamicRes
  <2> DEFINE J == {x \in JunkItems : x[1] # "swapchain"}
  <2>5. a \in Seq(J) /\ b \in Seq(J)
    <3>1. \A x \in GraphStates : GraphRes(x) \in J /\ DynamicRes(x) \in J
      BY <2>4, GraphJunk
    <3> HIDE DEF J
    <3> QED BY <2>3, <3>1
  <2>6. device' = Enqueued(device, a \o b)
    BY <2>2
  <2> HIDE DEF a, b
  <2> DEFINE items == a \o b
  <2>7. items \in Seq(J)
    <3> HIDE DEF J
    <3> QED BY <2>5
  <2> HIDE DEF items
  <2>8. items \in Seq(JunkItems) /\ \A i \in DOMAIN items : items[i][1] # "swapchain"
    <3>1. items \in [1 .. Len(items) -> J] /\ Len(items) \in Nat
      <4> HIDE DEF J
      <4> QED BY <2>7
    <3>2. items \in [1 .. Len(items) -> JunkItems]
      BY <3>1
    <3> QED BY <3>1, <3>2
  <2>9. JunkFrom
    BY <2>6, <2>8, <1>0, EnqueuedJunk DEF items
  <2> QED BY <2>1, <2>9, <1>0, ChainsStay
<1>9. CASE Submit
  <2>1. phase = "submit" /\ swapchain' = swapchain /\ device' = Submitted(device, "main")
    BY <1>9 DEF Submit, Goto
  <2>2. device'.destroy_queue = device.destroy_queue
    BY <2>1, <1>0, SubmittedGrows, GfxConstants
  <2> QED BY <2>1, <2>2, <1>0, QueueStays, ChainsStay
<1>10. CASE SubmitFails
  <2> DEFINE items == [f \in 1 .. MAX_PENDING_FRAMES |-> ContextRes(f - 1)]
  <2>1. phase = "submit" /\ swapchain' = swapchain /\ device' = Enqueued(device, items)
    BY <1>10 DEF SubmitFails, Goto, frameVars
  <2>2. items \in Seq(JunkItems) /\ \A i \in DOMAIN items : items[i][1] # "swapchain"
    BY ContextJunk DEF ContextRes
  <2> HIDE DEF items
  <2> QED BY <2>1, <2>2, <1>0, EnqueuedJunk, ChainsStay
<1>11. CASE WaitAndReset
  <2> DEFINE d == Waited(device, "main", ring.timelines[ring.current])
  <2>1. phase = "reset" /\ swapchain' = swapchain /\ device' = Enqueued(d, Junk(ring))
    BY <1>11 DEF WaitAndReset, Goto
  <2>2. d \in DeviceStates /\ d.destroy_queue = device.destroy_queue
    <3>1. ring.timelines[ring.current] \in Nat
      BY DEF GfxTyped, RingStates
    <3> QED BY <3>1, DeviceKnown, GfxConstants, WaitedSees DEF Seen
  <2> HIDE DEF d
  <2>3. Junk(ring) \in Seq(JunkItems) /\ \A i \in DOMAIN Junk(ring) : Junk(ring)[i][1] # "swapchain"
    <3>1. \A n \in Nat : ConstRes(n)[1] # "swapchain"
      BY DEF ConstRes
    <3> QED BY <3>1, ResetTyped DEF GfxTyped
  <2> QED BY <2>1, <2>2, <2>3, <1>0, EnqueuedJunk, ChainsStay
<1>12. CASE Present
  <2> DEFINE s == Presented(swapchain, device.submitted["main"])
  <2>1. /\ phase = "present"
        /\ (swapchain' = s /\ device' = device) \/ Outdate(s) \/ LoseSurface(s) \/ Break(s)
    BY <1>12 DEF Present
  <2>2. s \in SwapchainStates /\ SameChain(s)
    <3>1. s \in SwapchainStates
      BY PresentedNear DEF CloseTo
    <3>2. SameChain(s)
      BY <1>0 DEF SameChain, SwapchainStates, Presented
    <3> QED BY <3>1, <3>2
  <2> HIDE DEF s
  <2>3. CASE swapchain' = s /\ device' = device
    BY <2>1, <2>2, <2>3, QueueStays, ChainsStay
  <2> QED BY <2>1, <2>2, <2>3, OutdateSurface, LoseSurfaceKeeps, BreakSurface
<1>13. CASE EndTick
  <2> DEFINE d == Flushed(device)
  <2>1. phase = "end" /\ swapchain' = swapchain /\ device' = Enqueued(d, ExcessPools)
    BY <1>13 DEF EndTick, ExcessPools, Goto, frameVars
  <2>2. d \in DeviceStates /\ d.destroy_queue = device.destroy_queue
    BY DeviceKnown, GfxConstants, SubmittedGrows DEF Flushed
  <2> HIDE DEF d
  <2> QED BY <2>1, <2>2, <1>0, ExcessJunk, EnqueuedJunk, ChainsStay
<1>14. ASSUME NEW q \in Queues, Gpu(q) PROVE SurfaceKept'
  <2>1. swapchain' = swapchain /\ device' = device /\ phase' = phase
    BY <1>14 DEF Gpu, GpuFinish, frameVars
  <2> QED BY <2>1 DEF SurfaceKept, SurfaceOutlives
<1> QED BY <1>1, <1>2, <1>3, <1>4, <1>5, <1>6, <1>7, <1>8, <1>9, <1>10, <1>11, <1>12, <1>13, <1>14
        DEF Next, Draw
-----------------------------------------------------------------------------
(* The invariant of the renderer,                                          *)

GfxInv == GfxTyped /\ TicksInv /\ SurfaceKept

LEMMA GfxStarts ==
  ASSUME Init
  PROVE  GfxInv
<1> DEFINE set == 1 % MAX_PENDING_FRAMES
           submitted == [q \in Queues |-> IF q = "main" THEN 1 ELSE 0]
           observed == [q \in Queues |-> 0]
           ids == [s \in Sets |-> IF s = set THEN 1 ELSE INVALID]
           made1 == [s \in Sets |-> [q \in Queues |-> 0]]
           buffers == [s \in Sets |-> [q \in Queues |-> IF s = set /\ q = "main" THEN 1 ELSE 0]]
           index == [q \in Queues |-> IF q = "main" THEN 1 ELSE 0]
           zeros == [f \in Frames |-> 0]
           none == [f \in Frames |-> <<>>]
<1>1. /\ finished = observed
      /\ device = [submitted |-> submitted, observed |-> observed, destroy_queue |-> <<>>, tick |-> 1]
      /\ ticks = [current |-> 1, completed |-> 0, packs |-> <<>>]
      /\ commands = [set |-> set, tick_ids |-> ids, pools |-> made1, buffers |-> buffers, index |-> index]
      /\ \A u \in uses : u.queue = "main" /\ u.at = 1 /\ u.tick = 1
      /\ dma = FALSE
      /\ ring = [current |-> 0, timelines |-> zeros, buffers |-> none, made |-> 0]
      /\ swapchain = [frame |-> 0, acquired |-> FALSE, previous |-> zeros,
                      surface |-> 1, chain |-> 1, extent |-> 1, retries |-> 0, bad |-> FALSE]
      /\ graph = [made |-> 1, extent |-> swapchain.extent, dynamic |-> 0, grown |-> 0]
      /\ phase = "idle" /\ passed = 0 /\ plan \in Plans
  BY DEF Init, SetOf, TicksInit, DmaInit, RingInit, SwapchainInit, GraphInit
<1>2. /\ set \in Sets /\ 0 \in Frames /\ "main" \in Queues /\ INVALID = -1
      /\ MAX_PENDING_FRAMES \in Nat \ {0}
  <2>1. set \in 0 .. MAX_PENDING_FRAMES - 1 /\ 0 \in 0 .. MAX_PENDING_FRAMES - 1
    BY GfxConstants, ModRange
  <2> QED BY <2>1, GfxConstants DEF Sets, Frames, INVALID
<1>s. 1 % MAX_PENDING_FRAMES = set
  OBVIOUS
<1> HIDE DEF set
<1>3. /\ submitted \in Timelines /\ observed \in Timelines
      /\ ids \in [Sets -> Nat \cup {INVALID}]
      /\ made1 \in [Sets -> [Queues -> Nat]] /\ buffers \in [Sets -> [Queues -> Nat]]
      /\ index \in [Queues -> Nat] /\ zeros \in [Frames -> Nat]
      /\ none \in [Frames -> Seq(ConstBuffers)]
  BY DEF Timelines
<1>4. <<>> \in DestroyQueues /\ <<>> \in Seq(Packs) /\ DOMAIN <<>> = {}
  BY DEF DestroyQueues
<1>5. /\ \A q \in Queues : observed[q] = 0 /\ submitted[q] \in Nat
      /\ submitted["main"] = 1
      /\ \A s \in Sets : ids[s] = IF s = set THEN 1 ELSE -1
      /\ \A f \in Frames : zeros[f] = 0
  BY <1>2
<1> HIDE DEF submitted, observed, ids, made1, buffers, index, zeros, none
<1>6. GfxTyped
  <2>1. device \in DeviceStates
    BY <1>1, <1>3, <1>4 DEF DeviceStates
  <2>2. ticks \in TickStates
    BY <1>1, <1>4 DEF TickStates
  <2>3. commands \in CommandStates
    BY <1>1, <1>2, <1>3 DEF CommandStates
  <2>4. ring \in RingStates
    BY <1>1, <1>2, <1>3 DEF RingStates
  <2>5. swapchain \in SwapchainStates /\ swapchain.extent \in Nat
    BY <1>1, <1>2, <1>3 DEF SwapchainStates
  <2>6. graph \in GraphStates
    BY <2>5, <1>1 DEF GraphStates
  <2>7. \A u \in uses : u.queue \in Queues /\ u.at \in Nat /\ u.tick \in Nat
    BY <1>1, <1>2
  <2> QED BY <2>1, <2>2, <2>3, <2>4, <2>5, <2>6, <2>7, <1>1, <1>3 DEF GfxTyped, Phases
<1>7. TimelinesInOrder
  BY <1>1, <1>5 DEF TimelinesInOrder
<1>8. UsesPending
  <2>1. device.submitted["main"] = 1 /\ finished["main"] = 0 /\ ticks.completed = 0 /\ ticks.current = 1
    BY <1>1, <1>2, <1>5
  <2> QED BY <2>1, <1>1 DEF UsesPending
<1>9. PacksOrdered /\ PacksCover
  BY <1>1, <1>4 DEF PacksOrdered, PacksCover
<1>10. TicksPacked
  BY <1>1 DEF TicksPacked
<1>11. JunkOrdered
  BY <1>1, <1>4 DEF JunkOrdered, QueueOrdered
<1>12. SetsServed
  <2>1. LastServed = 1 /\ commands.tick_ids = ids
    BY <1>1 DEF LastServed
  <2>2. ASSUME NEW n \in Nat, n >= 1, n <= 1 PROVE ids[n % MAX_PENDING_FRAMES] = n
    <3>1. n = 1
      BY <2>2
    <3> QED BY <3>1, <1>2, <1>5, <1>s
  <2>3. \A s \in Sets : ids[s] <= 1
    BY <1>5
  <2> QED BY <2>1, <2>2, <2>3 DEF SetsServed
<1>13. FramesLimited
  BY <1>1 DEF FramesLimited
<1>14. FramesSubmitted
  BY <1>1, <1>5 DEF FramesSubmitted
<1>15. SurfaceKept
  BY <1>1, <1>4 DEF SurfaceKept, SurfaceOutlives
<1> QED BY <1>6, <1>7, <1>8, <1>9, <1>10, <1>11, <1>12, <1>13, <1>14, <1>15 DEF GfxInv, TicksInv

LEMMA GfxStep ==
  ASSUME GfxTyped, TicksInv, Next
  PROVE  GfxTyped' /\ TicksInv'
BY StartTickKeeps, BeginCommandsKeeps, BeginTransientKeeps, BeginMeshesKeeps, AwaitFrameKeeps,
   AcquireKeeps, ReacquireKeeps, RecordKeeps, SubmitKeeps, SubmitFailsKeeps, WaitAndResetKeeps,
   PresentKeeps, EndTickKeeps, GpuKeeps, Zenon DEF Next, Draw

LEMMA GfxRests ==
  ASSUME GfxInv, UNCHANGED vars
  PROVE  GfxInv'
<1>1. /\ finished' = finished /\ device' = device /\ ticks' = ticks /\ uses' = uses
      /\ commands' = commands /\ dma' = dma /\ ring' = ring /\ swapchain' = swapchain
      /\ graph' = graph /\ phase' = phase /\ passed' = passed /\ plan' = plan
  BY DEF vars
<1>2. GfxTyped'
  BY <1>1 DEF GfxInv, GfxTyped
<1>3. TicksInv'
  BY <1>1 DEF GfxInv, TicksInv, TimelinesInOrder, UsesPending, Recording, PacksOrdered, PacksCover,
              AllComplete, TicksPacked, JunkOrdered, QueueOrdered, SetsServed, LastServed,
              FramesLimited, FramesSubmitted
<1>4. SurfaceKept'
  BY <1>1 DEF GfxInv, SurfaceKept, SurfaceOutlives
<1> QED BY <1>2, <1>3, <1>4 DEF GfxInv

LEMMA GfxAlways == Spec => []GfxInv
<1>1. Init => GfxInv
  BY GfxStarts
<1>2. GfxInv /\ [Next]_vars => GfxInv'
  <2> SUFFICES ASSUME GfxInv, [Next]_vars PROVE GfxInv'
    OBVIOUS
  <2>1. CASE Next
    BY <2>1, GfxStep, SurfaceStep DEF GfxInv
  <2>2. CASE UNCHANGED vars
    BY <2>2, GfxRests
  <2> QED BY <2>1, <2>2
<1> QED BY <1>1, <1>2, PTL DEF Spec

LEMMA TicksFollow ==
  ASSUME GfxInv
  PROVE  TicksSound
<1>1. CompletionSound
  BY DEF GfxInv, TicksInv, TimelinesInOrder, UsesPending, PacksOrdered, PacksCover, TicksPacked,
         JunkOrdered, QueueOrdered, CompletionSound
<1>2. phase \notin {"idle", "commands"} => ticks.current - ticks.completed <= MAX_PENDING_FRAMES
  BY DEF GfxInv, TicksInv, FramesLimited
<1>3. /\ \A i \in DOMAIN ticks.packs, q \in Queues : ticks.packs[i].timelines[q] <= device.submitted[q]
      /\ \A f \in Frames : /\ ring.timelines[f] <= device.submitted["main"]
                               /\ swapchain.previous[f] <= device.submitted["main"]
  BY DEF GfxInv, TicksInv, PacksCover, FramesSubmitted
<1> DEFINE s == ticks.current % MAX_PENDING_FRAMES
           old == commands.tick_ids[s]
<1>4. ASSUME phase = "commands", ~ (old <= ticks.completed)
      PROVE  \E i \in DOMAIN ticks.packs : ticks.packs[i].tick = old
  <2>1. ticks.current \in Nat /\ ticks.completed \in Nat
    BY DEF GfxInv, GfxTyped, TickStates
  <2>2. s \in Sets
    BY <2>1, GfxConstants, ModRange DEF Sets
  <2>3. old <= ticks.current - 1 /\ old \in Nat \cup {-1}
    BY <2>2, <1>4 DEF GfxInv, GfxTyped, CommandStates, INVALID, TicksInv, SetsServed, LastServed
  <2> HIDE DEF old
  <2>4. old \in Nat /\ ticks.completed < old /\ old < ticks.current
    BY <2>1, <2>3, <1>4
  <2> QED BY <2>4 DEF GfxInv, TicksInv, TicksPacked
<1> QED BY <1>1, <1>2, <1>3, <1>4 DEF TicksSound, AwaitedSubmitted, SetOf

\* What the CPU believes complete is complete, at most MAX_PENDING_FRAMES ticks are in
\* flight once a tick has its command pools, and nothing is awaited that was not submitted
\* (startNextTick and waitTickCompletion of frame_tick_source.cpp, the waits of
\* vk_command_allocator.cpp, frame_context.cpp and vk_swapchain.cpp).
THEOREM TicksStaySound == Spec => []TicksSound
<1>1. GfxInv => TicksSound
  BY TicksFollow
<1> QED BY <1>1, GfxAlways, PTL

\* No swapchain waits to be destroyed when the surface it was created for is destroyed, nor
\* the one in use, through every recreation and loss (vk_swapchain.cpp, processDestroyQueue
\* and forceCompletion of vk_device.cpp).
THEOREM SurfaceStays == Spec => []SurfaceOutlives
<1>1. GfxInv => SurfaceOutlives
  BY DEF GfxInv, SurfaceKept
<1> QED BY <1>1, GfxAlways, PTL

\* A frame asks for the meshes of a set of keys.
LEMMA DrawListKeeps ==
  ASSUME Now, Good(Here, Unallocated, {}), NEW K \in SUBSET Keys, NEW versions \in [Keys -> Int],
         NEW n, \A k \in Keys : n[k] \in [Streams -> Nat],
         \A k \in Keys, s \in Streams : n[k][s] * ElementSize[s] <= POOL_SIZE_BYTES
  PROVE  Good(DrawList(K, versions, n), Unallocated, {})
<1> DEFINE tick == ticks.current
           q == SetToSeq(K)
           l == Len(q)
           b == Here
           W == {y \in Works : Good(y, Unallocated, {})}
           P == [t \in SUBSET (1 .. l) |-> W]
           f == [i \in 1 .. l |-> [y \in W |-> MakeDrawCommand(y, q[i], versions[q[i]], n[q[i]], tick)]]
           c == [t \in SUBSET (1 .. l) |-> Max(t)]
           Fold(g) == g = [t \in SUBSET (1 .. l) |->
                             IF t = {} THEN b
                             ELSE MakeDrawCommand(g[t \ {Max(t)}], q[Max(t)], versions[q[Max(t)]],
                                                  n[q[Max(t)]], tick)]
           fold == CHOOSE g : Fold(g)
<1>1. IsFiniteSet(K)
  BY MeshesAssumption, FS_Subset
<1>2. q \in Seq(K)
  BY <1>1, SetToSeqPlaces
<1>3. l \in Nat /\ DOMAIN q = 1 .. l /\ \A i \in 1 .. l : q[i] \in Keys
  BY <1>2
<1>4. DrawList(K, versions, n) = fold[1 .. l]
  <2> HIDE DEF b
  <2>1. DrawList(K, versions, n) =
          FoldLeft(LAMBDA w, k : MakeDrawCommand(w, k, versions[k], n[k], tick), b, q)
    BY DEF DrawList, b
  <2> HIDE DEF tick
  <2> QED BY <2>1, <1>3 DEF FoldLeft, MapThenFoldSet, Max
<1>5. ASSUME NEW y \in W, NEW i \in 1 .. l
      PROVE  MakeDrawCommand(y, q[i], versions[q[i]], n[q[i]], tick) \in W
  <2> DEFINE k == q[i]
             v == versions[k]
             m == n[k]
             z == MakeDrawCommand(y, k, v, m, tick)
  <2>1. k \in Keys /\ v \in Int /\ m \in [Streams -> Nat] /\ \A s \in Streams : m[s] * ElementSize[s] <= POOL_SIZE_BYTES
    BY <1>3
  <2> HIDE DEF k, v, m
  <2>2. Good(z, Unallocated, {})
    BY <2>1, MakeDrawKeeps
  <2>3. z \in Works
    BY <2>2 DEF Good
  <2> HIDE DEF z
  <2>4. z \in W
    BY <2>2, <2>3
  <2> QED BY <2>4 DEF z, k, v, m
<1>7. b \in W
  <2> HIDE DEF b
  <2>1. Good(b, Unallocated, {})
    BY DEF b
  <2> QED BY <2>1 DEF Good
<1>p. /\ \A t \in SUBSET (1 .. l) : P[t] = W /\ c[t] = Max(t)
      /\ \A t \in SUBSET (1 .. l) : t # {} => Max(t) \in t
      /\ \A i \in 1 .. l, y \in W : f[i][y] = MakeDrawCommand(y, q[i], versions[q[i]], n[q[i]], tick)
  BY <1>3, LastPlaces
<1> HIDE DEF l, q, W, P, f, c, b
<1>8. ASSUME NEW t \in SUBSET (1 .. l), t # {}
      PROVE  Max(t) \in t /\ Max(t) \in 1 .. l /\ t \ {Max(t)} \in SUBSET (1 .. l)
  BY <1>8, <1>p
<1>10. \E g : StageFoldOf(P, f, b, c, 1 .. l, g)
  <2>1. \A t \in SUBSET (1 .. l) : t # {} => c[t] \in t
    BY <1>p
  <2>2. \A t \in SUBSET (1 .. l) : t # {} => \A v \in P[t \ {c[t]}] : f[c[t]][v] \in P[t]
    BY <1>p, <1>5, <1>8
  <2>3. IsFiniteSet(1 .. l)
    BY <1>3, LastPlaces
  <2>4. b \in P[{}]
    BY <1>7, <1>p
  <2> QED BY <2>1, <2>2, <2>3, <2>4, StageFoldExists
<1>11. \E g : Fold(g)
  <2>1. PICK g : StageFoldOf(P, f, b, c, 1 .. l, g)
    BY <1>10
  <2>2. ASSUME NEW t \in SUBSET (1 .. l)
        PROVE  g[t] \in W /\ g[t] = IF t = {} THEN b ELSE f[c[t]][g[t \ {c[t]}]]
    <3>1. g[t] \in P[t] /\ g[t] = IF t = {} THEN b ELSE f[c[t]][g[t \ {c[t]}]]
      BY <2>1 DEF StageFoldOf
    <3>2. P[t] = W
      BY <1>p
    <3> QED BY <3>1, <3>2
  <2>3. ASSUME NEW t \in SUBSET (1 .. l), t # {}
        PROVE  g[t] = MakeDrawCommand(g[t \ {Max(t)}], q[Max(t)], versions[q[Max(t)]], n[q[Max(t)]], tick)
    <3> DEFINE i == Max(t)
               y == g[t \ {i}]
    <3>1. i \in 1 .. l /\ c[t] = i /\ t \ {i} \in SUBSET (1 .. l)
      BY <2>3, <1>8, <1>p
    <3>2. y \in W
      BY <3>1, <2>2
    <3>3. g[t] = f[i][y]
      BY <3>1, <2>2, <2>3
    <3> HIDE DEF i, y
    <3>4. g[t] = MakeDrawCommand(y, q[i], versions[q[i]], n[q[i]], tick)
      BY <3>1, <3>2, <3>3, <1>p
    <3> QED BY <3>4 DEF i, y
  <2>4. DOMAIN g = SUBSET (1 .. l) /\ g = [t \in DOMAIN g |-> g[t]]
    BY <2>1 DEF StageFoldOf
  <2>5. \A t \in SUBSET (1 .. l) :
          g[t] = IF t = {} THEN b
                 ELSE MakeDrawCommand(g[t \ {Max(t)}], q[Max(t)], versions[q[Max(t)]], n[q[Max(t)]], tick)
    BY <2>2, <2>3
  <2>6. Fold(g)
    BY <2>4, <2>5
  <2> QED BY <2>6
<1>12. Fold(fold)
  BY <1>11
<1> HIDE DEF fold
<1>13. fold[{}] = b
  BY <1>12
<1>14. ASSUME NEW t \in SUBSET (1 .. l), t # {}
       PROVE  \E x \in t : fold[t \ {x}] \in P[t \ {x}] => fold[t] \in P[t]
  <2> DEFINE i == Max(t)
             y == fold[t \ {i}]
  <2>1. i \in t /\ i \in 1 .. l /\ t \ {i} \in SUBSET (1 .. l)
    BY <1>14, <1>8
  <2>2. fold[t] = MakeDrawCommand(y, q[i], versions[q[i]], n[q[i]], tick)
    BY <1>12, <1>14
  <2> HIDE DEF i, y
  <2>3. y \in W => fold[t] \in W
    BY <1>5, <2>1, <2>2
  <2>4. fold[t \ {i}] \in P[t \ {i}] => fold[t] \in P[t]
    BY <2>1, <2>3, <1>p DEF y
  <2> QED BY <2>1, <2>4
<1>15. \A r \in SUBSET (1 .. l) : fold[r] \in P[r]
  <2>1. fold[{}] \in P[{}] /\ IsFiniteSet(1 .. l)
    BY <1>3, <1>7, <1>13, <1>p, LastPlaces
  <2> QED BY <2>1, <1>14, StagesHold
<1>16. fold[1 .. l] \in W
  BY <1>15, <1>p
<1> QED BY <1>4, <1>16 DEF W

-----------------------------------------------------------------------------
(* The meshes through the steps of a frame                                 *)

LEMMA NowHolds ==
  ASSUME GfxTyped, TicksInv
  PROVE  Now /\ Behind(passed)
<1>1. /\ device.submitted["dma"] \in Nat /\ finished["dma"] \in Nat
  BY GfxConstants, DeviceKnown DEF Timelines
<1>2. ticks.current \in Nat /\ ticks.completed \in Nat /\ passed \in Nat
  BY DEF GfxTyped, TickStates
<1>3. \A u \in uses : u.tick \in Nat /\ ticks.completed < u.tick /\ u.tick <= ticks.current
  BY DEF GfxTyped, TicksInv, UsesPending
<1>4. passed <= ticks.completed /\ ticks.completed < ticks.current
  BY DEF TicksInv, TicksPacked
<1>5. passed < ticks.current /\ \A u \in uses : u.tick > passed
  BY <1>2, <1>3, <1>4
<1> QED BY <1>1, <1>2, <1>3, <1>5 DEF Now, Behind

\* The streamer takes no part in these steps.
LEMMA MeshesAside ==
  ASSUME GfxTyped, MeshInv,
         \/ StartTick \/ BeginCommands \/ AwaitFrame \/ Acquire \/ Reacquire
         \/ Submit \/ SubmitFails \/ WaitAndReset \/ Present
  PROVE  MeshInv'
<1>1. /\ infos' = infos /\ visits' = visits /\ transfers' = transfers /\ pools' = pools /\ made' = made
      /\ transient' = transient /\ finished' = finished /\ uses' = uses
  BY Zenon DEF StartTick, BeginCommands, AwaitFrame, Acquire, Reacquire, Submit, SubmitFails, WaitAndReset, Present,
         recordVars, meshVars
<1> QED BY <1>1, MeshesRest

\* Buffers are reset and averaged.
LEMMA BeginTransientMeshes ==
  ASSUME GfxTyped, TicksInv, MeshInv, BeginTransient
  PROVE  MeshInv' /\ \A u \in uses' : u.res \notin released'
<1>1. /\ infos' = infos /\ visits' = visits /\ transfers' = transfers /\ pools' = pools /\ made' = made
      /\ transient' = Recycled(transient, passed, ticks.current)
      /\ released' = RecycledRes(transient, passed, ticks.current)
      /\ finished' = finished /\ uses' = uses
  BY DEF BeginTransient, meshVars
<1>2. Now /\ Behind(passed) /\ BuffersKept
  BY NowHolds DEF MeshInv
<1>3. TransientSound(transient) /\ passed \in Nat /\ ticks.current \in Nat
  BY <1>2 DEF BuffersKept, Now, Behind
<1>4. \A u \in uses : u.res \notin released'
  BY <1>1, <1>2, RecycledDone
<1>5. /\ TransientSound(transient')
      /\ \A x \in BuffersOf(transient') : \E y \in BuffersOf(transient) : y.id = x.id /\ y.tick = x.tick
  BY <1>1, <1>3, RecycledKeeps
<1>6. MeshInv'
  BY <1>1, <1>5, MeshesKeepBuffers
<1> QED BY <1>1, <1>4, <1>6

LEMMA EndTickMeshes ==
  ASSUME GfxTyped, MeshInv, EndTick
  PROVE  MeshInv'
<1>1. /\ infos' = infos /\ visits' = visits /\ transfers' = transfers /\ pools' = pools /\ made' = made
      /\ transient' = Averaged(transient) /\ finished' = finished /\ uses' = uses
  BY DEF EndTick, meshVars
<1>2. TransientSound(transient)
  BY DEF MeshInv, BuffersKept
<1>3. /\ TransientSound(transient')
      /\ \A x \in BuffersOf(transient') : \E y \in BuffersOf(transient) : y.id = x.id /\ y.tick = x.tick
  BY <1>1, <1>2, AveragedKeeps
<1> QED BY <1>1, <1>3, MeshesKeepBuffers

LEMMA BeginMeshesMeshes ==
  ASSUME GfxTyped, TicksInv, MeshInv, BeginMeshes
  PROVE  \E w : BeginsFrom(w, passed)
<1>1. BeginsMeshes(passed)
  BY Zenon DEF BeginMeshes, BeginsMeshes, SetMeshes
<1> QED BY <1>1, NowHolds, BeginsIs

LEMMA GpuMeshes ==
  ASSUME GfxTyped, MeshInv, NEW q \in Queues, Gpu(q)
  PROVE  MeshInv'
<1>1. /\ GpuFinish(q)
      /\ infos' = infos /\ visits' = visits /\ transfers' = transfers /\ pools' = pools /\ made' = made
      /\ transient' = transient
  BY DEF Gpu, recordVars, meshVars
<1>2. finished \in [Queues -> Nat] /\ \A u \in uses : u.at \in Nat
  BY DEF GfxTyped, Timelines
<1> QED BY <1>1, <1>2, GfxConstants, MeshesFinish

\* A frame draws from what the streamer keeps.
RecordsWork(w, t, g, sizes, size, rebuild) ==
  /\ RecordsWith(w, t, g, sizes, size, rebuild)
  /\ Good(w, Unallocated, {})
  /\ SetMeshes(w) /\ transient' = t.state
  /\ \E scratch \in Nat : t = Taken(w.transient, scratch, 1, ticks.current)

LEMMA RecordWorks ==
  ASSUME GfxTyped, TicksInv, MeshInv, Record
  PROVE  \E w, t, g, sizes, size, rebuild : RecordsWork(w, t, g, sizes, size, rebuild)
<1>1. PICK w, t, g, sizes, size, rebuild, scratch :
        RecordsWith(w, t, g, sizes, size, rebuild) /\ DrawsWith(w, t, scratch)
  BY RecordMakes
<1>2. /\ scratch \in plan.scratch
      /\ t = Taken(w.transient, scratch, 1, ticks.current)
      /\ SetMeshes(w) /\ transient' = t.state
  BY <1>1 DEF DrawsWith
<1>3. PICK K \in plan.draws, versions \in Newer, n \in [Keys -> plan.counts] : w = DrawList(K, versions, n)
  BY <1>1 DEF DrawsWith
<1>4. /\ plan.scratch \subseteq Nat /\ plan.draws \subseteq SUBSET Keys
      /\ \A m \in plan.counts : /\ m \in [Streams -> Nat]
                                /\ \A s \in Streams : m[s] * ElementSize[s] <= POOL_SIZE_BYTES
  BY PlansAssumption DEF GfxTyped
<1>5. /\ \A k \in Keys : n[k] \in [Streams -> Nat]
      /\ \A k \in Keys, s \in Streams : n[k][s] * ElementSize[s] <= POOL_SIZE_BYTES
  BY <1>4
<1>6. versions \in [Keys -> Int] /\ K \in SUBSET Keys
  BY <1>4 DEF Newer
<1>7. Now /\ Good(Here, Unallocated, {})
  BY NowHolds, HereGood
<1>8. Good(DrawList(K, versions, n), Unallocated, {})
  BY <1>5, <1>6, <1>7, DrawListKeeps
<1>9. Good(w, Unallocated, {})
  BY <1>3, <1>8
<1>10. scratch \in Nat
  BY <1>2, <1>4
<1>11. RecordsWork(w, t, g, sizes, size, rebuild)
  BY <1>1, <1>2, <1>9, <1>10, Zenon DEF RecordsWork
<1> QED BY <1>11

\* What the passes use besides meshes and transient data has names of its own.
Others(g) ==
  {ContextRes(ring.current), GraphRes(g), DynamicRes(g), ChainRes(swapchain),
   AcquireSemaphore(swapchain), PresentSemaphore(swapchain)}

LEMMA OthersApart ==
  ASSUME NEW g, NEW r \in Others(g)
  PROVE  \A n : r # PoolRes(n) /\ r # BufferRes(n) /\ r # ConstRes(n)
BY DEF Others, ContextRes, GraphRes, DynamicRes, ChainRes, AcquireSemaphore, PresentSemaphore, PoolRes, BufferRes, ConstRes

LEMMA ConstApart ==
  \A n, m : ConstRes(m) # PoolRes(n) /\ ConstRes(m) # BufferRes(n)
BY DEF PoolRes, BufferRes, ConstRes

LEMMA UploadsTyped ==
  ASSUME GfxTyped, NEW sizes \in plan.constants
  PROVE  UploadAll(sizes) \in ConstUploads
<1>1. ring \in RingStates /\ sizes \in Seq(Nat)
  BY GfxConstants DEF GfxTyped
<1>2. [buffers |-> ring.buffers[ring.current], made |-> ring.made, res |-> {}] \in ConstUploads
  BY <1>1 DEF ConstUploads, RingStates
<1> QED BY <1>1, <1>2, UploadAllTyped, GfxConstants

LEMMA RecordMeshes ==
  ASSUME GfxTyped, TicksInv, MeshInv, Record
  PROVE  MeshInv'
<1>1. PICK w, t, g, sizes, size, rebuild : RecordsWork(w, t, g, sizes, size, rebuild)
  BY RecordWorks
<1>2. PICK scratch \in Nat : t = Taken(w.transient, scratch, 1, ticks.current)
  BY <1>1 DEF RecordsWork
<1> DEFINE C == UploadAll(sizes).res
           D == Others(graph') \cup (w.drawn \cup {t.res} \cup C)
<1>3. /\ Good(w, Unallocated, {}) /\ SetMeshes(w) /\ transient' = t.state
      /\ RecordsWith(w, t, g, sizes, size, rebuild)
  BY <1>1 DEF RecordsWork
<1>4. uses' = uses \cup Recorded(w.copied, "dma") \cup Recorded(D, "main") /\ sizes \in plan.constants
  BY <1>3 DEF RecordsWith, PassUses, Others
<1>5. \A r \in C : \E m : r = ConstRes(m)
  BY <1>4, UploadsTyped DEF ConstUploads
<1>6. finished' = finished
  BY DEF Record
<1>7. w.drawn \in SUBSET MeshRes
  BY <1>3 DEF Good, Works
<1> DEFINE res == t.res
<1>8. TransientSound(w.transient) /\ Now /\ ticks.current \in Nat
  BY <1>3, NowHolds DEF Good, BuffersUsed, Now
<1>9. \E n \in Nat : res = BufferRes(n)
  <2>1. Served(w.transient, Taken(w.transient, scratch, 1, ticks.current), ticks.current)
    BY <1>8, TakenServes
  <2> QED BY <2>1, <1>2 DEF Served
<1> HIDE DEF C, res
<1>10. Drawing(w, D, res)
  <2>1. ASSUME NEW r \in D, NEW n PROVE (r = PoolRes(n) => r \in w.drawn) /\ (r = BufferRes(n) => r = res)
    <3>1. CASE r \in Others(graph')
      BY <3>1, OthersApart
    <3>2. CASE r \in w.drawn
      BY <3>2, <1>7, ResTyped DEF MeshRes, BufferRes
    <3>3. CASE r = res
      BY <3>3, <1>9, ResTyped
    <3>4. CASE r \in C
      BY <3>4, <1>5, ConstApart
    <3> QED BY <3>1, <3>2, <3>3, <3>4, <2>1 DEF res
  <2> QED BY <2>1 DEF Drawing
<1> HIDE DEF D
<1>11. Drawing(w, D, Taken(w.transient, scratch, 1, ticks.current).res)
  BY <1>10, <1>2 DEF res
<1>12. transient' = Taken(w.transient, scratch, 1, ticks.current).state
  BY <1>3, <1>2
<1>13. infos' = w.infos /\ visits' = w.visits /\ transfers' = w.transfers /\ pools' = w.pools /\ made' = w.made
  BY <1>3 DEF SetMeshes
<1> QED BY <1>3, <1>4, <1>6, <1>8, <1>11, <1>12, <1>13, DrawnMeshes

LEMMA MeshStep ==
  ASSUME GfxTyped, TicksInv, MeshInv, Next
  PROVE  MeshInv'
<1>1. CASE BeginMeshes
  <2>1. PICK w : BeginsFrom(w, passed)
    BY <1>1, BeginMeshesMeshes
  <2>2. Now /\ Behind(passed)
    BY NowHolds
  <2> QED BY <2>1, <2>2, BegunMeshes
<1>2. CASE BeginTransient
  BY <1>2, BeginTransientMeshes
<1>3. CASE Record
  BY <1>3, RecordMeshes
<1>4. CASE EndTick
  BY <1>4, EndTickMeshes
<1>5. CASE \E q \in Queues : Gpu(q)
  BY <1>5, GpuMeshes
<1>6. CASE \/ StartTick \/ BeginCommands \/ AwaitFrame \/ Acquire \/ Reacquire
           \/ Submit \/ SubmitFails \/ WaitAndReset \/ Present
  BY <1>6, MeshesAside
<1> QED BY <1>1, <1>2, <1>3, <1>4, <1>5, <1>6, Zenon DEF Next, Draw

LEMMA MeshStarts ==
  ASSUME Init
  PROVE  MeshInv
<1>1. /\ MeshesInit
      /\ finished = [q \in Queues |-> 0]
      /\ uses = {[res |-> r, queue |-> "main", at |-> 1, tick |-> 1] :
                   r \in {FontUpload.res, Pool(commands, SetOf(1), "main")}}
      /\ transient = FontUpload.state
  BY Zenon DEF Init
<1>2. finished["dma"] = 0
  BY <1>1, GfxConstants
<1>3. FontUpload = Taken(NoBuffers, 1, 1, 1)
  BY DEF FontUpload, NoBuffers
<1>4. \E n : FontUpload.res = BufferRes(n)
  BY DEF FontUpload, Taken
<1>5. \A n : FontUpload.res # PoolRes(n) /\ Pool(commands, SetOf(1), "main") # PoolRes(n)
  BY <1>4 DEF BufferRes, PoolRes, Pool
<1>6. \A u \in uses : u.tick = 1 /\ \A n : u.res # PoolRes(n)
  BY <1>1, <1>5
<1> QED BY <1>1, <1>2, <1>3, <1>6, MeshesStart

LEMMA MeshRests ==
  ASSUME MeshInv, UNCHANGED vars
  PROVE  MeshInv'
BY MeshesRest DEF vars

LEMMA MeshAlways == Spec => [](GfxInv /\ MeshInv)
<1>1. Init => GfxInv /\ MeshInv
  BY GfxStarts, MeshStarts
<1>2. (GfxInv /\ MeshInv) /\ [Next]_vars => (GfxInv /\ MeshInv)'
  <2> SUFFICES ASSUME GfxInv, MeshInv, [Next]_vars PROVE GfxInv' /\ MeshInv'
    OBVIOUS
  <2>1. CASE Next
    BY <2>1, GfxStep, SurfaceStep, MeshStep DEF GfxInv
  <2>2. CASE UNCHANGED vars
    BY <2>2, GfxRests, MeshRests
  <2> QED BY <2>1, <2>2
<1> QED BY <1>1, <1>2, PTL DEF Spec

\* Every mesh lies in a pool of its own kind, apart from every other mesh, and the pools count
\* what they hold, through additions, copies, eviction and compaction (mesh_streamer.cpp).
THEOREM MeshesStaySound == Spec => []MeshesSound
<1>1. MeshInv => MeshesSound
  BY MeshesFollow
<1> QED BY <1>1, MeshAlways, PTL

-----------------------------------------------------------------------------
(* What waits to be destroyed and what the GPU still uses                  *)

HasId(bufs, n) == \E j \in 1 .. Len(bufs) : bufs[j].id = n

\* A resource is not used again.
Retired(r) ==
  /\ \A s \in Sets, q \in Queues, n \in Nat : r = <<"commands", s, q, n>> => n < commands.pools[s][q]
  /\ \A f \in Frames : r = ContextRes(f) => phase = "dead"
  /\ \A n \in Nat : r = ConstRes(n) => n <= ring.made /\ \A f \in Frames : ~ HasId(ring.buffers[f], n)
  /\ \A m \in Nat : r = <<"graph", m>> => m < graph.made
  /\ \A m \in Nat, k \in Nat :
       r = <<"dynamic", m, k>> => m < graph.made \/ (m = graph.made /\ k < graph.grown)
  /\ \A c \in Nat, s \in Nat : r = <<"swapchain", c, s>> => c < swapchain.chain

\* Only the main queue uses these.
OnMain(r) ==
  \/ \E f \in Frames : r = ContextRes(f) \/ r = <<"acquire", f>> \/ r = <<"present", f>>
  \/ \E n \in Nat : r = ConstRes(n) \/ r = <<"graph", n>>
  \/ \E m \in Nat, k \in Nat : r = <<"dynamic", m, k>> \/ r = <<"swapchain", m, k>>

\* What waits is not used again, was used up to the tick of its item, and by nothing that is
\* still being recorded for another queue.
JunkKept ==
  \A i \in DOMAIN device.destroy_queue :
    LET item == device.destroy_queue[i]
    IN  /\ Retired(item.res)
        /\ \A u \in uses : u.res = item.res =>
             u.tick <= item.tick /\ (u.queue = "main" \/ u.at <= device.submitted[u.queue])

\* The command buffer of a frame context is submitted at its timeline, or being recorded.
InFrame(u, f) == u.at <= ring.timelines[f] \/ (f = ring.current /\ phase \in {"submit", "dead"})
InImage(u, f) ==
  \/ u.at <= swapchain.previous[f]
  \/ f = swapchain.frame /\ phase \in {"submit", "dead", "reset", "present"}

MainKept == \A u \in uses : OnMain(u.res) => u.queue = "main"
SetsKept ==
  /\ commands.set = SetOf(LastServed)
  /\ \A u \in uses, s \in Sets, q \in Queues, n \in Nat :
       u.res = <<"commands", s, q, n>> => u.tick <= commands.tick_ids[s]
FramesKept ==
  \A u \in uses, f \in Frames :
    /\ u.res = ContextRes(f) => InFrame(u, f)
    /\ \A n \in Nat : u.res = ConstRes(n) =>
         n <= ring.made /\ (HasId(ring.buffers[f], n) => InFrame(u, f))
ImagesKept ==
  \A u \in uses, f \in Frames : u.res \in {<<"acquire", f>>, <<"present", f>>} => InImage(u, f)

\* The constant buffers of the contexts are distinct.
RingApart ==
  /\ \A f \in Frames, n \in Nat : HasId(ring.buffers[f], n) => n <= ring.made
  /\ \A f, g \in Frames, n \in Nat : HasId(ring.buffers[f], n) /\ HasId(ring.buffers[g], n) => f = g

FlightInv == JunkKept /\ MainKept /\ SetsKept /\ FramesKept /\ ImagesKept /\ RingApart
-----------------------------------------------------------------------------
(* What a step does to them                                                *)

\* A use that this step records.
RecordingNow ==
  /\ phase # "commands" /\ swapchain' = swapchain /\ ring'.current = ring.current
  /\ commands'.set = commands.set /\ commands'.pools = commands.pools
  /\ commands'.tick_ids = commands.tick_ids

NewUse(u) ==
  /\ RecordingNow /\ u.tick = ticks.current
  /\ \/ u.queue = "dma" /\ u.res \in CopyRes
     \/ /\ u.queue = "main" /\ phase' = "submit"
        /\ \/ u.res \in Others(graph')
           \/ u.res \in CopyRes \ {DmaPool}
           \/ \E n \in Nat : u.res = ConstRes(n) /\ HasId(ring'.buffers[ring.current], n)

UsesGrow == \A u \in uses' : u \in uses \/ NewUse(u)

NoneRecorded == \A q \in Queues : ~ Recording(q)

JunkGrows ==
  \A i \in DOMAIN device'.destroy_queue :
    \/ \E j \in DOMAIN device.destroy_queue : device'.destroy_queue[i] = device.destroy_queue[j]
    \/ /\ device'.destroy_queue[i].tick = ticks'.current
       /\ Retired(device.destroy_queue[i].res)'
       /\ OnMain(device'.destroy_queue[i].res) \/ NoneRecorded'

RingGrows ==
  /\ ring.made <= ring'.made
  /\ \A f \in Frames, n \in Nat : HasId(ring'.buffers[f], n) =>
       \/ HasId(ring.buffers[f], n)
       \/ ring.made < n /\ n <= ring'.made /\ f = ring.current

GraphGrows ==
  graph.made < graph'.made \/ (graph.made = graph'.made /\ graph.grown <= graph'.grown)

SetsGrow ==
  /\ \A s \in Sets, q \in Queues : commands.pools[s][q] <= commands'.pools[s][q]
  /\ \A s \in Sets : commands.tick_ids[s] <= commands'.tick_ids[s]
  /\ commands'.set = SetOf(LastServed')

UsesMove ==
  \A u \in uses, f \in Frames : u \in uses' /\ u.queue = "main" =>
    (InFrame(u, f) => InFrame(u, f)') /\ (InImage(u, f) => InImage(u, f)')

FlightStep ==
  /\ UsesGrow /\ JunkGrows /\ RingGrows /\ GraphGrows /\ SetsGrow /\ UsesMove
  /\ phase = "dead" => phase' = "dead"
  /\ swapchain.chain <= swapchain'.chain
  /\ \A q \in Queues : device.submitted[q] <= device'.submitted[q]

\* What is not used again stays so.
LEMMA StaysRetired ==
  ASSUME GfxTyped, GfxTyped', FlightStep, NEW r, Retired(r)
  PROVE  Retired(r)'
<1>1. /\ \A s \in Sets, q \in Queues : /\ commands.pools[s][q] \in Nat /\ commands'.pools[s][q] \in Nat
                                       /\ commands.pools[s][q] <= commands'.pools[s][q]
      /\ graph.made \in Nat /\ graph'.made \in Nat /\ graph.grown \in Nat /\ graph'.grown \in Nat
      /\ swapchain.chain \in Nat /\ swapchain'.chain \in Nat /\ swapchain.chain <= swapchain'.chain
      /\ ring.made \in Nat /\ ring'.made \in Nat /\ ring.made <= ring'.made
  BY DEF FlightStep, SetsGrow, RingGrows, GfxTyped, CommandStates, GraphStates, SwapchainStates, RingStates
<1>2. \A s \in Sets, q \in Queues, n \in Nat : r = <<"commands", s, q, n>> => n < commands'.pools[s][q]
  <2> SUFFICES ASSUME NEW s \in Sets, NEW q \in Queues, NEW n \in Nat, r = <<"commands", s, q, n>>
               PROVE  n < commands'.pools[s][q]
    OBVIOUS
  <2>1. n < commands.pools[s][q]
    BY DEF Retired
  <2> QED BY <2>1, <1>1
<1>3. \A f \in Frames : r = ContextRes(f) => phase' = "dead"
  BY DEF Retired, FlightStep
<1>4. \A n \in Nat : r = ConstRes(n) => n <= ring'.made /\ \A f \in Frames : ~ HasId(ring'.buffers[f], n)
  <2> SUFFICES ASSUME NEW n \in Nat, r = ConstRes(n)
               PROVE  n <= ring'.made /\ \A f \in Frames : ~ HasId(ring'.buffers[f], n)
    OBVIOUS
  <2>1. n <= ring.made /\ \A f \in Frames : ~ HasId(ring.buffers[f], n)
    BY DEF Retired
  <2>2. n <= ring'.made
    BY <2>1, <1>1
  <2>3. \A f \in Frames : ~ HasId(ring'.buffers[f], n)
    BY <2>1, <1>1 DEF FlightStep, RingGrows
  <2> QED BY <2>2, <2>3
<1>5. \A m \in Nat : r = <<"graph", m>> => m < graph'.made
  <2> SUFFICES ASSUME NEW m \in Nat, r = <<"graph", m>> PROVE m < graph'.made
    OBVIOUS
  <2>1. m < graph.made
    BY DEF Retired
  <2> QED BY <2>1, <1>1 DEF FlightStep, GraphGrows
<1>6. \A m \in Nat, k \in Nat :
        r = <<"dynamic", m, k>> => m < graph'.made \/ (m = graph'.made /\ k < graph'.grown)
  <2> SUFFICES ASSUME NEW m \in Nat, NEW k \in Nat, r = <<"dynamic", m, k>>
               PROVE  m < graph'.made \/ (m = graph'.made /\ k < graph'.grown)
    OBVIOUS
  <2>1. m < graph.made \/ (m = graph.made /\ k < graph.grown)
    BY DEF Retired
  <2> QED BY <2>1, <1>1 DEF FlightStep, GraphGrows
<1>7. \A c \in Nat, s \in Nat : r = <<"swapchain", c, s>> => c < swapchain'.chain
  <2> SUFFICES ASSUME NEW c \in Nat, NEW s \in Nat, r = <<"swapchain", c, s>> PROVE c < swapchain'.chain
    OBVIOUS
  <2>1. c < swapchain.chain
    BY DEF Retired
  <2> QED BY <2>1, <1>1
<1> QED BY <1>2, <1>3, <1>4, <1>5, <1>6, <1>7 DEF Retired

\* The set of the current tick remembers it.
LEMMA SetServes ==
  ASSUME GfxTyped, TicksInv, SetsKept, phase # "commands"
  PROVE  commands.set \in Sets /\ commands.tick_ids[commands.set] = ticks.current
<1>1. ticks.current \in Nat /\ ticks.completed \in Nat /\ ticks.completed < ticks.current
  BY DEF GfxTyped, TickStates, TicksInv, TicksPacked
<1>2. LastServed = ticks.current /\ ticks.current >= 1
  BY <1>1 DEF LastServed
<1>3. commands.set = ticks.current % MAX_PENDING_FRAMES /\ commands.set \in Sets
  BY <1>2 DEF SetsKept, SetOf, GfxTyped, CommandStates
<1>4. LastServed - MAX_PENDING_FRAMES < ticks.current /\ ticks.current <= LastServed
  BY <1>1, <1>2, GfxConstants
<1>5. commands.tick_ids[ticks.current % MAX_PENDING_FRAMES] = ticks.current
  BY <1>1, <1>2, <1>4 DEF TicksInv, SetsServed
<1> QED BY <1>3, <1>5

LEMMA DmaPoolIs ==
  DmaPool = <<"commands", commands.set, "dma", commands.pools[commands.set]["dma"]>>
<1>1. CommandsForDma(commands).set = commands.set /\ CommandsForDma(commands).pools = commands.pools
  BY DEF CommandsForDma, Allocated
<1> QED BY <1>1 DEF DmaPool, Pool

LEMMA JunkNames ==
  ASSUME NEW r \in JunkItems
  PROVE  /\ \A n : r # <<"meshes", n>> /\ r # <<"transient", n>>
         /\ \A f : r # <<"acquire", f>> /\ r # <<"present", f>>
<1>1. \/ \E n \in Nat : r = ConstRes(n)
      \/ \E f \in Frames : r = ContextRes(f)
      \/ \E c \in [pools : [Sets -> [Queues -> Nat]]], s \in Sets, q \in Queues : r = Pool(c, s, q)
      \/ \E g \in [made : Nat] : r = GraphRes(g)
      \/ \E g \in [made : Nat, grown : Nat] : r = DynamicRes(g)
      \/ \E s \in [chain : Nat, surface : Nat] : r = ChainRes(s)
  BY DEF JunkItems
<1>2. r[1] \in {"constants", "context", "commands", "graph", "dynamic", "swapchain"}
  BY <1>1 DEF ConstRes, ContextRes, Pool, GraphRes, DynamicRes, ChainRes
<1> QED BY <1>2

\* What is recorded is used again.
LEMMA NewLive ==
  ASSUME GfxTyped, GfxTyped', NEW u, NewUse(u), NEW r \in JunkItems, u.res = r, Retired(r)'
  PROVE  FALSE
<1>1. /\ commands.set \in Sets /\ commands.pools \in [Sets -> [Queues -> Nat]] /\ "dma" \in Queues
      /\ commands'.set = commands.set /\ commands'.pools = commands.pools /\ swapchain' = swapchain
      /\ ring.current \in Frames /\ ring'.current = ring.current
      /\ graph'.made \in Nat /\ graph'.grown \in Nat /\ swapchain.chain \in Nat /\ swapchain.surface \in Nat
  BY GfxConstants DEF GfxTyped, CommandStates, RingStates, GraphStates, SwapchainStates, NewUse, RecordingNow
<1>2. r # DmaPool
  <2> DEFINE n == commands.pools[commands.set]["dma"]
  <2>1. n \in Nat /\ n = commands'.pools[commands.set]["dma"] /\ DmaPool = <<"commands", commands.set, "dma", n>>
    BY <1>1, DmaPoolIs
  <2>2. \A s \in Sets, q \in Queues, m \in Nat : r = <<"commands", s, q, m>> => m < commands'.pools[s][q]
    BY DEF Retired
  <2> HIDE DEF n
  <2>3. r = DmaPool => n < commands'.pools[commands.set]["dma"]
    BY <2>1, <2>2, <1>1
  <2> QED BY <2>1, <2>3
<1>3. r \notin CopyRes
  BY <1>2, JunkNames DEF CopyRes
<1>4. /\ phase' = "submit"
      /\ \/ r \in Others(graph')
         \/ \E n \in Nat : r = ConstRes(n) /\ HasId(ring'.buffers[ring.current], n)
  BY <1>3 DEF NewUse
<1>5. CASE r \in Others(graph')
  <2>1. r # ContextRes(ring.current)
    BY <1>1, <1>4 DEF Retired
  <2>2. r # GraphRes(graph')
    BY <1>1 DEF Retired, GraphRes
  <2>3. r # DynamicRes(graph')
    BY <1>1 DEF Retired, DynamicRes
  <2>4. r # ChainRes(swapchain)
    BY <1>1 DEF Retired, ChainRes
  <2>5. r # AcquireSemaphore(swapchain) /\ r # PresentSemaphore(swapchain)
    BY JunkNames DEF AcquireSemaphore, PresentSemaphore
  <2> QED BY <2>1, <2>2, <2>3, <2>4, <2>5, <1>5 DEF Others
<1>6. CASE \E n \in Nat : r = ConstRes(n) /\ HasId(ring'.buffers[ring.current], n)
  BY <1>6, <1>1 DEF Retired
<1> QED BY <1>4, <1>5, <1>6

LEMMA ItemRes ==
  ASSUME GfxTyped, NEW i \in DOMAIN device.destroy_queue
  PROVE  device.destroy_queue[i].res \in JunkItems /\ device.destroy_queue[i].tick \in Nat
<1>1. device.destroy_queue \in DestroyQueues
  BY DEF GfxTyped, DeviceStates
<1> QED BY <1>1, ItemsTyped

\* The junk stays done with.
LEMMA JunkStays ==
  ASSUME GfxTyped, TicksInv, FlightInv, GfxTyped', TicksInv', FlightStep, MainKept'
  PROVE  JunkKept'
<1> SUFFICES ASSUME NEW i \in DOMAIN device'.destroy_queue
             PROVE  /\ Retired(device.destroy_queue[i].res)'
                    /\ \A u \in uses' : u.res = device'.destroy_queue[i].res =>
                         u.tick <= device'.destroy_queue[i].tick
                         /\ (u.queue = "main" \/ u.at <= device'.submitted[u.queue])
  BY DEF JunkKept
<1>1. CASE \E j \in DOMAIN device.destroy_queue : device'.destroy_queue[i] = device.destroy_queue[j]
  <2>1. PICK j \in DOMAIN device.destroy_queue : device'.destroy_queue[i] = device.destroy_queue[j]
    BY <1>1
  <2> DEFINE r == device.destroy_queue[j].res
             t == device.destroy_queue[j].tick
  <2>2. r \in JunkItems /\ Retired(r)
        /\ \A u \in uses : u.res = r => u.tick <= t /\ (u.queue = "main" \/ u.at <= device.submitted[u.queue])
    BY ItemRes DEF FlightInv, JunkKept
  <2>3. device'.destroy_queue[i].res = r /\ device'.destroy_queue[i].tick = t
    BY <2>1
  <2> HIDE DEF r, t
  <2>4. PICK s : s = r
    OBVIOUS
  <2>5. Retired(s)'
    BY <2>2, <2>4, StaysRetired
  <2>6. Retired(device.destroy_queue[i].res)'
    BY <2>5, <2>4, <2>3 DEF Retired
  <2>7. ASSUME NEW u \in uses', u.res = r
        PROVE  u.tick <= t /\ (u.queue = "main" \/ u.at <= device'.submitted[u.queue])
    <3>1. u \in uses
      <4>1. ~ NewUse(u)
        BY <2>2, <2>5, <2>4, <2>7, NewLive
      <4> QED BY <4>1 DEF FlightStep, UsesGrow
    <3>2. u.tick <= t /\ (u.queue = "main" \/ u.at <= device.submitted[u.queue])
      BY <3>1, <2>2, <2>7
    <3>3. u.queue \in Queues /\ u.at \in Nat
      BY <3>1 DEF GfxTyped
    <3>4. device.submitted[u.queue] \in Nat /\ device'.submitted[u.queue] \in Nat
          /\ device.submitted[u.queue] <= device'.submitted[u.queue]
      BY <3>3 DEF GfxTyped, DeviceStates, Timelines, FlightStep
    <3> QED BY <3>2, <3>3, <3>4
  <2> QED BY <2>3, <2>6, <2>7
<1>2. CASE /\ device'.destroy_queue[i].tick = ticks'.current
           /\ Retired(device.destroy_queue[i].res)'
           /\ OnMain(device'.destroy_queue[i].res) \/ NoneRecorded'
  <2>1. ASSUME NEW u \in uses', u.res = device'.destroy_queue[i].res
        PROVE  u.tick <= device'.destroy_queue[i].tick
               /\ (u.queue = "main" \/ u.at <= device'.submitted[u.queue])
    <3>1. u.queue \in Queues /\ u.tick <= ticks'.current
          /\ (u.at <= device'.submitted[u.queue] \/ Recording(u.queue)')
      BY DEF GfxTyped, TicksInv, UsesPending
    <3>2. CASE OnMain(device'.destroy_queue[i].res)
      BY <3>2, <3>1, <2>1, <1>2 DEF MainKept, OnMain
    <3>3. CASE NoneRecorded'
      BY <3>3, <3>1, <1>2 DEF NoneRecorded, Recording
    <3> QED BY <3>2, <3>3, <1>2
  <2> QED BY <2>1, <1>2
<1> QED BY <1>1, <1>2 DEF FlightStep, JunkGrows

LEMMA CopyNames ==
  /\ \A r \in CopyRes \ {DmaPool} : r[1] \in {"meshes", "transient"}
  /\ DmaPool[1] = "commands"
  /\ \A r : OnMain(r) => r[1] \in {"context", "acquire", "present", "constants", "graph", "dynamic", "swapchain"}
BY DEF CopyRes, DmaPool, Pool, OnMain, ContextRes, ConstRes

LEMMA MainStays ==
  ASSUME FlightInv, FlightStep
  PROVE  MainKept'
<1> SUFFICES ASSUME NEW u \in uses', OnMain(u.res) PROVE u.queue = "main"
  BY DEF MainKept, OnMain
<1>1. CASE u \in uses
  BY <1>1 DEF FlightInv, MainKept
<1>2. CASE NewUse(u)
  <2>1. ~ (u.res \in CopyRes)
    BY CopyNames
  <2> QED BY <2>1, <1>2 DEF NewUse
<1> QED BY <1>1, <1>2 DEF FlightStep, UsesGrow

LEMMA OthersNames ==
  ASSUME NEW g, NEW r \in Others(g)
  PROVE  r[1] # "commands" /\ (\A f : r = ContextRes(f) => f = ring.current)
         /\ (\A f : r \in {<<"acquire", f>>, <<"present", f>>} => f = swapchain.frame)
BY DEF Others, ContextRes, GraphRes, DynamicRes, ChainRes, AcquireSemaphore, PresentSemaphore

LEMMA SetsStay ==
  ASSUME GfxTyped, TicksInv, FlightInv, GfxTyped', FlightStep
  PROVE  SetsKept'
<1>1. commands'.set = SetOf(LastServed')
  BY DEF FlightStep, SetsGrow
<1>2. ASSUME NEW u \in uses', NEW s \in Sets, NEW q \in Queues, NEW n \in Nat, u.res = <<"commands", s, q, n>>
      PROVE  u.tick <= commands'.tick_ids[s]
  <2>1. CASE u \in uses
    <3>1. u.tick <= commands.tick_ids[s]
      BY <2>1, <1>2 DEF FlightInv, SetsKept
    <3>2. commands.tick_ids[s] <= commands'.tick_ids[s] /\ u.tick \in Nat
          /\ commands.tick_ids[s] \in Int /\ commands'.tick_ids[s] \in Int
      BY <2>1 DEF FlightStep, SetsGrow, GfxTyped, CommandStates, INVALID
    <3> QED BY <3>1, <3>2
  <2>2. CASE NewUse(u)
    <3>1. u.res = DmaPool
      <4>1. u.res[1] = "commands"
        BY <1>2
      <4>2. u.res \notin CopyRes \ {DmaPool} /\ u.res \notin Others(graph') /\ \A m : u.res # ConstRes(m)
        BY <4>1, CopyNames, OthersNames DEF ConstRes
      <4> QED BY <4>2, <2>2 DEF NewUse
    <3>2. s = commands.set
      <4>1. DmaPool[2] = commands.set
        BY DmaPoolIs
      <4> QED BY <4>1, <3>1, <1>2
    <3>3. u.tick = ticks.current /\ phase # "commands" /\ commands'.tick_ids = commands.tick_ids
      BY <2>2 DEF NewUse, RecordingNow
    <3>4. commands.tick_ids[commands.set] = ticks.current /\ ticks.current \in Nat
      BY <3>3, SetServes DEF FlightInv, GfxTyped, TickStates
    <3> QED BY <3>2, <3>3, <3>4
  <2> QED BY <2>1, <2>2 DEF FlightStep, UsesGrow
<1> QED BY <1>1, <1>2 DEF SetsKept

LEMMA ApartStays ==
  ASSUME GfxTyped, FlightInv, GfxTyped', FlightStep
  PROVE  RingApart'
<1>1. ring.made \in Nat /\ ring'.made \in Nat /\ ring.made <= ring'.made
      /\ \A f \in Frames, n \in Nat : HasId(ring'.buffers[f], n) =>
           \/ HasId(ring.buffers[f], n)
           \/ ring.made < n /\ n <= ring'.made /\ f = ring.current
  BY DEF GfxTyped, RingStates, FlightStep, RingGrows
<1>2. /\ \A f \in Frames, n \in Nat : HasId(ring.buffers[f], n) => n <= ring.made
      /\ \A f, g \in Frames, n \in Nat : HasId(ring.buffers[f], n) /\ HasId(ring.buffers[g], n) => f = g
  BY DEF FlightInv, RingApart
<1>3. \A f \in Frames, n \in Nat : HasId(ring'.buffers[f], n) => n <= ring'.made
  BY <1>1, <1>2
<1>4. ASSUME NEW f \in Frames, NEW g \in Frames, NEW n \in Nat,
             HasId(ring'.buffers[f], n), HasId(ring'.buffers[g], n)
      PROVE  f = g
  <2>1. CASE HasId(ring.buffers[f], n) /\ HasId(ring.buffers[g], n)
    BY <2>1, <1>2
  <2>2. CASE ~ HasId(ring.buffers[f], n) /\ ~ HasId(ring.buffers[g], n)
    BY <2>2, <1>1, <1>4
  <2>3. CASE HasId(ring.buffers[f], n) /\ ~ HasId(ring.buffers[g], n)
    BY <2>3, <1>1, <1>2, <1>4
  <2>4. CASE ~ HasId(ring.buffers[f], n) /\ HasId(ring.buffers[g], n)
    BY <2>4, <1>1, <1>2, <1>4
  <2> QED BY <2>1, <2>2, <2>3, <2>4
<1> QED BY <1>3, <1>4 DEF RingApart

LEMMA FramesStay ==
  ASSUME GfxTyped, FlightInv, GfxTyped', FlightStep, RingApart'
  PROVE  FramesKept'
<1>1. ring.made \in Nat /\ ring'.made \in Nat /\ ring.made <= ring'.made /\ ring.current \in Frames
  BY DEF GfxTyped, RingStates, FlightStep, RingGrows
<1>2. ASSUME NEW u \in uses', NEW f \in Frames
      PROVE  /\ u.res = ContextRes(f) => InFrame(u, f)'
             /\ \A n \in Nat : u.res = ConstRes(n) =>
                  n <= ring'.made /\ (HasId(ring'.buffers[f], n) => InFrame(u, f)')
  <2>1. CASE u \in uses
    <3>1. OnMain(u.res) => (InFrame(u, f) => InFrame(u, f)')
      <4>1. OnMain(u.res) => u.queue = "main"
        BY <2>1 DEF FlightInv, MainKept
      <4> QED BY <4>1, <2>1 DEF FlightStep, UsesMove
    <3>2. u.res = ContextRes(f) => InFrame(u, f)'
      BY <3>1, <2>1 DEF FlightInv, FramesKept, OnMain
    <3>3. ASSUME NEW n \in Nat, u.res = ConstRes(n)
          PROVE  n <= ring'.made /\ (HasId(ring'.buffers[f], n) => InFrame(u, f)')
      <4>1. n <= ring.made /\ (HasId(ring.buffers[f], n) => InFrame(u, f))
        BY <2>1, <3>3 DEF FlightInv, FramesKept
      <4>2. HasId(ring'.buffers[f], n) => HasId(ring.buffers[f], n)
        BY <4>1, <1>1 DEF FlightStep, RingGrows
      <4>3. OnMain(u.res)
        BY <3>3 DEF OnMain
      <4> QED BY <4>1, <4>2, <4>3, <3>1, <1>1
    <3> QED BY <3>2, <3>3
  <2>2. CASE NewUse(u)
    <3>1. f = ring.current => (u.queue = "main" => InFrame(u, f)')
      BY <2>2 DEF NewUse, RecordingNow, InFrame
    <3>2. ASSUME u.res = ContextRes(f) PROVE InFrame(u, f)'
      <4>1. OnMain(u.res)
        BY <3>2 DEF OnMain
      <4>2. u.res \notin CopyRes /\ \A n : u.res # ConstRes(n)
        BY <4>1, <3>2, CopyNames DEF ContextRes, ConstRes
      <4>3. u.queue = "main" /\ u.res \in Others(graph')
        BY <4>2, <2>2 DEF NewUse
      <4>4. f = ring.current
        BY <4>3, <3>2, OthersNames
      <4> QED BY <4>3, <4>4, <3>1
    <3>3. ASSUME NEW n \in Nat, u.res = ConstRes(n)
          PROVE  n <= ring'.made /\ (HasId(ring'.buffers[f], n) => InFrame(u, f)')
      <4>1. OnMain(u.res)
        BY <3>3 DEF OnMain
      <4>2. u.res \notin CopyRes /\ u.res \notin Others(graph')
        BY <4>1, <3>3, CopyNames, OthersApart
      <4>3. PICK m \in Nat : u.res = ConstRes(m) /\ HasId(ring'.buffers[ring.current], m)
        BY <4>2, <2>2 DEF NewUse
      <4>4. m = n /\ u.queue = "main"
        BY <4>3, <3>3, <4>2, <2>2 DEF ConstRes, NewUse
      <4>5. n <= ring'.made /\ (HasId(ring'.buffers[f], n) => f = ring.current)
        BY <4>3, <4>4, <1>1 DEF RingApart
      <4> QED BY <4>4, <4>5, <3>1
    <3> QED BY <3>2, <3>3
  <2> QED BY <2>1, <2>2 DEF FlightStep, UsesGrow
<1> QED BY <1>2 DEF FramesKept

LEMMA ImagesStay ==
  ASSUME GfxTyped, FlightInv, FlightStep
  PROVE  ImagesKept'
<1> SUFFICES ASSUME NEW u \in uses', NEW f \in Frames, u.res \in {<<"acquire", f>>, <<"present", f>>}
             PROVE  InImage(u, f)'
  BY DEF ImagesKept
<1>1. CASE u \in uses
  <2>1. u.queue = "main"
    BY <1>1 DEF FlightInv, MainKept, OnMain
  <2> QED BY <1>1, <2>1 DEF FlightStep, UsesMove, FlightInv, ImagesKept
<1>2. CASE NewUse(u)
  <2>1. OnMain(u.res) /\ \A n : u.res # ConstRes(n)
    BY DEF OnMain, ConstRes
  <2>2. u.res \notin CopyRes
    BY <2>1, CopyNames
  <2>3. u.res \in Others(graph') /\ phase' = "submit" /\ swapchain' = swapchain
    BY <2>1, <2>2, <1>2 DEF NewUse, RecordingNow
  <2>4. f = swapchain.frame
    BY <2>3, OthersNames
  <2> QED BY <2>3, <2>4 DEF InImage
<1> QED BY <1>1, <1>2 DEF FlightStep, UsesGrow

LEMMA FlightKeeps ==
  ASSUME GfxTyped, TicksInv, FlightInv, GfxTyped', TicksInv', FlightStep
  PROVE  FlightInv'
BY MainStays, JunkStays, SetsStay, ApartStays, FramesStay, ImagesStay DEF FlightInv

-----------------------------------------------------------------------------
(* Steps that leave some of it alone                                       *)

LEMMA RingRests ==
  ASSUME GfxTyped, ring' = ring
  PROVE  RingGrows
BY DEF GfxTyped, RingStates, RingGrows

LEMMA GraphRests ==
  ASSUME GfxTyped, graph' = graph
  PROVE  GraphGrows
BY DEF GfxTyped, GraphStates, GraphGrows

LEMMA SetsRest ==
  ASSUME GfxTyped, FlightInv, commands'.set = commands.set, commands'.pools = commands.pools,
         commands'.tick_ids = commands.tick_ids, LastServed' = LastServed
  PROVE  SetsGrow
<1>1. /\ \A s \in Sets, q \in Queues : commands.pools[s][q] \in Nat
      /\ \A s \in Sets : commands.tick_ids[s] \in Int
  BY DEF GfxTyped, CommandStates, INVALID
<1> QED BY <1>1 DEF SetsGrow, FlightInv, SetsKept

LEMMA ServedRests ==
  ASSUME ticks' = ticks, phase # "commands", phase' # "commands"
  PROVE  LastServed' = LastServed
BY DEF LastServed

\* The phases in which a frame has recorded, and in which it holds an image.
LEMMA MoveRests ==
  ASSUME ring'.timelines = ring.timelines, ring'.current = ring.current,
         swapchain'.previous = swapchain.previous, swapchain'.frame = swapchain.frame,
         phase \in {"submit", "dead"} => phase' \in {"submit", "dead"},
         phase \in {"reset", "present"} => phase' \in {"submit", "dead", "reset", "present"}
  PROVE  UsesMove
BY DEF UsesMove, InFrame, InImage

LEMMA QueueRests ==
  ASSUME \/ device'.destroy_queue = device.destroy_queue
         \/ \A i \in DOMAIN device'.destroy_queue :
              \E j \in DOMAIN device.destroy_queue : device'.destroy_queue[i] = device.destroy_queue[j]
  PROVE  JunkGrows
BY DEF JunkGrows

LEMMA EnqueuedAre ==
  ASSUME NEW d \in DeviceStates, NEW items \in Seq(JunkItems),
         NEW i \in DOMAIN Enqueued(d, items).destroy_queue
  PROVE  \/ \E j \in DOMAIN d.destroy_queue : Enqueued(d, items).destroy_queue[i] = d.destroy_queue[j]
         \/ /\ Enqueued(d, items).destroy_queue[i].tick = d.tick
            /\ \E j \in DOMAIN items : Enqueued(d, items).destroy_queue[i].res = items[j]
<1> DEFINE old == d.destroy_queue
           more == [j \in DOMAIN items |-> [res |-> items[j], tick |-> d.tick]]
           new == old \o more
           S == [res : JunkItems, tick : Nat]
<1>1. old \in Seq(S) /\ d.tick \in Nat
  BY DEF DeviceStates, DestroyQueues
<1>2. Enqueued(d, items).destroy_queue = new
  BY DEF Enqueued, DeviceStates
<1>3. Len(items) \in Nat /\ DOMAIN items = 1 .. Len(items) /\ \A j \in 1 .. Len(items) : items[j] \in JunkItems
  OBVIOUS
<1> HIDE DEF old
<1>4. /\ more \in Seq(S) /\ Len(more) = Len(items)
      /\ \A j \in 1 .. Len(items) : more[j].tick = d.tick /\ more[j].res = items[j]
  <2>1. more \in [1 .. Len(items) -> S]
    BY <1>1, <1>3
  <2>2. \A j \in 1 .. Len(items) : more[j].tick = d.tick /\ more[j].res = items[j]
    BY <1>3
  <2> HIDE DEF S, more
  <2>3. more \in Seq(S) /\ Len(more) = Len(items)
    BY <2>1, <1>3
  <2> QED BY <2>2, <2>3
<1> HIDE DEF more, S
<1>5. /\ Len(old) \in Nat /\ DOMAIN old = 1 .. Len(old) /\ DOMAIN new = 1 .. Len(old) + Len(more)
      /\ \A j \in 1 .. Len(old) + Len(more) : new[j] = IF j <= Len(old) THEN old[j] ELSE more[j - Len(old)]
  <2>0. old \in Seq(S) /\ more \in Seq(S)
    BY <1>1, <1>4
  <2>1. Len(old) \in Nat /\ DOMAIN old = 1 .. Len(old)
    BY <2>0
  <2>2. new \in Seq(S) /\ Len(new) = Len(old) + Len(more)
    BY <2>0, ConcatProperties
  <2>3. \A j \in 1 .. Len(old) + Len(more) : new[j] = IF j <= Len(old) THEN old[j] ELSE more[j - Len(old)]
    BY <2>0, ConcatProperties
  <2> HIDE DEF new
  <2>4. DOMAIN new = 1 .. Len(old) + Len(more)
    BY <2>2
  <2> QED BY <2>1, <2>3, <2>4
<1> HIDE DEF new
<1>6. i \in 1 .. Len(old) + Len(items)
  BY <1>2, <1>4, <1>5
<1>7. CASE i <= Len(old)
  <2>1. i \in DOMAIN old /\ new[i] = old[i]
    BY <1>4, <1>5, <1>6, <1>7
  <2> QED BY <2>1, <1>2 DEF old
<1>8. CASE ~ (i <= Len(old))
  <2>1. i - Len(old) \in 1 .. Len(items) /\ new[i] = more[i - Len(old)]
    BY <1>3, <1>4, <1>5, <1>6, <1>8
  <2> DEFINE j == i - Len(old)
  <2>2. j \in DOMAIN items /\ new[i].tick = d.tick /\ new[i].res = items[j]
    BY <2>1, <1>3, <1>4
  <2> HIDE DEF j
  <2> QED BY <2>2, <1>2
<1> QED BY <1>7, <1>8

\* What is queued waits behind the others.
LEMMA JunkWaits ==
  ASSUME NEW d \in DeviceStates, d.destroy_queue = device.destroy_queue, d.tick = ticks'.current,
         NEW items \in Seq(JunkItems), device' = Enqueued(d, items),
         \A i \in DOMAIN items : OnMain(items[i]) \/ NoneRecorded',
         \A r : (\E i \in DOMAIN items : items[i] = r) => Retired(r)'
  PROVE  JunkGrows
<1> SUFFICES ASSUME NEW i \in DOMAIN device'.destroy_queue
             PROVE  \/ \E j \in DOMAIN device.destroy_queue : device'.destroy_queue[i] = device.destroy_queue[j]
                    \/ /\ device'.destroy_queue[i].tick = ticks'.current
                       /\ Retired(device.destroy_queue[i].res)'
                       /\ OnMain(device'.destroy_queue[i].res) \/ NoneRecorded'
  BY DEF JunkGrows
<1>1. \/ \E j \in DOMAIN device.destroy_queue : device'.destroy_queue[i] = device.destroy_queue[j]
      \/ /\ device'.destroy_queue[i].tick = ticks'.current
         /\ \E j \in DOMAIN items : device'.destroy_queue[i].res = items[j]
  BY EnqueuedAre
<1>2. CASE /\ device'.destroy_queue[i].tick = ticks'.current
           /\ \E j \in DOMAIN items : device'.destroy_queue[i].res = items[j]
  <2>1. PICK j \in DOMAIN items : device'.destroy_queue[i].res = items[j]
    BY <1>2
  <2>2. PICK r : r = device'.destroy_queue[i].res
    OBVIOUS
  <2>3. Retired(r)'
    BY <2>1, <2>2
  <2>4. Retired(device.destroy_queue[i].res)'
    BY <2>2, <2>3 DEF Retired
  <2> QED BY <2>1, <2>4, <1>2
<1> QED BY <1>1, <1>2

-----------------------------------------------------------------------------
(* The steps one by one                                                    *)

Flies == FlightStep /\ InFlightKept'

LEMMA SubmittedRests ==
  ASSUME GfxTyped, device'.submitted = device.submitted
  PROVE  \A q \in Queues : device.submitted[q] <= device'.submitted[q]
BY DEF GfxTyped, DeviceStates, Timelines

\* Items of completed ticks are destroyed.
LEMMA StartTickFlies ==
  ASSUME GfxTyped, TicksInv, FlightInv, GfxTyped', TicksInv', StartTick
  PROVE  Flies
<1> DEFINE d == ObservedNow(device)
           c == StartedNext.completed
           e == Processed(d, c)
<1>1. /\ phase = "idle" /\ phase' = "commands"
      /\ ticks' = StartedNext /\ passed' = c /\ c = ticks'.completed
      /\ released' = Destroyed(device, c)
      /\ device' = [e EXCEPT !.tick = ticks'.current]
      /\ UNCHANGED <<uses, commands, ring, swapchain, graph>>
  BY DEF StartTick, Goto, frameVars, recordVars
<1>2. c \in Nat /\ ticks'.current = ticks.current + 1 /\ ticks.current \in Nat
  <2>1. ticks'.current = ticks.current + 1
    BY <1>1 DEF StartedNext, StartedWith
  <2> QED BY <2>1, <1>1 DEF GfxTyped, TickStates
<1>3. d \in DeviceStates /\ d.destroy_queue = device.destroy_queue /\ d.submitted = device.submitted
  BY DeviceKnown DEF ObservedNow, GfxTyped, DeviceStates
<1> HIDE DEF d, c
<1>4. /\ e \in DeviceStates /\ e.submitted = device.submitted
      /\ \A i \in DOMAIN e.destroy_queue : \E j \in DOMAIN d.destroy_queue : e.destroy_queue[i] = d.destroy_queue[j]
  BY <1>2, <1>3, ProcessedQueue
<1> HIDE DEF e
<1>5. device'.destroy_queue = e.destroy_queue /\ device'.submitted = device.submitted
  BY <1>1, <1>4 DEF DeviceStates
<1>6. JunkGrows
  BY <1>3, <1>4, <1>5, QueueRests
<1>7. SetsGrow
  <2>1. LastServed' = LastServed
    BY <1>1, <1>2 DEF LastServed
  <2> QED BY <2>1, <1>1, SetsRest
<1>8. UsesMove
  BY <1>1, MoveRests
<1>9. UsesGrow
  BY <1>1 DEF UsesGrow
<1>10. FlightStep
  BY <1>1, <1>5, <1>6, <1>7, <1>8, <1>9, RingRests, GraphRests, SubmittedRests DEF FlightStep, GfxTyped, SwapchainStates
<1>11. ASSUME NEW u \in uses', u.res \in released' PROVE FALSE
  <2>1. device.destroy_queue \in DestroyQueues /\ u \in uses
    BY <1>1 DEF GfxTyped, DeviceStates
  <2>2. PICK i \in 1 .. SafeCount(device.destroy_queue, c) : u.res = device.destroy_queue[i].res
    BY <1>1, <1>11 DEF Destroyed
  <2>3. i \in DOMAIN device.destroy_queue /\ device.destroy_queue[i].tick <= c
    <3>1. SafeCount(device.destroy_queue, c) \in 0 .. Len(device.destroy_queue)
      BY <2>1, <1>2, SafeItems
    <3>2. i \in 1 .. Len(device.destroy_queue)
      BY <3>1, <2>1, ItemsTyped
    <3>3. device.destroy_queue[i].tick <= c
      BY <2>1, <1>2, SafeItems
    <3> QED BY <3>2, <3>3, <2>1, ItemsTyped
  <2>4. u.tick <= device.destroy_queue[i].tick
    BY <2>1, <2>2, <2>3 DEF FlightInv, JunkKept
  <2>5. c < u.tick /\ u.tick \in Nat
    BY <1>1, <1>11 DEF TicksInv, UsesPending, GfxTyped
  <2>6. device.destroy_queue[i].tick \in Nat
    BY <2>3, ItemRes
  <2> QED BY <2>3, <2>4, <2>5, <2>6, <1>2
<1> QED BY <1>10, <1>11 DEF Flies, InFlightKept

\* The pools of the set are those of a completed tick.
LEMMA BeginCommandsFlies ==
  ASSUME GfxTyped, TicksInv, FlightInv, GfxTyped', TicksInv', BeginCommands
  PROVE  Flies
<1> DEFINE s == SetOf(ticks.current)
           old == commands.tick_ids[s]
<1>1. /\ phase = "commands" /\ phase' = "transient"
      /\ IF old > passed
         THEN CanReturnTick(old) /\ device' = WaitedTickDevice(device, old) /\ ticks' = WaitedTick(old)
         ELSE UNCHANGED <<device, ticks>>
      /\ commands' = [commands EXCEPT !.set = s, !.tick_ids[s] = ticks.current]
      /\ released' = ResetPools(commands')
      /\ UNCHANGED <<uses, ring, swapchain, graph, passed>>
  BY DEF BeginCommands, MustWait, Exchanged, Goto, frameVars
<1>2. /\ ticks.current \in Nat /\ ticks.completed \in Nat /\ passed \in Nat /\ passed <= ticks.completed
      /\ commands \in CommandStates /\ INVALID = -1
      /\ \A t \in Sets : commands.tick_ids[t] <= ticks.current - 1
  BY <1>1 DEF GfxTyped, TickStates, TicksInv, TicksPacked, SetsServed, LastServed, INVALID
<1>3. s \in Sets
  BY <1>2, GfxConstants, ModRange DEF Sets, SetOf
<1>4. /\ commands.tick_ids \in [Sets -> Nat \cup {INVALID}]
      /\ commands.pools \in [Sets -> [Queues -> Nat]]
  BY <1>2 DEF CommandStates
<1>5. old \in Int /\ old <= ticks.current - 1
  BY <1>2, <1>3, <1>4
<1>6. /\ commands'.set = s /\ commands'.pools = commands.pools
      /\ commands'.tick_ids = [commands.tick_ids EXCEPT ![s] = ticks.current]
  BY <1>1, <1>2, <1>3 DEF CommandStates
<1>7. /\ device'.destroy_queue = device.destroy_queue /\ device'.submitted = device.submitted
      /\ ticks'.current = ticks.current /\ ticks'.completed >= old
  <2>1. CASE old > passed
    <3>1. device' = WaitedTickDevice(device, old) /\ ticks' = WaitedTick(old)
      BY <2>1, <1>1
    <3>2. device'.destroy_queue = device.destroy_queue /\ device'.submitted = device.submitted
      BY <3>1 DEF WaitedTickDevice, WaitedAll, GfxTyped, DeviceStates
    <3>3. ticks'.current = ticks.current /\ ticks'.completed >= old
      <4>1. CASE old <= ticks.completed
        BY <4>1, <3>1, <1>2, <1>5 DEF WaitedTick
      <4>2. CASE ~ (old <= ticks.completed)
        <5> HIDE DEF old
        <5>1. ticks \in TickStates
          BY DEF GfxTyped
        <5>2. ticks' = [ticks EXCEPT !.packs = SubSeq(@, 1, PackOf(old)), !.completed = old]
          BY <4>2, <3>1 DEF WaitedTick
        <5> QED BY <5>1, <5>2, <1>5 DEF TickStates
      <4> QED BY <4>1, <4>2
    <3> QED BY <3>2, <3>3
  <2>2. CASE ~ (old > passed)
    BY <2>2, <1>1, <1>2, <1>5
  <2> QED BY <2>1, <2>2
<1>8. SetsGrow
  <2>1. LastServed' = ticks.current /\ commands'.set = SetOf(LastServed')
    BY <1>1, <1>6, <1>7 DEF LastServed
  <2>2. ASSUME NEW t \in Sets PROVE commands.tick_ids[t] <= commands'.tick_ids[t]
    <3>1. commands.tick_ids[t] \in Int /\ commands.tick_ids[t] <= ticks.current - 1
      BY <1>2, <1>4
    <3>2. commands'.tick_ids[t] = IF t = s THEN ticks.current ELSE commands.tick_ids[t]
      BY <1>6, <1>4
    <3> HIDE DEF s
    <3> QED BY <3>1, <3>2, <1>2
  <2> QED BY <2>1, <2>2, <1>4, <1>6 DEF SetsGrow
<1>9. JunkGrows
  BY <1>7, QueueRests
<1>10. UsesMove
  BY <1>1, MoveRests
<1>11. UsesGrow
  BY <1>1 DEF UsesGrow
<1>12. FlightStep
  BY <1>1, <1>7, <1>8, <1>9, <1>10, <1>11, RingRests, GraphRests, SubmittedRests DEF FlightStep, GfxTyped, SwapchainStates
<1>13. ASSUME NEW u \in uses', u.res \in released' PROVE FALSE
  <2>1. PICK q \in Queues : u.res = <<"commands", s, q, commands.pools[s][q]>>
    BY <1>1, <1>6, <1>13 DEF ResetPools, Pool
  <2>2. commands.pools[s][q] \in Nat /\ u \in uses
    BY <1>1, <1>3, <1>4
  <2>3. u.tick <= old
    BY <2>1, <2>2, <1>3 DEF FlightInv, SetsKept
  <2>4. ticks'.completed < u.tick /\ u.tick \in Nat /\ ticks'.completed \in Nat
    BY DEF TicksInv, UsesPending, GfxTyped, TickStates
  <2> QED BY <2>3, <2>4, <1>5, <1>7
<1> QED BY <1>12, <1>13 DEF Flies, InFlightKept

LEMMA BeginTransientFlies ==
  ASSUME GfxTyped, TicksInv, MeshInv, FlightInv, BeginTransient
  PROVE  Flies
<1>1. /\ phase = "transient" /\ phase' = "meshes"
      /\ UNCHANGED <<device, ticks, uses, commands, ring, swapchain, graph>>
  BY DEF BeginTransient, Goto, frameVars
<1>2. UsesGrow /\ JunkGrows
  BY <1>1, QueueRests DEF UsesGrow
<1>3. SetsGrow
  BY <1>1, ServedRests, SetsRest
<1>4. UsesMove
  BY <1>1, MoveRests
<1>5. FlightStep
  BY <1>1, <1>2, <1>3, <1>4, RingRests, GraphRests, SubmittedRests DEF FlightStep, GfxTyped, SwapchainStates
<1>6. InFlightKept'
  BY BeginTransientMeshes DEF InFlightKept
<1> QED BY <1>5, <1>6 DEF Flies

\* The semaphores are those of a frame that has been waited for.
LEMMA AwaitFrameFlies ==
  ASSUME GfxTyped, TicksInv, FlightInv, TicksInv', AwaitFrame
  PROVE  Flies
<1> DEFINE value == swapchain.previous[swapchain.frame]
<1>1. /\ phase = "acquire" /\ phase' = "acquiring"
      /\ CanReturn(device, "main", value)
      /\ device' = Waited(device, "main", value)
      /\ swapchain' = [swapchain EXCEPT !.retries = 0]
      /\ released' = {AcquireSemaphore(swapchain), PresentSemaphore(swapchain)}
      /\ UNCHANGED <<finished, ticks, uses, commands, ring, graph>>
  BY DEF AwaitFrame, Goto, recordVars
<1>2. /\ swapchain \in SwapchainStates /\ swapchain.frame \in Frames /\ value \in Nat
      /\ swapchain.chain \in Nat
  BY DEF GfxTyped, SwapchainStates
<1>3. /\ swapchain'.previous = swapchain.previous /\ swapchain'.frame = swapchain.frame
      /\ swapchain'.chain = swapchain.chain
  BY <1>1, <1>2 DEF SwapchainStates
<1>4. device'.destroy_queue = device.destroy_queue /\ device'.submitted = device.submitted
  BY <1>1 DEF Waited, GfxTyped, DeviceStates
<1>5. UsesGrow /\ JunkGrows
  BY <1>1, <1>4, QueueRests DEF UsesGrow
<1>6. SetsGrow
  BY <1>1, ServedRests, SetsRest
<1>7. UsesMove
  BY <1>1, <1>3, MoveRests
<1>8. FlightStep
  BY <1>1, <1>2, <1>3, <1>4, <1>5, <1>6, <1>7, RingRests, GraphRests, SubmittedRests DEF FlightStep
<1>9. ASSUME NEW u \in uses', u.res \in released' PROVE FALSE
  <2>1. u \in uses /\ u.res \in {<<"acquire", swapchain.frame>>, <<"present", swapchain.frame>>}
    BY <1>1, <1>9 DEF AcquireSemaphore, PresentSemaphore
  <2>2. u.at <= value
    BY <2>1, <1>1, <1>2 DEF FlightInv, ImagesKept, InImage
  <2>3. u.queue = "main"
    BY <2>1, <1>2 DEF FlightInv, MainKept, OnMain
  <2>4. finished["main"] < u.at /\ u.at \in Nat /\ finished["main"] \in Nat /\ device.observed["main"] \in Nat
        /\ device.observed["main"] <= finished["main"]
    BY <2>1, <2>3, GfxConstants, DeviceKnown DEF TicksInv, UsesPending, GfxTyped, Timelines
  <2>5. value <= finished["main"]
    BY <1>1, <1>2, <2>4 DEF CanReturn
  <2> QED BY <2>2, <2>4, <2>5, <1>2
<1> QED BY <1>8, <1>9 DEF Flies, InFlightKept

LEMMA AcquireFlies ==
  ASSUME GfxTyped, TicksInv, FlightInv, Acquire
  PROVE  Flies
<1>1. /\ phase = "acquiring" /\ phase' = "record"
      /\ swapchain' = [swapchain EXCEPT !.acquired = TRUE]
      /\ released' = {}
      /\ UNCHANGED <<device, ticks, uses, commands, ring, graph>>
  BY DEF Acquire, Goto, recordVars
<1>2. swapchain \in SwapchainStates /\ swapchain.chain \in Nat
  BY DEF GfxTyped, SwapchainStates
<1>3. /\ swapchain'.previous = swapchain.previous /\ swapchain'.frame = swapchain.frame
      /\ swapchain'.chain = swapchain.chain
  BY <1>1, <1>2 DEF SwapchainStates
<1>4. UsesGrow /\ JunkGrows
  BY <1>1, QueueRests DEF UsesGrow
<1>5. SetsGrow
  BY <1>1, ServedRests, SetsRest
<1>6. UsesMove
  BY <1>1, <1>3, MoveRests
<1>7. FlightStep
  BY <1>1, <1>2, <1>3, <1>4, <1>5, <1>6, RingRests, GraphRests, SubmittedRests DEF FlightStep
<1> QED BY <1>1, <1>7 DEF Flies, InFlightKept

\* The GPU goes on.
LEMMA GpuFlies ==
  ASSUME GfxTyped, TicksInv, FlightInv, NEW q \in Queues, Gpu(q)
  PROVE  Flies
<1>1. /\ released' = {} /\ uses' \subseteq uses
      /\ UNCHANGED <<device, ticks, commands, ring, swapchain, graph, phase>>
  BY DEF Gpu, GpuFinish, recordVars, frameVars
<1>2. UsesGrow /\ JunkGrows
  BY <1>1, QueueRests DEF UsesGrow
<1>3. LastServed' = LastServed
  BY <1>1 DEF LastServed
<1>4. SetsGrow
  BY <1>1, <1>3, SetsRest
<1>5. UsesMove
  BY <1>1, MoveRests
<1>6. FlightStep
  BY <1>1, <1>2, <1>4, <1>5, RingRests, GraphRests, SubmittedRests DEF FlightStep, GfxTyped, SwapchainStates
<1> QED BY <1>1, <1>6 DEF Flies, InFlightKept

\* What is submitted is kept by the timeline of its context.
LEMMA SubmitFlies ==
  ASSUME GfxTyped, TicksInv, FlightInv, GfxTyped', TicksInv', Submit
  PROVE  Flies
<1> DEFINE value == device'.submitted["main"]
           c == (ring.current + 1) % MAX_PENDING_FRAMES
<1>1. /\ phase = "submit" /\ phase' = "reset"
      /\ device' = Submitted(device, "main")
      /\ ring' = Advanced(ring, value)
      /\ released' = {}
      /\ UNCHANGED <<ticks, uses, commands, swapchain, graph>>
  BY DEF Submit, Goto, recordVars
<1>2. /\ device'.submitted = [device.submitted EXCEPT !["main"] = @ + 1]
      /\ device'.destroy_queue = device.destroy_queue
      /\ device.submitted \in Timelines
  BY <1>1, DeviceKnown, GfxConstants, SubmittedGrows
<1>3. /\ \A q \in Queues : device.submitted[q] \in Nat /\ device.submitted[q] <= device'.submitted[q]
      /\ device'.submitted["main"] = device.submitted["main"] + 1
  BY <1>2, GfxConstants DEF Timelines
<1>4. ring \in RingStates /\ ring.current \in Frames /\ ring.timelines \in [Frames -> Nat] /\ ring.made \in Nat
  BY DEF GfxTyped, RingStates
<1>5. /\ ring'.timelines = [ring.timelines EXCEPT ![ring.current] = value]
      /\ ring'.buffers = ring.buffers /\ ring'.made = ring.made
  <2> DEFINE t == [ring.timelines EXCEPT ![ring.current] = value]
  <2>1. ring' = [ring EXCEPT !.timelines = t, !.current = c]
    BY <1>1 DEF Advanced
  <2> HIDE DEF t, c
  <2> QED BY <2>1, <1>4 DEF RingStates, t
<1>6. RingGrows
  BY <1>4, <1>5 DEF RingGrows
<1>7. UsesMove
  <2> SUFFICES ASSUME NEW u \in uses, NEW f \in Frames, u.queue = "main"
               PROVE  (InFrame(u, f) => InFrame(u, f)') /\ (InImage(u, f) => InImage(u, f)')
    BY DEF UsesMove
  <2>1. InImage(u, f) => InImage(u, f)'
    BY <1>1 DEF InImage
  <2>2. u.at <= value
    BY <1>3 DEF TicksInv, UsesPending, GfxTyped
  <2>3. InFrame(u, f) => InFrame(u, f)'
    <3>1. CASE f = ring.current
      BY <3>1, <2>2, <1>4, <1>5 DEF InFrame
    <3>2. CASE f # ring.current
      BY <3>2, <1>4, <1>5 DEF InFrame
    <3> QED BY <3>1, <3>2
  <2> QED BY <2>1, <2>3
<1>8. UsesGrow /\ JunkGrows
  BY <1>1, <1>2, QueueRests DEF UsesGrow
<1>9. SetsGrow
  BY <1>1, ServedRests, SetsRest
<1>10. FlightStep
  BY <1>1, <1>3, <1>6, <1>7, <1>8, <1>9, GraphRests DEF FlightStep, GfxTyped, SwapchainStates
<1> QED BY <1>1, <1>10 DEF Flies, InFlightKept

-----------------------------------------------------------------------------
(* Faults, and what is thrown away                                         *)

\* The state s of the swapchain follows the frames that are done with.
ImagesIn(s) ==
  \A u \in uses, f \in Frames : u.queue = "main" /\ InImage(u, f) => u.at <= s.previous[f]

FaultPhase ==
  /\ phase \in {"acquiring", "present"} /\ phase' \in {"acquiring", "end", "dead"}
  /\ UNCHANGED <<ticks, uses, commands, ring, graph>>

LEMMA FaultFlies ==
  ASSUME GfxTyped, TicksInv, FlightInv, FaultPhase, NEW s, ImagesIn(s), swapchain'.previous = s.previous,
         swapchain.chain <= swapchain'.chain, device'.submitted = device.submitted, JunkGrows
  PROVE  FlightStep
<1>1. UsesGrow
  BY DEF UsesGrow, FaultPhase
<1>2. SetsGrow
  BY ServedRests, SetsRest DEF FaultPhase
<1>3. UsesMove
  <2> SUFFICES ASSUME NEW u \in uses, NEW f \in Frames, u.queue = "main"
               PROVE  (InFrame(u, f) => InFrame(u, f)') /\ (InImage(u, f) => InImage(u, f)')
    BY DEF UsesMove
  <2>1. InFrame(u, f) => InFrame(u, f)'
    BY DEF InFrame, FaultPhase
  <2>2. InImage(u, f) => InImage(u, f)'
    <3>1. InImage(u, f) => u.at <= s.previous[f]
      BY DEF ImagesIn
    <3> QED BY <3>1 DEF InImage
  <2> QED BY <2>1, <2>2
<1>4. RingGrows /\ GraphGrows
  BY RingRests, GraphRests DEF FaultPhase
<1>5. \A q \in Queues : device.submitted[q] <= device'.submitted[q]
  BY SubmittedRests
<1> QED BY <1>1, <1>2, <1>3, <1>4, <1>5 DEF FlightStep, FaultPhase

\* An idle device is done with everything but copies that are being recorded.
LEMMA IdleDone ==
  ASSUME GfxTyped, TicksInv, FlightInv, Idle, phase \notin {"submit", "dead"}, NEW u \in uses
  PROVE  /\ u.res \notin ForceDestroyed(device)
         /\ u.queue # "main"
<1>1. /\ u.queue \in Queues /\ finished[u.queue] < u.at
      /\ u.at <= device.submitted[u.queue] \/ Recording(u.queue)
      /\ u.at \in Nat /\ finished[u.queue] \in Nat /\ finished[u.queue] = device.submitted[u.queue]
  BY DEF GfxTyped, Timelines, TicksInv, UsesPending, Idle
<1>2. u.queue # "main"
  BY <1>1 DEF Recording
<1>3. ~ (u.at <= device.submitted[u.queue])
  BY <1>1
<1>4. u.res \notin ForceDestroyed(device)
  BY <1>2, <1>3 DEF ForceDestroyed, FlightInv, JunkKept
<1> QED BY <1>2, <1>4

LEMMA ChainOnMain ==
  ASSUME NEW s \in SwapchainStates
  PROVE  OnMain(ChainRes(s))
BY DEF OnMain, ChainRes, SwapchainStates

LEMMA OutdateFlies ==
  ASSUME GfxTyped, TicksInv, FlightInv, FaultPhase, NEW s \in SwapchainStates, ImagesIn(s), SameChain(s),
         GfxTyped', Outdate(s)
  PROVE  Flies
<1>1. swapchain' \in Recreated(s) /\ device' = Enqueued(device, <<ChainRes(s)>>) /\ released' = {}
  BY DEF Outdate
<1>2. /\ swapchain'.previous = s.previous /\ swapchain'.chain = s.chain + 1 /\ s.chain = swapchain.chain
      /\ s.chain \in Nat
  BY <1>1, RecreatedNear DEF SameChain, SwapchainStates
<1>3. /\ device \in DeviceStates /\ device.tick = ticks'.current /\ device'.submitted = device.submitted
  <2>1. device.tick = ticks.current /\ ticks' = ticks
    BY DEF TicksInv, JunkOrdered, FaultPhase
  <2> QED BY <2>1, <1>1, ChainJunk, EnqueuedItems DEF GfxTyped
<1>4. JunkGrows
  <2> DEFINE items == <<ChainRes(s)>>
  <2>1. items \in Seq(JunkItems) /\ DOMAIN items = {1} /\ items[1] = ChainRes(s)
    BY ChainJunk
  <2>2. \A i \in DOMAIN items : OnMain(items[i]) \/ NoneRecorded'
    BY <2>1, ChainOnMain
  <2>3. ASSUME NEW r, \E i \in DOMAIN items : items[i] = r PROVE Retired(r)'
    <3>1. r = <<"swapchain", s.chain, s.surface>>
      BY <2>1, <2>3 DEF ChainRes
    <3> QED BY <3>1, <1>2 DEF Retired, ContextRes, ConstRes
  <2>4. device' = Enqueued(device, items)
    BY <1>1
  <2> HIDE DEF items
  <2> QED BY <2>1, <2>2, <2>3, <2>4, <1>3, JunkWaits
<1>5. FlightStep
  BY <1>2, <1>3, <1>4, FaultFlies
<1> QED BY <1>1, <1>5 DEF Flies, InFlightKept

LEMMA ForcedFlies ==
  ASSUME GfxTyped, TicksInv, FlightInv, FaultPhase, NEW s \in SwapchainStates, ImagesIn(s),
         swapchain'.previous = s.previous, swapchain.chain <= swapchain'.chain,
         Idle, device' = Forced(device), released' = ForceDestroyed(device) \cup {ChainRes(s)}
  PROVE  Flies
<1>1. device'.destroy_queue = <<>> /\ device'.submitted = device.submitted
  BY ForcedQuiet DEF DeviceQuiet
<1>2. JunkGrows
  BY <1>1 DEF JunkGrows
<1>3. FlightStep
  BY <1>1, <1>2, FaultFlies
<1>4. ASSUME NEW u \in uses', u.res \in released' PROVE FALSE
  <2>1. u \in uses /\ phase \notin {"submit", "dead"}
    BY DEF FaultPhase
  <2>2. u.res \notin ForceDestroyed(device) /\ u.queue # "main"
    BY <2>1, IdleDone
  <2>3. u.res # ChainRes(s)
    BY <2>1, <2>2, ChainOnMain DEF FlightInv, MainKept
  <2> QED BY <2>2, <2>3, <1>4
<1> QED BY <1>3, <1>4 DEF Flies, InFlightKept

LEMMA LoseSurfaceFlies ==
  ASSUME GfxTyped, TicksInv, FlightInv, FaultPhase, NEW s \in SwapchainStates, ImagesIn(s), SameChain(s),
         LoseSurface(s)
  PROVE  Flies
<1>1. /\ swapchain' \in Resurfaced(s) /\ Idle /\ device' = Forced(device)
      /\ released' = ForceDestroyed(device) \cup {ChainRes(s)}
  BY DEF LoseSurface
<1>2. PICK r \in Recreated(s) : swapchain' = [r EXCEPT !.surface = @ + 1]
  BY <1>1 DEF Resurfaced
<1>3. /\ r \in SwapchainStates /\ r.previous = s.previous /\ r.chain = s.chain + 1
      /\ s.chain = swapchain.chain /\ s.chain \in Nat
  BY RecreatedNear DEF SameChain, SwapchainStates
<1>4. swapchain'.previous = s.previous /\ swapchain'.chain = s.chain + 1
  BY <1>2, <1>3 DEF SwapchainStates
<1> QED BY <1>1, <1>3, <1>4, ForcedFlies

LEMMA BreakFlies ==
  ASSUME GfxTyped, TicksInv, FlightInv, FaultPhase, NEW s \in SwapchainStates, ImagesIn(s), SameChain(s),
         Break(s)
  PROVE  Flies
<1>1. /\ swapchain' = Broken(s) /\ Idle /\ device' = Forced(device)
      /\ released' = ForceDestroyed(device) \cup {ChainRes(s)}
  BY DEF Break
<1>2. /\ swapchain'.previous = s.previous /\ swapchain'.chain = s.chain
      /\ s.chain = swapchain.chain /\ s.chain \in Nat
  BY <1>1 DEF Broken, SameChain, SwapchainStates
<1> QED BY <1>1, <1>2, ForcedFlies

LEMMA ReacquireFlies ==
  ASSUME GfxTyped, TicksInv, FlightInv, GfxTyped', Reacquire
  PROVE  Flies
<1> DEFINE again == [swapchain EXCEPT !.retries = @ + 1]
<1>1. /\ phase = "acquiring"
      /\ UNCHANGED <<ticks, uses, commands, ring, graph>>
      /\ \/ (Outdate(again) \/ LoseSurface(again)) /\ phase' = "acquiring"
         \/ Break(swapchain) /\ phase' = "dead"
  BY DEF Reacquire, Break, Goto, recordVars
<1>2. FaultPhase
  BY <1>1 DEF FaultPhase
<1>3. swapchain \in SwapchainStates /\ again \in SwapchainStates
  BY DEF GfxTyped, SwapchainStates
<1>4. SameChain(swapchain) /\ SameChain(again) /\ again.previous = swapchain.previous
  BY <1>3 DEF SameChain, SwapchainStates
<1> HIDE DEF again
<1>5. ImagesIn(swapchain)
  BY <1>1 DEF ImagesIn, InImage
<1>6. ImagesIn(again)
  BY <1>4, <1>5 DEF ImagesIn
<1>7. CASE Outdate(again)
  BY <1>2, <1>3, <1>4, <1>6, <1>7, OutdateFlies
<1>8. CASE LoseSurface(again)
  BY <1>2, <1>3, <1>4, <1>6, <1>8, LoseSurfaceFlies
<1>9. CASE Break(swapchain)
  BY <1>2, <1>3, <1>4, <1>5, <1>9, BreakFlies
<1> QED BY <1>1, <1>7, <1>8, <1>9

\* The semaphores of a presented frame are kept by what has been submitted.
LEMMA PresentFlies ==
  ASSUME GfxTyped, TicksInv, FlightInv, GfxTyped', Present
  PROVE  Flies
<1> DEFINE s == Presented(swapchain, device.submitted["main"])
           value == device.submitted["main"]
<1>1. /\ phase = "present"
      /\ UNCHANGED <<ticks, uses, commands, ring, graph>>
      /\ \/ swapchain' = s /\ released' = {} /\ device' = device /\ phase' = "end"
         \/ (Outdate(s) \/ LoseSurface(s)) /\ phase' = "end"
         \/ Break(s) /\ phase' = "dead"
  BY DEF Present, Break, Goto, recordVars
<1>2. FaultPhase
  BY <1>1 DEF FaultPhase
<1>3. s \in SwapchainStates
  BY PresentedNear DEF CloseTo
<1>4. swapchain \in SwapchainStates
  BY DEF GfxTyped
<1>5. SameChain(s) /\ s.previous = [swapchain.previous EXCEPT ![swapchain.frame] = value]
  <2> DEFINE p == [swapchain.previous EXCEPT ![swapchain.frame] = value]
             m == (swapchain.frame + 1) % MAX_PENDING_FRAMES
  <2>1. s = [swapchain EXCEPT !.previous = p, !.acquired = FALSE, !.frame = m]
    BY DEF Presented
  <2> HIDE DEF p, m, s
  <2>2. SameChain(s) /\ s.previous = p
    BY <2>1, <1>4 DEF SameChain, SwapchainStates
  <2> QED BY <2>2 DEF p
<1> HIDE DEF s
<1>6. ImagesIn(s)
  <2> SUFFICES ASSUME NEW u \in uses, NEW f \in Frames, u.queue = "main", InImage(u, f)
               PROVE  u.at <= s.previous[f]
    BY DEF ImagesIn
  <2>1. swapchain.previous \in [Frames -> Nat] /\ swapchain.frame \in Frames
    BY <1>4 DEF SwapchainStates
  <2>2. u.at <= value
    BY <1>1 DEF TicksInv, UsesPending, Recording
  <2>3. CASE f = swapchain.frame
    BY <2>1, <2>2, <2>3, <1>5
  <2>4. CASE f # swapchain.frame
    BY <2>1, <2>4, <1>5 DEF InImage
  <2> QED BY <2>3, <2>4
<1>7. CASE swapchain' = s /\ released' = {} /\ device' = device
  <2>1. JunkGrows
    BY <1>7, QueueRests
  <2>2. swapchain.chain <= swapchain'.chain
    BY <1>4, <1>5, <1>7 DEF SameChain, SwapchainStates
  <2>3. FlightStep
    BY <1>2, <1>6, <1>7, <2>1, <2>2, FaultFlies
  <2> QED BY <2>3, <1>7 DEF Flies, InFlightKept
<1>8. CASE Outdate(s)
  BY <1>2, <1>3, <1>5, <1>6, <1>8, OutdateFlies
<1>9. CASE LoseSurface(s)
  BY <1>2, <1>3, <1>5, <1>6, <1>9, LoseSurfaceFlies
<1>10. CASE Break(s)
  BY <1>2, <1>3, <1>5, <1>6, <1>10, BreakFlies
<1> QED BY <1>1, <1>7, <1>8, <1>9, <1>10

LEMMA SubmitFailsFlies ==
  ASSUME GfxTyped, TicksInv, FlightInv, GfxTyped', SubmitFails
  PROVE  Flies
<1> DEFINE items == [f \in 1 .. MAX_PENDING_FRAMES |-> ContextRes(f - 1)]
<1>1. /\ phase = "submit" /\ phase' = "dead"
      /\ device' = Enqueued(device, items) /\ released' = {}
      /\ UNCHANGED <<ticks, uses, commands, ring, swapchain, graph>>
  BY DEF SubmitFails, Goto, recordVars, frameVars
<1>2. items \in Seq(JunkItems) /\ \A i \in DOMAIN items : \E f \in Frames : items[i] = ContextRes(f)
  <2>1. items \in Seq(JunkItems)
    BY ContextJunk
  <2>2. \A i \in DOMAIN items : i - 1 \in Frames /\ items[i] = ContextRes(i - 1)
    BY GfxConstants DEF Frames
  <2> QED BY <2>1, <2>2
<1> HIDE DEF items
<1>3. /\ device \in DeviceStates /\ device.tick = ticks'.current /\ device'.submitted = device.submitted
  <2>1. device.tick = ticks.current
    BY DEF TicksInv, JunkOrdered
  <2> QED BY <2>1, <1>1, <1>2, EnqueuedItems DEF GfxTyped
<1>4. JunkGrows
  <2>1. \A i \in DOMAIN items : OnMain(items[i]) \/ NoneRecorded'
    BY <1>2 DEF OnMain
  <2>2. ASSUME NEW r, \E i \in DOMAIN items : items[i] = r PROVE Retired(r)'
    <3>1. \E f \in Frames : r = ContextRes(f)
      BY <2>2, <1>2
    <3> QED BY <3>1, <1>1 DEF Retired, ContextRes, ConstRes
  <2> QED BY <1>1, <1>2, <1>3, <2>1, <2>2, JunkWaits
<1>5. UsesGrow
  BY <1>1 DEF UsesGrow
<1>6. SetsGrow
  BY <1>1, ServedRests, SetsRest
<1>7. UsesMove
  BY <1>1, MoveRests
<1>8. FlightStep
  BY <1>1, <1>3, <1>4, <1>5, <1>6, <1>7, RingRests, GraphRests, SubmittedRests DEF FlightStep, GfxTyped, SwapchainStates
<1> QED BY <1>1, <1>8 DEF Flies, InFlightKept

\* Pools with too many buffers wait with the copies of their tick submitted.
LEMMA EndTickFlies ==
  ASSUME GfxTyped, TicksInv, FlightInv, GfxTyped', EndTick
  PROVE  Flies
<1> DEFINE d == Flushed(device)
<1>1. /\ phase = "end" /\ phase' = "idle" /\ dma' = FALSE
      /\ device' = Enqueued(d, ExcessPools) /\ released' = {}
      /\ commands' = Shrunk(commands)
      /\ UNCHANGED <<ticks, uses, ring, swapchain, graph>>
  BY DEF EndTick, ExcessPools, Goto, frameVars
<1>2. /\ d \in DeviceStates /\ d.destroy_queue = device.destroy_queue /\ d.tick = device.tick
      /\ d.submitted = device.submitted \/ d.submitted = [device.submitted EXCEPT !["dma"] = @ + 1]
  BY DeviceKnown, GfxConstants, SubmittedGrows DEF Flushed
<1> HIDE DEF d
<1>3. ExcessPools \in Seq(JunkItems)
  BY ExcessJunk
<1>4. /\ device'.submitted = d.submitted /\ d.tick = ticks'.current
  <2>1. device.tick = ticks.current
    BY DEF TicksInv, JunkOrdered
  <2>2. device'.submitted = d.submitted
    BY <1>1, <1>2, <1>3, EnqueuedItems
  <2> QED BY <2>1, <2>2, <1>1, <1>2
<1>5. \A q \in Queues : device.submitted[q] <= device'.submitted[q]
  <2>1. device.submitted \in [Queues -> Nat]
    BY DEF GfxTyped, DeviceStates, Timelines
  <2> QED BY <2>1, <1>2, <1>4
<1> DEFINE E == Excessive(commands)
           set == commands.set
<1>6. /\ set \in Sets /\ E \subseteq Queues
      /\ commands.pools \in [Sets -> [Queues -> Nat]]
      /\ commands'.set = set /\ commands'.tick_ids = commands.tick_ids
      /\ \A s \in Sets, q \in Queues :
           commands'.pools[s][q] = IF s = set /\ q \in E THEN commands.pools[s][q] + 1 ELSE commands.pools[s][q]
  <2> DEFINE p == [commands.pools EXCEPT ![set] = [q \in Queues |-> IF q \in E THEN commands.pools[set][q] + 1 ELSE commands.pools[set][q]]]
             b == [commands.buffers EXCEPT ![set] = [q \in Queues |-> IF q \in E THEN 0 ELSE commands.buffers[set][q]]]
             i == [q \in Queues |-> 0]
  <2>1. commands \in CommandStates
    BY DEF GfxTyped
  <2>2. set \in Sets /\ E \subseteq Queues /\ commands.pools \in [Sets -> [Queues -> Nat]]
    BY <2>1 DEF CommandStates, Excessive
  <2>3. commands' = [commands EXCEPT !.pools = p, !.buffers = b, !.index = i]
    BY <1>1, <2>1 DEF Shrunk, CommandStates
  <2> HIDE DEF p, b, i, E, set
  <2>4. commands'.pools = p /\ commands'.set = commands.set /\ commands'.tick_ids = commands.tick_ids
    BY <2>1, <2>3 DEF CommandStates
  <2>5. \A s \in Sets, q \in Queues : p[s][q] = IF s = set /\ q \in E THEN commands.pools[s][q] + 1 ELSE commands.pools[s][q]
    BY <2>2 DEF p
  <2> QED BY <2>2, <2>4, <2>5 DEF set
<1>7. SetsGrow
  <2>1. \A s \in Sets, q \in Queues : commands.pools[s][q] <= commands'.pools[s][q]
    <3> HIDE DEF E, set
    <3> QED BY <1>6
  <2>2. \A s \in Sets : commands.tick_ids[s] <= commands'.tick_ids[s]
    <3>1. \A s \in Sets : commands.tick_ids[s] \in Int
      BY DEF GfxTyped, CommandStates, INVALID
    <3>2. commands'.tick_ids = commands.tick_ids
      BY <1>6
    <3> QED BY <3>1, <3>2
  <2>3. commands'.set = SetOf(LastServed')
    <3>1. LastServed' = LastServed
      BY <1>1, ServedRests
    <3> QED BY <3>1, <1>6 DEF FlightInv, SetsKept
  <2> QED BY <2>1, <2>2, <2>3 DEF SetsGrow
<1>8. NoneRecorded'
  BY <1>1 DEF NoneRecorded, Recording
<1>9. JunkGrows
  <2>1. ASSUME NEW r, \E i \in DOMAIN ExcessPools : ExcessPools[i] = r PROVE Retired(r)'
    <3>1. PICK q \in E : r = <<"commands", set, q, commands.pools[set][q]>>
      BY <2>1, ExcessJunk DEF Pool
    <3>2. q \in Queues /\ commands.pools[set][q] \in Nat /\ commands'.pools[set][q] = commands.pools[set][q] + 1
      BY <1>6
    <3> HIDE DEF E
    <3> DEFINE n == commands.pools[set][q]
    <3>3. r[1] = "commands" /\ r[2] = set /\ r[3] = q /\ r[4] = n
      BY <3>1
    <3> HIDE DEF n, set
    <3>4. \A s \in Sets, p \in Queues, m \in Nat : r = <<"commands", s, p, m>> => m < commands'.pools[s][p]
      <4> SUFFICES ASSUME NEW s \in Sets, NEW p \in Queues, NEW m \in Nat, r = <<"commands", s, p, m>>
                   PROVE  m < commands'.pools[s][p]
        OBVIOUS
      <4>1. s = set /\ p = q /\ m = n
        BY <3>3
      <4> QED BY <4>1, <3>2 DEF n
    <3> QED BY <3>3, <3>4 DEF Retired, ContextRes, ConstRes
  <2> QED BY <1>1, <1>2, <1>3, <1>4, <1>8, <2>1, JunkWaits
<1>10. UsesGrow
  BY <1>1 DEF UsesGrow
<1>11. UsesMove
  BY <1>1, MoveRests
<1>12. FlightStep
  BY <1>1, <1>5, <1>7, <1>9, <1>10, <1>11, RingRests, GraphRests DEF FlightStep, GfxTyped, SwapchainStates
<1> QED BY <1>1, <1>12 DEF Flies, InFlightKept

\* The buffers of a context that is reset: itself one new buffer or those it had.
LEMMA ResetIds ==
  ASSUME NEW r \in RingStates
  PROVE  /\ ResetContext(r).current = r.current
         /\ \/ /\ Len(r.buffers[r.current]) > 1 /\ ResetContext(r).made = r.made + 1
               /\ \A f \in Frames, n \in Nat : HasId(ResetContext(r).buffers[f], n) =>
                    IF f = r.current THEN n = r.made + 1 ELSE HasId(r.buffers[f], n)
            \/ /\ ~ (Len(r.buffers[r.current]) > 1) /\ ResetContext(r).made = r.made
               /\ \A f \in Frames, n \in Nat : HasId(ResetContext(r).buffers[f], n) => HasId(r.buffers[f], n)
<1> DEFINE bufs == r.buffers[r.current]
           total == HeldBytes(bufs)
           empty == [i \in DOMAIN bufs |-> [bufs[i] EXCEPT !.free = bufs[i].size]]
           merged == AddedBuffer(r.made, total + total \div 16, 0)
<1>1. /\ r.current \in Frames /\ r.buffers \in [Frames -> Seq(ConstBuffers)] /\ r.made \in Nat
  BY DEF RingStates
<1>2. bufs \in Seq(ConstBuffers)
  BY <1>1
<1> HIDE DEF bufs
<1>3. Len(bufs) \in Nat /\ DOMAIN bufs = 1 .. Len(bufs) /\ \A i \in 1 .. Len(bufs) : bufs[i] \in ConstBuffers
  BY <1>2
<1>4. merged.id = r.made + 1
  BY DEF AddedBuffer
<1> HIDE DEF merged, total
<1>5. /\ Len(empty) = Len(bufs)
      /\ \A i \in 1 .. Len(bufs) : empty[i].id = bufs[i].id
  <2>0. \A b \in ConstBuffers : [b EXCEPT !.free = b.size].id = b.id
    BY DEF ConstBuffers
  <2>1. \A i \in 1 .. Len(bufs) : empty[i].id = bufs[i].id
    BY <1>3, <2>0
  <2>2. DOMAIN empty = 1 .. Len(bufs)
    BY <1>3
  <2>3. empty \in Seq({empty[i] : i \in 1 .. Len(bufs)})
    BY <1>3
  <2> HIDE DEF empty
  <2>4. Len(empty) = Len(bufs)
    BY <2>2, <2>3, <1>3
  <2> QED BY <2>1, <2>4
<1> HIDE DEF empty
<1>6. CASE Len(bufs) > 1
  <2> DEFINE b == [r.buffers EXCEPT ![r.current] = <<merged>>]
             m == r.made + 1
  <2>1. ResetContext(r) = [r EXCEPT !.made = m, !.buffers = b]
    BY <1>6 DEF ResetContext, bufs, total, merged
  <2>2. \A f \in Frames : b[f] = IF f = r.current THEN <<merged>> ELSE r.buffers[f]
    BY <1>1
  <2>3. \A n : HasId(<<merged>>, n) => n = r.made + 1
    BY <1>4 DEF HasId
  <2>4. \A f \in Frames, n \in Nat : HasId(b[f], n) => IF f = r.current THEN n = r.made + 1 ELSE HasId(r.buffers[f], n)
    <3> HIDE DEF b
    <3> QED BY <2>2, <2>3
  <2> HIDE DEF b, m
  <2>5. ResetContext(r).current = r.current /\ ResetContext(r).made = m /\ ResetContext(r).buffers = b
    BY <2>1 DEF RingStates
  <2> QED BY <2>4, <2>5, <1>6 DEF m, bufs
<1>7. CASE ~ (Len(bufs) > 1)
  <2> DEFINE b == [r.buffers EXCEPT ![r.current] = empty]
  <2>1. ResetContext(r) = [r EXCEPT !.buffers = b]
    BY <1>7 DEF ResetContext, bufs, empty
  <2>2. \A f \in Frames : b[f] = IF f = r.current THEN empty ELSE r.buffers[f]
    BY <1>1
  <2>3. \A n : HasId(empty, n) => HasId(bufs, n)
    BY <1>5 DEF HasId
  <2>4. \A f \in Frames, n \in Nat : HasId(b[f], n) => HasId(r.buffers[f], n)
    <3> HIDE DEF b
    <3> QED BY <2>2, <2>3 DEF bufs
  <2> HIDE DEF b
  <2>5. ResetContext(r).current = r.current /\ ResetContext(r).made = r.made /\ ResetContext(r).buffers = b
    BY <2>1 DEF RingStates
  <2> QED BY <2>4, <2>5, <1>7 DEF bufs
<1> QED BY <1>6, <1>7

LEMMA JunkIds ==
  ASSUME NEW r \in RingStates, NEW i \in DOMAIN Junk(r)
  PROVE  /\ Len(r.buffers[r.current]) > 1
         /\ \E n \in Nat : Junk(r)[i] = ConstRes(n) /\ HasId(r.buffers[r.current], n)
<1> DEFINE bufs == r.buffers[r.current]
<1>1. bufs \in Seq(ConstBuffers)
  BY DEF RingStates
<1> HIDE DEF bufs
<1>2. Len(bufs) \in Nat /\ DOMAIN bufs = 1 .. Len(bufs) /\ \A j \in 1 .. Len(bufs) : bufs[j].id \in Nat
  <2>1. Len(bufs) \in Nat /\ DOMAIN bufs = 1 .. Len(bufs) /\ \A j \in 1 .. Len(bufs) : bufs[j] \in ConstBuffers
    BY <1>1
  <2>2. \A b \in ConstBuffers : b.id \in Nat
    BY DEF ConstBuffers
  <2> QED BY <2>1, <2>2
<1>3. Junk(r) = IF Len(bufs) > 1 THEN [j \in DOMAIN bufs |-> ConstRes(bufs[j].id)] ELSE <<>>
  BY DEF Junk, bufs
<1>4. Len(bufs) > 1
  <2>1. DOMAIN <<>> = {}
    OBVIOUS
  <2> QED BY <2>1, <1>3
<1>5. i \in 1 .. Len(bufs) /\ Junk(r)[i] = ConstRes(bufs[i].id)
  BY <1>2, <1>3, <1>4
<1>6. bufs[i].id \in Nat /\ HasId(bufs, bufs[i].id)
  BY <1>2, <1>5 DEF HasId
<1> QED BY <1>4, <1>5, <1>6 DEF bufs

\* A context is reset once its last submission has been waited for.
LEMMA WaitAndResetFlies ==
  ASSUME GfxTyped, TicksInv, FlightInv, GfxTyped', WaitAndReset
  PROVE  Flies
<1> DEFINE value == ring.timelines[ring.current]
           d == Waited(device, "main", value)
           c == ring.current
<1>1. /\ phase = "reset" /\ phase' = "present"
      /\ CanReturn(device, "main", value)
      /\ device' = Enqueued(d, Junk(ring)) /\ ring' = ResetContext(ring)
      /\ released' = ResetRes(ring)
      /\ UNCHANGED <<ticks, uses, commands, swapchain, graph>>
  BY DEF WaitAndReset, Goto, recordVars
<1>2. /\ ring \in RingStates /\ c \in Frames /\ value \in Nat /\ ring.made \in Nat
  BY DEF GfxTyped, RingStates
<1>3. /\ d \in DeviceStates /\ d.destroy_queue = device.destroy_queue
      /\ d.submitted = device.submitted /\ d.tick = device.tick
  BY <1>2, DeviceKnown DEF Waited, DeviceStates, Timelines
<1> HIDE DEF d
<1>4. device'.submitted = device.submitted /\ d.tick = ticks'.current
  <2>1. device.tick = ticks.current
    BY DEF TicksInv, JunkOrdered
  <2>2. Junk(ring) \in Seq(JunkItems)
    BY <1>2, ResetTyped
  <2>3. Enqueued(d, Junk(ring)).submitted = d.submitted
    BY <2>2, <1>3, EnqueuedItems
  <2> QED BY <2>1, <2>3, <1>1, <1>3
<1>5. /\ ring'.current = c /\ ring'.timelines = ring.timelines
      /\ \/ /\ Len(ring.buffers[c]) > 1 /\ ring'.made = ring.made + 1
            /\ \A f \in Frames, n \in Nat : HasId(ring'.buffers[f], n) =>
                 IF f = c THEN n = ring.made + 1 ELSE HasId(ring.buffers[f], n)
         \/ /\ ~ (Len(ring.buffers[c]) > 1) /\ ring'.made = ring.made
            /\ \A f \in Frames, n \in Nat : HasId(ring'.buffers[f], n) => HasId(ring.buffers[f], n)
  <2>1. ring'.timelines = ring.timelines
    BY <1>1, <1>2, ResetTyped
  <2> QED BY <2>1, <1>1, <1>2, ResetIds
<1>6. RingGrows
  <2>1. CASE ring'.made = ring.made
    BY <2>1, <1>2, <1>5 DEF RingGrows
  <2>2. CASE ring'.made = ring.made + 1
    BY <2>2, <1>2, <1>5 DEF RingGrows
  <2> QED BY <2>1, <2>2, <1>5
<1>7. JunkGrows
  <2>1. ASSUME NEW r, \E i \in DOMAIN Junk(ring) : Junk(ring)[i] = r PROVE Retired(r)' /\ OnMain(r)
    <3>1. Len(ring.buffers[c]) > 1 /\ \E n \in Nat : r = ConstRes(n) /\ HasId(ring.buffers[c], n)
      BY <2>1, <1>2, JunkIds
    <3>2. PICK n \in Nat : r = ConstRes(n) /\ HasId(ring.buffers[c], n)
      BY <3>1
    <3>3. /\ n <= ring.made /\ \A f \in Frames : HasId(ring.buffers[f], n) => f = c
      BY <3>2, <1>2 DEF FlightInv, RingApart
    <3>4. n <= ring'.made /\ n # ring.made + 1
      BY <3>1, <3>3, <1>2, <1>5
    <3>5. \A f \in Frames : ~ HasId(ring'.buffers[f], n)
      BY <3>1, <3>3, <3>4, <1>5
    <3>6. \A m : r = ConstRes(m) => m = n
      BY <3>2 DEF ConstRes
    <3>7. r[1] = "constants"
      BY <3>2 DEF ConstRes
    <3> QED BY <3>2, <3>4, <3>5, <3>6, <3>7 DEF Retired, ContextRes, OnMain
  <2>2. Junk(ring) \in Seq(JunkItems)
    BY <1>2, ResetTyped
  <2> QED BY <1>1, <1>3, <1>4, <2>1, <2>2, JunkWaits
<1>8. UsesGrow
  BY <1>1 DEF UsesGrow
<1>9. SetsGrow
  BY <1>1, ServedRests, SetsRest
<1>10. UsesMove
  BY <1>1, <1>5, MoveRests
<1>11. FlightStep
  BY <1>1, <1>4, <1>6, <1>7, <1>8, <1>9, <1>10, GraphRests, SubmittedRests DEF FlightStep, GfxTyped, SwapchainStates
<1>12. ASSUME NEW u \in uses', u.res \in released' PROVE FALSE
  <2>1. u \in uses /\ InFrame(u, c) /\ u.queue = "main"
    <3>1. u \in uses
      BY <1>1
    <3>2. CASE u.res = ContextRes(c)
      BY <3>1, <3>2, <1>2 DEF FlightInv, FramesKept, MainKept, OnMain
    <3>3. CASE u.res # ContextRes(c)
      <4>1. Len(ring.buffers[c]) = 1 /\ u.res = ConstRes(ring.buffers[c][1].id)
        BY <3>3, <1>1, <1>12 DEF ResetRes
      <4>2. ring.buffers[c] \in Seq(ConstBuffers)
        BY <1>2 DEF RingStates
      <4>3. ring.buffers[c][1] \in ConstBuffers
        BY <4>1, <4>2
      <4>4. ring.buffers[c][1].id \in Nat /\ HasId(ring.buffers[c], ring.buffers[c][1].id)
        BY <4>1, <4>3 DEF ConstBuffers, HasId
      <4> QED BY <4>1, <4>4, <3>1, <1>2 DEF FlightInv, FramesKept, MainKept, OnMain
    <3> QED BY <3>2, <3>3
  <2>2. u.at <= value
    BY <2>1, <1>1 DEF InFrame
  <2>3. /\ finished["main"] < u.at /\ u.at \in Nat /\ finished["main"] \in Nat /\ device.observed["main"] \in Nat
        /\ device.observed["main"] <= finished["main"]
    BY <2>1, GfxConstants, DeviceKnown DEF TicksInv, UsesPending, GfxTyped, Timelines
  <2>4. value <= finished["main"]
    BY <1>1, <1>2, <2>3 DEF CanReturn
  <2> QED BY <2>2, <2>3, <2>4, <1>2
<1> QED BY <1>11, <1>12 DEF Flies, InFlightKept

-----------------------------------------------------------------------------
(* What a frame uploads and draws                                          *)

\* Buffers keep their names when data is uploaded, and what is used are buffers.
Uploading ==
  {x \in ConstUploads :
     /\ ring.made <= x.made
     /\ \A n \in Nat : HasId(x.buffers, n) =>
          HasId(ring.buffers[ring.current], n) \/ (ring.made < n /\ n <= x.made)
     /\ \A n \in Nat : ConstRes(n) \in x.res => HasId(x.buffers, n)}

LEMMA UploadedIds ==
  ASSUME GfxTyped, NEW x \in Uploading, NEW size \in Nat
  PROVE  Uploaded(x, size) \in Uploading
<1> DEFINE bufs == x.buffers
           fit == {j \in DOMAIN bufs : bufs[j].free >= size}
           i == CHOOSE n \in fit : \A j \in fit : n <= j
           first == Greater(size, CONST_UPLOAD_BUFFER_STARTING_SIZE)
           grown == LET n == Greater(first, bufs[Len(bufs)].size) IN n + n \div 2
           y == Uploaded(x, size)
           b0 == ring.buffers[ring.current]
<1>1. /\ x \in ConstUploads /\ ring.made <= x.made
      /\ \A n \in Nat : HasId(bufs, n) => HasId(b0, n) \/ (ring.made < n /\ n <= x.made)
      /\ \A n \in Nat : ConstRes(n) \in x.res => HasId(bufs, n)
  BY DEF Uploading
<1>2. y \in ConstUploads
  BY <1>1, UploadedTyped, GfxConstants
<1>3. bufs \in Seq(ConstBuffers) /\ x.made \in Nat /\ ring.made \in Nat
      /\ x = [buffers |-> bufs, made |-> x.made, res |-> x.res]
  BY <1>1 DEF ConstUploads, GfxTyped, RingStates
<1>4. Len(bufs) \in Nat /\ DOMAIN bufs = 1 .. Len(bufs) /\ \A j \in 1 .. Len(bufs) : bufs[j] \in ConstBuffers
  BY <1>3
<1> HIDE DEF b0
<1>5. CASE fit # {}
  <2>1. i \in fit
    <3>1. fit \in SUBSET Nat
      BY <1>4
    <3>2. \E n \in fit : \A j \in fit : n <= j
      BY <3>1, <1>5, LeastExists
    <3> HIDE DEF fit
    <3> QED BY <3>2
  <2>2. i \in 1 .. Len(bufs)
    BY <2>1, <1>4
  <2> DEFINE new == [bufs EXCEPT ![i] = [bufs[i] EXCEPT !.free = bufs[i].free - size]]
             res == x.res \cup {ConstRes(bufs[i].id)}
  <2>3. y = [x EXCEPT !.buffers = new, !.res = res]
    BY <1>5, <1>3 DEF Uploaded, i
  <2> HIDE DEF y, i, fit
  <2>4. /\ Len(new) = Len(bufs)
        /\ \A j \in 1 .. Len(bufs) : new[j].id = bufs[j].id
    <3>1. new \in Seq(ConstBuffers) /\ Len(new) = Len(bufs)
      <4>1. bufs[i] \in ConstBuffers
        BY <2>2, <1>4
      <4>2. [bufs[i] EXCEPT !.free = bufs[i].free - size] \in ConstBuffers
        BY <4>1 DEF ConstBuffers
      <4> HIDE DEF bufs
      <4> QED BY <4>2, <2>2, <1>3
    <3>2. ASSUME NEW j \in 1 .. Len(bufs) PROVE new[j].id = bufs[j].id
      <4>1. bufs[j] \in ConstBuffers
        BY <1>4
      <4>2. new[j] = IF j = i THEN [bufs[i] EXCEPT !.free = bufs[i].free - size] ELSE bufs[j]
        BY <1>4
      <4> HIDE DEF bufs, new
      <4> QED BY <4>1, <4>2 DEF ConstBuffers
    <3> QED BY <3>1, <3>2
  <2> HIDE DEF new, bufs
  <2>5. \A n : HasId(new, n) <=> HasId(bufs, n)
    BY <2>4 DEF HasId
  <2>6. y.buffers = new /\ y.made = x.made /\ y.res = res
    BY <2>3, <1>3
  <2>7. \A n \in Nat : ConstRes(n) \in res => HasId(bufs, n)
    <3> SUFFICES ASSUME NEW n \in Nat, ConstRes(n) \in res PROVE HasId(bufs, n)
      OBVIOUS
    <3>1. CASE ConstRes(n) \in x.res
      BY <3>1, <1>1
    <3>2. CASE ConstRes(n) = ConstRes(bufs[i].id)
      <4>1. n = bufs[i].id
        BY <3>2 DEF ConstRes
      <4> QED BY <4>1, <2>2 DEF HasId
    <3> QED BY <3>1, <3>2
  <2> QED BY <1>1, <1>2, <2>5, <2>6, <2>7 DEF Uploading, b0, y
<1>6. CASE fit = {}
  <2> DEFINE m == x.made + 1
             added == AddedBuffer(x.made, IF bufs = <<>> THEN first ELSE grown, size)
             new == Append(bufs, added)
             res == x.res \cup {ConstRes(m)}
  <2>1. y = [buffers |-> new, made |-> m, res |-> res]
    BY <1>6 DEF Uploaded, first
  <2>2. added.id = m
    BY DEF AddedBuffer
  <2> HIDE DEF added, y, first, grown, fit, i, bufs
  <2>3. /\ Len(new) = Len(bufs) + 1 /\ new[Len(bufs) + 1] = added
        /\ \A j \in 1 .. Len(bufs) : new[j] = bufs[j]
    BY <1>3
  <2> HIDE DEF new
  <2>4. \A n : HasId(new, n) => HasId(bufs, n) \/ n = m
    <3> SUFFICES ASSUME NEW n, NEW j \in 1 .. Len(bufs) + 1, new[j].id = n PROVE HasId(bufs, n) \/ n = m
      BY <2>3 DEF HasId
    <3>1. CASE j = Len(bufs) + 1
      BY <3>1, <2>2, <2>3
    <3>2. CASE j # Len(bufs) + 1
      <4>1. j \in 1 .. Len(bufs)
        BY <3>2, <1>4
      <4> QED BY <4>1, <2>3 DEF HasId
    <3> QED BY <3>1, <3>2
  <2>5. \A n : HasId(bufs, n) => HasId(new, n)
    <3>1. \A j \in 1 .. Len(bufs) : j \in 1 .. Len(new)
      BY <2>3, <1>4
    <3> QED BY <3>1, <2>3 DEF HasId
  <2>6. HasId(new, m)
    <3>1. Len(bufs) + 1 \in 1 .. Len(new)
      BY <2>3, <1>4
    <3> QED BY <3>1, <2>2, <2>3 DEF HasId
  <2>7. m \in Nat /\ ring.made < m /\ x.made <= m /\ ring.made <= m
    BY <1>1, <1>3
  <2>8. y.buffers = new /\ y.made = m /\ y.res = res
    BY <2>1
  <2>9. \A n \in Nat : ConstRes(n) \in res => HasId(new, n)
    <3> SUFFICES ASSUME NEW n \in Nat, ConstRes(n) \in res PROVE HasId(new, n)
      OBVIOUS
    <3>1. CASE ConstRes(n) \in x.res
      BY <3>1, <1>1, <2>5
    <3>2. CASE ConstRes(n) = ConstRes(m)
      <4>1. n = m
        BY <3>2 DEF ConstRes
      <4> QED BY <4>1, <2>6
    <3> QED BY <3>1, <3>2
  <2>10. \A n \in Nat : HasId(new, n) => HasId(b0, n) \/ (ring.made < n /\ n <= m)
    <3> SUFFICES ASSUME NEW n \in Nat, HasId(new, n) PROVE HasId(b0, n) \/ (ring.made < n /\ n <= m)
      OBVIOUS
    <3>1. CASE HasId(bufs, n)
      <4>1. HasId(b0, n) \/ (ring.made < n /\ n <= x.made)
        BY <3>1, <1>1
      <4> HIDE DEF m
      <4> QED BY <4>1, <2>7, <1>3
    <3>2. CASE n = m
      BY <3>2, <2>7
    <3> QED BY <3>1, <3>2, <2>4
  <2> HIDE DEF m, res
  <2> QED BY <1>2, <2>7, <2>8, <2>9, <2>10 DEF Uploading, b0, y
<1> QED BY <1>5, <1>6

LEMMA UploadsKnown ==
  ASSUME GfxTyped, NEW sizes \in plan.constants
  PROVE  UploadAll(sizes) \in Uploading
<1>1. ring \in RingStates /\ sizes \in Seq(Nat)
  BY GfxConstants DEF GfxTyped
<1> DEFINE x == [buffers |-> ring.buffers[ring.current], made |-> ring.made, res |-> {}]
<1>2. x \in ConstUploads
  BY <1>1 DEF ConstUploads, RingStates
<1>3. ring.made \in Nat
  BY <1>1 DEF RingStates
<1>4. x.buffers = ring.buffers[ring.current] /\ x.made = ring.made /\ x.res = {}
  OBVIOUS
<1> HIDE DEF x
<1>5. x \in Uploading
  BY <1>2, <1>3, <1>4 DEF Uploading
<1> QED BY <1>1, <1>5, UploadedIds, UploadAllKeeps DEF x

LEMMA CopiesAside ==
  ASSUME GfxTyped, NEW w, RecordCopies(w)
  PROVE  /\ commands'.set = commands.set /\ commands'.pools = commands.pools
         /\ commands'.tick_ids = commands.tick_ids
<1>1. commands' = commands \/ commands' = CommandsForDma(commands)
  BY DEF RecordCopies
<1>2. /\ CommandsForDma(commands).set = commands.set /\ CommandsForDma(commands).pools = commands.pools
      /\ CommandsForDma(commands).tick_ids = commands.tick_ids
  BY DEF CommandsForDma, Allocated
<1> QED BY <1>1, <1>2

\* Pools of meshes come back when nothing uses them.
LEMMA BeginMeshesFlies ==
  ASSUME GfxTyped, TicksInv, MeshInv, FlightInv, BeginMeshes
  PROVE  Flies
<1>1. PICK w : BeginsFrom(w, passed)
  BY BeginMeshesMeshes
<1>2. /\ phase = "meshes" /\ phase' = "acquire"
      /\ UNCHANGED <<device, ticks, ring, swapchain, graph>>
      /\ \E x : RecordCopies(x)
  BY DEF BeginMeshes, Goto, frameVars
<1>3. /\ commands'.set = commands.set /\ commands'.pools = commands.pools
      /\ commands'.tick_ids = commands.tick_ids
  BY <1>2, CopiesAside
<1>4. /\ uses' = uses \cup Recorded(w.copied, "dma") \cup Recorded({}, "main")
      /\ w \in Works
  BY <1>1 DEF BeginsFrom, Good
<1>5. RecordingNow
  BY <1>2, <1>3 DEF RecordingNow
<1>6. UsesGrow
  <2> SUFFICES ASSUME NEW u \in uses' PROVE u \in uses \/ NewUse(u)
    BY DEF UsesGrow
  <2>1. w.copied \subseteq CopyRes
    BY <1>4, WorksTyped
  <2>2. CASE u \in Recorded(w.copied, "dma")
    <3>1. u.tick = ticks.current /\ u.queue = "dma" /\ u.res \in w.copied
      BY <2>2 DEF Recorded
    <3> QED BY <3>1, <2>1, <1>5 DEF NewUse
  <2>3. Recorded({}, "main") = {}
    BY DEF Recorded
  <2> QED BY <2>2, <2>3, <1>4
<1>7. JunkGrows
  BY <1>2, QueueRests
<1>8. SetsGrow
  BY <1>2, <1>3, ServedRests, SetsRest
<1>9. UsesMove
  BY <1>2, MoveRests
<1>10. FlightStep
  BY <1>2, <1>6, <1>7, <1>8, <1>9, RingRests, GraphRests, SubmittedRests DEF FlightStep, GfxTyped, SwapchainStates
<1>11. InFlightKept'
  BY <1>1, NowHolds, BegunMeshes DEF InFlightKept
<1> QED BY <1>10, <1>11 DEF Flies

\* A frame rebuilds the graph, enlarges a buffer, or leaves them as they are.
LEMMA GraphMoves ==
  ASSUME GfxTyped, NEW rebuild \in BOOLEAN, NEW size \in Nat, NEW g,
         g = IF rebuild THEN Rebuilt(graph, swapchain) ELSE graph,
         graph' = Sized(g, size)
  PROVE  /\ g \in GraphStates /\ graph' \in GraphStates
         /\ IF rebuild THEN g.made = graph.made + 1 ELSE g = graph
         /\ graph'.made = g.made
         /\ IF TooSmall(g, size) THEN graph'.grown = g.grown + 1 ELSE graph'.grown = g.grown
<1>1. graph \in GraphStates /\ swapchain \in SwapchainStates
  BY DEF GfxTyped
<1>2. g \in GraphStates
  BY <1>1, RebuiltTyped
<1>3. graph' \in GraphStates
  BY <1>2, SizedTyped
<1>4. IF rebuild THEN g.made = graph.made + 1 ELSE g = graph
  <2>1. Rebuilt(graph, swapchain).made = graph.made + 1
    <3> DEFINE m == graph.made + 1
               e == swapchain.extent
    <3>1. Rebuilt(graph, swapchain) = [graph EXCEPT !.made = m, !.extent = e, !.dynamic = 0, !.grown = 0]
      BY DEF Rebuilt
    <3> HIDE DEF m, e
    <3>2. Rebuilt(graph, swapchain).made = m
      BY <3>1, <1>1 DEF GraphStates
    <3> QED BY <3>2 DEF m
  <2> QED BY <2>1
<1>5. graph'.made = g.made
  BY <1>2 DEF Sized, GraphStates
<1>6. IF TooSmall(g, size) THEN graph'.grown = g.grown + 1 ELSE graph'.grown = g.grown
  <2>1. CASE TooSmall(g, size)
    <3> DEFINE k == g.grown + 1
    <3>1. graph' = [g EXCEPT !.dynamic = size, !.grown = k]
      BY <2>1 DEF Sized
    <3> HIDE DEF k
    <3>2. graph'.grown = k
      BY <3>1, <1>2 DEF GraphStates
    <3> QED BY <2>1, <3>2 DEF k
  <2>2. CASE ~ TooSmall(g, size)
    BY <2>2 DEF Sized
  <2> QED BY <2>1, <2>2
<1> QED BY <1>2, <1>3, <1>4, <1>5, <1>6

\* The constants of a frame.
LEMMA RecordRing ==
  ASSUME GfxTyped, NEW sizes \in plan.constants,
         ring' = [ring EXCEPT !.buffers[ring.current] = UploadAll(sizes).buffers,
                              !.made = UploadAll(sizes).made]
  PROVE  /\ ring'.current = ring.current /\ ring'.timelines = ring.timelines
         /\ ring'.buffers[ring.current] = UploadAll(sizes).buffers
         /\ RingGrows
<1> DEFINE x == UploadAll(sizes)
           b == [ring.buffers EXCEPT ![ring.current] = x.buffers]
           m == x.made
<1>1. /\ ring \in RingStates /\ ring.current \in Frames /\ ring.buffers \in [Frames -> Seq(ConstBuffers)]
  BY DEF GfxTyped, RingStates
<1>2. x \in Uploading
  BY UploadsKnown
<1>3. /\ ring.made <= m
      /\ \A n \in Nat : HasId(x.buffers, n) => HasId(ring.buffers[ring.current], n) \/ (ring.made < n /\ n <= m)
  BY <1>2 DEF Uploading
<1>4. ring' = [ring EXCEPT !.buffers = b, !.made = m]
  OBVIOUS
<1> HIDE DEF x, m
<1>5. /\ \A f \in Frames : b[f] = IF f = ring.current THEN x.buffers ELSE ring.buffers[f]
  BY <1>1
<1> HIDE DEF b
<1>6. /\ ring'.current = ring.current /\ ring'.timelines = ring.timelines /\ ring'.buffers = b /\ ring'.made = m
  BY <1>1, <1>4 DEF RingStates
<1>7. RingGrows
  <2> SUFFICES ASSUME NEW f \in Frames, NEW n \in Nat, HasId(b[f], n)
               PROVE  HasId(ring.buffers[f], n) \/ (ring.made < n /\ n <= m /\ f = ring.current)
    BY <1>3, <1>6 DEF RingGrows
  <2>1. CASE f = ring.current
    <3>1. HasId(x.buffers, n)
      BY <2>1, <1>5
    <3> QED BY <3>1, <2>1, <1>3
  <2>2. CASE f # ring.current
    BY <2>2, <1>5
  <2> QED BY <2>1, <2>2
<1> QED BY <1>1, <1>5, <1>6, <1>7 DEF x

\* What a frame does away with of the graph.
LEMMA RecordJunk ==
  ASSUME GfxTyped, TicksInv, NEW rebuild \in BOOLEAN, NEW size \in Nat, NEW g,
         g = IF rebuild THEN Rebuilt(graph, swapchain) ELSE graph,
         graph' = Sized(g, size), ticks' = ticks,
         device' = Enqueued(device,
                     (IF rebuild THEN <<GraphRes(graph), DynamicRes(graph)>> ELSE <<>>)
                     \o (IF TooSmall(g, size) THEN <<DynamicRes(g)>> ELSE <<>>))
  PROVE  /\ JunkGrows /\ GraphGrows
         /\ device'.submitted = device.submitted
<1> DEFINE a == IF rebuild THEN <<GraphRes(graph), DynamicRes(graph)>> ELSE <<>>
           b == IF TooSmall(g, size) THEN <<DynamicRes(g)>> ELSE <<>>
           items == a \o b
<1>1. g \in GraphStates /\ graph \in GraphStates /\ graph' \in GraphStates
  BY GraphMoves DEF GfxTyped
<1>2. IF rebuild THEN g.made = graph.made + 1 ELSE g = graph
  BY GraphMoves
<1>3. graph'.made = g.made
  BY GraphMoves
<1>4. IF TooSmall(g, size) THEN graph'.grown = g.grown + 1 ELSE graph'.grown = g.grown
  BY GraphMoves
<1>5. /\ g.made \in Nat /\ g.grown \in Nat /\ graph.made \in Nat /\ graph.grown \in Nat
      /\ graph'.made \in Nat /\ graph'.grown \in Nat
  BY <1>1 DEF GraphStates
<1>6. GraphGrows
  BY <1>2, <1>3, <1>4, <1>5 DEF GraphGrows
<1>7. a \in Seq(JunkItems) /\ b \in Seq(JunkItems)
  BY <1>1, GraphJunk
<1>8. /\ \A i \in 1 .. Len(a) : rebuild /\ (a[i] = GraphRes(graph) \/ a[i] = DynamicRes(graph))
      /\ \A i \in 1 .. Len(b) : TooSmall(g, size) /\ b[i] = DynamicRes(g)
  OBVIOUS
<1>9. device' = Enqueued(device, items)
  OBVIOUS
<1> HIDE DEF a, b
<1>10. /\ items \in Seq(JunkItems)
       /\ \A i \in DOMAIN items : (\E j \in 1 .. Len(a) : items[i] = a[j]) \/ (\E j \in 1 .. Len(b) : items[i] = b[j])
  <2>1. /\ items \in Seq(JunkItems) /\ Len(items) = Len(a) + Len(b)
        /\ \A i \in 1 .. Len(a) + Len(b) : items[i] = IF i <= Len(a) THEN a[i] ELSE b[i - Len(a)]
    BY <1>7, ConcatProperties
  <2>2. Len(a) \in Nat /\ Len(b) \in Nat
    BY <1>7
  <2> HIDE DEF items
  <2>3. DOMAIN items = 1 .. Len(a) + Len(b)
    BY <2>1
  <2>4. ASSUME NEW i \in 1 .. Len(a) + Len(b)
        PROVE  (\E j \in 1 .. Len(a) : items[i] = a[j]) \/ (\E j \in 1 .. Len(b) : items[i] = b[j])
    <3>1. CASE i <= Len(a)
      <4>1. i \in 1 .. Len(a) /\ items[i] = a[i]
        BY <3>1, <2>1, <2>2
      <4> QED BY <4>1
    <3>2. CASE ~ (i <= Len(a))
      <4>1. i - Len(a) \in 1 .. Len(b) /\ items[i] = b[i - Len(a)]
        BY <3>2, <2>1, <2>2
      <4> QED BY <4>1
    <3> QED BY <3>1, <3>2
  <2> QED BY <2>1, <2>3, <2>4
<1> HIDE DEF items
<1>11. \A i \in DOMAIN items : \/ rebuild /\ items[i] = GraphRes(graph)
                               \/ rebuild /\ items[i] = DynamicRes(graph)
                               \/ TooSmall(g, size) /\ items[i] = DynamicRes(g)
  BY <1>8, <1>10
<1>12. \A i \in DOMAIN items : OnMain(items[i]) \/ NoneRecorded'
  BY <1>5, <1>11 DEF OnMain, GraphRes, DynamicRes
<1>13. ASSUME NEW r, \E i \in DOMAIN items : items[i] = r PROVE Retired(r)'
  <2>1. \/ rebuild /\ r = GraphRes(graph)
        \/ rebuild /\ r = DynamicRes(graph)
        \/ TooSmall(g, size) /\ r = DynamicRes(g)
    BY <1>11, <1>13
  <2>2. CASE rebuild /\ r = GraphRes(graph)
    <3>1. graph.made < graph'.made /\ r[1] = "graph" /\ r[2] = graph.made
      BY <2>2, <1>2, <1>3, <1>5 DEF GraphRes
    <3> QED BY <3>1 DEF Retired, ContextRes, ConstRes
  <2>3. CASE rebuild /\ r = DynamicRes(graph)
    <3>1. graph.made < graph'.made /\ r[1] = "dynamic" /\ r[2] = graph.made /\ r[3] = graph.grown
      BY <2>3, <1>2, <1>3, <1>5 DEF DynamicRes
    <3> QED BY <3>1 DEF Retired, ContextRes, ConstRes
  <2>4. CASE TooSmall(g, size) /\ r = DynamicRes(g)
    <3>1. g.made = graph'.made /\ g.grown < graph'.grown /\ r[1] = "dynamic" /\ r[2] = g.made /\ r[3] = g.grown
      BY <2>4, <1>3, <1>4, <1>5 DEF DynamicRes
    <3> QED BY <3>1 DEF Retired, ContextRes, ConstRes
  <2> QED BY <2>1, <2>2, <2>3, <2>4
<1>14. device \in DeviceStates /\ device.tick = ticks'.current
  BY DEF GfxTyped, TicksInv, JunkOrdered
<1>15. JunkGrows
  BY <1>9, <1>10, <1>12, <1>13, <1>14, JunkWaits
<1>16. device'.submitted = device.submitted
  BY <1>9, <1>10, <1>14, EnqueuedItems
<1> QED BY <1>6, <1>15, <1>16

LEMMA RecordFlies ==
  ASSUME GfxTyped, TicksInv, MeshInv, FlightInv, Record
  PROVE  Flies
<1>1. PICK w, t, g, sizes, size, rebuild : RecordsWork(w, t, g, sizes, size, rebuild)
  BY RecordWorks
<1>2. PICK scratch \in Nat : t = Taken(w.transient, scratch, 1, ticks.current)
  BY <1>1 DEF RecordsWork
<1> DEFINE C == UploadAll(sizes).res
           D == Others(graph') \cup (w.drawn \cup {t.res} \cup C)
<1>3. /\ Good(w, Unallocated, {})
      /\ RecordsWith(w, t, g, sizes, size, rebuild)
  BY <1>1 DEF RecordsWork
<1>4. /\ phase = "record" /\ phase' = "submit" /\ ticks' = ticks /\ swapchain' = swapchain /\ released' = {}
  BY DEF Record, Goto
<1>5. /\ uses' = uses \cup Recorded(w.copied, "dma") \cup Recorded(D, "main") /\ sizes \in plan.constants
      /\ RecordCopies(w)
      /\ ring' = [ring EXCEPT !.buffers[ring.current] = UploadAll(sizes).buffers,
                              !.made = UploadAll(sizes).made]
  BY <1>3 DEF RecordsWith, PassUses, Others
<1>6. /\ commands'.set = commands.set /\ commands'.pools = commands.pools
      /\ commands'.tick_ids = commands.tick_ids
  BY <1>5, CopiesAside
<1>7. /\ ring'.current = ring.current /\ ring'.timelines = ring.timelines
      /\ ring'.buffers[ring.current] = UploadAll(sizes).buffers
  BY <1>5, RecordRing
<1>8. RingGrows
  BY <1>5, RecordRing
<1>9. JunkGrows /\ GraphGrows /\ device'.submitted = device.submitted
  <2>1. /\ rebuild \in BOOLEAN /\ size \in plan.dynamic
        /\ g = IF rebuild THEN Rebuilt(graph, swapchain) ELSE graph
        /\ graph' = Sized(g, size)
        /\ device' = Enqueued(device,
                     (IF rebuild THEN <<GraphRes(graph), DynamicRes(graph)>> ELSE <<>>)
                     \o (IF TooSmall(g, size) THEN <<DynamicRes(g)>> ELSE <<>>))
    BY <1>3 DEF RecordsWith
  <2>2. size \in Nat
    BY <2>1, GfxConstants DEF GfxTyped
  <2>3. JunkGrows
    BY <1>4, <2>1, <2>2, RecordJunk
  <2>4. GraphGrows
    BY <1>4, <2>1, <2>2, RecordJunk
  <2>5. device'.submitted = device.submitted
    BY <1>4, <2>1, <2>2, RecordJunk
  <2> QED BY <2>3, <2>4, <2>5
<1>10. UploadAll(sizes) \in Uploading
  BY <1>5, UploadsKnown
<1>11. \A r \in C : \E n \in Nat : r = ConstRes(n) /\ HasId(ring'.buffers[ring.current], n)
  <2> SUFFICES ASSUME NEW r \in C PROVE \E n \in Nat : r = ConstRes(n) /\ HasId(ring'.buffers[ring.current], n)
    OBVIOUS
  <2> DEFINE x == UploadAll(sizes)
  <2>1. x \in Uploading /\ r \in x.res /\ ring'.buffers[ring.current] = x.buffers
    BY <1>7, <1>10
  <2> HIDE DEF x, C
  <2>2. PICK n \in Nat : r = ConstRes(n)
    BY <2>1 DEF Uploading, ConstUploads
  <2>3. HasId(x.buffers, n)
    BY <2>1, <2>2 DEF Uploading
  <2> QED BY <2>1, <2>2, <2>3
<1>12. w.drawn \subseteq MeshRes /\ w.copied \subseteq CopyRes
  BY <1>3, WorksTyped DEF Good
<1> DEFINE res == t.res
<1>13. \E n \in Nat : res = BufferRes(n)
  <2>1. TransientSound(w.transient) /\ ticks.current \in Nat
    BY <1>3, NowHolds DEF Good, BuffersUsed, Now
  <2>2. Served(w.transient, Taken(w.transient, scratch, 1, ticks.current), ticks.current)
    BY <2>1, TakenServes
  <2> QED BY <2>2, <1>2 DEF Served
<1> HIDE DEF C, res
<1>14. \A r \in MeshRes : r \in CopyRes \ {DmaPool}
  <2>1. DmaPool[1] = "commands"
    BY DEF DmaPool, Pool
  <2> QED BY <2>1 DEF MeshRes, CopyRes
<1>15. res \in CopyRes \ {DmaPool}
  <2>1. DmaPool[1] = "commands"
    BY DEF DmaPool, Pool
  <2> QED BY <2>1, <1>13 DEF CopyRes, BufferRes
<1>16. \A r \in D : \/ r \in Others(graph')
                    \/ r \in CopyRes \ {DmaPool}
                    \/ \E n \in Nat : r = ConstRes(n) /\ HasId(ring'.buffers[ring.current], n)
  BY <1>11, <1>12, <1>14, <1>15 DEF res
<1> HIDE DEF D
<1>17. RecordingNow
  BY <1>4, <1>6, <1>7 DEF RecordingNow
<1>18. UsesGrow
  <2> SUFFICES ASSUME NEW u \in uses' PROVE u \in uses \/ NewUse(u)
    BY DEF UsesGrow
  <2>1. CASE u \in Recorded(w.copied, "dma")
    <3>1. u.tick = ticks.current /\ u.queue = "dma" /\ u.res \in w.copied
      BY <2>1 DEF Recorded
    <3> QED BY <3>1, <1>12, <1>17 DEF NewUse
  <2>2. CASE u \in Recorded(D, "main")
    <3>1. u.tick = ticks.current /\ u.queue = "main" /\ u.res \in D
      BY <2>2 DEF Recorded
    <3> QED BY <3>1, <1>4, <1>16, <1>17 DEF NewUse
  <2> QED BY <2>1, <2>2, <1>5
<1>19. SetsGrow
  BY <1>4, <1>6, ServedRests, SetsRest
<1>20. UsesMove
  BY <1>4, <1>7, MoveRests
<1>21. FlightStep
  BY <1>4, <1>8, <1>9, <1>18, <1>19, <1>20, SubmittedRests DEF FlightStep, GfxTyped, SwapchainStates
<1> QED BY <1>4, <1>21 DEF Flies, InFlightKept
-----------------------------------------------------------------------------
(* Nothing in flight is released                                           *)

LEMMA FlightStarts ==
  ASSUME Init
  PROVE  FlightInv /\ InFlightKept
<1> DEFINE pool == Pool(commands, SetOf(1), "main")
<1>1. /\ uses = {[res |-> r, queue |-> "main", at |-> 1, tick |-> 1] : r \in {FontUpload.res, pool}}
      /\ released = {} /\ RingInit
  BY Zenon DEF Init
<1>2. /\ device = [submitted |-> [q \in Queues |-> IF q = "main" THEN 1 ELSE 0],
                   observed |-> [q \in Queues |-> 0], destroy_queue |-> <<>>, tick |-> 1]
      /\ phase = "idle" /\ TicksInit
  BY Zenon DEF Init
<1>3. commands = [set |-> SetOf(1), tick_ids |-> [s \in Sets |-> IF s = SetOf(1) THEN 1 ELSE INVALID],
                  pools |-> [s \in Sets |-> [q \in Queues |-> 0]],
                  buffers |-> [s \in Sets |-> [q \in Queues |-> IF s = SetOf(1) /\ q = "main" THEN 1 ELSE 0]],
                  index |-> [q \in Queues |-> IF q = "main" THEN 1 ELSE 0]]
  BY Zenon DEF Init
<1> DEFINE font == FontUpload.res
<1>4. \E n : font = BufferRes(n)
  BY DEF FontUpload, Taken
<1> HIDE DEF font, pool
<1>5. \A u \in uses : u.queue = "main" /\ u.tick = 1 /\ (u.res = font \/ u.res = pool)
  BY <1>1 DEF font
<1>6. pool[1] = "commands" /\ pool[2] = SetOf(1)
  BY DEF pool, Pool
<1>7. font[1] = "transient"
  BY <1>4 DEF BufferRes
<1>8. JunkKept
  BY <1>2 DEF JunkKept
<1>9. MainKept
  BY <1>5 DEF MainKept, OnMain
<1>10. SetsKept
  <2>1. LastServed = 1
    BY <1>2 DEF LastServed, TicksInit
  <2>2. commands.set = SetOf(1) /\ \A s \in Sets : commands.tick_ids[s] = IF s = SetOf(1) THEN 1 ELSE INVALID
    BY <1>3
  <2>3. ASSUME NEW u \in uses, NEW s \in Sets, NEW q \in Queues, NEW n \in Nat, u.res = <<"commands", s, q, n>>
        PROVE  u.tick <= commands.tick_ids[s]
    <3>1. u.res # font
      BY <1>7, <2>3
    <3>2. s = SetOf(1)
      <4>1. u.res = pool
        BY <3>1, <1>5
      <4>2. <<"commands", s, q, n>>[2] = s
        OBVIOUS
      <4>3. pool[2] = s
        BY <4>1, <4>2, <2>3
      <4> QED BY <4>3, <1>6
    <3> QED BY <3>2, <1>5, <2>2
  <2> QED BY <2>1, <2>2, <2>3 DEF SetsKept
<1>11. \A u \in uses : u.res[1] \in {"transient", "commands"}
  BY <1>5, <1>6, <1>7
<1>12. FramesKept
  BY <1>11 DEF FramesKept, ContextRes, ConstRes
<1>13. ImagesKept
  BY <1>11 DEF ImagesKept
<1>14. RingApart
  <2>1. \A f \in Frames : ring.buffers[f] = <<>>
    BY <1>1 DEF RingInit
  <2>2. \A f \in Frames : \A n : ~ HasId(ring.buffers[f], n)
    BY <2>1 DEF HasId
  <2> QED BY <2>2 DEF RingApart
<1>15. InFlightKept
  BY <1>1 DEF InFlightKept
<1> QED BY <1>8, <1>9, <1>10, <1>12, <1>13, <1>14, <1>15 DEF FlightInv

LEMMA FlightRests ==
  ASSUME FlightInv, InFlightKept, UNCHANGED vars
  PROVE  FlightInv' /\ InFlightKept'
<1>1. /\ uses' = uses /\ released' = released /\ device' = device /\ ticks' = ticks /\ commands' = commands
      /\ ring' = ring /\ swapchain' = swapchain /\ graph' = graph /\ phase' = phase
  BY DEF vars
<1>2. JunkKept'
  BY <1>1 DEF FlightInv, JunkKept, Retired
<1>3. MainKept'
  BY <1>1 DEF FlightInv, MainKept, OnMain
<1>4. SetsKept'
  BY <1>1 DEF FlightInv, SetsKept, LastServed
<1>5. FramesKept'
  BY <1>1 DEF FlightInv, FramesKept, InFrame
<1>6. ImagesKept'
  BY <1>1 DEF FlightInv, ImagesKept, InImage
<1>7. RingApart'
  BY <1>1 DEF FlightInv, RingApart
<1>8. InFlightKept'
  BY <1>1 DEF InFlightKept
<1> QED BY <1>2, <1>3, <1>4, <1>5, <1>6, <1>7, <1>8 DEF FlightInv

LEMMA FlightNext ==
  ASSUME GfxTyped, TicksInv, MeshInv, FlightInv, GfxTyped', TicksInv', Next
  PROVE  Flies
<1>1. CASE StartTick
  BY <1>1, StartTickFlies
<1>2. CASE BeginCommands
  BY <1>2, BeginCommandsFlies
<1>3. CASE BeginTransient
  BY <1>3, BeginTransientFlies
<1>4. CASE BeginMeshes
  BY <1>4, BeginMeshesFlies
<1>5. CASE AwaitFrame
  BY <1>5, AwaitFrameFlies
<1>6. CASE Acquire
  BY <1>6, AcquireFlies
<1>7. CASE Reacquire
  BY <1>7, ReacquireFlies
<1>8. CASE Record
  BY <1>8, RecordFlies
<1>9. CASE Submit
  BY <1>9, SubmitFlies
<1>10. CASE SubmitFails
  BY <1>10, SubmitFailsFlies
<1>11. CASE WaitAndReset
  BY <1>11, WaitAndResetFlies
<1>12. CASE Present
  BY <1>12, PresentFlies
<1>13. CASE EndTick
  BY <1>13, EndTickFlies
<1>14. CASE \E q \in Queues : Gpu(q)
  BY <1>14, GpuFlies
<1> QED BY <1>1, <1>2, <1>3, <1>4, <1>5, <1>6, <1>7, <1>8, <1>9, <1>10, <1>11, <1>12, <1>13, <1>14,
           Zenon DEF Next, Draw

\* Nothing that the GPU may still use is destroyed, reset or given back to the CPU: command
\* pools, frame contexts, buffers, swapchains, semaphores and pools of meshes (Device's
\* destroy queue, the resets of command and descriptor pools, the reuse of buffers).
THEOREM FlightsKept == Spec => []InFlightKept
<1> DEFINE Inv == GfxInv /\ MeshInv /\ FlightInv /\ InFlightKept
<1>1. Init => Inv
  BY GfxStarts, MeshStarts, FlightStarts
<1>2. Inv /\ [Next]_vars => Inv'
  <2> SUFFICES ASSUME GfxInv, MeshInv, FlightInv, InFlightKept, [Next]_vars
               PROVE  GfxInv' /\ MeshInv' /\ FlightInv' /\ InFlightKept'
    OBVIOUS
  <2>1. CASE Next
    <3>1. GfxInv' /\ MeshInv'
      BY <2>1, GfxStep, SurfaceStep, MeshStep DEF GfxInv
    <3>2. GfxTyped /\ TicksInv /\ GfxTyped' /\ TicksInv'
      BY <3>1 DEF GfxInv
    <3>3. FlightStep /\ InFlightKept'
      BY <2>1, <3>2, FlightNext DEF Flies
    <3>4. FlightInv'
      BY <3>2, <3>3, FlightKeeps
    <3> QED BY <3>1, <3>3, <3>4
  <2>2. CASE UNCHANGED vars
    BY <2>2, GfxRests, MeshRests, FlightRests
  <2> QED BY <2>1, <2>2
<1>3. Inv => InFlightKept
  OBVIOUS
<1> HIDE DEF Inv
<1> QED BY <1>1, <1>2, <1>3, PTL DEF Spec
=============================================================================
