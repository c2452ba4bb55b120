------------------------------ MODULE TaskQueue ------------------------------
(***************************************************************************)
(* One ring buffer of TaskQueueSet (src/voxen/svc/task_queue_set.cpp): any *)
(* number of threads push, the slave thread that owns the queue pops, one  *)
(* thread requests the stop and destroys the set.                          *)
(*                                                                         *)
(* Both indices, the wait flag and the stop flag live in one 64-bit word   *)
(* that is changed by compare-exchange only; the slots of the ring are     *)
(* atomic pointers of their own.  Every access to the word, to a slot and  *)
(* every futex call is a step.  A compare-exchange fails only when the     *)
(* word has changed (a spurious failure repeats the same turn).            *)
(***************************************************************************)
EXTENDS Integers, Sequences, FiniteSets

CONSTANTS Producers,         \* threads that push tasks
          RING_BUFFER_SIZE,
          IndexModulus,      \* the indices wrap around at it, 2^31 in the code
          MaxPushes          \* bound: tasks pushed by one producer

\* Checked by the modules that instantiate this one.
RingAssumption ==
  /\ RING_BUFFER_SIZE \in Nat \ {0}
  /\ IndexModulus \in Nat \ {0} /\ IndexModulus % RING_BUFFER_SIZE = 0
PushesAssumption == MaxPushes \in Nat

VARIABLES
  index,      \* header.current_index
  items,      \* slot -> the task it points to, or Vacant
  pc,         \* thread that pushes -> the step it takes next
  seen,       \* thread that pushes -> its local `index`
  pushes,     \* thread that pushes -> number of calls of pushTask so far
  popPc,      \* the step the slave thread takes next
  popSeen,    \* its local `index`
  waiting,    \* TRUE in popTaskOrWait, FALSE in tryPopTask
  stopPc,     \* the step the stopping thread takes next
  stopSeen,   \* its local `index`
  newIndex,   \* its local `new_index`
  order,      \* history: tasks in the order their slots were reserved
  popped      \* history: tasks in the order they were returned

pushVars == <<pc, seen, pushes, order>>
popVars  == <<popPc, popSeen, waiting, popped>>
stopVars == <<stopPc, stopSeen, newIndex>>
vars == <<index, items, pushVars, popVars, stopVars>>
-----------------------------------------------------------------------------
Slots   == 0 .. RING_BUFFER_SIZE - 1
Vacant  == <<>>
PushedTasks == Producers \X (1 .. MaxPushes)
Indices == 0 .. IndexModulus - 1
ProduceConsumeIndex ==
  [produce : Indices, consume : Indices, wait : BOOLEAN, stop : BOOLEAN]

Next1(i) == (i + 1) % IndexModulus
Slot(i)  == i % RING_BUFFER_SIZE

Init ==
  /\ index = [produce |-> 0, consume |-> 0, wait |-> FALSE, stop |-> FALSE]
  /\ items = [s \in Slots |-> Vacant]
  /\ pc = [p \in Producers |-> "idle"]
  /\ seen = [p \in Producers |-> index]
  /\ pushes = [p \in Producers |-> 0]
  /\ popPc = "idle" /\ popSeen = index /\ waiting = FALSE
  /\ stopPc = "idle" /\ stopSeen = index /\ newIndex = index
  /\ order = <<>> /\ popped = <<>>

\* Futex::wakeAll on the first word of the index.
WakeAll == popPc' = IF popPc = "asleep" THEN "reload" ELSE popPc
-----------------------------------------------------------------------------
(* pushTask                                                                *)

Task(p) == <<p, pushes[p]>>

Push(p) ==
  /\ pc[p] = "idle" /\ pushes[p] < MaxPushes
  /\ pushes' = [pushes EXCEPT ![p] = @ + 1]
  /\ seen' = [seen EXCEPT ![p] = index]
  /\ pc' = [pc EXCEPT ![p] = "push"]
  /\ UNCHANGED <<index, items, order, popVars, stopVars>>

\* (mutant) The free slots are not counted.
FullNever(i) == FALSE

\* The sum is computed in 64 bits and does not wrap around.
Full(i) == i.consume + RING_BUFFER_SIZE = i.produce

\* Full: sleeps for a while; full or slot in use: loads the index again.
PushReload(p) ==
  /\ \/ pc[p] = "push" /\ Full(seen[p])
     \/ pc[p] = "reload"
  /\ seen' = [seen EXCEPT ![p] = index]
  /\ pc' = [pc EXCEPT ![p] = "push"]
  /\ UNCHANGED <<index, items, pushes, order, popVars, stopVars>>

\* (mutant) The slot is not looked at.
PushProbeSkipped(p) ==
  /\ pc[p] = "push" /\ ~Full(seen[p])
  /\ pc' = [pc EXCEPT ![p] = "reserve"]
  /\ UNCHANGED <<index, items, seen, pushes, order, popVars, stopVars>>

PushProbe(p) ==
  /\ pc[p] = "push" /\ ~Full(seen[p])
  /\ pc' = [pc EXCEPT ![p] =
              IF items[Slot(seen[p].produce)] = Vacant THEN "reserve" ELSE "reload"]
  /\ UNCHANGED <<index, items, seen, pushes, order, popVars, stopVars>>

\* The compare-exchange of pushTask succeeds.
Unchanged(p) == index = seen[p]

PushReserve(p) ==
  /\ pc[p] = "reserve"
  /\ IF Unchanged(p)
     THEN /\ index' = [index EXCEPT !.produce = Next1(seen[p].produce), !.wait = FALSE]
          /\ order' = Append(order, Task(p))
          /\ pc' = [pc EXCEPT ![p] = "store"]
          /\ UNCHANGED seen
     ELSE /\ seen' = [seen EXCEPT ![p] = index]
          /\ pc' = [pc EXCEPT ![p] = "push"]
          /\ UNCHANGED <<index, order>>
  /\ UNCHANGED <<items, pushes, popVars, stopVars>>

NeedWake(i) == i.wait

PushStore(p) ==
  /\ pc[p] = "store"
  /\ items' = [items EXCEPT ![Slot(seen[p].produce)] = Task(p)]
  /\ pc' = [pc EXCEPT ![p] = IF NeedWake(seen[p]) THEN "wake" ELSE "idle"]
  /\ UNCHANGED <<index, seen, pushes, order, popVars, stopVars>>

PushWake(p) ==
  /\ pc[p] = "wake"
  /\ WakeAll
  /\ pc' = [pc EXCEPT ![p] = "idle"]
  /\ UNCHANGED <<index, items, seen, pushes, order, popSeen, waiting, popped, stopVars>>
-----------------------------------------------------------------------------
(* tryPopTask and popTaskOrWait                                            *)

Pop(wait) ==
  /\ popPc = "idle"
  /\ waiting' = wait
  /\ popSeen' = index
  /\ popPc' = "pop"
  /\ UNCHANGED <<index, items, popped, pushVars, stopVars>>

PopReload ==
  /\ popPc = "reload"
  /\ popSeen' = index
  /\ popPc' = "pop"
  /\ UNCHANGED <<index, items, waiting, popped, pushVars, stopVars>>

Empty(i) == i.produce = i.consume

\* Returns null: stopped, or empty and not allowed to wait.  A null from
\* popTaskOrWait ends the slave thread, a null from tryPopTask does not.
PopNothing ==
  /\ popPc = "pop"
  /\ popSeen.stop \/ (Empty(popSeen) /\ ~waiting)
  /\ popPc' = IF waiting THEN "exited" ELSE "idle"
  /\ UNCHANGED <<index, items, popSeen, waiting, popped, pushVars, stopVars>>

\* The compare-exchange that announces the wait.
PopSetWait ==
  /\ popPc = "pop"
  /\ ~popSeen.stop /\ Empty(popSeen) /\ waiting
  /\ IF index = popSeen
     THEN index' = [index EXCEPT !.wait = TRUE] /\ popPc' = "wait" /\ UNCHANGED popSeen
     ELSE popSeen' = index /\ UNCHANGED <<index, popPc>>
  /\ UNCHANGED <<items, waiting, popped, pushVars, stopVars>>

\* The word the futex compares: produce index and wait flag as they were
\* BEFORE the flag was set, so that the first wait returns at once.
SameWord(i) == i.produce = index.produce /\ i.wait = index.wait

PopWait ==
  /\ popPc = "wait"
  /\ popPc' = IF SameWord(popSeen) THEN "asleep" ELSE "reload"
  /\ UNCHANGED <<index, items, popSeen, waiting, popped, pushVars, stopVars>>

\* The futex call may return without a wake.
PopSpurious ==
  /\ popPc = "asleep"
  /\ popPc' = "reload"
  /\ UNCHANGED <<index, items, popSeen, waiting, popped, pushVars, stopVars>>

PopProbe ==
  /\ popPc = "pop"
  /\ ~popSeen.stop /\ ~Empty(popSeen)
  /\ popPc' = IF items[Slot(popSeen.consume)] = Vacant THEN "reload" ELSE "reserve"
  /\ UNCHANGED <<index, items, popSeen, waiting, popped, pushVars, stopVars>>

PopReserve ==
  /\ popPc = "reserve"
  /\ IF index = popSeen
     THEN /\ index' = [index EXCEPT !.consume = Next1(@)]
          /\ popPc' = "take" /\ UNCHANGED popSeen
     ELSE popSeen' = index /\ popPc' = "pop" /\ UNCHANGED index
  /\ UNCHANGED <<items, waiting, popped, pushVars, stopVars>>

PopTake ==
  /\ popPc = "take"
  /\ LET s == Slot(popSeen.consume)
     IN  items' = [items EXCEPT ![s] = Vacant] /\ popped' = Append(popped, items[s])
  /\ popPc' = "idle"
  /\ UNCHANGED <<index, popSeen, waiting, pushVars, stopVars>>
-----------------------------------------------------------------------------
(* requestStopAll, and the destructor after the slave was joined           *)

StopLoad ==
  /\ stopPc = "idle"
  /\ stopSeen' = index /\ newIndex' = index
  /\ stopPc' = "stop"
  /\ UNCHANGED <<index, items, pushVars, popVars>>

\* A failed compare-exchange reloads `index` but not `new_index`.
StopSet ==
  /\ stopPc = "stop"
  /\ IF index = stopSeen
     THEN /\ index' = [newIndex EXCEPT !.wait = FALSE, !.stop = TRUE]
          /\ stopPc' = IF NeedWake(stopSeen) THEN "wake" ELSE "join"
          /\ UNCHANGED stopSeen
     ELSE stopSeen' = index /\ UNCHANGED <<index, stopPc>>
  /\ UNCHANGED <<items, newIndex, pushVars, popVars>>

StopWake ==
  /\ stopPc = "wake"
  /\ WakeAll
  /\ stopPc' = "join"
  /\ UNCHANGED <<index, items, popSeen, waiting, popped, stopSeen, newIndex, pushVars>>

\* ~TaskQueueSet pops until it gets null, which a stopped queue returns at once.
Drained == IF index.stop THEN items ELSE [s \in Slots |-> Vacant]

Destroy ==
  /\ stopPc = "join" /\ popPc = "exited"
  /\ \A p \in Producers : pc[p] = "idle"
  /\ items' = Drained
  /\ stopPc' = "destroyed"
  /\ UNCHANGED <<index, stopSeen, newIndex, pushVars, popVars>>
-----------------------------------------------------------------------------
PushSteps(p) == PushReload(p) \/ PushProbe(p) \/ PushReserve(p) \/ PushStore(p) \/ PushWake(p)
PopSteps == \/ \E wait \in BOOLEAN : Pop(wait)
            \/ PopReload \/ PopNothing \/ PopSetWait \/ PopWait
            \/ PopProbe \/ PopReserve \/ PopTake
StopSteps == StopSet \/ StopWake \/ Destroy

Next == \/ \E p \in Producers : (Push(p) /\ stopPc # "destroyed") \/ PushSteps(p)
        \/ PopSteps \/ PopSpurious
        \/ StopLoad \/ StopSteps

Spec == Init /\ [][Next]_vars

\* A running thread takes its next step, and the slave thread runs out of
\* waiting tasks again and again; nobody has to push, to request the stop or to
\* wake up spuriously.
FairSpec ==
  /\ Spec
  /\ \A p \in Producers : WF_vars(PushSteps(p))
  /\ WF_vars(PopSteps) /\ SF_vars(Pop(TRUE)) /\ WF_vars(StopSteps)
-----------------------------------------------------------------------------
(* Properties                                                              *)

TypeOK ==
  /\ index \in ProduceConsumeIndex
  /\ items \in [Slots -> PushedTasks \cup {Vacant}]
  /\ pc \in [Producers -> {"idle", "push", "reload", "reserve", "store", "wake"}]
  /\ seen \in [Producers -> ProduceConsumeIndex]
  /\ pushes \in [Producers -> 0 .. MaxPushes]
  /\ popPc \in {"idle", "pop", "reload", "wait", "asleep", "reserve", "take", "exited"}
  /\ popSeen \in ProduceConsumeIndex
  /\ waiting \in BOOLEAN
  /\ stopPc \in {"idle", "stop", "wake", "join", "destroyed"}
  /\ stopSeen \in ProduceConsumeIndex /\ newIndex \in ProduceConsumeIndex
  /\ order \in Seq(PushedTasks) /\ popped \in Seq(PushedTasks)

\* A producer that reserved a slot owns it: no other producer has reserved the
\* same slot, and the slot stays empty until it stores (pushTask, "`item` is
\* reserved for us now - no other push or pop can touch it").
Exclusive ==
  \A p \in Producers : pc[p] = "store" =>
     /\ items[Slot(seen[p].produce)] = Vacant
     /\ \A q \in Producers \ {p} :
          pc[q] = "store" => Slot(seen[q].produce) # Slot(seen[p].produce)

\* Nothing is lost and nothing is invented: the tasks neither popped nor on
\* their way into a slot are the tasks of the ring.
Conserved ==
  {items[s] : s \in Slots} \ {Vacant} =
    {order[i] : i \in Len(popped) + 1 .. Len(order)}
      \ {Task(p) : p \in {q \in Producers : pc[q] = "store"}}

\* The slave thread gets the tasks in the order their slots were reserved.
PoppedInOrder == \A i \in 1 .. Len(popped) : i <= Len(order) /\ popped[i] = order[i]

\* Until the stop is requested a reserved slot belongs to its producer alone, the ring
\* holds the tasks it should and gives them in order, whatever the stalled producers
\* and the slave thread do.  It takes a produce index that does not wrap around: with
\* the wrapped index a full ring is not seen as full ("So that wraparound of
\* `ProduceConsumeIndex` does not cause troubles" asks for more).
RingConsistent == TypeOK /\ (index.stop \/ (Exclusive /\ Conserved /\ PoppedInOrder))

\* The ring implements a FIFO queue of RING_BUFFER_SIZE tasks: the task being
\* taken still occupies its slot although the index no longer counts it.
Queue == INSTANCE BoundedQueue WITH
           Values   <- PushedTasks,
           Capacity <- RING_BUFFER_SIZE,
           queue    <- SubSeq(order, Len(popped) + 1, Len(order)),
           stopped  <- index.stop
ImplementsQueue == Queue!Spec

\* No wake-up is lost and nobody spins for ever: unless the queue is stopped, again and
\* again every call of pushTask has returned and every task was popped (pushTask wakes
\* and retries on a full ring, popTaskOrWait waits on an older word).
AllDelivered ==
  index.stop \/ (Len(popped) = Len(order) /\ \A p \in Producers : pc[p] = "idle")

\* The stop reaches the slave thread even when it is about to fall asleep, so
\* that the join of ~TaskServiceImpl returns.
StopReachesSlave == stopPc # "idle" ~> popPc = "exited"

=============================================================================
