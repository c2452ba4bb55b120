----------------------------- MODULE TaskService -----------------------------
(***************************************************************************)
(* The task service (src/voxen/svc/task_service.cpp, task_service_slave.   *)
(* cpp, task_handle.cpp, task_builder.cpp): slave threads take tasks from  *)
(* their queues, hold those that wait back in a local queue, run them and  *)
(* signal their completion through parents, handles and counters.          *)
(*                                                                         *)
(* A queue is the FIFO queue of BoundedQueue, the tracker of the counters  *)
(* the set that AsyncCounters promises.  The atomic word of a task header  *)
(* is a record; every atomic operation on it is a step.  The program that  *)
(* runs on the service is chosen once: the threads it has, what each task  *)
(* waits for, whose continuation it is and where its coroutine suspends.   *)
(***************************************************************************)
EXTENDS Integers, Sequences, FiniteSets, SequencesExt

CONSTANTS Slaves, Tasks, NoTask,
          Programs,      \* the programs, Init chooses one of them
          RunLength      \* 50 in the code

\* threads: the slaves of the configuration; tasks: what it enqueues; waits: the tasks whose counters
\* were given to addWait; continuationOf: the task whose functor enqueues it, or
\* NoTask; awaits: the tasks that a coroutine awaits, in this order; handled: the
\* tasks enqueued with a handle.
ProgramType ==
  [threads : SUBSET Slaves, tasks : SUBSET Tasks, waits : [Tasks -> SUBSET Tasks],
   continuationOf : [Tasks -> Tasks \cup {NoTask}], awaits : [Tasks -> Seq(Tasks)],
   handled : SUBSET Tasks]

\* Checked by the modules that instantiate this one.
ProgramAssumption ==
  /\ NoTask \notin Tasks /\ RunLength \in Nat
  /\ Programs \subseteq ProgramType
  /\ \A p \in Programs : \A t \in Tasks :
       /\ t \in p.handled => p.continuationOf[t] = NoTask
       /\ p.awaits[t] # <<>> => \A c \in Tasks : p.continuationOf[c] # t

VARIABLES
  program,    \* what runs on the service
  enqueued,   \* tasks that have a header and a counter
  word,       \* task -> atomic_word of its header
  freed,      \* tasks whose header was destroyed
  remaining,  \* task -> waitCountersArray: counters it still waits for
  parent,     \* task -> parent_handle
  pos,        \* coroutine -> number of counters it has awaited so far
  completions,\* task -> number of calls of completeCounter with its counter
  queue,      \* slave -> its queue
  stopped,    \* the stop flag of all queues
  pc,         \* slave -> the step it takes next
  task,       \* slave -> its local `task`
  local,      \* slave -> local_waiting_queue
  at,         \* slave -> position in the local queue while it drains it, or 0
  executed,   \* slave -> executed_independent_tasks
  todo,       \* slave -> continuations the running functor has not yet enqueued
  stack,      \* slave -> activations of doCompleteAndUnref, the outermost first
  client,     \* task -> the step the owner of its handle takes next
  seen,       \* task -> the word the owner of its handle loaded
  started, ended  \* history: tasks whose functor has begun and ended

taskVars == <<enqueued, word, freed, parent, completions>>
slaveVars == <<pc, task, local, at, executed, todo, stack>>
clientVars == <<client, seen>>
history == <<started, ended>>
vars == <<program, taskVars, remaining, pos, queue, stopped, slaveVars, clientVars, history>>
-----------------------------------------------------------------------------
SlaveThreads == program.threads
Waits == program.waits
ContinuationOf == program.continuationOf
Awaits == program.awaits
Handled == program.handled
Children(t) == {c \in program.tasks : ContinuationOf[c] = t}
Roots == Children(NoTask)

Words == [refs : Int, conts : Int, waiting : BOOLEAN, finished : BOOLEAN]
Complete == {t \in Tasks : completions[t] > 0}

Init ==
  /\ program \in Programs
  /\ enqueued = {} /\ freed = {}
  /\ word = [t \in Tasks |-> [refs |-> 0, conts |-> 0, waiting |-> FALSE, finished |-> FALSE]]
  /\ remaining = Waits /\ parent = [t \in Tasks |-> NoTask]
  /\ pos = [t \in Tasks |-> 0] /\ completions = [t \in Tasks |-> 0]
  /\ queue = [s \in Slaves |-> <<>>] /\ stopped = FALSE
  /\ pc = [s \in Slaves |-> "wait"] /\ task = [s \in Slaves |-> NoTask]
  /\ local = [s \in Slaves |-> <<>>] /\ at = [s \in Slaves |-> 0]
  /\ executed = [s \in Slaves |-> 0] /\ todo = [s \in Slaves |-> {}]
  /\ stack = [s \in Slaves |-> <<>>]
  /\ client = [t \in Tasks |-> "none"] /\ seen = word
  /\ started = {} /\ ended = {}

\* doReleaseRef
Released(w) == [w EXCEPT !.refs = @ - 1]
Release(t) ==
  /\ word' = [word EXCEPT ![t] = Released(@)]
  /\ freed' = IF word[t].refs = 1 THEN freed \cup {t} ELSE freed
-----------------------------------------------------------------------------
(* TaskBuilder and TaskServiceImpl::enqueueTask                            *)

\* setParent
Added(w) == [w EXCEPT !.conts = @ + 1, !.refs = @ + 1]

\* A new header with p as parent goes into some queue, the hash of its counter
\* and address says which.
Create(t, p) ==
  /\ t \notin enqueued /\ Waits[t] \cup ToSet(Awaits[t]) \subseteq enqueued
  /\ enqueued' = enqueued \cup {t}
  /\ parent' = [parent EXCEPT ![t] = p]
  /\ word' = [w \in Tasks |->
       IF w = t THEN [word[t] EXCEPT !.refs = IF t \in Handled THEN 2 ELSE 1]
       ELSE IF w = p THEN Added(word[p]) ELSE word[w]]
  /\ \E s \in SlaveThreads : queue' = [queue EXCEPT ![s] = Append(@, t)]

EnqueueRoot(t) ==
  /\ t \in Roots /\ ~stopped
  /\ Create(t, NoTask)
  /\ client' = IF t \in Handled THEN [client EXCEPT ![t] = "hold"] ELSE client
  /\ UNCHANGED <<freed, remaining, pos, completions, stopped, slaveVars, seen, history>>
-----------------------------------------------------------------------------
(* TaskHandle                                                              *)

Step(t, step) == client' = [client EXCEPT ![t] = step]

WaitCall(t) ==
  /\ client[t] = "hold"
  /\ Step(t, IF word[t].finished THEN "waited" ELSE "flag")
  /\ UNCHANGED <<taskVars, remaining, pos, queue, stopped, slaveVars, seen, history>>

\* fetch_or returns the word without the waiting bit.
WaitFlag(t) ==
  /\ client[t] = "flag"
  /\ word' = [word EXCEPT ![t].waiting = TRUE]
  /\ seen' = [seen EXCEPT ![t] = word[t]]
  /\ Step(t, IF word[t].finished THEN "waited" ELSE "futex")
  /\ UNCHANGED <<enqueued, freed, parent, completions, remaining, pos, queue, stopped,
                 slaveVars, history>>

WaitFutex(t) ==
  /\ client[t] = "futex"
  /\ Step(t, IF word[t] = seen[t] THEN "asleep" ELSE "reload")
  /\ UNCHANGED <<taskVars, remaining, pos, queue, stopped, slaveVars, seen, history>>

WaitSpurious(t) ==
  /\ client[t] = "asleep"
  /\ Step(t, "reload")
  /\ UNCHANGED <<taskVars, remaining, pos, queue, stopped, slaveVars, seen, history>>

WaitReload(t) ==
  /\ client[t] = "reload"
  /\ seen' = [seen EXCEPT ![t] = word[t]]
  /\ Step(t, IF word[t].finished THEN "waited" ELSE "futex")
  /\ UNCHANGED <<taskVars, remaining, pos, queue, stopped, slaveVars, history>>

ResetHandle(t) ==
  /\ client[t] \in {"hold", "waited"}
  /\ Release(t)
  /\ Step(t, "dropped")
  /\ UNCHANGED <<enqueued, parent, completions, remaining, pos, queue, stopped, slaveVars,
                 seen, history>>
-----------------------------------------------------------------------------
(* TaskServiceSlave::threadFn: taking tasks                                *)

Goto(s, step) == pc' = [pc EXCEPT ![s] = step]
Current(s) == IF at[s] = 0 THEN task[s] ELSE local[s][at[s]]

TakeTask(s) ==
  /\ ~stopped /\ queue[s] # <<>>
  /\ task' = [task EXCEPT ![s] = Head(queue[s])]
  /\ queue' = [queue EXCEPT ![s] = Tail(@)]
  /\ Goto(s, "execute")
  /\ UNCHANGED at

StartDrain(s) == at' = [at EXCEPT ![s] = 1] /\ Goto(s, "drain")

\* popTaskOrWait
PopOrWait(s) ==
  /\ pc[s] = "wait"
  /\ \/ TakeTask(s)
     \/ stopped /\ Goto(s, "exited") /\ UNCHANGED <<task, queue, at>>
  /\ UNCHANGED <<taskVars, remaining, pos, stopped, local, executed, todo, stack, clientVars,
                 history>>

\* tryPopTask while tasks wait in the local queue; without a task drains that
\* queue, and without waiting tasks waits.
TryPop(s) ==
  /\ pc[s] = "poll"
  /\ \/ TakeTask(s)
     \/ /\ stopped \/ queue[s] = <<>>
        /\ IF local[s] # <<>> THEN StartDrain(s) ELSE Goto(s, "wait") /\ UNCHANGED at
        /\ UNCHANGED <<task, queue>>
  /\ UNCHANGED <<taskVars, remaining, pos, stopped, local, executed, todo, stack, clientVars,
                 history>>

\* Where the main loop looks for the next task.
Resume(s, waitingTasks) == Goto(s, IF waitingTasks # <<>> THEN "poll" ELSE "wait")

\* trimCompleteCounters
IncompleteCounters(t) == remaining[t] \ Complete

\* One turn of tryDrainLocalQueue, up to the execution of its task.
Drain(s) ==
  /\ pc[s] = "drain"
  /\ IF at[s] <= Len(local[s])
     THEN /\ remaining' = [remaining EXCEPT ![Current(s)] = IncompleteCounters(Current(s))]
          /\ Goto(s, "execute")
          /\ UNCHANGED at
     ELSE /\ at' = [at EXCEPT ![s] = 0]
          /\ Resume(s, local[s])
          /\ UNCHANGED remaining
  /\ UNCHANGED <<taskVars, pos, queue, stopped, task, local, executed, todo, stack, clientVars,
                 history>>
-----------------------------------------------------------------------------
(* Executing a task: tryExecuteAndResetTask                                *)

Blocked(t) ==
  \/ remaining[t] # {}
  \/ pos[t] > 0 /\ Awaits[t][pos[t]] \notin Complete
Suspends(t) == pos[t] < Len(Awaits[t])

AfterKept(i) == i + 1

\* The task stays in the local queue, or comes into it.
Keep(s) ==
  IF at[s] = 0
  THEN /\ local' = [local EXCEPT ![s] = Append(@, task[s])]
       /\ task' = [task EXCEPT ![s] = NoTask]
       /\ StartDrain(s)
  ELSE /\ at' = [at EXCEPT ![s] = AfterKept(@)]
       /\ Goto(s, "drain")
       /\ UNCHANGED <<local, task>>

\* The task is blocked, or its coroutine runs to its next suspension.
ExecuteSuspends(s) ==
  /\ pc[s] = "execute"
  /\ LET t == Current(s)
     IN  \/ Blocked(t) /\ UNCHANGED <<pos, started>>
         \/ /\ ~Blocked(t) /\ Suspends(t)
            /\ pos' = [pos EXCEPT ![t] = @ + 1]
            /\ started' = started \cup {t}
  /\ Keep(s)
  /\ UNCHANGED <<taskVars, remaining, queue, stopped, executed, todo, stack, clientVars, ended>>

\* The functor begins, or the coroutine runs to its end.
Execute(s) ==
  /\ pc[s] = "execute"
  /\ LET t == Current(s)
     IN  /\ ~Blocked(t) /\ ~Suspends(t)
         /\ todo' = [todo EXCEPT ![s] = Children(t)]
         /\ started' = started \cup {t}
  /\ Goto(s, "functor")
  /\ UNCHANGED <<taskVars, remaining, pos, queue, stopped, task, local, at, executed, stack,
                 clientVars, ended>>

\* The functor enqueues a continuation, at once and not when it ends.
Continue(s, c) ==
  /\ pc[s] = "functor" /\ c \in todo[s]
  /\ Create(c, Current(s))
  /\ todo' = [todo EXCEPT ![s] = @ \ {c}]
  /\ UNCHANGED <<freed, completions, remaining, pos, stopped, pc, task, local, at, executed,
                 stack, clientVars, history>>

EndFunctor(s) ==
  /\ pc[s] = "functor" /\ todo[s] = {}
  /\ ended' = ended \cup {Current(s)}
  /\ Goto(s, "check")
  /\ UNCHANGED <<taskVars, remaining, pos, queue, stopped, task, local, at, executed, todo,
                 stack, clientVars, started>>

Activation(t) == [task |-> t, step |-> "parent", ref |-> NoTask, wake |-> FALSE]

HasContinuations(t) == word[t].conts # 0

Check(s) ==
  /\ pc[s] = "check"
  /\ IF HasContinuations(Current(s))
     THEN Goto(s, "reset") /\ UNCHANGED stack
     ELSE stack' = [stack EXCEPT ![s] = <<Activation(Current(s))>>] /\ Goto(s, "complete")
  /\ UNCHANGED <<taskVars, remaining, pos, queue, stopped, task, local, at, executed, todo,
                 clientVars, history>>

\* The handle is null now: it leaves the local queue, or the main loop counts
\* one more independent task and drains after RunLength of them.
Finished(s) ==
  /\ IF at[s] > 0
     THEN /\ local' = [local EXCEPT ![s] = RemoveAt(@, at[s])]
          /\ Goto(s, "drain")
          /\ UNCHANGED <<task, at, executed>>
     ELSE /\ task' = [task EXCEPT ![s] = NoTask]
          /\ IF local[s] # <<>> /\ executed[s] >= RunLength
             THEN executed' = [executed EXCEPT ![s] = 0] /\ StartDrain(s)
             ELSE /\ executed' = [executed EXCEPT ![s] =
                                    IF @ < RunLength THEN @ + 1 ELSE @]
                  /\ Resume(s, local[s])
                  /\ UNCHANGED at
          /\ UNCHANGED local

Reset(s) ==
  /\ pc[s] = "reset"
  /\ Release(Current(s))
  /\ Finished(s)
  /\ UNCHANGED <<enqueued, parent, completions, remaining, pos, queue, stopped, todo, stack,
                 clientVars, history>>
-----------------------------------------------------------------------------
(* Signalling the completion: doCompleteAndUnref and onTaskComplete        *)

Completing(s, step) == pc[s] = "complete" /\ Last(stack[s]).step = step
Top(s) == Last(stack[s])
Advance(s, changes) == stack' = [stack EXCEPT ![s] = Append(Front(@), changes)]

\* The last continuation completes its parent first, another one releases it.
CompleteParent(s) ==
  /\ Completing(s, "parent")
  /\ LET t == Top(s).task
         p == parent[t]
     IN  \/ /\ p = NoTask
            /\ Advance(s, [Top(s) EXCEPT !.step = "flag"])
            /\ UNCHANGED <<word, parent>>
         \/ /\ p # NoTask
            /\ word' = [word EXCEPT ![p].conts = @ - 1]
            /\ parent' = [parent EXCEPT ![t] = NoTask]
            /\ IF word[p].conts = 1
               THEN stack' = [stack EXCEPT ![s] =
                      Front(@) \o <<[Top(s) EXCEPT !.step = "flag"], Activation(p)>>]
               ELSE Advance(s, [Top(s) EXCEPT !.step = "unrefParent", !.ref = p])
  /\ UNCHANGED <<enqueued, freed, completions, remaining, pos, queue, stopped, pc, task, local,
                 at, executed, todo, clientVars, history>>

CompleteUnrefParent(s) ==
  /\ Completing(s, "unrefParent")
  /\ Release(Top(s).ref)
  /\ Advance(s, [Top(s) EXCEPT !.step = "flag", !.ref = NoTask])
  /\ UNCHANGED <<enqueued, parent, completions, remaining, pos, queue, stopped, pc, task, local,
                 at, executed, todo, clientVars, history>>

NeedWake(w) == w.waiting

CompleteFlag(s) ==
  /\ Completing(s, "flag")
  /\ LET t == Top(s).task
     IN  /\ word' = [word EXCEPT ![t].finished = TRUE]
         /\ Advance(s, [Top(s) EXCEPT !.step = "unref", !.wake = NeedWake(word[t])])
  /\ UNCHANGED <<enqueued, freed, parent, completions, remaining, pos, queue, stopped, pc, task,
                 local, at, executed, todo, clientVars, history>>

\* (mutant) The reference is not released.
CompleteKeepsRef(s) ==
  /\ Completing(s, "unref")
  /\ Advance(s, [Top(s) EXCEPT !.step = "counter"])
  /\ UNCHANGED <<taskVars, remaining, pos, queue, stopped, pc, task, local, at, executed, todo,
                 clientVars, history>>

CompleteUnref(s) ==
  /\ Completing(s, "unref")
  /\ Release(Top(s).task)
  /\ Advance(s, [Top(s) EXCEPT !.step = "counter"])
  /\ UNCHANGED <<enqueued, parent, completions, remaining, pos, queue, stopped, pc, task, local,
                 at, executed, todo, clientVars, history>>

CompleteCounter(s) ==
  /\ Completing(s, "counter")
  /\ completions' = [completions EXCEPT ![Top(s).task] = @ + 1]
  /\ Advance(s, [Top(s) EXCEPT !.step = "wake"])
  /\ UNCHANGED <<enqueued, word, freed, parent, remaining, pos, queue, stopped, pc, task, local,
                 at, executed, todo, clientVars, history>>

\* Wakes the threads that wait on the address of the word, if any, and returns
\* to the activation below or to the slave loop.
CompleteWake(s) ==
  /\ Completing(s, "wake")
  /\ client' = IF Top(s).wake /\ client[Top(s).task] = "asleep"
               THEN [client EXCEPT ![Top(s).task] = "reload"] ELSE client
  /\ stack' = [stack EXCEPT ![s] = Front(@)]
  /\ IF Len(stack[s]) = 1 THEN Finished(s) ELSE UNCHANGED <<pc, task, local, at, executed>>
  /\ UNCHANGED <<taskVars, remaining, pos, queue, stopped, todo, seen, history>>
-----------------------------------------------------------------------------
\* ~TaskServiceImpl raises the stop flag and joins the slaves.
Stop ==
  /\ ~stopped /\ Roots \subseteq enqueued
  /\ stopped' = TRUE
  /\ UNCHANGED <<taskVars, remaining, pos, queue, slaveVars, clientVars, history>>

SlaveSteps(s) ==
  \/ PopOrWait(s) \/ TryPop(s) \/ Drain(s)
  \/ ExecuteSuspends(s) \/ Execute(s) \/ (\E c \in Tasks : Continue(s, c)) \/ EndFunctor(s)
  \/ Check(s) \/ Reset(s)
  \/ CompleteParent(s) \/ CompleteUnrefParent(s) \/ CompleteFlag(s) \/ CompleteUnref(s)
  \/ CompleteCounter(s) \/ CompleteWake(s)
WaitSteps(t) == WaitFlag(t) \/ WaitFutex(t) \/ WaitReload(t)

Next ==
  /\ \/ \E t \in Tasks : \/ EnqueueRoot(t) \/ WaitCall(t) \/ WaitSteps(t)
                         \/ WaitSpurious(t) \/ ResetHandle(t)
     \/ \E s \in SlaveThreads : SlaveSteps(s)
     \/ Stop
  /\ UNCHANGED program

Spec == Init /\ [][Next]_vars

\* Running threads take their next step; nobody has to enqueue, to call wait,
\* to drop a handle or to stop the service.
FairSpec ==
  /\ Spec
  /\ \A s \in Slaves : WF_vars(s \in SlaveThreads /\ SlaveSteps(s) /\ UNCHANGED program)
  /\ \A t \in Tasks : WF_vars(WaitSteps(t) /\ UNCHANGED program)
-----------------------------------------------------------------------------
(* Properties                                                              *)

TypeOK ==
  /\ word \in [Tasks -> [refs : 0 .. 2 + Cardinality(Tasks), conts : 0 .. Cardinality(Tasks),
                         waiting : BOOLEAN, finished : BOOLEAN]]
  /\ freed \subseteq enqueued /\ enqueued \subseteq Tasks
  /\ remaining \in [Tasks -> SUBSET Tasks] /\ parent \in [Tasks -> Tasks \cup {NoTask}]
  /\ \A t \in Tasks : pos[t] \in 0 .. Len(Awaits[t])
  /\ completions \in [Tasks -> Nat]
  /\ \A s \in Slaves :
       /\ queue[s] \in Seq(Tasks) /\ local[s] \in Seq(Tasks)
       /\ pc[s] \in {"wait", "poll", "drain", "execute", "functor", "check", "reset",
                     "complete", "exited"}
       /\ task[s] \in Tasks \cup {NoTask} /\ at[s] \in 0 .. Len(local[s]) + 1
       /\ executed[s] \in 0 .. RunLength /\ todo[s] \subseteq Tasks
       /\ (pc[s] = "complete") <=> (stack[s] # <<>>)

\* The tasks that slave s holds a handle of, the one it completes until the
\* outermost activation has released it.
Held(s) ==
  ({task[s]} \cup ToSet(local[s]))
    \ ({NoTask} \cup {t \in Tasks : /\ stack[s] # <<>> /\ Head(stack[s]).task = t
                                   /\ Head(stack[s]).step \in {"counter", "wake"}})

Slots == Slaves \X (1 .. Cardinality(Tasks))

\* Everything that refers to the header of task t.
Owners(t) ==
  Cardinality({x \in Slots : x[2] <= Len(queue[x[1]]) /\ queue[x[1]][x[2]] = t})
    + Cardinality({s \in Slaves : t \in Held(s)})
    + Cardinality({c \in Tasks : parent[c] = t})
    + (IF client[t] \in {"none", "dropped"} THEN 0 ELSE 1)
    + Cardinality({x \in Slots :
        /\ x[2] <= Len(stack[x[1]])
        /\ LET top == stack[x[1]][x[2]]
           IN  \/ top.ref = t
               \/ x[2] > 1 /\ top.task = t /\ top.step \notin {"counter", "wake"}})

\* The reference count of a header counts its owners exactly, and the header is
\* destroyed when the last of them is gone: no use after free and no leak.
RefsExact ==
  /\ TypeOK
  /\ \A t \in enqueued :
       /\ word[t].refs = Owners(t)
       /\ t \in freed <=> Owners(t) = 0

\* The task, its continuations and theirs.
Whole[t \in Tasks] == {t} \cup UNION {Whole[c] : c \in Children(t)}

\* A task begins only when all it waits for has ended, continuations included
\* (addWait, and "the whole task tree" of the continuations).
DependenciesEnded == \A t \in started : \A w \in Waits[t] : Whole[w] \subseteq ended

\* "This function must be called *exactly once* for any given value."
CompletedOnce == \A t \in Tasks : completions[t] <= 1

\* When the counter of a task is complete, its handles say that it is finished
\* and, if there is none, its resources are released already; and "every
\* continuation task ends, including all the recursively launched ones"; it completes
\* once, and what waits for it begins no earlier.
CompletionOrder ==
  /\ \A t \in Complete :
       /\ Whole[t] \subseteq ended
       /\ word[t].finished
       /\ client[t] \in {"none", "dropped"} => t \in freed
  /\ CompletedOnce /\ DependenciesEnded

\* Every task completes unless the service is stopped, whatever queue it is in
\* and whatever it waits for; waiting tasks starve nobody.
\* (The tasks are finitely many and complete for good, so this is each of them.)
Completed == enqueued \subseteq Complete \/ stopped

Waiting(t) == client[t] \in {"flag", "futex", "asleep", "reload"}

\* wait returns unless the service is stopped: no wake-up is lost.
WaitsReturned == stopped \/ \A t \in enqueued : ~Waiting(t)
=============================================================================
