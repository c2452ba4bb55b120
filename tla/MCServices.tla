----------------------------- MODULE MCServices -----------------------------
(***************************************************************************)
(* Services side by side: the task service and one ring of its queues,     *)
(* messaging with a server and a client that comes and goes, the file      *)
(* service, the locator, and the lock they all use.  A behaviour runs one  *)
(* of them, and leaves the others in their initial states.  (TaskService   *)
(* takes the queues as the FIFO queues that TaskQueue is shown to          *)
(* implement.)                                                             *)
(***************************************************************************)
EXTENDS FutexLock, TLC

CONSTANTS t1, t2, t3,
          f1, f2, Pushers, MaxCommands,
          agent, server, Agents, Servers, Links, BatchSize, MaxQueues, MaxMsgs,
          a1, a2, worldService, landService, taskService, bad, worse,
          Services, Callers, Deps, MaxRequests,
          p1, p2, Producers, RING_BUFFER_SIZE, IndexModulus, MaxPushes,
          s1, s2, a, b, c, d, Slaves, Tasks, NoTask, Programs, RunLength

VARIABLES
  component,
  counter, ioQueue, pushPc, sent, ioPc, work, left, item, stopPc, pushed, done,
  route, inbound, waitWord, free, msgs, agentPc, mine, batch, out, req, agentSeen, lost,
  active, factories, startOrder, pending, frames, asked, thrown, dying, down, crossed,
  index, items, ringPc, ringSeen, pushes, popPc, popSeen, waiting, ringStopPc, stopSeen,
  newIndex, order, popped,
  program, enqueued, word, freed, remaining, parent, pos, completions, queue, stopped, slavePc,
  task, local, at, executed, todo, stack, client, seen, started, ended

Files == INSTANCE AsyncFileIo
Messages == INSTANCE Messaging WITH pc <- agentPc, queue <- inbound, seen <- agentSeen
Locator == INSTANCE ServiceLocator
Ring == INSTANCE TaskQueue WITH pc <- ringPc, seen <- ringSeen, stopPc <- ringStopPc
Work == INSTANCE TaskService WITH pc <- slavePc

ASSUME MessagingAssumption == Messages!MessagingAssumption
ASSUME LocatorAssumption == Locator!DepsAssumption
ASSUME RingConstants == Ring!RingAssumption /\ Ring!PushesAssumption
ASSUME ProgramAssumption == Work!ProgramAssumption

ThreeThreads == {t1, t2, t3}
TwoPushers == {f1, f2}
TwoProducers == {p1, p2}
TwoSlaves == {s1, s2}
BothWays == {<<agent, server>>, <<server, agent>>}

\* The engine's services, and two that need each other.
EngineServices == {worldService, landService, taskService, bad, worse}
EngineDeps ==
  worldService :> <<landService, taskService>> @@ landService :> <<taskService>>
    @@ taskService :> <<>>
    @@ bad :> <<taskService, worse>> @@ worse :> <<bad>>

FourTasks == {a, b, c, d}
Program(threads, tasks, waits, continuationOf, awaits) ==
  [threads |-> threads, tasks |-> tasks, handled |-> {a},
   waits |-> waits @@ [t \in FourTasks |-> {}],
   continuationOf |-> continuationOf @@ [t \in FourTasks |-> NoTask],
   awaits |-> awaits @@ [t \in FourTasks |-> <<>>]]

\* b waits for a, c is a coroutine that awaits b.
Chain == Program({s1, s2}, {a, b, c}, b :> {a}, <<>>, c :> <<b>>)

\* a has the continuation b, b has the continuation c, d waits for a.
Tree == Program({s1}, FourTasks, d :> {a}, b :> a @@ c :> b, <<>>)
ChainAndTree == {Chain, Tree}

\* a has the continuations b and c.
Fork == Program({s1, s2}, {a, b, c}, <<>>, b :> a @@ c :> a, <<>>)
OnlyFork == {Fork}

fileVars == <<counter, ioQueue, pushPc, sent, ioPc, work, left, item, stopPc, pushed, done>>
messageVars == <<route, inbound, waitWord, free, msgs, agentPc, mine, batch, out, req, agentSeen, lost>>
locatorVars == <<active, factories, startOrder, pending, frames, asked, thrown, dying, down, crossed>>
ringVars == <<index, items, ringPc, ringSeen, pushes, popPc, popSeen, waiting, ringStopPc, stopSeen,
              newIndex, order, popped>>
workVars == <<program, enqueued, word, freed, remaining, parent, pos, completions, queue, stopped,
              slavePc, task, local, at, executed, todo, stack, client, seen, started, ended>>
smallVars == <<vars, fileVars, locatorVars>>
allVars == <<component, smallVars, messageVars, ringVars, workVars>>

InLock(A) == component = "lock" /\ A /\ UNCHANGED <<component, fileVars, messageVars, locatorVars, ringVars, workVars>>
InFiles(A) == component = "files" /\ A /\ UNCHANGED <<component, vars, messageVars, locatorVars, ringVars, workVars>>
InLocator(A) == component = "locator" /\ A /\ UNCHANGED <<component, vars, fileVars, messageVars, ringVars, workVars>>
InMessaging(A) == component = "messaging" /\ A /\ UNCHANGED <<component, smallVars, ringVars, workVars>>
InRing(A) == component = "ring" /\ A /\ UNCHANGED <<component, smallVars, messageVars, workVars>>
InWork(A) == component = "work" /\ A /\ UNCHANGED <<component, smallVars, messageVars, ringVars>>

AnyInit ==
  /\ component \in {"lock", "files", "messaging", "locator", "ring", "work"}
  /\ Init /\ Files!Init /\ Messages!Init /\ Locator!Init /\ Ring!Init /\ Work!Init
  /\ component # "work" => program = Chain
AnyNext ==
  \/ InLock(Next) \/ InFiles(Files!Next) \/ InLocator(Locator!Next)
  \/ InMessaging(Messages!Next) \/ InRing(Ring!Next) \/ InWork(Work!Next)

\* The fairness of the components: a running thread takes its next step, whoever holds the
\* lock releases it, a server polls, the owner of a ring pops.  Nobody has to push, to
\* enqueue, to stop or to start a service.
AnySpec ==
  /\ AnyInit /\ [][AnyNext]_allVars
  /\ \A t \in Threads : WF_vars(component = "lock" /\ Steps(t))
  /\ \A p \in Pushers : WF_fileVars(component = "files" /\ Files!PushSteps(p))
  /\ WF_fileVars(component = "files" /\ Files!IoSteps)
  /\ WF_fileVars(component = "files" /\ Files!StopSteps)
  /\ \A x \in Agents : WF_messageVars(component = "messaging" /\ Messages!Continue(x))
  /\ \A x \in Servers :
       WF_messageVars(component = "messaging" /\ (Messages!WaitMessages(x) \/ Messages!PollMessages(x)))
  /\ \A p \in Producers : WF_ringVars(component = "ring" /\ Ring!PushSteps(p))
  /\ WF_ringVars(component = "ring" /\ Ring!PopSteps)
  /\ WF_ringVars(component = "ring" /\ Ring!StopSteps)
  /\ \A s \in Slaves :
       WF_workVars(component = "work" /\ s \in Work!SlaveThreads /\ Work!SlaveSteps(s) /\ UNCHANGED program)
  /\ WF_workVars(component = "work" /\ Work!WaitSteps(a) /\ UNCHANGED program)

-----------------------------------------------------------------------------
(* Properties; what they say in detail stands in the modules.              *)

\* The I/O thread (async_file_io_service.cpp) performs each command once, in the order of
\* the queue, and the work counter promises no command that is not queued.
CommandsInOrder == component = "files" => Files!CommandsInOrder

\* A message has as many owners as its count says while it is in queues, batches, handlers
\* and handles, and each link delivers in the order of sending (messaging_private.cpp).
MessagesExact == component = "messaging" => Messages!RefsExact /\ Messages!InOrder

\* The status of a request leaves Pending once and never changes again (message_handling.cpp).
StatusOnce == Messages!StatusOnce

\* "A circular dependency occurs if and only if a single ID is added to this set twice. This
\* means a service requires itself" (service_locator.cpp:128), whoever asks for it.
CircularOnlyIfCircular == component = "locator" => Locator!CircularOnlyIfCircular

\* A service is started after all it needs, whoever asks for it; as long as no call meets the
\* start of another thread, it also outlives those that depend on it, a circle is reported
\* when there is one, and a failed start leaves nothing behind (service_locator.cpp).
StartsSound == component = "locator" => Locator!StartsSound

\* The ring of task_queue_set.cpp, with its reservations, stores and waits in between, is
\* for its users a bounded FIFO queue.
ImplementsQueue == Ring!ImplementsQueue

\* A slot of the ring belongs to one thread at a time, and what is stored in it is what its
\* index stands for (task_queue_set.cpp).
RingConsistent == component = "ring" => Ring!RingConsistent

\* A task header has as many owners as its word says until the last frees it; a task begins
\* after what it waits for and completes after its continuations (task_service_slave.cpp).
WorkSound == component = "work" => Work!RefsExact /\ Work!CompletionOrder

\* completeCounter of async_counter_tracker.hpp "must be called *exactly once* for any given
\* value": a task with several continuations is completed by one of them (task_service_slave.cpp).
CompletedOnce == component = "work" => Work!CompletedOnce

\* Each of them returns what it was called for: a call of lock, of the file service or its
\* destructor, a wait on a request to an agent that stays, a push of a task and the pop of
\* every task pushed, the completion of every task that was enqueued and the waits on their
\* handles.  (A component that does not run has nothing to return; what a service or a
\* queue that is stopped still owes is left open.)
AllReturn ==
  []<>(/\ NobodyLocks /\ Files!AllServed /\ Messages!NobodyWaits
       /\ Ring!AllDelivered /\ Work!Completed /\ Work!WaitsReturned)
=============================================================================
