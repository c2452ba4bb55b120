------------------------------ MODULE TaskCoro ------------------------------
(***************************************************************************)
(* Task coroutines (src/voxen/svc/task_coro.cpp, task_coro.hpp): a task    *)
(* whose body awaits counters and sub-tasks.  A sub-task runs at once, on  *)
(* the stack of whoever calls it, and only when it suspends does its       *)
(* caller suspend too: the awaiting coroutines form a list, which the task *)
(* service resumes from its end.  Counters complete on other threads.      *)
(***************************************************************************)
EXTENDS Integers, Sequences, SequencesExt

CONSTANTS Counters, SubTasks, Task,
          None,
          Bodies       \* bound: what a task may do; coroutine -> sequence of steps

\* A step awaits a counter, calls a sub-task, or throws.
Await(c) == [op |-> "await", on |-> c]
Call(s) == [op |-> "call", on |-> s]
Throw == [op |-> "throw", on |-> None]

VARIABLES
  bodies,
  step,      \* coroutine -> steps begun
  state,     \* coroutine -> "none", "live", "done" or "thrown"
  blocked,   \* coroutine -> m_blocked_on_counter
  next, prev,\* sub-task -> m_next_sub_task, m_prev_sub_task
  base,      \* sub-tasks whose m_base_task is set
  top,       \* m_sub_task_stack_top
  running,   \* coroutines on the native stack
  complete,  \* counters that have completed
  frames     \* coroutines whose frames exist

coroVars == <<bodies, step, state, blocked, next, prev, base, top, running, complete, frames>>

Coroutines == SubTasks \cup {Task}
-----------------------------------------------------------------------------
(* The list of awaiting coroutines; x is [blocked, next, prev, base, top]  *)

Links == [blocked |-> blocked, next |-> next, prev |-> prev, base |-> base, top |-> top]

SetLinks(x) ==
  /\ blocked' = x.blocked /\ next' = x.next /\ prev' = x.prev /\ base' = x.base /\ top' = x.top

\* What follows s in the list, s included.
ListFrom(x, s) ==
  LET list[n \in 1 .. Len(SetToSeq(SubTasks)) + 1, t \in SubTasks \cup {None}] ==
        IF t = None \/ n = 1 THEN <<>> ELSE <<t>> \o list[n - 1, x.next[t]]
  IN  list[Len(SetToSeq(SubTasks)) + 1, s]

\* (mutant) The counter stays with the sub-task.
UpdatedStackUnstolen(x) ==
  LET list == ListFrom(x, x.top)
  IN  IF list = <<>> THEN x ELSE [x EXCEPT !.top = Last(list), !.base = @ \cup ToSet(list)]

\* updateSubTaskStack: the end of the list is the new top, and its counter the task's.
UpdatedStack(x) ==
  LET list == ListFrom(x, x.top)
      Stolen == {s \in ToSet(list) : x.blocked[s] # None}
  IN  IF list = <<>> THEN x
      ELSE [x EXCEPT !.top = Last(list), !.base = @ \cup ToSet(list),
                     !.blocked = [c \in Coroutines |->
                        IF c \in Stolen THEN None
                        ELSE IF c = Task /\ Stolen # {} THEN x.blocked[CHOOSE s \in Stolen : TRUE]
                        ELSE @[c]]]

\* blockOnCounter: of the task, or of a sub-task that may not have one yet.
BlockedOnCounter(x, c, counter) ==
  [x EXCEPT !.blocked[IF c \in x.base THEN Task ELSE c] = counter]

\* blockOnSubTask
BlockedOnSubTask(x, c, s) ==
  IF c = Task THEN UpdatedStack([x EXCEPT !.top = s])
  ELSE LET y == [x EXCEPT !.next[c] = s, !.prev[s] = c]
       IN  IF c \in x.base THEN UpdatedStack(y) ELSE y

\* The running coroutines suspend, each because the one it called did.
Suspended(x) ==
  LET n == Len(running)
  IN  FoldLeft(LAMBDA y, i : BlockedOnSubTask(y, running[n - i], running[n - i + 1]), x,
               [i \in 1 .. n - 1 |-> i])
-----------------------------------------------------------------------------
Current == Last(running)
Ends(c) == step[c] = Len(bodies[c])
Op(c) == bodies[c][step[c] + 1]
HasEnded(c) == state[c] \in {"done", "thrown"}
Begin(c) == step' = [step EXCEPT ![c] = @ + 1]

\* The loop of resumeStep: the end of the list goes on, then who awaits it, at last the task.
Resumed(x) ==
  /\ running' = <<IF x.top = None THEN Task ELSE x.top>>
  /\ SetLinks(IF x.top = None THEN x ELSE [x EXCEPT !.next[x.top] = None])

\* tryExecuteCoroutineTask, up to the call of resumeStep.
Resume ==
  /\ running = <<>> /\ ~ HasEnded(Task)
  /\ blocked[Task] \in complete \cup {None}
  /\ Resumed([Links EXCEPT !.blocked[Task] = None])
  /\ UNCHANGED <<bodies, step, state, complete, frames>>

\* The sub-task a coroutine awaited last.  Its frame goes with the expression that awaits
\* it: when what await_resume returns has been taken, or an exception leaves it.
Awaited(c) == IF step[c] > 0 /\ bodies[c][step[c]].op = "call" THEN {bodies[c][step[c]].on} ELSE {}
FramesPast(c) == frames \ Awaited(c)

\* co_await of a counter: control returns to the task service.
AwaitCounter ==
  /\ running # <<>> /\ ~ Ends(Current) /\ Op(Current).op = "await"
  /\ Begin(Current)
  /\ SetLinks(Suspended(BlockedOnCounter(Links, Current, Op(Current).on)))
  /\ running' = <<>>
  /\ frames' = FramesPast(Current)
  /\ UNCHANGED <<bodies, state, complete>>

\* A sub-task starts eagerly.
CallSubTask ==
  /\ running # <<>> /\ ~ Ends(Current) /\ Op(Current).op = "call"
  /\ Begin(Current)
  /\ running' = Append(running, Op(Current).on)
  /\ state' = [state EXCEPT ![Op(Current).on] = "live"]
  /\ frames' = FramesPast(Current) \cup {Op(Current).on}
  /\ UNCHANGED <<bodies, blocked, next, prev, base, top, complete>>

\* await_resume throws what the sub-task has thrown.
Fails(c) == \E s \in Awaited(c) : state[s] = "thrown"

\* A coroutine ends, or an exception it does not catch ends it; resumeStep unwinds the list.
Finish ==
  /\ running # <<>>
  /\ LET c == Current
         thrown == Fails(c) \/ (~ Ends(c) /\ Op(c).op = "throw")
     IN  /\ Ends(c) \/ thrown
         /\ state' = [state EXCEPT ![c] = IF thrown THEN "thrown" ELSE "done"]
         /\ frames' = FramesPast(c)
         /\ \/ /\ Len(running) > 1
               /\ running' = Front(running)
               /\ UNCHANGED <<blocked, next, prev, base, top>>
            \/ /\ running = <<Task>>
               /\ running' = <<>>
               /\ UNCHANGED <<blocked, next, prev, base, top>>
            \/ /\ Len(running) = 1 /\ c # Task
               /\ Resumed([Links EXCEPT !.base = @ \ {c}, !.top = prev[c], !.prev[c] = None])
  /\ UNCHANGED <<bodies, step, complete>>

\* The task is completed, and its functor destroyed.
DestroyTask ==
  /\ HasEnded(Task) /\ running = <<>> /\ Task \in frames
  /\ frames' = frames \ {Task}
  /\ UNCHANGED <<bodies, step, state, blocked, next, prev, base, top, running, complete>>

Complete(c) ==
  /\ c \notin complete /\ complete' = complete \cup {c}
  /\ UNCHANGED <<bodies, step, state, blocked, next, prev, base, top, running, frames>>

CoroInit ==
  /\ bodies \in Bodies
  /\ step = [c \in Coroutines |-> 0]
  /\ state = [c \in Coroutines |-> IF c = Task THEN "live" ELSE "none"]
  /\ blocked = [c \in Coroutines |-> None]
  /\ next = [s \in SubTasks |-> None] /\ prev = next
  /\ base = {} /\ top = None /\ running = <<>> /\ complete = {} /\ frames = {Task}

\* A coroutine whose sub-task failed goes no further.
Proceeds == running # <<>> => ~ Fails(Current)

CoroNext ==
  \/ Resume \/ (Proceeds /\ (AwaitCounter \/ CallSubTask)) \/ Finish \/ DestroyTask
  \/ \E c \in Counters : Complete(c)

CoroSpec == CoroInit /\ [][CoroNext]_coroVars
-----------------------------------------------------------------------------
(* Properties                                                              *)

\* The coroutine at the end of who awaits whom, started from c.
Waiters ==
  LET chain[n \in 0 .. Len(SetToSeq(SubTasks)) + 1, c \in Coroutines] ==
        LET s == {x \in Awaited(c) : state[x] = "live"}
        IN  <<c>> \o (IF s = {} \/ n = 0 THEN <<>> ELSE chain[n - 1, CHOOSE x \in s : TRUE])
  IN  chain[Len(SetToSeq(SubTasks)) + 1, Task]

\* Between two steps of the task service the list holds exactly the coroutines that
\* await, its end is on top, and the task is blocked on what the end awaits
\* (updateSubTaskStack, blockOnSubTask, resumeStep).
AwaitListExact ==
  running = <<>> /\ state[Task] = "live" /\ step[Task] > 0 =>
    LET list == Tail(Waiters)
        end == Last(Waiters)
    IN  /\ top = (IF list = <<>> THEN None ELSE end)
        /\ base = ToSet(list)
        /\ \A i \in 1 .. Len(list) - 1 : prev[list[i + 1]] = list[i]
        /\ \A s \in SubTasks : blocked[s] = None
        /\ bodies[end][step[end]] = Await(blocked[Task])

\* Nothing that a coroutine awaited is unfinished when it goes on: the counter has
\* completed, the sub-task has ended (tryExecuteCoroutineTask, await_ready).
AwaitsKept ==
  \A i \in DOMAIN running :
    LET c == running[i]
    IN  step[c] > 0 =>
          LET op == bodies[c][step[c]]
          IN  /\ op.op = "await" => op.on \in complete
              /\ op.op = "call" => IF i < Len(running) THEN running[i + 1] = op.on ELSE HasEnded(op.on)

\* A frame exists as long as the coroutine that awaits it has not gone on or ended, none
\* outlives the task, and neither the list nor the native stack leads to one that is gone
\* (~CoroSubTask, await_resume, resumeStep).
FramesExact ==
  LET kept == frames \ {Task}
  IN  /\ kept = {s \in SubTasks : \E c \in frames : ~ HasEnded(c) /\ s \in Awaited(c)}
      /\ ToSet(running) \cup base \subseteq frames
      /\ {top} \cup {next[s] : s \in kept} \cup {prev[s] : s \in kept} \subseteq frames \cup {None}
=============================================================================
