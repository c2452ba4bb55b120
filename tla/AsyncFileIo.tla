---------------------------- MODULE AsyncFileIo ----------------------------
(***************************************************************************)
(* The file service (src/voxen/svc/async_file_io_service.cpp): threads     *)
(* push commands into a locked queue and count them in a FutexWorkCounter  *)
(* (src/voxen/util/futex_work_counter.cpp), one I/O thread performs them   *)
(* in order and completes their counters.  What is read or written, and    *)
(* whether it fails, makes no difference to the queue.                     *)
(***************************************************************************)
EXTENDS Integers, Sequences

CONSTANTS Pushers,       \* threads that call asyncRead and asyncWrite
          MaxCommands    \* bound: commands pushed by one of them

VARIABLES
  counter,    \* m_counter: [work, stop]
  ioQueue,    \* m_io_queue
  pushPc,     \* thread -> the step of pushIoCommand it takes next
  sent,       \* thread -> number of commands so far
  ioPc,       \* the step ioThreadProc takes next
  work,       \* its work_count
  left,       \* its work_remaining
  item,       \* the command it performs, or <<>>
  stopPc,     \* the step of the destructor taken next
  pushed,     \* history: commands in the order they were queued
  done        \* history: commands whose counters were completed, in this order

pushVars == <<pushPc, sent, pushed>>
ioVars == <<ioPc, work, left, item, done>>
vars == <<counter, ioQueue, pushVars, ioVars, stopPc>>
-----------------------------------------------------------------------------
Init ==
  /\ counter = [work |-> 0, stop |-> FALSE]
  /\ ioQueue = <<>> /\ pushed = <<>> /\ done = <<>> /\ item = <<>>
  /\ pushPc = [p \in Pushers |-> "idle"] /\ sent = [p \in Pushers |-> 0]
  /\ ioPc = "wait" /\ work = 0 /\ left = 0
  /\ stopPc = "none"

IsZero(c) == c = [work |-> 0, stop |-> FALSE]

\* Futex::wakeAll
Woken(pc) == IF pc = "asleep" THEN "wait" ELSE pc

\* pushIoCommand: the queue under its lock, then the counter, then the wake.
Push(p) ==
  /\ pushPc[p] = "idle" /\ stopPc = "none" /\ sent[p] < MaxCommands
  /\ ioQueue' = Append(ioQueue, <<p, sent[p]>>)
  /\ pushed' = Append(pushed, <<p, sent[p]>>)
  /\ sent' = [sent EXCEPT ![p] = @ + 1]
  /\ pushPc' = [pushPc EXCEPT ![p] = "add"]
  /\ UNCHANGED <<counter, ioVars, stopPc>>

AddWork(p) ==
  /\ pushPc[p] = "add"
  /\ counter' = [counter EXCEPT !.work = @ + 1]
  /\ pushPc' = [pushPc EXCEPT ![p] = IF IsZero(counter) THEN "wake" ELSE "idle"]
  /\ UNCHANGED <<ioQueue, sent, pushed, ioVars, stopPc>>

Wake(p) ==
  /\ pushPc[p] = "wake"
  /\ ioPc' = Woken(ioPc)
  /\ pushPc' = [pushPc EXCEPT ![p] = "idle"]
  /\ UNCHANGED <<counter, ioQueue, sent, pushed, work, left, item, done, stopPc>>
-----------------------------------------------------------------------------
(* ioThreadProc                                                            *)

\* FutexWorkCounter::wait, up to the futex call: it sees work or the stop bit, or is
\* about to sleep.
WaitLoad ==
  /\ ioPc = "wait"
  /\ IF IsZero(counter) THEN ioPc' = "sleep" /\ UNCHANGED <<work, left>>
     ELSE ioPc' = "take" /\ work' = counter.work /\ left' = counter.work
  /\ UNCHANGED <<counter, ioQueue, item, done, pushVars, stopPc>>

WaitFutex ==
  /\ ioPc = "sleep"
  /\ ioPc' = IF IsZero(counter) THEN "asleep" ELSE "wait"
  /\ UNCHANGED <<counter, ioQueue, work, left, item, done, pushVars, stopPc>>

WaitSpurious ==
  /\ ioPc = "asleep"
  /\ ioPc' = "wait"
  /\ UNCHANGED <<counter, ioQueue, work, left, item, done, pushVars, stopPc>>

Take ==
  /\ ioPc = "take" /\ left > 0
  /\ item' = Head(ioQueue) /\ ioQueue' = Tail(ioQueue)
  /\ left' = left - 1
  /\ ioPc' = "perform"
  /\ UNCHANGED <<counter, work, done, pushVars, stopPc>>

\* The read or the write, then completeCounter.
Perform ==
  /\ ioPc = "perform"
  /\ done' = Append(done, item) /\ item' = <<>>
  /\ ioPc' = "take"
  /\ UNCHANGED <<counter, ioQueue, work, left, pushVars, stopPc>>

\* (mutant) Acknowledges one command instead of all.
RemoveOne ==
  /\ ioPc = "take" /\ left = 0
  /\ counter' = [counter EXCEPT !.work = IF work = 0 THEN @ ELSE @ - 1]
  /\ work' = counter'.work /\ left' = work'
  /\ ioPc' = IF counter.stop THEN "exited" ELSE IF work' = 0 THEN "wait" ELSE "take"
  /\ UNCHANGED <<ioQueue, item, done, pushVars, stopPc>>

\* removeWork and the head of the loop: the stop bit ends the thread whatever work
\* is left, otherwise it goes on with that work or waits.
RemoveWork ==
  /\ ioPc = "take" /\ left = 0
  /\ counter' = [counter EXCEPT !.work = @ - work]
  /\ work' = counter'.work /\ left' = work'
  /\ ioPc' = IF counter.stop THEN "exited" ELSE IF work' = 0 THEN "wait" ELSE "take"
  /\ UNCHANGED <<ioQueue, item, done, pushVars, stopPc>>
-----------------------------------------------------------------------------
(* ~AsyncFileIoServiceImpl, called when no call of the service is running.  *)

StopSet ==
  /\ stopPc = "none" /\ \A p \in Pushers : pushPc[p] = "idle"
  /\ counter' = [counter EXCEPT !.stop = TRUE]
  /\ stopPc' = IF IsZero(counter) THEN "wake" ELSE "join"
  /\ UNCHANGED <<ioQueue, pushVars, ioVars>>

\* (mutant) The stop bit is set without a wake-up.
StopSilently ==
  /\ stopPc = "wake"
  /\ stopPc' = "join"
  /\ UNCHANGED <<counter, ioQueue, pushVars, ioVars>>

StopWake ==
  /\ stopPc = "wake"
  /\ ioPc' = Woken(ioPc)
  /\ stopPc' = "join"
  /\ UNCHANGED <<counter, ioQueue, pushVars, work, left, item, done>>

Join ==
  /\ stopPc = "join" /\ ioPc = "exited"
  /\ stopPc' = "joined"
  /\ UNCHANGED <<counter, ioQueue, pushVars, ioVars>>
-----------------------------------------------------------------------------
PushSteps(p) == AddWork(p) \/ Wake(p)
IoSteps == WaitLoad \/ WaitFutex \/ Take \/ Perform \/ RemoveWork
StopSteps == StopWake \/ Join

Next ==
  \/ \E p \in Pushers : Push(p) \/ PushSteps(p)
  \/ IoSteps \/ WaitSpurious
  \/ StopSet \/ StopSteps
-----------------------------------------------------------------------------
(* Properties                                                              *)

\* The counter never promises a command that is not in the queue, so the I/O thread
\* pops nothing from an empty one, and commands complete once and in the order they
\* were queued (pushIoCommand queues before it counts; ioThreadProc).
CommandsInOrder ==
  /\ left <= Len(ioQueue)
  /\ counter.work - (work - left) \in 0 .. Len(ioQueue)
  /\ pushed = done \o (IF item = <<>> THEN <<>> ELSE <<item>>) \o ioQueue

\* Again and again every pushed command has completed, and once the stop was asked
\* for the destructor returns (addWork and requestStop wake the thread only from 0).
AllServed ==
  IF stopPc = "none"
  THEN ioQueue = <<>> /\ item = <<>> /\ \A p \in Pushers : pushPc[p] = "idle"
  ELSE stopPc = "joined"
Served == []<>AllServed
=============================================================================
