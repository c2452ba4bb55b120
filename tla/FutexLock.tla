------------------------------ MODULE FutexLock ------------------------------
(***************************************************************************)
(* FutexLock (src/voxen/os/futex.cpp): a mutex of one 32-bit word, 0 when  *)
(* free, 1 when held, 2 when held and somebody may be waiting.  Every      *)
(* atomic operation on the word and every futex call is a step.            *)
(***************************************************************************)
EXTENDS Naturals, FiniteSets

CONSTANTS Threads,
          MAX_SPIN_COUNT,
          MaxCalls         \* bound: calls of lock and try_lock by one thread

ASSUME SpinAssumption == MAX_SPIN_COUNT \in Nat \ {0}
ASSUME CallsAssumption == MaxCalls \in Nat

VARIABLES
  payload,    \* m_payload
  pc,         \* thread -> the step it takes next
  expected,   \* thread -> its local `expected`
  spin_count, \* thread -> its local `spin_count`
  calls       \* thread -> number of calls so far

vars == <<payload, pc, expected, spin_count, calls>>
-----------------------------------------------------------------------------
Init ==
  /\ payload = 0
  /\ pc = [t \in Threads |-> "idle"]
  /\ expected = [t \in Threads |-> 0]
  /\ spin_count = [t \in Threads |-> 0]
  /\ calls = [t \in Threads |-> 0]

Goto(t, step) == pc' = [pc EXCEPT ![t] = step]

Call(t) == calls[t] < MaxCalls /\ calls' = [calls EXCEPT ![t] = @ + 1]

Asleep == {t \in Threads : pc[t] = "asleep"}

Lock(t) ==
  /\ pc[t] = "idle" /\ Call(t)
  /\ spin_count' = [spin_count EXCEPT ![t] = 0]
  /\ Goto(t, "spin")
  /\ UNCHANGED <<payload, expected>>

\* One turn of the spinning loop: takes a free lock, goes to sleep when others
\* do already or when it has tried often enough.
Spin(t) ==
  /\ pc[t] = "spin"
  /\ \/ payload = 0
        /\ payload' = 1 /\ Goto(t, "held")
        /\ UNCHANGED <<expected, spin_count, calls>>
     \/ payload # 0
        /\ expected' = [expected EXCEPT ![t] = payload]
        /\ spin_count' = [spin_count EXCEPT ![t] = @ + 1]
        /\ Goto(t, IF payload = 2 \/ spin_count[t] + 1 = MAX_SPIN_COUNT
                   THEN "announce" ELSE "spin")
        /\ UNCHANGED <<payload, calls>>

\* Marks the word unless it was seen marked; tries again when it has changed.
Announce(t) ==
  /\ pc[t] = "announce"
  /\ IF expected[t] = 2 THEN Goto(t, "wait") /\ UNCHANGED payload
     ELSE IF payload = expected[t] THEN Goto(t, "wait") /\ payload' = 2
     ELSE Goto(t, "retry") /\ UNCHANGED payload
  /\ UNCHANGED <<expected, spin_count, calls>>

\* Futex::waitInfinite(&m_payload, 2).
Wait(t) ==
  /\ pc[t] = "wait"
  /\ Goto(t, IF payload = 2 THEN "asleep" ELSE "retry")
  /\ UNCHANGED <<payload, expected, spin_count, calls>>

\* The futex call may return without a wake.
Spurious(t) ==
  /\ pc[t] = "asleep"
  /\ Goto(t, "retry")
  /\ UNCHANGED <<payload, expected, spin_count, calls>>

\* (mutant) A woken thread forgets that others may still wait.
RetryPlain(t) ==
  /\ pc[t] = "retry"
  /\ IF payload = 0
     THEN payload' = 1 /\ Goto(t, "held") /\ UNCHANGED expected
     ELSE expected' = [expected EXCEPT ![t] = payload] /\ Goto(t, "announce")
          /\ UNCHANGED payload
  /\ UNCHANGED <<spin_count, calls>>

\* Takes the lock after a wake, conservatively as one that others wait for.
Retry(t) ==
  /\ pc[t] = "retry"
  /\ IF payload = 0
     THEN payload' = 2 /\ Goto(t, "held") /\ UNCHANGED expected
     ELSE expected' = [expected EXCEPT ![t] = payload] /\ Goto(t, "announce")
          /\ UNCHANGED payload
  /\ UNCHANGED <<spin_count, calls>>

\* (mutant) Load and store instead of a compare-exchange.
TryLockBlind(t) ==
  /\ pc[t] = "idle" /\ Call(t)
  /\ payload' = 1 /\ Goto(t, "held")
  /\ UNCHANGED <<expected, spin_count>>

TryLock(t) ==
  /\ pc[t] = "idle" /\ Call(t)
  /\ IF payload = 0 THEN payload' = 1 /\ Goto(t, "held") ELSE UNCHANGED <<payload, pc>>
  /\ UNCHANGED <<expected, spin_count>>

Unlock(t) ==
  /\ pc[t] = "held"
  /\ payload' = 0
  /\ Goto(t, IF payload = 2 THEN "wake" ELSE "idle")
  /\ UNCHANGED <<expected, spin_count, calls>>

\* Futex::wakeSingle wakes one sleeping thread, if there is one.
WakeSingle(t) ==
  /\ pc[t] = "wake"
  /\ \/ Asleep = {} /\ Goto(t, "idle")
     \/ \E s \in Asleep : pc' = [pc EXCEPT ![s] = "retry", ![t] = "idle"]
  /\ UNCHANGED <<payload, expected, spin_count, calls>>
-----------------------------------------------------------------------------
Steps(t) == Spin(t) \/ Announce(t) \/ Wait(t) \/ Retry(t) \/ Unlock(t) \/ WakeSingle(t)

Next == \E t \in Threads : Lock(t) \/ TryLock(t) \/ Steps(t) \/ Spurious(t)

Spec == Init /\ [][Next]_vars

\* A running thread takes its next step and whoever holds the lock releases it.
FairSpec == Spec /\ \A t \in Threads : WF_vars(Steps(t))
-----------------------------------------------------------------------------
(* Properties                                                              *)

TypeOK ==
  /\ payload \in 0 .. 2
  /\ pc \in [Threads ->
       {"idle", "spin", "announce", "wait", "asleep", "retry", "held", "wake"}]
  /\ expected \in [Threads -> 0 .. 2]
  /\ spin_count \in [Threads -> 0 .. MAX_SPIN_COUNT]
  /\ calls \in [Threads -> 0 .. MaxCalls]

\* The lock excludes: one holder at most, whatever mix of lock, try_lock, sleep
\* and wake-up led there, and the word is not 0 exactly while there is one.
Exclusion ==
  /\ \A s, t \in Threads : pc[s] = "held" /\ pc[t] = "held" => s = t
  /\ payload # 0 <=> \E t \in Threads : pc[t] = "held"

\* No wake-up is lost: while a thread sleeps, the word says so or another
\* thread is on its way to wake somebody or to mark the word again.
SleepersCounted ==
  Asleep # {} =>
    \/ payload = 2
    \/ \E t \in Threads : pc[t] \in {"announce", "wait", "retry", "wake"}

\* Every call of lock returns when the holders release: again and again every call has
\* returned and nobody holds the lock.
NobodyLocks == \A t \in Threads : pc[t] = "idle"
LockReturns == []<>NobodyLocks
=============================================================================
