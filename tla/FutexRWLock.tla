----------------------------- MODULE FutexRWLock -----------------------------
(***************************************************************************)
(* FutexRWLock (src/voxen/os/futex.cpp): a shared lock of one 32-bit word  *)
(* that holds an exclusive bit, a waiting bit and the number of shared     *)
(* holders.  Every atomic operation on the word and every futex call is a  *)
(* step.  A thread is a writer or a reader, as the callers in this code    *)
(* are during one critical section.                                        *)
(***************************************************************************)
EXTENDS Naturals, FiniteSets

CONSTANTS Writers,    \* threads that call lock and try_lock
          Readers,    \* threads that call lock_shared and try_lock_shared
          MaxCalls    \* bound: calls by all threads

\* Checked by the modules that instantiate this one.
ThreadsAssumption == Writers \cap Readers = {} /\ MaxCalls \in Nat

VARIABLES
  payload,    \* m_payload
  pc,         \* thread -> the step it takes next
  expected,   \* thread -> its local `expected`
  calls       \* number of calls so far

vars == <<payload, pc, expected, calls>>
-----------------------------------------------------------------------------
Contenders == Writers \cup Readers
Words == [exclusive : BOOLEAN, waiting : BOOLEAN, shared : 0 .. Cardinality(Readers)]
Free == [exclusive |-> FALSE, waiting |-> FALSE, shared |-> 0]
Exclusive(waiting) == [exclusive |-> TRUE, waiting |-> waiting, shared |-> 0]
Desired(word) == [word EXCEPT !.waiting = TRUE]

Init ==
  /\ payload = Free
  /\ pc = [t \in Contenders |-> "idle"]
  /\ expected = [t \in Contenders |-> Free]
  /\ calls = 0

Goto(t, step) == pc' = [pc EXCEPT ![t] = step]

Call == calls < MaxCalls /\ calls' = calls + 1

Asleep == {t \in Contenders : pc[t] = "asleep"}

\* A failed compare-exchange loads the word.
See(t) == expected' = [expected EXCEPT ![t] = payload]
-----------------------------------------------------------------------------
(* lock, try_lock, unlock                                                  *)

Lock(w) ==
  /\ pc[w] = "idle" /\ Call
  /\ IF payload = Free
     THEN payload' = Exclusive(FALSE) /\ Goto(w, "held") /\ UNCHANGED expected
     ELSE See(w) /\ Goto(w, "announce") /\ UNCHANGED payload

TryLock(w) ==
  /\ pc[w] = "idle" /\ Call
  /\ IF payload = Free THEN payload' = Exclusive(FALSE) /\ Goto(w, "held")
     ELSE UNCHANGED <<payload, pc>>
  /\ UNCHANGED expected

\* Sets the waiting bit, unless it was seen set; tries again when the word has
\* changed.  In a waiting thread `expected` holds the local `desired`.
Announce(t) ==
  /\ pc[t] = "announce"
  /\ \/ /\ expected[t].waiting
        /\ Goto(t, "wait") /\ UNCHANGED <<payload, expected>>
     \/ /\ ~expected[t].waiting
        /\ IF payload = expected[t]
           THEN /\ payload' = Desired(payload)
                /\ expected' = [expected EXCEPT ![t] = Desired(payload)]
                /\ Goto(t, "wait")
           ELSE See(t) /\ Goto(t, "retry") /\ UNCHANGED payload
  /\ UNCHANGED calls

\* Futex::waitInfinite(&m_payload, desired).
Wait(t) ==
  /\ pc[t] = "wait"
  /\ Goto(t, IF payload = expected[t] THEN "asleep" ELSE "retry")
  /\ UNCHANGED <<payload, expected, calls>>

\* The futex call may return without a wake.
Spurious(t) ==
  /\ pc[t] = "asleep"
  /\ Goto(t, "retry")
  /\ UNCHANGED <<payload, expected, calls>>

FreeForRetry(word) == word = Free

\* A woken writer takes the lock as one that others may wait for.
RetryLock(w) ==
  /\ pc[w] = "retry"
  /\ IF FreeForRetry(payload)
     THEN payload' = Exclusive(TRUE) /\ Goto(w, "held") /\ UNCHANGED expected
     ELSE See(w) /\ Goto(w, "announce") /\ UNCHANGED payload
  /\ UNCHANGED calls

Unlock(w) ==
  /\ pc[w] = "held"
  /\ payload' = Free
  /\ Goto(w, IF payload.waiting THEN "wakeAll" ELSE "idle")
  /\ UNCHANGED <<expected, calls>>

WakeAll(w) ==
  /\ pc[w] = "wakeAll"
  /\ pc' = [t \in Contenders |->
              IF t = w THEN "idle" ELSE IF t \in Asleep THEN "retry" ELSE pc[t]]
  /\ UNCHANGED <<payload, expected, calls>>
-----------------------------------------------------------------------------
(* lock_shared, try_lock_shared, unlock_shared                             *)

LockShared(r) ==
  /\ pc[r] = "idle" /\ Call
  /\ See(r) /\ Goto(r, "join")
  /\ UNCHANGED payload

Blocked(word) == word.exclusive

\* The load of a new turn after a sleep.
RetryShared(r) ==
  /\ pc[r] = "retry"
  /\ See(r) /\ Goto(r, "join")
  /\ UNCHANGED <<payload, calls>>

\* One turn of the inner loop.
Join(r) ==
  /\ pc[r] = "join"
  /\ \/ /\ Blocked(expected[r])
        /\ Goto(r, "announce") /\ UNCHANGED <<payload, expected>>
     \/ /\ ~Blocked(expected[r])
        /\ IF payload = expected[r]
           THEN /\ payload' = [payload EXCEPT !.shared = @ + 1]
                /\ Goto(r, "shared") /\ UNCHANGED expected
           ELSE See(r) /\ UNCHANGED <<payload, pc>>
  /\ UNCHANGED calls

TryLockShared(r) ==
  /\ pc[r] = "idle" /\ Call
  /\ See(r) /\ Goto(r, "tryJoin")
  /\ UNCHANGED payload

\* (mutant) Stores what it loaded instead of a compare-exchange.
TryJoinStale(r) ==
  /\ pc[r] = "tryJoin"
  /\ IF ~Blocked(expected[r])
     THEN payload' = [expected[r] EXCEPT !.shared = @ + 1] /\ Goto(r, "shared")
     ELSE Goto(r, "idle") /\ UNCHANGED payload
  /\ UNCHANGED <<expected, calls>>

\* The only compare-exchange of try_lock_shared, unless the lock is exclusive.
TryJoin(r) ==
  /\ pc[r] = "tryJoin"
  /\ IF ~Blocked(expected[r]) /\ payload = expected[r]
     THEN payload' = [payload EXCEPT !.shared = @ + 1] /\ Goto(r, "shared")
     ELSE Goto(r, "idle") /\ UNCHANGED payload
  /\ UNCHANGED <<expected, calls>>

UnlockShared(r) ==
  /\ pc[r] = "shared"
  /\ payload' = [payload EXCEPT !.shared = @ - 1]
  /\ Goto(r, IF payload.waiting THEN "clear" ELSE "idle")
  /\ UNCHANGED <<expected, calls>>

ClearWaiting(r) ==
  /\ pc[r] = "clear"
  /\ payload' = [payload EXCEPT !.waiting = FALSE]
  /\ Goto(r, "wakeSingle")
  /\ UNCHANGED <<expected, calls>>

WakeSingle(r) ==
  /\ pc[r] = "wakeSingle"
  /\ \/ Asleep = {} /\ Goto(r, "idle")
     \/ \E s \in Asleep : pc' = [pc EXCEPT ![s] = "retry", ![r] = "idle"]
  /\ UNCHANGED <<payload, expected, calls>>
-----------------------------------------------------------------------------
WriterSteps(w) == Announce(w) \/ Wait(w) \/ RetryLock(w) \/ Unlock(w) \/ WakeAll(w)
ReaderSteps(r) ==
  \/ Join(r) \/ TryJoin(r) \/ Announce(r) \/ Wait(r) \/ RetryShared(r)
  \/ UnlockShared(r) \/ ClearWaiting(r) \/ WakeSingle(r)

Next ==
  \/ \E w \in Writers : Lock(w) \/ TryLock(w) \/ WriterSteps(w) \/ Spurious(w)
  \/ \E r \in Readers : LockShared(r) \/ TryLockShared(r) \/ ReaderSteps(r) \/ Spurious(r)

Spec == Init /\ [][Next]_vars
-----------------------------------------------------------------------------
(* Properties                                                              *)

TypeOK ==
  /\ payload \in Words
  /\ pc \in [Contenders -> {"idle", "announce", "wait", "asleep", "retry", "held", "wakeAll",
                         "join", "tryJoin", "shared", "clear", "wakeSingle"}]
  /\ expected \in [Contenders -> Words]
  /\ calls \in 0 .. MaxCalls

\* A writer excludes every other holder, and the word counts the shared holders and
\* the exclusive one: no race for the word and no late clearing of the waiting bit
\* disturbs either.
Exclusion ==
  /\ TypeOK
  /\ \A w \in Writers : pc[w] = "held" =>
       \A t \in Contenders \ {w} : pc[t] \notin {"held", "shared"}
  /\ payload.shared = Cardinality({r \in Readers : pc[r] = "shared"})
  /\ payload.exclusive <=> \E w \in Writers : pc[w] = "held"

\* No wake-up is lost: while a thread sleeps, the word says so or somebody is on
\* the way to wake a thread or to mark the word (unlock_shared, "It can only be
\* an exclusive lock attempt (shared wouldn't wait)").
SleepersCounted ==
  Asleep # {} =>
    \/ payload.waiting
    \/ \E t \in Contenders :
         pc[t] \in {"announce", "wait", "retry", "join", "wakeAll", "clear", "wakeSingle"}

=============================================================================
