-------------------------- MODULE Containers_proof --------------------------
(***************************************************************************)
(* Proofs about the lock of shared tables, for any finite number of        *)
(* threads, and about the chunk pool of the old terrain and the pipe        *)
(* allocator.                                                              *)
(***************************************************************************)
EXTENDS FutexRWLock, FixedPool, PipeMemoryAllocator, SequenceLemmas
-----------------------------------------------------------------------------
(* The lock of shared tables                                               *)

Sharers == {r \in Readers : pc[r] = "shared"}

\* Who takes which steps.
RolesOK ==
  /\ \A w \in Writers : pc[w] \notin {"join", "tryJoin", "shared", "clear", "wakeSingle"}
  /\ \A r \in Readers : pc[r] \notin {"held", "wakeAll"}

\* The writer that holds the lock is alone, and the word knows.
WriterOK ==
  /\ \A v, w \in Writers : pc[v] = "held" /\ pc[w] = "held" => v = w
  /\ payload.exclusive <=> \E w \in Writers : pc[w] = "held"
  /\ payload.exclusive => Sharers = {}

CountOK == payload.shared = Cardinality(Sharers)

Inv == TypeOK /\ RolesOK /\ WriterOK /\ CountOK

\* What is known of the constants.
Assumptions == ThreadsAssumption /\ IsFiniteSet(Readers)
-----------------------------------------------------------------------------
LEMMA SharersFinite ==
  ASSUME Assumptions
  PROVE  /\ IsFiniteSet(Sharers)
         /\ Cardinality(Sharers) \in 0 .. Cardinality(Readers)
<1>1. Sharers \in SUBSET Readers
      BY DEF Sharers
<1>2. IsFiniteSet(Sharers) /\ Cardinality(Sharers) <= Cardinality(Readers)
      BY <1>1, FS_Subset DEF Assumptions
<1>3. Cardinality(Sharers) \in Nat /\ Cardinality(Readers) \in Nat
      BY <1>2, FS_CardinalityType DEF Assumptions
<1>4. QED BY <1>2, <1>3

\* The same of the next state.
LEMMA SharersFiniteNext ==
  ASSUME Assumptions
  PROVE  /\ IsFiniteSet(Sharers')
         /\ Cardinality(Sharers') \in 0 .. Cardinality(Readers)
<1>1. Sharers' \in SUBSET Readers
      BY DEF Sharers
<1>2. IsFiniteSet(Sharers') /\ Cardinality(Sharers') <= Cardinality(Readers)
      BY <1>1, FS_Subset DEF Assumptions
<1>3. Cardinality(Sharers') \in Nat /\ Cardinality(Readers) \in Nat
      BY <1>2, FS_CardinalityType DEF Assumptions
<1>4. QED BY <1>2, <1>3

\* A word that is free, as a record.
LEMMA FreeWord ==
  ASSUME Assumptions
  PROVE  /\ Free \in Words
         /\ \A b \in BOOLEAN : Exclusive(b) \in Words
         /\ \A word \in Words : word.exclusive \in BOOLEAN /\ word.waiting \in BOOLEAN
                                /\ word.shared \in Nat
<1>1. Cardinality(Readers) \in Nat
      BY FS_CardinalityType DEF Assumptions
<1>2. QED BY <1>1 DEF Free, Exclusive, Words

LEMMA InitInv ==
  ASSUME Assumptions, Init
  PROVE  Inv
<1>1. Sharers = {}
      BY DEF Init, Sharers, Contenders
<1>2. TypeOK
      BY FreeWord DEF Init, TypeOK, Assumptions, ThreadsAssumption
<1>3. RolesOK /\ WriterOK
      BY <1>1 DEF Init, RolesOK, WriterOK, Contenders, Free
<1>4. CountOK
      BY <1>1, FS_EmptySet DEF Init, CountOK, Free
<1>5. QED BY <1>2, <1>3, <1>4 DEF Inv
-----------------------------------------------------------------------------
(* Steps by what they do to the shared holders                             *)

\* A step that leaves them alone, their number too.
LEMMA SameSharers ==
  ASSUME Inv, Sharers' = Sharers, payload'.shared = payload.shared
  PROVE  CountOK'
  BY DEF Inv, CountOK

\* A reader that joins them.
LEMMA OneMoreSharer ==
  ASSUME Assumptions, Inv, NEW r \in Readers, pc[r] # "shared",
         Sharers' = Sharers \cup {r}, payload'.shared = payload.shared + 1
  PROVE  CountOK'
<1>1. r \notin Sharers
      BY DEF Sharers
<1>2. Cardinality(Sharers \cup {r}) = Cardinality(Sharers) + 1
      BY <1>1, SharersFinite, FS_AddElement
<1>3. QED BY <1>2 DEF Inv, CountOK

\* A reader that leaves them.
LEMMA OneLessSharer ==
  ASSUME Assumptions, Inv, NEW r \in Readers, pc[r] = "shared",
         Sharers' = Sharers \ {r}, payload'.shared = payload.shared - 1
  PROVE  CountOK'
<1>1. r \in Sharers
      BY DEF Sharers
<1>2. Cardinality(Sharers \ {r}) = Cardinality(Sharers) - 1
      BY <1>1, SharersFinite, FS_RemoveElement
<1>3. QED BY <1>2 DEF Inv, CountOK

\* A word whose parts are right is a word.
LEMMA WordNext ==
  ASSUME Assumptions, CountOK', payload'.exclusive \in BOOLEAN, payload'.waiting \in BOOLEAN,
         payload' = [exclusive |-> payload'.exclusive, waiting |-> payload'.waiting,
                     shared |-> payload'.shared]
  PROVE  payload' \in Words
  BY SharersFiniteNext DEF CountOK, Words

\* A free word has no holders.
LEMMA FreeIsFree ==
  ASSUME Assumptions, Inv, payload = Free
  PROVE  Sharers = {} /\ \A w \in Writers : pc[w] # "held"
<1>1. Cardinality(Sharers) = 0
      BY DEF Inv, CountOK, Free
<1>2. Sharers = {}
      BY <1>1, SharersFinite, FS_EmptySet
<1>3. QED BY <1>2 DEF Inv, WriterOK, Free
-----------------------------------------------------------------------------
(* Steps by who holds the lock after them                                  *)

Steps == {"idle", "announce", "wait", "asleep", "retry", "held", "wakeAll",
          "join", "tryJoin", "shared", "clear", "wakeSingle"}

\* What a step must keep besides the lock itself.
Kept ==
  /\ pc' \in [Contenders -> Steps]
  /\ expected' \in [Contenders -> Words]
  /\ calls' \in 0 .. MaxCalls
  /\ RolesOK'

\* Nobody takes or leaves the lock; the waiting bit may change.
LEMMA QuietStep ==
  ASSUME Assumptions, Inv, Kept, payload' \in Words,
         payload'.exclusive = payload.exclusive, payload'.shared = payload.shared,
         \A t \in Contenders : pc'[t] = "held" <=> pc[t] = "held",
         \A t \in Contenders : pc'[t] = "shared" <=> pc[t] = "shared"
  PROVE  Inv'
<1>1. Sharers' = Sharers
      BY DEF Sharers, Contenders
<1>2. WriterOK'
      BY <1>1 DEF Inv, WriterOK, Contenders
<1>3. CountOK'
      BY <1>1, SameSharers
<1>4. TypeOK'
      BY DEF TypeOK, Kept, Steps
<1>5. QED BY <1>2, <1>3, <1>4 DEF Inv, Kept

\* A writer takes a free lock.
LEMMA TakenStep ==
  ASSUME Assumptions, Inv, Kept, NEW w \in Writers, NEW b \in BOOLEAN,
         payload = Free, payload' = Exclusive(b), pc' = [pc EXCEPT ![w] = "held"], pc[w] # "shared"
  PROVE  Inv'
<1>1. Sharers = {} /\ \A v \in Writers : pc[v] # "held"
      BY FreeIsFree
<1>2. pc \in [Contenders -> Steps]
      BY DEF Inv, TypeOK, Steps
<1>3. Sharers' = {}
      BY <1>1, <1>2 DEF Sharers, Contenders
<1>4. WriterOK'
  <2>1. \A v \in Writers : pc'[v] = "held" <=> v = w
        BY <1>1, <1>2 DEF Contenders
  <2>2. payload'.exclusive
        BY DEF Exclusive
  <2>3. QED BY <1>3, <2>1, <2>2 DEF WriterOK
<1>5. CountOK'
      BY <1>3, FS_EmptySet DEF CountOK, Exclusive
<1>6. TypeOK'
      BY FreeWord DEF TypeOK, Kept, Steps
<1>7. QED BY <1>4, <1>5, <1>6 DEF Inv, Kept

\* The writer that holds the lock frees it.
LEMMA FreedStep ==
  ASSUME Assumptions, Inv, Kept, NEW w \in Writers, NEW step \in {"wakeAll", "idle"},
         pc[w] = "held", payload' = Free, pc' = [pc EXCEPT ![w] = step]
  PROVE  Inv'
<1>1. pc \in [Contenders -> Steps] /\ Sharers = {}
      BY DEF Inv, TypeOK, Steps, WriterOK
<1>2. Sharers' = {}
      BY <1>1 DEF Sharers, Contenders
<1>3. \A v \in Writers : pc'[v] # "held"
      BY <1>1 DEF Inv, WriterOK, Contenders
<1>4. WriterOK'
      BY <1>2, <1>3 DEF WriterOK, Free
<1>5. CountOK'
      BY <1>2, FS_EmptySet DEF CountOK, Free
<1>6. TypeOK'
      BY FreeWord DEF TypeOK, Kept, Steps
<1>7. QED BY <1>4, <1>5, <1>6 DEF Inv, Kept

\* A reader joins the shared holders of a word that is not exclusive.
LEMMA JoinedStep ==
  ASSUME Assumptions, Inv, Kept, NEW r \in Readers, pc[r] # "shared", pc[r] # "held",
         ~payload.exclusive, payload' = [payload EXCEPT !.shared = @ + 1],
         pc' = [pc EXCEPT ![r] = "shared"]
  PROVE  Inv'
<1>1. pc \in [Contenders -> Steps] /\ payload \in Words
      BY DEF Inv, TypeOK, Steps
<1>2. Sharers' = Sharers \cup {r}
      BY <1>1 DEF Sharers, Contenders
<1>3. /\ payload'.exclusive = payload.exclusive
      /\ payload'.waiting = payload.waiting
      /\ payload'.shared = payload.shared + 1
      /\ payload' = [exclusive |-> payload'.exclusive, waiting |-> payload'.waiting,
                     shared |-> payload'.shared]
      BY <1>1 DEF Words
<1>4. CountOK'
      BY <1>2, <1>3, OneMoreSharer
<1>5. payload' \in Words
      BY <1>1, <1>3, <1>4, WordNext DEF Words
<1>6. WriterOK'
      BY <1>1, <1>3 DEF Inv, WriterOK, Contenders
<1>7. TypeOK'
      BY <1>5 DEF TypeOK, Kept, Steps
<1>8. QED BY <1>4, <1>6, <1>7 DEF Inv, Kept

\* A shared holder leaves.
LEMMA LeftStep ==
  ASSUME Assumptions, Inv, Kept, NEW r \in Readers, NEW step \in {"clear", "idle"},
         pc[r] = "shared", payload' = [payload EXCEPT !.shared = @ - 1],
         pc' = [pc EXCEPT ![r] = step]
  PROVE  Inv'
<1>1. pc \in [Contenders -> Steps] /\ payload \in Words
      BY DEF Inv, TypeOK, Steps
<1>2. Sharers' = Sharers \ {r}
      BY <1>1 DEF Sharers, Contenders
<1>3. /\ payload'.exclusive = payload.exclusive
      /\ payload'.waiting = payload.waiting
      /\ payload'.shared = payload.shared - 1
      /\ payload' = [exclusive |-> payload'.exclusive, waiting |-> payload'.waiting,
                     shared |-> payload'.shared]
      BY <1>1 DEF Words
<1>4. CountOK'
      BY <1>2, <1>3, OneLessSharer
<1>5. payload' \in Words
      BY <1>1, <1>3, <1>4, WordNext DEF Words
<1>6. Sharers # {}
      BY DEF Sharers
<1>7. WriterOK'
      BY <1>1, <1>3, <1>6 DEF Inv, WriterOK, Contenders
<1>8. TypeOK'
      BY <1>5 DEF TypeOK, Kept, Steps
<1>9. QED BY <1>4, <1>7, <1>8 DEF Inv, Kept
-----------------------------------------------------------------------------
(* The steps of the code                                                   *)

\* A step of one thread to another place of the code, neither into nor out of the lock.
LEMMA LocalStep ==
  ASSUME Assumptions, Inv, NEW t \in Contenders, NEW step \in Steps \ {"held", "shared"},
         pc[t] \notin {"held", "shared"},
         t \in Writers => step \notin {"join", "tryJoin", "clear", "wakeSingle"},
         t \in Readers => step # "wakeAll",
         pc' = [pc EXCEPT ![t] = step],
         expected' \in [Contenders -> Words], calls' \in 0 .. MaxCalls, payload' \in Words,
         payload'.exclusive = payload.exclusive, payload'.shared = payload.shared
  PROVE  Inv'
<1>1. pc \in [Contenders -> Steps]
      BY DEF Inv, TypeOK, Steps
<1>2. RolesOK'
      BY <1>1 DEF Inv, RolesOK, Contenders
<1>3. Kept
      BY <1>1, <1>2 DEF Kept
<1>4. /\ \A u \in Contenders : pc'[u] = "held" <=> pc[u] = "held"
      /\ \A u \in Contenders : pc'[u] = "shared" <=> pc[u] = "shared"
      BY <1>1
<1>5. QED BY <1>3, <1>4, QuietStep

\* What the invariant says of the types.
LEMMA Types ==
  ASSUME Assumptions, Inv
  PROVE  /\ pc \in [Contenders -> Steps]
         /\ payload \in Words
         /\ expected \in [Contenders -> Words]
         /\ calls \in 0 .. MaxCalls
         /\ MaxCalls \in Nat
  BY DEF Inv, TypeOK, Steps, Assumptions, ThreadsAssumption

\* A call that the bound admits, and the load of a failed compare-exchange.
LEMMA CallType ==
  ASSUME Assumptions, Inv, Call
  PROVE  calls' \in 0 .. MaxCalls
  BY Types DEF Call

LEMMA SeeType ==
  ASSUME Assumptions, Inv, NEW t \in Contenders, See(t)
  PROVE  expected' \in [Contenders -> Words]
  BY Types DEF See

LEMMA LockStep ==
  ASSUME Assumptions, Inv, NEW w \in Writers, Lock(w) \/ TryLock(w) \/ RetryLock(w)
  PROVE  Inv'
<1>1. /\ w \in Contenders
      /\ pc[w] \in {"idle", "retry"}
      /\ calls' \in 0 .. MaxCalls
      BY Types, CallType DEF Lock, TryLock, RetryLock, Contenders
<1>2. CASE payload = Free
  <2>1. PICK b \in BOOLEAN : payload' = Exclusive(b) /\ Goto(w, "held") /\ UNCHANGED expected
        BY <1>2 DEF Lock, TryLock, RetryLock, FreeForRetry
  <2>2. pc' = [pc EXCEPT ![w] = "held"]
        BY <2>1 DEF Goto
  <2>3. Kept
        BY <1>1, <2>1, <2>2, Types DEF Kept, Inv, RolesOK, Steps, Contenders,
           Assumptions, ThreadsAssumption
  <2>4. QED BY <1>1, <1>2, <2>1, <2>2, <2>3, TakenStep
<1>3. CASE payload # Free /\ ~TryLock(w)
  <2>1. See(w) /\ Goto(w, "announce") /\ UNCHANGED payload
        BY <1>3 DEF Lock, RetryLock, FreeForRetry
  <2>2. /\ pc' = [pc EXCEPT ![w] = "announce"]
        /\ expected' \in [Contenders -> Words]
        /\ payload' \in Words
        BY <1>1, <2>1, Types, SeeType DEF Goto
  <2>3. w \notin Readers
        BY DEF Assumptions, ThreadsAssumption
  <2>4. QED BY <1>1, <2>1, <2>2, <2>3, LocalStep DEF Steps
<1>4. CASE payload # Free /\ TryLock(w)
  <2>1. UNCHANGED <<payload, pc, expected>>
        BY <1>4 DEF TryLock
  <2>2. Kept
        BY <1>1, <2>1, Types DEF Kept, Inv, RolesOK
  <2>3. QED BY <2>1, <2>2, Types, QuietStep
<1>5. QED BY <1>2, <1>3, <1>4

LEMMA UnlockStep ==
  ASSUME Assumptions, Inv, NEW w \in Writers, Unlock(w)
  PROVE  Inv'
<1>1. PICK step \in {"wakeAll", "idle"} : pc' = [pc EXCEPT ![w] = step]
      BY DEF Unlock, Goto
<1>2. /\ pc[w] = "held" /\ payload' = Free
      /\ UNCHANGED <<expected, calls>>
      BY DEF Unlock
<1>3. Kept
      BY <1>1, <1>2, Types DEF Kept, Inv, RolesOK, Steps, Contenders,
         Assumptions, ThreadsAssumption
<1>4. QED BY <1>1, <1>2, <1>3, FreedStep

LEMMA WakeAllStep ==
  ASSUME Assumptions, Inv, NEW w \in Writers, WakeAll(w)
  PROVE  Inv'
<1>1. /\ pc[w] = "wakeAll"
      /\ pc' = [t \in Contenders |->
                  IF t = w THEN "idle" ELSE IF t \in Asleep THEN "retry" ELSE pc[t]]
      /\ UNCHANGED <<payload, expected, calls>>
      BY DEF WakeAll
<1>2. \A t \in Contenders : t \in Asleep <=> pc[t] = "asleep"
      BY DEF Asleep
<1>3. /\ \A t \in Contenders : pc'[t] = "held" <=> pc[t] = "held"
      /\ \A t \in Contenders : pc'[t] = "shared" <=> pc[t] = "shared"
      BY <1>1, <1>2
<1>4. \A t \in Contenders : pc'[t] \in {pc[t], "idle", "retry"}
      BY <1>1
<1>5. RolesOK'
      BY <1>4 DEF Inv, RolesOK, Contenders
<1>6. Kept
      BY <1>1, <1>4, <1>5, Types DEF Kept, Steps
<1>7. QED BY <1>1, <1>3, <1>6, Types, QuietStep

LEMMA WaitStep ==
  ASSUME Assumptions, Inv, NEW t \in Contenders, Announce(t) \/ Wait(t) \/ Spurious(t)
  PROVE  Inv'
<1>1. UNCHANGED calls /\ pc[t] \in {"announce", "wait", "asleep"}
      BY DEF Announce, Wait, Spurious
<1>2. PICK step \in {"wait", "asleep", "retry"} : pc' = [pc EXCEPT ![t] = step]
      BY DEF Announce, Wait, Spurious, Goto
<1>3. payload' \in {payload, Desired(payload)}
      BY DEF Announce, Wait, Spurious
<1>4. /\ Desired(payload) \in Words
      /\ Desired(payload).exclusive = payload.exclusive
      /\ Desired(payload).shared = payload.shared
      BY Types DEF Desired, Words
<1>5. expected' \in [Contenders -> Words]
      BY <1>4, Types, SeeType DEF Announce, Wait, Spurious
<1>6. QED BY <1>1, <1>2, <1>3, <1>4, <1>5, Types, LocalStep DEF Steps
-----------------------------------------------------------------------------
LEMMA LockSharedStep ==
  ASSUME Assumptions, Inv, NEW r \in Readers,
         LockShared(r) \/ RetryShared(r) \/ TryLockShared(r)
  PROVE  Inv'
<1>1. r \in Contenders /\ r \notin Writers
      BY DEF Contenders, Assumptions, ThreadsAssumption
<1>2. /\ pc[r] \in {"idle", "retry"}
      /\ calls' \in 0 .. MaxCalls
      /\ See(r) /\ UNCHANGED payload
      BY Types, CallType DEF LockShared, RetryShared, TryLockShared
<1>3. PICK step \in {"join", "tryJoin"} : pc' = [pc EXCEPT ![r] = step]
      BY DEF LockShared, RetryShared, TryLockShared, Goto
<1>4. expected' \in [Contenders -> Words]
      BY <1>1, <1>2, SeeType
<1>5. QED BY <1>1, <1>2, <1>3, <1>4, Types, LocalStep DEF Steps

LEMMA JoinStep ==
  ASSUME Assumptions, Inv, NEW r \in Readers, Join(r) \/ TryJoin(r)
  PROVE  Inv'
<1>1. r \in Contenders /\ r \notin Writers
      BY DEF Contenders, Assumptions, ThreadsAssumption
<1>2. UNCHANGED calls /\ pc[r] \in {"join", "tryJoin"}
      BY DEF Join, TryJoin
<1>3. CASE /\ ~Blocked(expected[r]) /\ payload = expected[r]
           /\ payload' = [payload EXCEPT !.shared = @ + 1]
           /\ pc' = [pc EXCEPT ![r] = "shared"]
           /\ UNCHANGED expected
  <2>1. ~payload.exclusive
        BY <1>3 DEF Blocked
  <2>2. RolesOK'
        BY <1>1, <1>3, Types DEF Inv, RolesOK, Contenders
  <2>3. Kept
        BY <1>2, <1>3, <2>2, Types DEF Kept, Steps
  <2>4. QED BY <1>2, <1>3, <2>1, <2>3, JoinedStep
<1>4. CASE /\ UNCHANGED payload
           /\ \E step \in {"announce", "join", "idle"} : pc' = [pc EXCEPT ![r] = step]
           /\ See(r) \/ UNCHANGED expected
  <2>1. PICK step \in {"announce", "join", "idle"} : pc' = [pc EXCEPT ![r] = step]
        BY <1>4
  <2>2. expected' \in [Contenders -> Words]
        BY <1>1, <1>4, Types, SeeType
  <2>3. QED BY <1>1, <1>2, <1>4, <2>1, <2>2, Types, LocalStep DEF Steps
<1>5. pc = [pc EXCEPT ![r] = pc[r]]
      BY Types
<1>6. CASE Join(r)
      BY <1>3, <1>4, <1>5, <1>6 DEF Join, Goto
<1>7. CASE TryJoin(r)
      BY <1>3, <1>4, <1>7 DEF TryJoin, Goto
<1>8. QED BY <1>6, <1>7

LEMMA UnlockSharedStep ==
  ASSUME Assumptions, Inv, NEW r \in Readers, UnlockShared(r)
  PROVE  Inv'
<1>1. PICK step \in {"clear", "idle"} : pc' = [pc EXCEPT ![r] = step]
      BY DEF UnlockShared, Goto
<1>2. /\ pc[r] = "shared" /\ payload' = [payload EXCEPT !.shared = @ - 1]
      /\ UNCHANGED <<expected, calls>>
      BY DEF UnlockShared
<1>3. Kept
      BY <1>1, <1>2, Types DEF Kept, Inv, RolesOK, Steps, Contenders,
         Assumptions, ThreadsAssumption
<1>4. QED BY <1>1, <1>2, <1>3, LeftStep

LEMMA ClearWaitingStep ==
  ASSUME Assumptions, Inv, NEW r \in Readers, ClearWaiting(r)
  PROVE  Inv'
<1>1. r \in Contenders /\ r \notin Writers
      BY DEF Contenders, Assumptions, ThreadsAssumption
<1>2. /\ payload' \in Words
      /\ payload'.exclusive = payload.exclusive
      /\ payload'.shared = payload.shared
      BY Types DEF ClearWaiting, Words
<1>3. pc[r] = "clear" /\ pc' = [pc EXCEPT ![r] = "wakeSingle"] /\ UNCHANGED <<expected, calls>>
      BY DEF ClearWaiting, Goto
<1>4. QED BY <1>1, <1>2, <1>3, Types, LocalStep DEF Steps

LEMMA WakeSingleStep ==
  ASSUME Assumptions, Inv, NEW r \in Readers, WakeSingle(r)
  PROVE  Inv'
<1>1. r \in Contenders /\ pc[r] = "wakeSingle" /\ UNCHANGED <<payload, expected, calls>>
      BY DEF WakeSingle, Contenders
<1>2. /\ pc' \in [Contenders -> Steps]
      /\ \A t \in Contenders :
           \/ pc'[t] = pc[t]
           \/ pc[t] \in {"asleep", "wakeSingle"} /\ pc'[t] \in {"retry", "idle"}
      BY <1>1, Types DEF WakeSingle, Goto, Asleep, Steps
<1>3. RolesOK'
      BY <1>2 DEF Inv, RolesOK, Contenders
<1>4. Kept
      BY <1>1, <1>2, <1>3, Types DEF Kept
<1>5. /\ \A t \in Contenders : pc'[t] = "held" <=> pc[t] = "held"
      /\ \A t \in Contenders : pc'[t] = "shared" <=> pc[t] = "shared"
      BY <1>2
<1>6. QED BY <1>1, <1>4, <1>5, Types, QuietStep
-----------------------------------------------------------------------------
LEMMA InvStep ==
  ASSUME Assumptions, Inv, [Next]_vars
  PROVE  Inv'
<1>1. ASSUME NEW w \in Writers, Lock(w) \/ TryLock(w) \/ WriterSteps(w) \/ Spurious(w)
      PROVE  Inv'
  <2>1. w \in Contenders
        BY DEF Contenders
  <2>2. QED BY <1>1, <2>1, LockStep, UnlockStep, WakeAllStep, WaitStep DEF WriterSteps
<1>2. ASSUME NEW r \in Readers, LockShared(r) \/ TryLockShared(r) \/ ReaderSteps(r) \/ Spurious(r)
      PROVE  Inv'
  <2>1. r \in Contenders
        BY DEF Contenders
  <2>2. QED BY <1>2, <2>1, LockSharedStep, JoinStep, WaitStep, UnlockSharedStep,
               ClearWaitingStep, WakeSingleStep DEF ReaderSteps
<1>3. CASE UNCHANGED vars
  <2>1. Kept
        BY <1>3, Types DEF vars, Kept, Inv, RolesOK
  <2>2. QED BY <1>3, <2>1, Types, QuietStep DEF vars
<1>4. QED BY <1>1, <1>2, <1>3 DEF Next

\* The invariant says what a holder of the lock relies on.
LEMMA InvExclusion ==
  ASSUME Assumptions, Inv
  PROVE  Exclusion
<1>1. ASSUME NEW w \in Writers, pc[w] = "held", NEW t \in Contenders \ {w}
      PROVE  pc[t] \notin {"held", "shared"}
  <2>1. payload.exclusive /\ Sharers = {}
        BY <1>1 DEF Inv, WriterOK
  <2>2. CASE t \in Writers
        BY <1>1, <2>2 DEF Inv, WriterOK, RolesOK
  <2>3. CASE t \in Readers
        BY <2>1, <2>3 DEF Inv, RolesOK, Sharers
  <2>4. QED BY <2>2, <2>3 DEF Contenders
<1>2. QED BY <1>1 DEF Exclusion, Inv, WriterOK, CountOK, Sharers

\* However many threads race for the word of FutexRWLock (futex.cpp), a writer that
\* has locked it is alone, no compare-exchange and no clearing of the waiting bit
\* miscounts the shared holders, and the exclusive bit is set exactly while a writer
\* holds the lock.
THEOREM ReadersWriterExclusion ==
  ASSUME Assumptions
  PROVE  Spec => []Exclusion
<1>1. Init => Inv
      BY InitInv
<1>2. Inv /\ [Next]_vars => Inv'
      BY InvStep
<1>3. Inv => Exclusion
      BY InvExclusion
<1>4. QED BY <1>1, <1>2, <1>3, PTL DEF Spec
-----------------------------------------------------------------------------
(* The chunk pool of the old terrain                                       *)

Busy == [at : {"destroy", "clear", "take"}, object : Objects, of : PointersOf, to : Objects \cup {Nothing}]
Allocating == [at : {"allocate"}, n : Nat, into : PointersOf]

FixedTyped ==
  /\ subpools \in Seq(Pools) /\ gcIter \in Pools \cup {0}
  /\ occupied \subseteq Objects /\ built \subseteq Objects
  /\ usage \in [Objects -> Int]
  /\ pointers \in [PointersOf -> Objects \cup {Nothing}]
  /\ doing \in [Holders -> {Idle} \cup Busy \cup Allocating]

\* The list has no subpool twice, and the iterator is in it.
SubpoolsOK ==
  /\ \A i, j \in 1 .. Len(subpools) : subpools[i] = subpools[j] => i = j
  /\ gcIter # 0 => \E i \in 1 .. Len(subpools) : subpools[i] = gcIter

Releasing(t) == doing[t].at \in {"destroy", "clear", "take"}
GivenUp(p) == Releasing(p[1]) /\ doing[p[1]].of = p
Dies(t, o) == doing[t].at \in {"destroy", "clear"} /\ doing[t].object = o

\* What a thread is in the middle of: it allocates into a pointer that holds nothing yet,
\* or the pointer it changes still has the old object and another one of its pointers, which
\* nobody but itself would change, the new one.
DoingOK ==
  \A t \in Holders :
    /\ doing[t].at = "allocate" =>
         t = Main /\ doing[t].n >= 1 /\ doing[t].into[1] = t /\ pointers[doing[t].into] = Nothing
    /\ Releasing(t) =>
         /\ doing[t].of[1] = t /\ pointers[doing[t].of] = doing[t].object
         /\ doing[t].to # Nothing =>
              /\ doing[t].to # doing[t].object
              /\ \E q \in PointersOf : q[1] = t /\ pointers[q] = doing[t].to

\* Each object is counted; it is constructed while it is held or not yet destroyed,
\* one thread at most destroys it, and its place is taken until then.
CellOK(o) ==
    /\ usage[o] = Cardinality(Held(o))
    /\ \A t, u \in Holders : Dies(t, o) /\ Dies(u, o) => t = u
    /\ o \in built <=> Held(o) # {} \/ \E t \in Holders : Dies(t, o) /\ doing[t].at = "destroy"
    /\ o \in occupied <=> Held(o) # {} \/ \E t \in Holders : Dies(t, o)
    /\ Held(o) # {} => ~ \E t \in Holders : Dies(t, o)
    /\ o \in occupied => \E i \in 1 .. Len(subpools) : subpools[i] = o[1]

CellsOK == \A o \in Objects : CellOK(o)

FixedInv == FixedTyped /\ SubpoolsOK /\ DoingOK /\ CellsOK

LEMMA FixedConstants ==
  /\ IsFiniteSet(PointersOf) /\ IsFiniteSet(Pools)
  /\ Nothing \notin Objects
  /\ \A p \in PointersOf : p[1] \in Holders
  /\ \A o \in Objects : o = <<o[1], o[2]>> /\ o[1] \in Pools /\ o[2] \in 0 .. SUBPOOL_SIZE - 1
  /\ Main \in Holders /\ 0 \notin Pools
  /\ \A pool \in Pools : <<pool, 0>> \in Objects
<1>1. IsFiniteSet(1 .. MaxPointers) /\ IsFiniteSet(1 .. MaxSubpools)
  BY FixedAssumption, FS_Interval
<1>2. IsFiniteSet(PointersOf)
  BY <1>1, FixedAssumption, FS_Product DEF PointersOf
<1>3. Nothing \notin Objects
  BY DEF Nothing, Objects
<1>4. \A o \in Objects : o = <<o[1], o[2]>> /\ o[1] \in Pools /\ o[2] \in 0 .. SUBPOOL_SIZE - 1
  BY DEF Objects
<1>5. \A pool \in Pools : <<pool, 0>> \in Objects
  BY FixedAssumption DEF Objects
<1> QED BY <1>1, <1>2, <1>3, <1>4, <1>5, FixedAssumption DEF PointersOf, Pools

\* The pointers that hold an object.
LEMMA HeldIs ==
  /\ \A o : Held(o) = {p \in PointersOf : pointers[p] = o /\ ~ GivenUp(p)}
  /\ \A o : Held(o) \subseteq PointersOf /\ IsFiniteSet(Held(o)) /\ Cardinality(Held(o)) \in Nat
  /\ \A o : Cardinality(Held(o)) = 0 <=> Held(o) = {}
<1>1. \A o : Held(o) = {p \in PointersOf : pointers[p] = o /\ ~ GivenUp(p)}
  BY DEF Held, GivenUp, Releasing
<1>2. \A o : Held(o) \subseteq PointersOf
  BY <1>1
<1>3. \A o : IsFiniteSet(Held(o))
  BY <1>2, FixedConstants, FS_Subset
<1> QED BY <1>1, <1>2, <1>3, FS_CardinalityType, FS_EmptySet

LEMMA FixedStarts == ASSUME FixedInit PROVE FixedInv
<1>1. /\ subpools = <<>> /\ gcIter = 0 /\ occupied = {} /\ built = {}
      /\ usage = [o \in Objects |-> 0] /\ pointers = [p \in PointersOf |-> Nothing]
      /\ doing = [t \in Holders |-> Idle]
  BY DEF FixedInit
<1>2. \A t \in Holders : doing[t].at = "idle"
  BY <1>1 DEF Idle
<1>3. FixedTyped
  BY <1>1 DEF FixedTyped
<1>4. SubpoolsOK
  BY <1>1 DEF SubpoolsOK
<1>5. DoingOK
  BY <1>2 DEF DoingOK, Releasing
<1>6. \A o \in Objects : Held(o) = {}
  BY <1>1, FixedConstants, HeldIs
<1>7. \A o \in Objects : usage[o] = Cardinality(Held(o))
  BY <1>1, <1>6, FS_EmptySet
<1>8. CellsOK
  BY <1>1, <1>2, <1>6, <1>7 DEF CellsOK, CellOK, Dies
<1> QED BY <1>3, <1>4, <1>5, <1>8 DEF FixedInv

\* A free place is nobody's.
LEMMA VacantPlace ==
  ASSUME FixedInv, NEW o \in Objects, o \notin occupied
  PROVE  Held(o) = {} /\ \A t \in Holders : ~ Dies(t, o)
BY DEF FixedInv, CellsOK, CellOK

\* What the fields of a thread's activity are.
LEMMA DoingIs ==
  ASSUME FixedTyped, NEW t \in Holders
  PROVE  /\ doing[t].at = "allocate" => doing[t].n \in Nat /\ doing[t].into \in PointersOf
         /\ Releasing(t) => /\ doing[t] \in Busy /\ doing[t].object \in Objects
                            /\ doing[t].of \in PointersOf /\ doing[t].to \in Objects \cup {Nothing}
<1>1. doing[t] \in {Idle} \cup Busy \cup Allocating
  BY DEF FixedTyped
<1>2. Idle.at = "idle"
  BY DEF Idle
<1>3. CASE doing[t] = Idle
  BY <1>2, <1>3 DEF Releasing
<1>4. CASE doing[t] \in Busy
  BY <1>4 DEF Releasing, Busy
<1>5. CASE doing[t] \in Allocating
  BY <1>5 DEF Releasing, Allocating
<1> QED BY <1>1, <1>3, <1>4, <1>5

\* The same after a step.
LEMMA HeldNext ==
  /\ \A o : Held(o)' = {p \in PointersOf : pointers'[p] = o /\ ~ GivenUp(p)'}
  /\ \A o : Held(o)' \subseteq PointersOf /\ IsFiniteSet(Held(o)')
BY FixedConstants, FS_Subset DEF Held, GivenUp, Releasing

\* A step that leaves the pointers of a cell and those who destroy it as they are.
LEMMA CellStays ==
  ASSUME FixedInv, NEW o \in Objects,
         Held(o)' = Held(o), usage'[o] = usage[o],
         o \in built' <=> o \in built, o \in occupied' <=> o \in occupied,
         \A t \in Holders : /\ Dies(t, o)' <=> Dies(t, o)
                            /\ (Dies(t, o) => doing'[t].at = doing[t].at),
         o \in occupied =>
           ((\E i \in 1 .. Len(subpools) : subpools[i] = o[1])
              => \E i \in 1 .. Len(subpools') : subpools'[i] = o[1])
  PROVE  CellOK(o)'
<1>1. CellOK(o)
  BY DEF FixedInv, CellsOK
<1> QED BY <1>1 DEF CellOK

\* The steps of a thread that does not release.
LEMMA AllocateKeeps ==
  ASSUME FixedInv, NEW d \in Allocating \cup {Idle},
         doing[Main].at \in {"idle", "allocate"},
         doing' = [doing EXCEPT ![Main] = d],
         d \in Allocating => d.n >= 1 /\ d.into[1] = Main /\ pointers[d.into] = Nothing,
         UNCHANGED <<subpools, gcIter, occupied, usage, built, pointers>>
  PROVE  FixedInv'
<1>0. FixedTyped /\ SubpoolsOK /\ DoingOK /\ Main \in Holders
  BY FixedConstants DEF FixedInv
<1>1. doing'[Main] = d /\ \A t \in Holders \ {Main} : doing'[t] = doing[t]
  BY <1>0 DEF FixedTyped
<1>2. d.at \in {"idle", "allocate"} /\ (d.at = "allocate" => d \in Allocating)
  BY DEF Allocating, Idle
<1>3. FixedTyped'
  BY <1>0 DEF FixedTyped
<1>4. SubpoolsOK'
  BY <1>0 DEF SubpoolsOK
<1>5. DoingOK'
  BY <1>0, <1>1, <1>2 DEF DoingOK, Releasing
<1>6. \A p \in PointersOf : GivenUp(p)' <=> GivenUp(p)
  BY <1>1, <1>2, FixedConstants DEF GivenUp, Releasing
<1>7. \A o : Held(o)' = Held(o)
  BY <1>6, HeldIs, HeldNext
<1>8. \A o, t : t \in Holders => /\ Dies(t, o)' <=> Dies(t, o)
                                 /\ (Dies(t, o) => doing'[t].at = doing[t].at)
  BY <1>1, <1>2 DEF Dies
<1>9. CellsOK'
  BY <1>7, <1>8, CellStays DEF CellsOK
<1> QED BY <1>3, <1>4, <1>5, <1>9 DEF FixedInv

\* An object is constructed in a vacant place, or its constructor throws.
LEMMA ConstructedKeeps ==
  ASSUME FixedInv, doing[Main].at = "allocate", NEW o \in Objects, o \notin occupied,
         Constructed(o, doing[Main].into), doing' = [doing EXCEPT ![Main] = Idle],
         subpools' \in Seq(Pools), gcIter' = gcIter,
         \A i, j \in 1 .. Len(subpools') : subpools'[i] = subpools'[j] => i = j,
         \A i \in 1 .. Len(subpools) : \E j \in 1 .. Len(subpools') : subpools'[j] = subpools[i],
         \E i \in 1 .. Len(subpools') : subpools'[i] = o[1]
  PROVE  FixedInv'
<1>0. FixedTyped /\ SubpoolsOK /\ DoingOK /\ Main \in Holders
  BY FixedConstants DEF FixedInv
<1>1. doing'[Main] = Idle /\ Idle.at = "idle" /\ \A t \in Holders \ {Main} : doing'[t] = doing[t]
  BY <1>0 DEF FixedTyped, Idle
<1>p. PICK p \in PointersOf : p = doing[Main].into
  BY <1>0, DoingIs
<1>2. p[1] = Main /\ pointers[p] = Nothing
  BY <1>0, <1>p DEF DoingOK
<1>3. SubpoolsOK'
  <2>1. ASSUME gcIter # 0 PROVE \E i \in 1 .. Len(subpools') : subpools'[i] = gcIter
    <3>1. PICK i \in 1 .. Len(subpools) : subpools[i] = gcIter
      BY <1>0, <2>1 DEF SubpoolsOK
    <3>2. \E j \in 1 .. Len(subpools') : subpools'[j] = subpools[i]
      OBVIOUS
    <3> QED BY <3>1, <3>2
  <2> QED BY <2>1 DEF SubpoolsOK
<1>4. \A q \in PointersOf : GivenUp(q)' <=> GivenUp(q)
  BY <1>1, FixedConstants DEF GivenUp, Releasing
<1>5. \A c, t : t \in Holders => /\ Dies(t, c)' <=> Dies(t, c)
                                 /\ (Dies(t, c) => doing'[t].at = doing[t].at)
  BY <1>1 DEF Dies
<1>6. \A c \in Objects : (\E i \in 1 .. Len(subpools) : subpools[i] = c[1])
                         => \E i \in 1 .. Len(subpools') : subpools'[i] = c[1]
  OBVIOUS
<1>7. CASE UNCHANGED <<occupied, built, usage, pointers>>
  <2>1. FixedTyped'
    BY <1>0, <1>7 DEF FixedTyped
  <2>2. DoingOK'
    BY <1>0, <1>1, <1>7 DEF DoingOK, Releasing
  <2>3. \A c : Held(c)' = Held(c)
    BY <1>4, <1>7, HeldIs, HeldNext
  <2>4. CellsOK'
    BY <1>5, <1>6, <1>7, <2>3, CellStays DEF CellsOK
  <2> QED BY <1>3, <2>1, <2>2, <2>4 DEF FixedInv
<1>9. Constructed(o, p)
  BY <1>p
<1>8. CASE /\ occupied' = occupied \cup {o} /\ built' = built \cup {o}
           /\ usage' = [usage EXCEPT ![o] = 1] /\ pointers' = [pointers EXCEPT ![p] = o]
  <2>1. FixedTyped'
    BY <1>0, <1>2, <1>8 DEF FixedTyped
  <2>2. /\ pointers'[p] = o /\ o # Nothing
        /\ \A q \in PointersOf \ {p} : pointers'[q] = pointers[q]
    BY <1>0, <1>2, <1>8, FixedConstants DEF FixedTyped
  <2>3. DoingOK'
    <3>1. ASSUME NEW t \in Holders \ {Main}, Releasing(t)
          PROVE  doing[t].object \in Objects /\ doing[t].to \in Objects \cup {Nothing} /\ doing[t].of \in PointersOf
      BY <3>1, <1>0 DEF FixedTyped, Releasing, Busy, Idle, Allocating
    <3>2. \A t \in Holders \ {Main} : doing[t].at # "allocate"
      BY <1>0 DEF DoingOK
    <3>3. Nothing \notin Objects
      BY FixedConstants
    <3> QED BY <1>0, <1>1, <1>2, <2>2, <3>1, <3>2, <3>3 DEF DoingOK, Releasing
  <2>4. Held(o) = {} /\ \A t \in Holders : ~ Dies(t, o)
    BY VacantPlace
  <2>5. Held(o)' = {p}
    <3>1. p \in PointersOf /\ ~ GivenUp(p)'
      <4>1. doing'[p[1]] = Idle
        BY <1>1, <1>2
      <4> QED BY <4>1, <1>1 DEF GivenUp, Releasing
    <3>2. \A q \in PointersOf \ {p} : ~ (pointers[q] = o /\ ~ GivenUp(q))
      BY <2>4, HeldIs
    <3>3. \A q \in PointersOf : q \in Held(o)' <=> q = p
      <4>1. \A q \in PointersOf : q \in Held(o)' <=> pointers'[q] = o /\ ~ GivenUp(q)'
        BY HeldNext
      <4>2. p \in Held(o)'
        BY <4>1, <3>1, <2>2
      <4> QED BY <4>1, <4>2, <3>2, <2>2, <1>4
    <3> QED BY <3>1, <3>3, HeldNext
  <2>6. CellOK(o)'
    <3>1. usage'[o] = 1 /\ o \in built' /\ o \in occupied'
      BY <1>0, <1>8 DEF FixedTyped
    <3>2. Cardinality(Held(o)') = 1 /\ Held(o)' # {}
      BY <2>5, FS_Singleton
    <3>3. \A t \in Holders : ~ Dies(t, o)'
      BY <1>5, <2>4
    <3> QED BY <3>1, <3>2, <3>3 DEF CellOK
  <2>7. ASSUME NEW c \in Objects \ {o} PROVE CellOK(c)'
    <3>1. Held(c)' = Held(c)
      <4>1. \A q \in PointersOf : pointers'[q] = c <=> pointers[q] = c
        BY <2>2, <1>2, <2>7, FixedConstants
      <4>2. \A q \in PointersOf : q \in Held(c)' <=> q \in Held(c)
        BY <4>1, <1>4, HeldIs, HeldNext
      <4> QED BY <4>2, HeldIs, HeldNext
    <3>2. usage'[c] = usage[c] /\ (c \in built' <=> c \in built) /\ (c \in occupied' <=> c \in occupied)
      BY <1>0, <1>8, <2>7 DEF FixedTyped
    <3> QED BY <3>1, <3>2, <1>5, <1>6, CellStays
  <2>8. CellsOK'
    BY <2>6, <2>7 DEF CellsOK
  <2> QED BY <1>3, <2>1, <2>3, <2>8 DEF FixedInv
<1> QED BY <1>7, <1>8, <1>9 DEF Constructed

\* A pointer that is held.
LEMMA PointerHeld ==
  ASSUME FixedInv, NEW p \in PointersOf, ~ Releasing(p[1]), pointers[p] # Nothing
  PROVE  pointers[p] \in Objects /\ p \in Held(pointers[p])
<1>1. pointers[p] \in Objects
  BY DEF FixedInv, FixedTyped
<1>2. ~ GivenUp(p)
  BY DEF GivenUp
<1> QED BY <1>1, <1>2, HeldIs

\* A pointer takes an object that is held.
LEMMA HolderAdded ==
  ASSUME FixedInv, NEW o \in Objects, NEW q \in PointersOf, Held(o) # {}, q \notin Held(o),
         Held(o)' = Held(o) \cup {q}, usage' = [usage EXCEPT ![o] = @ + 1],
         UNCHANGED <<subpools, occupied, built>>,
         \A c \in Objects \ {o} : Held(c)' = Held(c),
         \A c \in Objects, t \in Holders : /\ Dies(t, c)' <=> Dies(t, c)
                                         /\ (Dies(t, c) => doing'[t].at = doing[t].at)
  PROVE  CellsOK'
<1>1. CellOK(o) /\ usage \in [Objects -> Int]
  BY DEF FixedInv, CellsOK, FixedTyped
<1>2. Cardinality(Held(o)') = Cardinality(Held(o)) + 1
  <2> DEFINE H == Held(o)
  <2>1. IsFiniteSet(H) /\ q \notin H
    BY HeldIs
  <2> HIDE DEF H
  <2>2. Cardinality(H \cup {q}) = Cardinality(H) + 1
    BY <2>1, FS_AddElement
  <2> QED BY <2>2 DEF H
<1>3. CellOK(o)'
  <2>1. usage'[o] = Cardinality(Held(o)')
    BY <1>1, <1>2 DEF CellOK
  <2>2. Held(o)' # {} /\ \A t \in Holders : ~ Dies(t, o)'
    BY <1>1 DEF CellOK
  <2> QED BY <1>1, <2>1, <2>2 DEF CellOK
<1>4. ASSUME NEW c \in Objects \ {o} PROVE CellOK(c)'
  <2>1. usage'[c] = usage[c]
    BY <1>1
  <2> QED BY <2>1, CellStays
<1> QED BY <1>3, <1>4 DEF CellsOK

LEMMA CopyKeeps ==
  ASSUME FixedInv, NEW p \in PointersOf, NEW q \in PointersOf, Copy(p, q)
  PROVE  FixedInv'
<1>0. FixedTyped /\ SubpoolsOK /\ DoingOK
  BY DEF FixedInv
<1>p. /\ doing[p[1]] = Idle /\ doing[q[1]].at \in {"idle", "allocate"} /\ pointers[p] # Nothing
      /\ pointers[q] = Nothing /\ (doing[q[1]].at = "allocate" => doing[q[1]].into # q)
      /\ UNCHANGED <<subpools, gcIter, occupied, built, doing>>
  BY DEF Copy
<1>o. PICK o \in Objects : o = pointers[p] /\ p \in Held(o) /\ o # Nothing
  <2>1. ~ Releasing(p[1])
    BY <1>p DEF Releasing, Idle
  <2> QED BY <2>1, <1>p, PointerHeld
<1>1. usage' = [usage EXCEPT ![o] = @ + 1] /\ pointers' = [pointers EXCEPT ![q] = o]
  BY <1>o DEF Copy
<1>2. FixedTyped'
  BY <1>0, <1>p, <1>1 DEF FixedTyped
<1>3. SubpoolsOK'
  BY <1>0, <1>p DEF SubpoolsOK
<1>4. pointers'[q] = o /\ \A r \in PointersOf \ {q} : pointers'[r] = pointers[r]
  BY <1>0, <1>1 DEF FixedTyped
<1>5. DoingOK'
  <2>1. ASSUME NEW t \in Holders, doing[t].at = "allocate" PROVE doing[t].into # q /\ doing[t].into \in PointersOf
    BY <2>1, <1>0, <1>p, DoingIs DEF DoingOK
  <2>2. ASSUME NEW t \in Holders, Releasing(t)
        PROVE  /\ doing[t].of \in PointersOf \ {q}
               /\ doing[t].to # Nothing => \E r \in PointersOf \ {q} : r[1] = t /\ pointers[r] = doing[t].to
    <3>1. doing[t].of \in PointersOf /\ doing[t].object \in Objects /\ Nothing \notin Objects
      BY <2>2, <1>0, DoingIs, FixedConstants
    <3> QED BY <2>2, <3>1, <1>0, <1>p DEF DoingOK
  <2> QED BY <1>0, <1>p, <1>4, <2>1, <2>2 DEF DoingOK, Releasing
<1>6. \A r : GivenUp(r)' <=> GivenUp(r)
  BY <1>p DEF GivenUp, Releasing
<1>7. ~ GivenUp(q) /\ q \notin Held(o)
  BY <1>p, <1>o, HeldIs DEF GivenUp, Releasing
<1>8. Held(o)' = Held(o) \cup {q}
  <2>1. \A r \in PointersOf : r \in Held(o)' <=> r \in Held(o) \/ r = q
    BY <1>4, <1>6, <1>7, HeldIs, HeldNext
  <2> QED BY <2>1, HeldIs, HeldNext
<1>9. ASSUME NEW c \in Objects \ {o} PROVE Held(c)' = Held(c)
  <2>1. \A r \in PointersOf : r \in Held(c)' <=> r \in Held(c)
    BY <1>4, <1>6, <1>7, <1>9, <1>p, FixedConstants, HeldIs, HeldNext
  <2> QED BY <2>1, HeldIs, HeldNext
<1>10. \A c \in Objects, t \in Holders : /\ Dies(t, c)' <=> Dies(t, c)
                                       /\ (Dies(t, c) => doing'[t].at = doing[t].at)
  BY <1>p DEF Dies
<1>11. CellsOK'
  BY <1>o, <1>1, <1>p, <1>7, <1>8, <1>9, <1>10, HolderAdded
<1> QED BY <1>2, <1>3, <1>5, <1>11 DEF FixedInv

\* A pointer gives its object up: the last one is to destroy it.
LEMMA ReleaseKeeps ==
  ASSUME FixedInv, NEW p \in PointersOf, NEW to \in Objects \cup {Nothing},
         doing[p[1]] = Idle, pointers[p] # Nothing, release_ref(p, to), to # pointers[p],
         to # Nothing => \E q \in PointersOf : q[1] = p[1] /\ pointers[q] = to
  PROVE  FixedInv'
<1>0. FixedTyped /\ SubpoolsOK /\ DoingOK /\ p[1] \in Holders
  BY FixedConstants DEF FixedInv
<1>o. PICK o \in Objects : o = pointers[p] /\ p \in Held(o) /\ o # Nothing
  <2>1. ~ Releasing(p[1])
    BY DEF Releasing, Idle
  <2> QED BY <2>1, PointerHeld
<1>d. PICK d \in Busy : /\ d = [at |-> IF usage[o] = 1 THEN "destroy" ELSE "take", object |-> o, of |-> p, to |-> to]
                        /\ doing' = [doing EXCEPT ![p[1]] = d]
  <2> DEFINE at == IF usage[o] = 1 THEN "destroy" ELSE "take"
             d == [at |-> at, object |-> o, of |-> p, to |-> to]
  <2>1. at \in {"destroy", "clear", "take"}
    OBVIOUS
  <2>2. doing' = [doing EXCEPT ![p[1]] = d]
    BY <1>o DEF release_ref
  <2> HIDE DEF at
  <2>3. d \in Busy
    BY <2>1 DEF Busy
  <2> QED BY <2>2, <2>3 DEF at
<1>1. /\ usage' = [usage EXCEPT ![o] = @ - 1]
      /\ UNCHANGED <<subpools, gcIter, occupied, built, pointers>>
  BY <1>o DEF release_ref
<1>2. /\ doing'[p[1]] = d /\ d.object = o /\ d.of = p /\ d.to = to
      /\ d.at = (IF usage[o] = 1 THEN "destroy" ELSE "take")
      /\ \A t \in Holders \ {p[1]} : doing'[t] = doing[t]
  BY <1>0, <1>d DEF FixedTyped
<1>3. FixedTyped'
  BY <1>0, <1>1, <1>d DEF FixedTyped
<1>4. SubpoolsOK'
  BY <1>0, <1>1 DEF SubpoolsOK
<1>5. DoingOK'
  BY <1>0, <1>1, <1>2, <1>o DEF DoingOK, Releasing
<1>6. doing[p[1]].at = "idle"
  BY DEF Idle
<1>7. \A r \in PointersOf : GivenUp(r)' <=> GivenUp(r) \/ r = p
  <2>1. ASSUME NEW r \in PointersOf, r[1] # p[1] PROVE GivenUp(r)' <=> GivenUp(r)
    BY <2>1, <1>2, FixedConstants DEF GivenUp, Releasing
  <2>2. ASSUME NEW r \in PointersOf, r[1] = p[1] PROVE ~ GivenUp(r) /\ (GivenUp(r)' <=> r = p)
    BY <2>2, <1>2, <1>6 DEF GivenUp, Releasing
  <2> QED BY <2>1, <2>2
<1>8. Held(o)' = Held(o) \ {p}
  <2>1. \A r \in PointersOf : r \in Held(o)' <=> r \in Held(o) /\ r # p
    BY <1>1, <1>7, HeldIs, HeldNext
  <2> QED BY <2>1, HeldIs, HeldNext
<1>9. ASSUME NEW c \in Objects \ {o} PROVE Held(c)' = Held(c)
  <2>1. \A r \in PointersOf : r \in Held(c)' <=> r \in Held(c)
    BY <1>1, <1>7, <1>9, <1>o, HeldIs, HeldNext
  <2> QED BY <2>1, HeldIs, HeldNext
<1>10. CellOK(o)
  BY DEF FixedInv, CellsOK
<1>11. /\ Cardinality(Held(o)') = Cardinality(Held(o)) - 1
       /\ Cardinality(Held(o)) \in Nat /\ usage[o] = Cardinality(Held(o))
       /\ usage'[o] = usage[o] - 1
  <2> DEFINE H == Held(o)
  <2>1. IsFiniteSet(H) /\ p \in H
    BY <1>o, HeldIs
  <2>2. usage'[o] = usage[o] - 1 /\ usage[o] = Cardinality(Held(o))
    BY <1>0, <1>1, <1>10 DEF FixedTyped, CellOK
  <2> HIDE DEF H
  <2>3. Cardinality(H \ {p}) = Cardinality(H) - 1 /\ Cardinality(H) \in Nat
    BY <2>1, FS_RemoveElement, FS_CardinalityType
  <2> QED BY <1>8, <2>2, <2>3 DEF H
<1>12. \A t \in Holders : ~ Dies(t, o)
  BY <1>10, <1>o DEF CellOK
<1>13. \A t \in Holders : Dies(t, o)' <=> t = p[1] /\ usage[o] = 1
  BY <1>2, <1>12 DEF Dies
<1>14. CellOK(o)'
  <2>1. Held(o)' = {} <=> usage[o] = 1
    <3> DEFINE H == Held(o)'
    <3>1. IsFiniteSet(H)
      BY HeldNext
    <3> HIDE DEF H
    <3>2. Cardinality(H) = 0 <=> H = {}
      BY <3>1, FS_EmptySet
    <3> QED BY <3>2, <1>11 DEF H
  <2>2. o \in built' /\ o \in occupied' /\ \E i \in 1 .. Len(subpools') : subpools'[i] = o[1]
    BY <1>1, <1>10, <1>o DEF CellOK
  <2>3. usage[o] = 1 => Dies(p[1], o)' /\ doing'[p[1]].at = "destroy"
    BY <1>13, <1>2, <1>0
  <2> QED BY <1>0, <1>11, <1>13, <2>1, <2>2, <2>3 DEF CellOK
<1>15. ASSUME NEW c \in Objects \ {o} PROVE CellOK(c)'
  <2>1. usage'[c] = usage[c]
    BY <1>0, <1>1 DEF FixedTyped
  <2>2. \A t \in Holders : Dies(t, c)' <=> Dies(t, c)
    BY <1>2, <1>6, <1>15 DEF Dies
  <2>3. \A t \in Holders : Dies(t, c) => doing'[t].at = doing[t].at
    BY <1>2, <1>6 DEF Dies
  <2> QED BY <2>1, <2>2, <2>3, <1>1, <1>9, CellStays
<1>16. CellsOK'
  BY <1>14, <1>15 DEF CellsOK
<1> QED BY <1>3, <1>4, <1>5, <1>16 DEF FixedInv

\* The object of a thread that destroys one is held by nobody, and nobody else destroys it.
LEMMA DyingAlone ==
  ASSUME FixedInv, NEW t \in Holders, doing[t].at \in {"destroy", "clear"}
  PROVE  /\ doing[t] \in Busy /\ doing[t].object \in Objects /\ Held(doing[t].object) = {}
         /\ \A u \in Holders : Dies(u, doing[t].object) <=> u = t
<1>1. doing[t] \in Busy /\ doing[t].object \in Objects
  BY DoingIs DEF FixedInv, Releasing
<1>2. Dies(t, doing[t].object) /\ CellOK(doing[t].object)
  BY <1>1 DEF Dies, FixedInv, CellsOK
<1> QED BY <1>1, <1>2 DEF CellOK

\* Steps of the thread that destroys an object; nobody's pointers change.
LEMMA DyingKeeps ==
  ASSUME FixedInv, NEW t \in Holders, Destroy(t) \/ Clear(t)
  PROVE  FixedInv'
<1>0. FixedTyped /\ SubpoolsOK /\ DoingOK
  BY DEF FixedInv
<1>t. doing[t].at \in {"destroy", "clear"}
  BY DEF Destroy, Clear
<1>o. PICK o \in Objects : o = doing[t].object /\ Held(o) = {} /\ \A u \in Holders : Dies(u, o) <=> u = t
  BY <1>t, DyingAlone
<1>d. PICK at \in {"clear", "take"} :
        /\ doing' = [doing EXCEPT ![t].at = at]
        /\ at = (IF doing[t].at = "destroy" THEN "clear" ELSE "take")
  BY DEF Destroy, Clear
<1>1. /\ UNCHANGED <<subpools, gcIter, usage, pointers>>
      /\ built' = (IF at = "clear" THEN built \ {o} ELSE built)
      /\ occupied' = (IF at = "take" THEN occupied \ {o} ELSE occupied)
  BY <1>o, <1>d DEF Destroy, Clear
<1>b. doing[t] \in Busy
  BY <1>t, DyingAlone
<1>2. /\ doing'[t].at = at /\ doing'[t].object = o /\ doing'[t].of = doing[t].of
      /\ doing'[t].to = doing[t].to /\ doing'[t] \in Busy
      /\ \A u \in Holders \ {t} : doing'[u] = doing[u]
  <2>1. doing'[t] = [doing[t] EXCEPT !.at = at] /\ \A u \in Holders \ {t} : doing'[u] = doing[u]
    BY <1>0, <1>d DEF FixedTyped
  <2> QED BY <2>1, <1>b, <1>o DEF Busy
<1>3. FixedTyped'
  <2>1. \A u \in Holders : doing'[u] \in {Idle} \cup Busy \cup Allocating
    BY <1>0, <1>2 DEF FixedTyped
  <2>2. doing' \in [Holders -> {Idle} \cup Busy \cup Allocating]
    BY <1>0, <1>d, <2>1 DEF FixedTyped
  <2> QED BY <1>0, <1>1, <2>2 DEF FixedTyped
<1>4. SubpoolsOK'
  BY <1>0, <1>1 DEF SubpoolsOK
<1>5. DoingOK'
  BY <1>0, <1>1, <1>2, <1>t, <1>o DEF DoingOK, Releasing
<1>6. \A r \in PointersOf : GivenUp(r)' <=> GivenUp(r)
  BY <1>2, <1>t, FixedConstants DEF GivenUp, Releasing
<1>7. ASSUME NEW c \in Objects PROVE Held(c)' = Held(c)
  <2>1. \A r \in PointersOf : r \in Held(c)' <=> r \in Held(c)
    BY <1>1, <1>6, HeldIs, HeldNext
  <2> QED BY <2>1, HeldIs, HeldNext
<1>8. CellOK(o)
  BY DEF FixedInv, CellsOK
<1>9. \A u \in Holders : Dies(u, o)' <=> u = t /\ at = "clear"
  BY <1>2, <1>o DEF Dies
<1>10. CellOK(o)'
  <2>1. usage'[o] = Cardinality(Held(o)') /\ Held(o)' = {}
    BY <1>1, <1>7, <1>8, <1>o DEF CellOK
  <2>2. CASE at = "clear"
    <3>1. o \notin built' /\ o \in occupied'
      BY <1>1, <1>8, <1>o, <2>2 DEF CellOK
    <3>2. \A u \in Holders : ~ (Dies(u, o)' /\ doing'[u].at = "destroy")
      BY <1>2, <1>9, <2>2
    <3>3. Dies(t, o)' /\ \E i \in 1 .. Len(subpools') : subpools'[i] = o[1]
      BY <1>1, <1>8, <1>9, <2>2, <3>1 DEF CellOK
    <3> QED BY <2>1, <3>1, <3>2, <3>3, <1>9 DEF CellOK
  <2>3. CASE at = "take"
    <3>1. doing[t].at = "clear"
      BY <1>d, <1>t, <2>3
    <3>2. o \notin built
      BY <1>8, <1>o, <3>1 DEF CellOK
    <3>3. o \notin built' /\ o \notin occupied'
      BY <1>1, <2>3, <3>2
    <3> QED BY <2>1, <2>3, <3>3, <1>9 DEF CellOK
  <2> QED BY <2>2, <2>3
<1>11. ASSUME NEW c \in Objects \ {o} PROVE CellOK(c)'
  <2>1. \A u \in Holders : /\ Dies(u, c)' <=> Dies(u, c)
                           /\ (Dies(u, c) => doing'[u].at = doing[u].at)
    BY <1>2, <1>o, <1>11 DEF Dies
  <2>2. (c \in built' <=> c \in built) /\ (c \in occupied' <=> c \in occupied)
    BY <1>1, <1>11
  <2> QED BY <2>1, <2>2, <1>1, <1>7, CellStays
<1>12. CellsOK'
  BY <1>10, <1>11 DEF CellsOK
<1> QED BY <1>3, <1>4, <1>5, <1>12 DEF FixedInv

\* The pointer takes its new object.
LEMMA RepointKeeps ==
  ASSUME FixedInv, NEW t \in Holders, Take(t)
  PROVE  FixedInv'
<1>0. FixedTyped /\ SubpoolsOK /\ DoingOK
  BY DEF FixedInv
<1>t. doing[t].at = "take" /\ Releasing(t)
  BY DEF Take, Releasing
<1>r. PICK p \in PointersOf, to \in Objects \cup {Nothing} :
        /\ p = doing[t].of /\ to = doing[t].to /\ p[1] = t
        /\ pointers[p] \in Objects /\ pointers[p] # to
        /\ to # Nothing => \E q \in PointersOf : q[1] = t /\ pointers[q] = to
  <2>1. doing[t].of \in PointersOf /\ doing[t].to \in Objects \cup {Nothing} /\ doing[t].object \in Objects
    BY <1>0, <1>t, DoingIs
  <2> QED BY <2>1, <1>0, <1>t, FixedConstants DEF DoingOK
<1>1. /\ pointers' = [pointers EXCEPT ![p] = to]
      /\ usage' = (IF to = Nothing THEN usage ELSE [usage EXCEPT ![to] = @ + 1])
      /\ doing' = [doing EXCEPT ![t] = Idle]
      /\ UNCHANGED <<subpools, gcIter, occupied, built>>
  BY <1>r DEF Take
<1>2. /\ doing'[t] = Idle /\ Idle.at = "idle" /\ \A u \in Holders \ {t} : doing'[u] = doing[u]
      /\ pointers'[p] = to /\ \A q \in PointersOf \ {p} : pointers'[q] = pointers[q]
  BY <1>0, <1>1 DEF FixedTyped, Idle
<1>3. FixedTyped'
  BY <1>0, <1>1 DEF FixedTyped
<1>4. SubpoolsOK'
  BY <1>0, <1>1 DEF SubpoolsOK
<1>5. DoingOK'
  <2>1. ASSUME NEW u \in Holders \ {t}, doing[u].at = "allocate"
        PROVE  doing[u].into \in PointersOf \ {p}
    BY <2>1, <1>0, <1>r, DoingIs DEF DoingOK
  <2>2. ASSUME NEW u \in Holders \ {t}, Releasing(u)
        PROVE  doing[u].of \in PointersOf \ {p}
    BY <2>2, <1>0, <1>r, DoingIs DEF DoingOK
  <2> QED BY <1>0, <1>2, <1>r, <2>1, <2>2 DEF DoingOK, Releasing
<1>6. \A q \in PointersOf : GivenUp(q)' <=> GivenUp(q) /\ q # p
  <2>1. ASSUME NEW q \in PointersOf, q[1] # t PROVE GivenUp(q)' <=> GivenUp(q)
    BY <2>1, <1>2, FixedConstants DEF GivenUp, Releasing
  <2>2. ASSUME NEW q \in PointersOf, q[1] = t PROVE ~ GivenUp(q)' /\ (GivenUp(q) => q = p)
    BY <2>2, <1>2, <1>r DEF GivenUp, Releasing
  <2> QED BY <2>1, <2>2, <1>r
<1>7. GivenUp(p)
  BY <1>t, <1>r DEF GivenUp
<1>8. ASSUME NEW c \in Objects PROVE Held(c)' = IF c = to THEN Held(c) \cup {p} ELSE Held(c)
  <2>1. \A q \in PointersOf : q \in Held(c)' <=> q \in Held(c) \/ (q = p /\ c = to)
    BY <1>2, <1>6, <1>7, HeldIs, HeldNext
  <2> QED BY <2>1, HeldIs, HeldNext
<1>9. \A c \in Objects, u \in Holders : /\ Dies(u, c)' <=> Dies(u, c)
                                      /\ (Dies(u, c) => doing'[u].at = doing[u].at)
  BY <1>2, <1>t DEF Dies
<1>10. CASE to = Nothing
  <2>1. \A c \in Objects : Held(c)' = Held(c)
    BY <1>8, <1>10, FixedConstants
  <2>2. usage' = usage
    BY <1>1, <1>10
  <2>3. CellsOK'
    BY <1>1, <1>9, <2>1, <2>2, CellStays DEF CellsOK
  <2> QED BY <1>3, <1>4, <1>5, <2>3 DEF FixedInv
<1>11. CASE to # Nothing
  <2>1. Held(to) # {}
    <3>1. PICK q \in PointersOf : q[1] = t /\ pointers[q] = to
      BY <1>r, <1>11
    <3>2. ~ GivenUp(q)
      BY <3>1, <1>r DEF GivenUp
    <3> QED BY <3>1, <3>2, HeldIs
  <2>2. to \in Objects /\ p \notin Held(to)
    BY <1>7, <1>11, HeldIs
  <2>3. usage' = [usage EXCEPT ![to] = @ + 1]
    BY <1>1, <1>11
  <2>4. CellsOK'
    BY <1>1, <1>8, <1>9, <2>1, <2>2, <2>3, HolderAdded
  <2> QED BY <1>3, <1>4, <1>5, <2>4 DEF FixedInv
<1> QED BY <1>10, <1>11

\* The collection takes a subpool whose places are all vacant out of the list.
LEMMA CollectKeeps ==
  ASSUME FixedInv, gcFast
  PROVE  FixedInv'
<1> DEFINE N == 1 .. Len(subpools)
<1>0. FixedTyped /\ SubpoolsOK /\ DoingOK
  BY DEF FixedInv
<1>s. subpools \in Seq(Pools) /\ Len(subpools) \in Nat /\ subpools # <<>> /\ DOMAIN subpools = N
      /\ \A i \in N : subpools[i] \in Pools
  BY <1>0 DEF FixedTyped, gcFast
<1>1. PICK n \in N : /\ gcIter' = (IF n = Len(subpools) THEN 0 ELSE subpools[n + 1])
                     /\ subpools' = (IF Vacant(subpools[n]) = {o \in Objects : o[1] = subpools[n]}
                                     THEN RemoveAt(subpools, n) ELSE subpools)
  <2> DEFINE it == IF gcIter = 0 THEN Head(subpools) ELSE gcIter
             n == CHOOSE k \in DOMAIN subpools : subpools[k] = it
  <2>1. \E k \in N : subpools[k] = it
    <3>1. CASE gcIter = 0
      BY <1>s, <3>1, 1 \in N
    <3>2. CASE gcIter # 0
      BY <1>0, <3>2 DEF SubpoolsOK
    <3> QED BY <3>1, <3>2
  <2>2. n \in N /\ subpools[n] = it
    <3> HIDE DEF it
    <3> QED BY <1>s, <2>1
  <2>3. /\ gcIter' = (IF n = Len(subpools) THEN 0 ELSE subpools[n + 1])
        /\ subpools' = (IF Vacant(it) = {o \in Objects : o[1] = it} THEN RemoveAt(subpools, n) ELSE subpools)
    BY DEF gcFast
  <2> HIDE DEF it, n
  <2> QED BY <2>2, <2>3
<1>2. UNCHANGED <<occupied, usage, built, pointers, doing>>
  BY DEF gcFast
<1>3. gcIter' \in Pools \cup {0} /\ (gcIter' # 0 => n + 1 \in N /\ gcIter' = subpools[n + 1])
  <2>1. n = Len(subpools) \/ n + 1 \in N
    <3> DEFINE m == Len(subpools)
    <3>1. m \in Nat /\ n \in 1 .. m
      BY <1>s
    <3> HIDE DEF m
    <3>2. n = m \/ n + 1 \in 1 .. m
      BY ONLY <3>1
    <3> QED BY <3>2 DEF m
  <2> HIDE DEF N
  <2> QED BY <1>1, <1>s, <2>1
<1>4. \A r : GivenUp(r)' <=> GivenUp(r)
  BY <1>2 DEF GivenUp, Releasing
<1>5. \A c : Held(c)' = Held(c)
  BY <1>2, <1>4, HeldIs, HeldNext
<1>6. \A c, u : /\ Dies(u, c)' <=> Dies(u, c)
                /\ (Dies(u, c) => doing'[u].at = doing[u].at)
  BY <1>2 DEF Dies
<1>7. DoingOK'
  BY <1>0, <1>2 DEF DoingOK, Releasing
<1>8. CASE subpools' = subpools
  <2>1. FixedTyped'
    BY <1>0, <1>2, <1>3, <1>8 DEF FixedTyped
  <2>2. SubpoolsOK'
    BY <1>0, <1>3, <1>8 DEF SubpoolsOK
  <2>3. CellsOK'
    BY <1>2, <1>5, <1>6, <1>8, CellStays DEF CellsOK
  <2> QED BY <1>7, <2>1, <2>2, <2>3 DEF FixedInv
<1>9. CASE /\ subpools' = RemoveAt(subpools, n)
           /\ Vacant(subpools[n]) = {o \in Objects : o[1] = subpools[n]}
  <2>1. /\ subpools' \in Seq(Pools) /\ Len(subpools') = Len(subpools) - 1
        /\ \A j \in 1 .. Len(subpools) - 1 :
             subpools'[j] = IF j < n THEN subpools[j] ELSE subpools[j + 1]
    BY <1>s, <1>9, RemoveAtElements
  <2>2. FixedTyped'
    BY <1>0, <1>2, <1>3, <2>1 DEF FixedTyped
  <2>3. ASSUME NEW i \in N, i # n PROVE \E j \in 1 .. Len(subpools') : subpools'[j] = subpools[i]
    <3>1. CASE i < n
      <4>1. i \in 1 .. Len(subpools) - 1
        BY <3>1, <1>s
      <4> QED BY <4>1, <3>1, <2>1
    <3>2. CASE i > n
      <4>1. i - 1 \in 1 .. Len(subpools) - 1 /\ ~ (i - 1 < n) /\ (i - 1) + 1 = i
        BY <3>2, <1>s
      <4> QED BY <4>1, <2>1
    <3> QED BY <3>1, <3>2, <2>3
  <2>4. SubpoolsOK'
    <3>1. ASSUME NEW i \in 1 .. Len(subpools'), NEW j \in 1 .. Len(subpools'), subpools'[i] = subpools'[j]
          PROVE  i = j
      <4> DEFINE a == IF i < n THEN i ELSE i + 1
                 b == IF j < n THEN j ELSE j + 1
      <4>1. a \in N /\ b \in N /\ subpools'[i] = subpools[a] /\ subpools'[j] = subpools[b]
        BY <1>s, <2>1
      <4>2. a = b
        <5> HIDE DEF a, b
        <5> QED BY <3>1, <4>1, <1>0 DEF SubpoolsOK
      <4> QED BY <4>2, <1>s, <2>1
    <3>2. gcIter' # 0 => \E i \in 1 .. Len(subpools') : subpools'[i] = gcIter'
      BY <1>3, <2>3
    <3> QED BY <3>1, <3>2 DEF SubpoolsOK
  <2>5. ASSUME NEW c \in Objects, c \in occupied, \E i \in N : subpools[i] = c[1]
        PROVE  \E i \in 1 .. Len(subpools') : subpools'[i] = c[1]
    <3>1. PICK i \in N : subpools[i] = c[1]
      BY <2>5
    <3>2. i # n
      BY <3>1, <2>5, <1>9 DEF Vacant
    <3> QED BY <3>1, <3>2, <2>3
  <2>6. CellsOK'
    BY <1>2, <1>5, <1>6, <2>5, CellStays DEF CellsOK
  <2> QED BY <1>7, <2>2, <2>4, <2>6 DEF FixedInv
<1> QED BY <1>1, <1>8, <1>9

LEMMA FixedKept ==
  ASSUME FixedInv, [FixedNext]_fixedVars
  PROVE  FixedInv'
<1>0. FixedTyped /\ SubpoolsOK /\ DoingOK /\ Main \in Holders
  BY FixedConstants DEF FixedInv
<1>1. ASSUME NEW p \in PointersOf, allocate(p) PROVE FixedInv'
  <2> DEFINE d == [at |-> "allocate", n |-> 1, into |-> p]
  <2>1. d \in Allocating /\ d.n >= 1 /\ d.into = p
    BY DEF Allocating
  <2>2. doing[Main] = Idle /\ p[1] = Main /\ pointers[p] = Nothing /\ doing' = [doing EXCEPT ![Main] = d]
        /\ UNCHANGED <<subpools, gcIter, occupied, usage, built, pointers>>
    BY <1>1 DEF allocate
  <2>3. doing[Main].at = "idle"
    BY <2>2 DEF Idle
  <2> HIDE DEF d
  <2> QED BY <2>1, <2>2, <2>3, AllocateKeeps
<1>2. ASSUME NEW p \in PointersOf, Reset(p) PROVE FixedInv'
  <2>1. pointers[p] \in Objects
    BY <1>0, <1>2 DEF FixedTyped, Reset
  <2> QED BY <2>1, <1>2, FixedConstants, ReleaseKeeps DEF Reset
<1>3. ASSUME NEW p \in PointersOf, NEW q \in PointersOf, Copy(p, q) \/ Assign(p, q) PROVE FixedInv'
  <2>1. CASE Copy(p, q)
    BY <2>1, CopyKeeps
  <2>2. CASE Assign(p, q)
    <3>1. pointers[q] \in Objects \cup {Nothing}
      BY <1>0 DEF FixedTyped
    <3>2. /\ doing[p[1]] = Idle /\ pointers[p] # Nothing /\ p[1] = q[1] /\ pointers[p] # pointers[q]
          /\ release_ref(p, pointers[q])
      BY <2>2 DEF Assign
    <3> QED BY <3>1, <3>2, ReleaseKeeps
  <2> QED BY <1>3, <2>1, <2>2
<1>4. ASSUME TrySubpool PROVE FixedInv'
  <2> DEFINE n == doing[Main].n
  <2>1. n \in Nat /\ n >= 1 /\ doing[Main].at = "allocate" /\ n <= Len(subpools)
        /\ doing[Main].into \in PointersOf /\ doing[Main].into[1] = Main
        /\ pointers[doing[Main].into] = Nothing
    BY <1>4, <1>0, DoingIs DEF TrySubpool, DoingOK
  <2>2. n \in 1 .. Len(subpools) /\ subpools[n] \in Pools
    <3>1. subpools \in Seq(Pools) /\ n \in 1 .. Len(subpools)
      BY <1>0, <2>1 DEF FixedTyped
    <3> QED BY <3>1
  <2>3. CASE Vacant(subpools[n]) = {}
    <3> DEFINE d == [doing[Main] EXCEPT !.n = n + 1]
    <3>1. doing[Main] \in Allocating
      BY <1>0, <2>1, Idle.at = "idle" DEF FixedTyped, Busy, Allocating, Idle
    <3>2. d \in Allocating /\ d.n >= 1 /\ d.into = doing[Main].into
      BY <2>1, <3>1 DEF Allocating
    <3>3. doing' = [doing EXCEPT ![Main] = d]
          /\ UNCHANGED <<subpools, gcIter, occupied, usage, built, pointers>>
      BY <1>4, <2>3, <1>0 DEF TrySubpool, FixedTyped
    <3> HIDE DEF d, n
    <3> QED BY <3>2, <3>3, <2>1, AllocateKeeps
  <2>4. CASE Vacant(subpools[n]) # {}
    <3> DEFINE o == occupy_zero(subpools[n])
    <3>1. Constructed(o, doing[Main].into) /\ doing' = [doing EXCEPT ![Main] = Idle]
          /\ UNCHANGED <<subpools, gcIter>>
      BY <1>4, <2>4 DEF TrySubpool
    <3>2. o \in Vacant(subpools[n])
      <4> DEFINE T == {c[2] : c \in Vacant(subpools[n])}
      <4>1. T \in SUBSET Nat /\ T # {}
        BY <2>4, FixedConstants DEF Vacant
      <4>2. PICK x \in T : \A y \in T : x <= y
        BY <4>1, LeastExists
      <4>3. \E c \in Vacant(subpools[n]) : \A other \in Vacant(subpools[n]) : c[2] <= other[2]
        BY <4>2
      <4> QED BY <4>3 DEF occupy_zero
    <3>3. o \in Objects /\ o \notin occupied /\ o[1] = subpools[n]
      BY <3>2 DEF Vacant
    <3>4. subpools' \in Seq(Pools)
          /\ \A i, j \in 1 .. Len(subpools') : subpools'[i] = subpools'[j] => i = j
      BY <3>1, <1>0 DEF FixedTyped, SubpoolsOK
    <3>5. /\ \A i \in 1 .. Len(subpools) : \E j \in 1 .. Len(subpools') : subpools'[j] = subpools[i]
          /\ \E i \in 1 .. Len(subpools') : subpools'[i] = o[1]
      BY <3>1, <3>3, <2>2
    <3> HIDE DEF o, n
    <3> QED BY <3>1, <3>3, <3>4, <3>5, <2>1, ConstructedKeeps
  <2> QED BY <2>3, <2>4
<1>5. ASSUME NewSubpool PROVE FixedInv'
  <2>1. PICK pool \in Pools \ Range(subpools) :
          subpools' = Append(subpools, pool) /\ Constructed(<<pool, 0>>, doing[Main].into)
    BY <1>5 DEF NewSubpool
  <2>2. doing[Main].at = "allocate" /\ doing' = [doing EXCEPT ![Main] = Idle] /\ gcIter' = gcIter
    BY <1>5 DEF NewSubpool
  <2>3. <<pool, 0>> \in Objects /\ <<pool, 0>>[1] = pool
    BY FixedConstants
  <2>4. \A i \in 1 .. Len(subpools) : subpools[i] # pool
    BY <2>1, <1>0 DEF FixedTyped, Range
  <2>5. <<pool, 0>> \notin occupied
    BY <2>3, <2>4 DEF FixedInv, CellsOK, CellOK
  <2>6. /\ subpools' \in Seq(Pools) /\ Len(subpools') = Len(subpools) + 1 /\ Len(subpools) \in Nat
        /\ subpools'[Len(subpools) + 1] = pool
        /\ \A i \in 1 .. Len(subpools) : subpools'[i] = subpools[i]
    BY <2>1, <1>0, AppendProperties DEF FixedTyped
  <2>7. ASSUME NEW i \in 1 .. Len(subpools'), NEW j \in 1 .. Len(subpools'), subpools'[i] = subpools'[j]
        PROVE  i = j
    <3>1. /\ i \in 1 .. Len(subpools) \/ i = Len(subpools) + 1
          /\ j \in 1 .. Len(subpools) \/ j = Len(subpools) + 1
      BY <2>6
    <3> QED BY <3>1, <2>4, <2>6, <2>7, <1>0 DEF SubpoolsOK
  <2>8. \A i \in 1 .. Len(subpools) : \E j \in 1 .. Len(subpools') : subpools'[j] = subpools[i]
    <3>1. \A i \in 1 .. Len(subpools) : i \in 1 .. Len(subpools')
      BY <2>6
    <3> QED BY <3>1, <2>6
  <2>9. \E i \in 1 .. Len(subpools') : subpools'[i] = <<pool, 0>>[1]
    <3>1. Len(subpools) + 1 \in 1 .. Len(subpools')
      BY <2>6
    <3> QED BY <3>1, <2>3, <2>6
  <2> QED BY <2>1, <2>2, <2>3, <2>5, <2>6, <2>7, <2>8, <2>9, ConstructedKeeps
<1>6. ASSUME UNCHANGED fixedVars PROVE FixedInv'
  <2>1. \A c : Held(c)' = Held(c)
    BY <1>6 DEF fixedVars, Held
  <2> QED BY <1>6, <2>1 DEF FixedInv, FixedTyped, SubpoolsOK, DoingOK, CellsOK, CellOK, Dies, Releasing, fixedVars
<1> QED BY <1>1, <1>2, <1>3, <1>4, <1>5, <1>6, CollectKeeps, DyingKeeps, RepointKeeps DEF FixedNext

LEMMA FixedFollows == ASSUME FixedInv PROVE FixedExact
<1> SUFFICES ASSUME NEW o \in Objects
             PROVE  /\ usage[o] = Cardinality(Held(o))
                    /\ Cardinality(Dying(o, {"destroy", "clear"})) <= 1
                    /\ o \in built <=> Held(o) # {} \/ Dying(o, {"destroy"}) # {}
                    /\ o \in occupied <=> Held(o) # {} \/ Dying(o, {"destroy", "clear"}) # {}
                    /\ Held(o) # {} => Dying(o, {"destroy", "clear"}) = {}
                    /\ o \in occupied => o[1] \in Range(subpools)
  BY DEF FixedExact
<1>1. CellOK(o)
  BY DEF FixedInv, CellsOK
<1>2. Dying(o, {"destroy", "clear"}) = {t \in Holders : Dies(t, o)}
  BY DEF Dying, Dies
<1>3. Dying(o, {"destroy"}) = {t \in Holders : Dies(t, o) /\ doing[t].at = "destroy"}
  BY DEF Dying, Dies
<1>4. Cardinality(Dying(o, {"destroy", "clear"})) <= 1
  <2>1. CASE Dying(o, {"destroy", "clear"}) = {}
    BY <2>1, FS_EmptySet
  <2>2. ASSUME NEW t \in Dying(o, {"destroy", "clear"}) PROVE Cardinality(Dying(o, {"destroy", "clear"})) = 1
    <3>1. Dying(o, {"destroy", "clear"}) = {t}
      BY <1>1, <1>2, <2>2 DEF CellOK
    <3> QED BY <3>1, FS_Singleton
  <2> QED BY <2>1, <2>2
<1>5. o \in occupied => o[1] \in Range(subpools)
  BY <1>1 DEF CellOK, Range, FixedInv, FixedTyped
<1> QED BY <1>1, <1>2, <1>3, <1>4, <1>5 DEF CellOK

\* However threads copy, assign and drop pointers while chunks are allocated and subpools
\* collected, each object is counted exactly, destroyed once and by one thread, and its
\* place and its subpool stay until then (fixed_pool.hpp, refcnt_ptr.hpp).
THEOREM PoolStaysExact == FixedSpec => []FixedExact
<1>1. FixedInit => FixedInv
  BY FixedStarts
<1>2. FixedInv /\ [FixedNext]_fixedVars => FixedInv'
  BY FixedKept
<1>3. FixedInv => FixedExact
  BY FixedFollows
<1> QED BY <1>1, <1>2, <1>3, PTL DEF FixedSpec
-----------------------------------------------------------------------------
(* The pipe allocator                                                      *)

\* A slab is with one thread, or garbage, or free, or about to be deleted, and it
\* is mapped as long as it is somewhere.
Whereabouts ==
  /\ \A t, u \in Threads : own[t] = own[u] /\ own[t] # NoSlab => t = u
  /\ \A t \in Threads : own[t] # NoSlab => own[t] \in mapped \ (gc \cup free \cup {doomed})
  /\ gc \cap free = {} /\ doomed \notin gc \cup free
  /\ gc \subseteq mapped /\ free \subseteq mapped /\ (doomed # NoSlab => doomed \in mapped)
  /\ \A s \in mapped : (\E t \in Threads : own[t] = s) \/ s \in gc \/ s \in free \/ s = doomed

\* The slab that replaceSlab has returned has room: "now this must succeed".
Ready(t) == own[t] # NoSlab /\ Fits(own[t], want[t])

\* What the steps of threads and of the collection rely on.
StepsOK ==
  /\ \A t \in Threads : /\ pipePc[t] \in {"new", "exited"} => own[t] = NoSlab
                        /\ pipePc[t] = "exiting" => own[t] # NoSlab
                        /\ pipePc[t] = "place" => Ready(t)
  /\ gcPc # "scan" => scan = {}
  /\ gcPc \notin {"scan", "delete"} => doomed = NoSlab
  /\ gcPc \in {"stopped", "destroyed"} => ~ running
  /\ ~ running => objects = {} /\ \A t \in Threads : pipePc[t] \in {"run", "exiting", "exited"}

In(s) == {o \in objects : o.slab = s}
Apart(o, p) == o.slab = p.slab => o.offset + o.size <= p.offset \/ p.offset + p.size <= o.offset

\* The blocks of a slab lie in its upper part, which only grows while there are any.
BlocksOK ==
  /\ IsFiniteSet(objects)
  /\ \A o \in objects : /\ o.slab \in mapped /\ o.slab \notin free /\ o.slab # doomed
                        /\ SLAB_SIZE - bytes[o.slab] <= o.offset /\ o.offset + o.size <= SLAB_SIZE
  /\ \A o, p \in objects : o # p => Apart(o, p)
  /\ \A s \in mapped : live[s] = Cardinality(In(s))
  /\ \A s \in free : bytes[s] = 0

PipeInv == PipeTypeOK /\ Whereabouts /\ StepsOK /\ BlocksOK

\* Rounding down.
LEMMA RoundedDown ==
  ASSUME NEW x \in Int, NEW align \in Nat \ {0}
  PROVE  (x \div align) * align \in Int /\ (x \div align) * align <= x
OBVIOUS

\* A block is as large as requested, below those that were allocated before.
LEMMA OffsetIs ==
  ASSUME NEW a \in 0 .. SLAB_SIZE - CONTROL_SIZE, NEW r \in Requests
  PROVE  /\ r[1] \in Nat \ {0} /\ r[2] \in Nat \ {0}
         /\ Offset(a, r[1], r[2]) \in Int
         /\ Offset(a, r[1], r[2]) + r[1] <= SLAB_SIZE - a
         /\ Offset(0, r[1], r[2]) >= CONTROL_SIZE
<1>1. r[1] \in Nat \ {0} /\ r[2] \in Nat \ {0} /\ Offset(0, r[1], r[2]) >= CONTROL_SIZE
  BY RequestsAssumption
<1>2. SLAB_SIZE - a - r[1] \in Int
  BY <1>1, SlabAssumption
<1>3. Offset(a, r[1], r[2]) \in Int /\ Offset(a, r[1], r[2]) <= SLAB_SIZE - a - r[1]
  BY <1>1, <1>2, RoundedDown DEF Offset
<1> QED BY <1>1, <1>3, SlabAssumption

LEMMA PipeStarts == ASSUME PipeInit PROVE PipeInv
<1>1. PipeTypeOK
  BY SlabAssumption DEF PipeInit, PipeTypeOK
<1>2. Whereabouts
  BY DEF PipeInit, Whereabouts
<1>3. StepsOK
  BY DEF PipeInit, StepsOK
<1>4. BlocksOK
  BY FS_EmptySet DEF PipeInit, BlocksOK
<1> QED BY <1>1, <1>2, <1>3, <1>4 DEF PipeInv

\* The fields of a block.
LEMMA BlockIs ==
  ASSUME PipeTypeOK, NEW o \in objects
  PROVE  /\ o.slab \in Slabs /\ o.offset \in Int /\ o.size \in Nat \ {0}
         /\ CONTROL_SIZE <= o.offset /\ o.offset < SLAB_SIZE
<1>1. o \in Blocks
  BY DEF PipeTypeOK
<1>2. o.slab \in Slabs /\ o.offset \in CONTROL_SIZE .. SLAB_SIZE - 1 /\ o.size \in {r[1] : r \in Requests}
  BY <1>1 DEF Blocks
<1>3. \A r \in Requests : r[1] \in Nat \ {0}
  BY RequestsAssumption
<1> QED BY <1>2, <1>3, SlabAssumption

\* tryAllocate in a slab of a thread.
LEMMA TakeKeeps ==
  ASSUME PipeInv, NEW s \in mapped, s \notin free, s # doomed, NEW r \in Requests, Fits(s, r), tryAllocate(s, r),
         UNCHANGED <<mapped, free, doomed>>
  PROVE  /\ bytes' \in [Slabs -> 0 .. SLAB_SIZE - CONTROL_SIZE] /\ live' \in [Slabs -> Nat]
         /\ objects' \subseteq Blocks /\ BlocksOK'
         /\ \A t \in Slabs \ {s} : bytes'[t] = bytes[t]
<1>0. /\ PipeTypeOK /\ BlocksOK /\ s \in Slabs
      /\ bytes \in [Slabs -> 0 .. SLAB_SIZE - CONTROL_SIZE] /\ live \in [Slabs -> Nat] /\ objects \subseteq Blocks
      /\ SLAB_SIZE \in Nat /\ CONTROL_SIZE \in Nat \ {0}
  BY SlabAssumption DEF PipeInv, PipeTypeOK
<1>1. PICK at \in Int, size \in Nat \ {0} :
        /\ at = Offset(bytes[s], r[1], r[2]) /\ size = r[1]
        /\ at >= CONTROL_SIZE /\ at + size <= SLAB_SIZE - bytes[s]
  BY <1>0, OffsetIs DEF Fits
<1>2. PICK new \in Blocks : new = [slab |-> s, offset |-> at, size |-> size]
  <2>1. bytes[s] \in Nat /\ at \in CONTROL_SIZE .. SLAB_SIZE - 1
    BY <1>0, <1>1
  <2>2. size \in {q[1] : q \in Requests}
    BY <1>1
  <2> QED BY <2>1, <2>2, <1>0 DEF Blocks
<1>3. /\ bytes' = [bytes EXCEPT ![s] = SLAB_SIZE - at] /\ live' = [live EXCEPT ![s] = @ + 1]
      /\ objects' = objects \cup {new}
  BY <1>1, <1>2 DEF tryAllocate, BytesAfter
<1>4. /\ bytes'[s] = SLAB_SIZE - at /\ \A t \in Slabs \ {s} : bytes'[t] = bytes[t]
      /\ live'[s] = live[s] + 1 /\ \A t \in Slabs \ {s} : live'[t] = live[t]
  BY <1>0, <1>3
<1>5. SLAB_SIZE - at \in 0 .. SLAB_SIZE - CONTROL_SIZE /\ bytes[s] \in Nat /\ bytes[s] <= SLAB_SIZE - at
  <2>1. bytes[s] \in 0 .. SLAB_SIZE - CONTROL_SIZE
    BY <1>0
  <2> QED BY <2>1, <1>0, <1>1
<1>6. bytes' \in [Slabs -> 0 .. SLAB_SIZE - CONTROL_SIZE] /\ live' \in [Slabs -> Nat] /\ objects' \subseteq Blocks
  BY <1>0, <1>2, <1>3, <1>5
<1>7. new.slab = s /\ new.offset = at /\ new.size = size
  BY <1>2
<1>8. ASSUME NEW o \in objects, o.slab = s PROVE at + size <= o.offset /\ o # new
  <2>1. o.offset \in Int /\ SLAB_SIZE - bytes[s] <= o.offset
    BY <1>0, <1>8, BlockIs DEF BlocksOK
  <2>2. at + size <= o.offset
    BY <2>1, <1>0, <1>1, <1>5
  <2> QED BY <2>1, <2>2, <1>1, <1>7
<1>9. new \notin objects
  BY <1>7, <1>8
<1>10. IsFiniteSet(objects')
  BY <1>0, <1>3, FS_AddElement DEF BlocksOK
<1>11. ASSUME NEW o \in objects'
       PROVE  /\ o.slab \in mapped' /\ o.slab \notin free' /\ o.slab # doomed'
              /\ SLAB_SIZE - bytes'[o.slab] <= o.offset /\ o.offset + o.size <= SLAB_SIZE
  <2>1. CASE o = new
    BY <2>1, <1>0, <1>1, <1>4, <1>5, <1>7
  <2>2. CASE o \in objects
    <3>1. /\ o.slab \in mapped' /\ o.slab \notin free' /\ o.slab # doomed' /\ o.slab \in Slabs
          /\ SLAB_SIZE - bytes[o.slab] <= o.offset /\ o.offset + o.size <= SLAB_SIZE /\ o.offset \in Int
          /\ bytes[o.slab] \in 0 .. SLAB_SIZE - CONTROL_SIZE
      BY <2>2, <1>0, BlockIs DEF BlocksOK
    <3>2. bytes[o.slab] <= bytes'[o.slab] /\ bytes'[o.slab] \in Int
      <4>1. CASE o.slab = s
        BY <4>1, <1>4, <1>5
      <4>2. CASE o.slab # s
        BY <4>2, <3>1, <1>4
      <4> QED BY <4>1, <4>2
    <3> QED BY <3>1, <3>2, <1>0
  <2> QED BY <1>3, <2>1, <2>2
<1>12. ASSUME NEW o \in objects', NEW p \in objects', o # p PROVE Apart(o, p)
  <2>1. CASE o \in objects /\ p \in objects
    BY <2>1, <1>0, <1>12 DEF BlocksOK
  <2>2. CASE o = new /\ p \in objects
    BY <2>2, <1>7, <1>8 DEF Apart
  <2>3. CASE p = new /\ o \in objects
    BY <2>3, <1>7, <1>8 DEF Apart
  <2> QED BY <1>3, <1>12, <2>1, <2>2, <2>3
<1>13. ASSUME NEW t \in mapped' PROVE live'[t] = Cardinality(In(t)')
  <2>1. t \in Slabs /\ live[t] = Cardinality(In(t)) /\ t \in mapped
    BY <1>0, <1>13 DEF PipeTypeOK, BlocksOK
  <2>2. CASE t = s
    <3> DEFINE I == In(s)
    <3>1. IsFiniteSet(I) /\ new \notin I
      BY <1>0, <1>9, FS_Subset DEF BlocksOK, In
    <3>2. In(s)' = I \cup {new}
      BY <1>3, <1>7 DEF In
    <3> HIDE DEF I
    <3>3. Cardinality(I \cup {new}) = Cardinality(I) + 1
      BY <3>1, FS_AddElement
    <3>4. live'[s] = Cardinality(I) + 1
      BY <1>4, <2>1, <2>2 DEF I
    <3> QED BY <2>2, <3>2, <3>3, <3>4
  <2>3. CASE t # s
    <3>1. In(t)' = In(t)
      BY <2>3, <1>3, <1>7 DEF In
    <3> QED BY <2>1, <2>3, <3>1, <1>4
  <2> QED BY <2>2, <2>3
<1>14. ASSUME NEW t \in free' PROVE bytes'[t] = 0
  <2>1. t \in free /\ t \in Slabs /\ t # s
    BY <1>0, <1>14 DEF PipeTypeOK
  <2> QED BY <2>1, <1>0, <1>4 DEF BlocksOK
<1>15. BlocksOK'
  BY <1>10, <1>11, <1>12, <1>13, <1>14 DEF BlocksOK, Apart
<1> QED BY <1>4, <1>6, <1>15

\* An empty slab has room for every request.
LEMMA EmptyFits ==
  ASSUME PipeTypeOK, NEW s \in Slabs, NEW t \in Threads, bytes[s] = 0
  PROVE  Fits(s, want[t])
<1>1. want[t] \in Requests
  BY DEF PipeTypeOK
<1> QED BY <1>1, RequestsAssumption DEF Fits

LEMMA NothingIn ==
  ASSUME BlocksOK, NEW s \in mapped, live[s] = 0
  PROVE  \A o \in objects : o.slab # s
<1>1. IsFiniteSet(In(s)) /\ Cardinality(In(s)) = 0
  BY FS_Subset DEF BlocksOK, In
<1> QED BY <1>1, FS_EmptySet DEF In

\* Steps that move slabs about, with the blocks where they are.
LEMMA BlocksStay ==
  ASSUME PipeInv, UNCHANGED <<bytes, live, objects>>, mapped' \subseteq mapped,
         \A o \in objects : o.slab \in mapped' /\ o.slab \notin free' /\ o.slab # doomed',
         \A s \in free' : bytes[s] = 0
  PROVE  BlocksOK'
BY DEF PipeInv, BlocksOK, In, Apart

LEMMA AllocateBlock ==
  ASSUME PipeInv, NEW t \in Threads, NEW r \in Requests, Allocate(t, r)
  PROVE  PipeInv'
<1>0. /\ PipeTypeOK /\ Whereabouts /\ StepsOK /\ BlocksOK
      /\ pipePc[t] = "run" /\ running /\ allocs[t] + 1 \in 0 .. MaxAllocs
      /\ allocs' = [allocs EXCEPT ![t] = @ + 1] /\ want' = [want EXCEPT ![t] = r]
      /\ UNCHANGED <<mapped, own, gc, free, gcPc, scan, doomed, running>>
  BY SlabAssumption DEF PipeInv, Allocate, gcVars, PipeTypeOK
<1>1. CASE own[t] # NoSlab /\ Fits(own[t], r)
  <2>1. /\ tryAllocate(own[t], r) /\ pipePc' = pipePc
        /\ own[t] \in mapped /\ own[t] \notin free /\ own[t] # doomed
    BY <1>0, <1>1 DEF Allocate, Whereabouts
  <2>2. /\ bytes' \in [Slabs -> 0 .. SLAB_SIZE - CONTROL_SIZE] /\ live' \in [Slabs -> Nat]
        /\ objects' \subseteq Blocks /\ BlocksOK'
        /\ \A s \in Slabs \ {own[t]} : bytes'[s] = bytes[s]
    BY <1>0, <1>1, <2>1, TakeKeeps
  <2>3. PipeTypeOK'
    BY <1>0, <2>1, <2>2 DEF PipeTypeOK
  <2>4. Whereabouts'
    BY <1>0, <2>1 DEF Whereabouts
  <2>5. ASSUME NEW u \in Threads, pipePc[u] = "place" PROVE Ready(u)'
    <3>1. u # t /\ own[u] # NoSlab /\ Fits(own[u], want[u]) /\ own[u] # own[t] /\ own[u] \in Slabs
      BY <1>0, <1>1, <2>5 DEF StepsOK, Ready, Whereabouts, PipeTypeOK
    <3>2. want'[u] = want[u] /\ bytes'[own[u]] = bytes[own[u]] /\ own'[u] = own[u]
      BY <1>0, <2>2, <3>1 DEF PipeTypeOK
    <3> QED BY <3>1, <3>2 DEF Fits, Ready
  <2>6. StepsOK'
    BY <1>0, <2>1, <2>5 DEF StepsOK
  <2> QED BY <2>2, <2>3, <2>4, <2>6 DEF PipeInv
<1>2. CASE ~ (own[t] # NoSlab /\ Fits(own[t], r))
  <2>1. pipePc' = [pipePc EXCEPT ![t] = "replace"] /\ UNCHANGED <<bytes, live, objects>>
    BY <1>2 DEF Allocate
  <2>2. PipeTypeOK'
    BY <1>0, <2>1 DEF PipeTypeOK
  <2>3. Whereabouts' /\ BlocksOK'
    BY <1>0, <2>1 DEF Whereabouts, BlocksOK, In, Apart
  <2>4. ASSUME NEW u \in Threads
        PROVE  /\ pipePc'[u] \in {"new", "exited"} => own[u] = NoSlab
               /\ pipePc'[u] = "exiting" => own[u] # NoSlab
               /\ pipePc'[u] = "place" => own[u] # NoSlab /\ Fits(own[u], want[u]) /\ want'[u] = want[u]
    BY <1>0, <2>1 DEF StepsOK, Ready, PipeTypeOK
  <2>5. StepsOK'
    BY <1>0, <2>1, <2>4 DEF StepsOK, Ready, Fits
  <2> QED BY <2>2, <2>3, <2>5 DEF PipeInv
<1> QED BY <1>1, <1>2

LEMMA ReplaceSlab ==
  ASSUME PipeInv, NEW t \in Threads, Replace(t)
  PROVE  PipeInv'
<1>0. /\ PipeTypeOK /\ Whereabouts /\ StepsOK /\ BlocksOK
      /\ pipePc[t] = "replace" /\ gcPc # "scan" /\ scan = {} /\ running
      /\ gc' = gc \cup ({own[t]} \ {NoSlab})
      /\ UNCHANGED <<mapped, bytes, live, want, allocs, gcPc, scan, doomed, running, objects>>
  BY DEF PipeInv, Replace, gcVars, Locked, StepsOK
<1>1. free' \subseteq free
  BY DEF Replace
<1>2. BlocksOK'
  BY <1>0, <1>1, BlocksStay DEF BlocksOK
<1>3. PipeTypeOK' /\ gc' \subseteq mapped
  <2>1. gc' \subseteq mapped /\ mapped \subseteq Slabs
    BY <1>0 DEF Whereabouts, PipeTypeOK
  <2>2. own' \in [Threads -> Slabs \cup {NoSlab}]
    BY <1>0 DEF PipeTypeOK, Replace, Released
  <2>3. pipePc' \in [Threads -> {"run", "replace", "new", "place", "exiting", "exited"}]
    BY <1>0 DEF PipeTypeOK, Replace
  <2> QED BY <1>0, <1>1, <2>1, <2>2, <2>3 DEF PipeTypeOK
<1>4. ASSUME NEW s \in free, free' = free \ {s}, own' = [own EXCEPT ![t] = s], pipePc' = [pipePc EXCEPT ![t] = "place"]
      PROVE  Whereabouts' /\ StepsOK'
  <2>1. /\ s \in Slabs /\ s # NoSlab /\ s \in mapped /\ s \notin gc /\ s # doomed /\ bytes[s] = 0
        /\ \A u \in Threads : own[u] # s
    BY <1>0, SlabAssumption DEF PipeTypeOK, Whereabouts, BlocksOK
  <2>2. own'[t] = s /\ pipePc'[t] = "place" /\ \A u \in Threads \ {t} : own'[u] = own[u] /\ pipePc'[u] = pipePc[u]
    BY <1>0, <1>4 DEF PipeTypeOK
  <2>3. Whereabouts'
    <3>1. \A u, v \in Threads : own'[u] = own'[v] /\ own'[u] # NoSlab => u = v
      BY <1>0, <2>1, <2>2 DEF Whereabouts
    <3>2. \A u \in Threads : own'[u] # NoSlab => own'[u] \in mapped \ (gc' \cup free' \cup {doomed})
      BY <1>0, <1>4, <2>1, <2>2 DEF Whereabouts
    <3>3. gc' \cap free' = {} /\ doomed \notin gc' \cup free'
      BY <1>0, <1>4 DEF Whereabouts
    <3>4. ASSUME NEW q \in mapped
          PROVE  (\E u \in Threads : own'[u] = q) \/ q \in gc' \/ q \in free' \/ q = doomed
      <4>1. CASE \E u \in Threads : own[u] = q
        <5>1. PICK u \in Threads : own[u] = q
          BY <4>1
        <5>2. q # NoSlab
          BY <1>0, SlabAssumption DEF PipeTypeOK
        <5> QED BY <1>0, <2>2, <5>1, <5>2
      <4>2. CASE q \in gc \/ q \in free \/ q = doomed
        BY <1>0, <1>4, <2>2, <4>2
      <4> QED BY <1>0, <4>1, <4>2 DEF Whereabouts
    <3> QED BY <1>0, <1>1, <1>3, <3>1, <3>2, <3>3, <3>4 DEF Whereabouts
  <2>4. Fits(s, want[t])
    BY <1>0, <2>1, EmptyFits
  <2>5. ASSUME NEW u \in Threads, pipePc'[u] = "place" PROVE Ready(u)'
    BY <1>0, <2>1, <2>2, <2>4, <2>5 DEF StepsOK, Ready, Fits
  <2>6. StepsOK'
    BY <1>0, <2>1, <2>2, <2>5 DEF StepsOK
  <2> QED BY <2>3, <2>6
<1>5. ASSUME own' = [own EXCEPT ![t] = NoSlab], pipePc' = [pipePc EXCEPT ![t] = "new"], free' = free
      PROVE  Whereabouts' /\ StepsOK'
  <2>1. own'[t] = NoSlab /\ pipePc'[t] = "new" /\ \A u \in Threads \ {t} : own'[u] = own[u] /\ pipePc'[u] = pipePc[u]
    BY <1>0, <1>5 DEF PipeTypeOK
  <2>2. Whereabouts'
    BY <1>0, <1>3, <1>5, <2>1 DEF Whereabouts
  <2>3. StepsOK'
    BY <1>0, <1>5, <2>1 DEF StepsOK, Ready, Fits
  <2> QED BY <2>2, <2>3
<1>6. Whereabouts' /\ StepsOK'
  BY <1>4, <1>5 DEF Replace, Released
<1> QED BY <1>2, <1>3, <1>6 DEF PipeInv

LEMMA NewSlabMapped ==
  ASSUME PipeInv, NEW t \in Threads, NewSlab(t)
  PROVE  PipeInv'
<1>0. /\ PipeTypeOK /\ Whereabouts /\ StepsOK /\ BlocksOK
      /\ pipePc[t] = "new" /\ own[t] = NoSlab /\ running
      /\ pipePc' = [pipePc EXCEPT ![t] = "place"]
      /\ UNCHANGED <<want, allocs, gc, free, gcPc, scan, doomed, running, objects>>
  BY DEF PipeInv, NewSlab, gcVars, StepsOK
<1>1. PICK s \in Slabs \ mapped :
        /\ mapped' = mapped \cup {s}
        /\ bytes' = [bytes EXCEPT ![s] = 0] /\ live' = [live EXCEPT ![s] = 0]
        /\ own' = [own EXCEPT ![t] = s]
  BY DEF NewSlab
<1>2. /\ s # NoSlab /\ s \notin gc /\ s \notin free /\ s # doomed /\ \A u \in Threads : own[u] # s
      /\ \A o \in objects : o.slab # s
  BY <1>0, SlabAssumption DEF Whereabouts, BlocksOK, PipeTypeOK
<1>3. /\ own'[t] = s /\ pipePc'[t] = "place" /\ bytes'[s] = 0 /\ live'[s] = 0
      /\ \A u \in Threads \ {t} : own'[u] = own[u] /\ pipePc'[u] = pipePc[u]
      /\ \A q \in Slabs \ {s} : bytes'[q] = bytes[q] /\ live'[q] = live[q]
  BY <1>0, <1>1 DEF PipeTypeOK
<1>4. PipeTypeOK'
  <2>1. 0 \in 0 .. SLAB_SIZE - CONTROL_SIZE
    BY SlabAssumption
  <2> QED BY <1>0, <1>1, <2>1 DEF PipeTypeOK
<1>5. Whereabouts'
  <2>1. \A u, v \in Threads : own'[u] = own'[v] /\ own'[u] # NoSlab => u = v
    BY <1>0, <1>2, <1>3 DEF Whereabouts
  <2>2. \A u \in Threads : own'[u] # NoSlab => own'[u] \in mapped' \ (gc \cup free \cup {doomed})
    BY <1>0, <1>1, <1>2, <1>3 DEF Whereabouts
  <2>3. ASSUME NEW q \in mapped' PROVE (\E u \in Threads : own'[u] = q) \/ q \in gc \/ q \in free \/ q = doomed
    <3>1. CASE q = s
      BY <1>3, <3>1
    <3>2. CASE q \in mapped /\ \E u \in Threads : own[u] = q
      <4>1. PICK u \in Threads : own[u] = q
        BY <3>2
      <4>2. q # NoSlab
        BY <1>0, <3>2, SlabAssumption DEF PipeTypeOK
      <4> QED BY <1>0, <1>3, <4>1, <4>2
    <3> QED BY <1>0, <1>1, <2>3, <3>1, <3>2 DEF Whereabouts
  <2> QED BY <1>0, <1>1, <2>1, <2>2, <2>3 DEF Whereabouts
<1>6. ASSUME NEW u \in Threads, pipePc'[u] = "place" PROVE Ready(u)'
  <2>1. CASE u = t
    <3>1. want[t] \in Requests
      BY <1>0 DEF PipeTypeOK
    <3> QED BY <1>0, <1>2, <1>3, <2>1, <3>1, RequestsAssumption DEF Fits, Ready
  <2>2. CASE u # t
    <3>1. own[u] # NoSlab /\ Fits(own[u], want[u]) /\ own[u] \in Slabs \ {s} /\ own'[u] = own[u]
      BY <1>0, <1>2, <1>3, <1>6, <2>2 DEF StepsOK, Ready, PipeTypeOK
    <3> QED BY <1>0, <1>3, <3>1 DEF Fits, Ready
  <2> QED BY <2>1, <2>2
<1>7. StepsOK'
  BY <1>0, <1>2, <1>3, <1>6 DEF StepsOK
<1>8. BlocksOK'
  <2>1. /\ IsFiniteSet(objects') /\ \A o, p \in objects' : o # p => Apart(o, p)
        /\ \A q \in free' : bytes'[q] = 0
    BY <1>0, <1>1, <1>2, <1>3 DEF BlocksOK, PipeTypeOK
  <2>2. ASSUME NEW o \in objects'
        PROVE  /\ o.slab \in mapped' /\ o.slab \notin free' /\ o.slab # doomed'
               /\ SLAB_SIZE - bytes'[o.slab] <= o.offset /\ o.offset + o.size <= SLAB_SIZE
    <3>1. o.slab \in Slabs \ {s}
      BY <1>0, <1>2, <2>2, BlockIs
    <3> QED BY <1>0, <1>1, <1>3, <2>2, <3>1 DEF BlocksOK
  <2>3. ASSUME NEW q \in mapped' PROVE live'[q] = Cardinality(In(q)')
    <3>1. CASE q = s
      <4>1. In(q)' = {}
        BY <1>0, <1>2, <3>1 DEF In
      <4> QED BY <1>3, <3>1, <4>1, FS_EmptySet
    <3>2. CASE q # s
      <4>1. q \in mapped /\ q \in Slabs /\ In(q)' = In(q)
        BY <1>0, <1>1, <2>3, <3>2 DEF In, PipeTypeOK
      <4> QED BY <1>0, <1>3, <3>2, <4>1 DEF BlocksOK
    <3> QED BY <3>1, <3>2
  <2> QED BY <2>1, <2>2, <2>3 DEF BlocksOK, Apart
<1> QED BY <1>4, <1>5, <1>7, <1>8 DEF PipeInv

LEMMA NewSlabFailed ==
  ASSUME PipeInv, NEW t \in Threads, NewSlabFails(t)
  PROVE  PipeInv'
<1>0. /\ PipeTypeOK /\ Whereabouts /\ StepsOK /\ BlocksOK
      /\ pipePc[t] = "new" /\ running /\ pipePc' = [pipePc EXCEPT ![t] = "run"]
      /\ UNCHANGED <<mapped, bytes, live, own, want, allocs, gc, free, gcPc, scan, doomed, running, objects>>
  BY DEF PipeInv, NewSlabFails, gcVars, StepsOK
<1>1. PipeTypeOK'
  BY <1>0 DEF PipeTypeOK
<1>2. Whereabouts' /\ BlocksOK'
  BY <1>0 DEF Whereabouts, BlocksOK, In, Apart
<1>3. pipePc'[t] = "run" /\ \A u \in Threads \ {t} : pipePc'[u] = pipePc[u]
  BY <1>0 DEF PipeTypeOK
<1>4. StepsOK'
  BY <1>0, <1>3 DEF StepsOK, Ready, Fits
<1> QED BY <1>1, <1>2, <1>4 DEF PipeInv

LEMMA PlaceBlock ==
  ASSUME PipeInv, NEW t \in Threads, Place(t)
  PROVE  PipeInv'
<1>0. /\ PipeTypeOK /\ Whereabouts /\ StepsOK /\ BlocksOK
      /\ pipePc[t] = "place" /\ running /\ pipePc' = [pipePc EXCEPT ![t] = "run"]
      /\ tryAllocate(own[t], want[t])
      /\ UNCHANGED <<mapped, own, want, allocs, gc, free, gcPc, scan, doomed, running>>
  BY DEF PipeInv, Place, gcVars, StepsOK
<1>1. /\ own[t] \in mapped /\ own[t] \notin free /\ own[t] # doomed /\ Fits(own[t], want[t]) /\ want[t] \in Requests
      /\ own[t] # NoSlab
  BY <1>0 DEF StepsOK, Ready, Whereabouts, PipeTypeOK
<1>2. /\ bytes' \in [Slabs -> 0 .. SLAB_SIZE - CONTROL_SIZE] /\ live' \in [Slabs -> Nat]
      /\ objects' \subseteq Blocks /\ BlocksOK'
      /\ \A s \in Slabs \ {own[t]} : bytes'[s] = bytes[s]
  BY <1>0, <1>1, TakeKeeps
<1>3. PipeTypeOK'
  BY <1>0, <1>2 DEF PipeTypeOK
<1>4. Whereabouts'
  BY <1>0 DEF Whereabouts
<1>5. pipePc'[t] = "run" /\ \A u \in Threads \ {t} : pipePc'[u] = pipePc[u]
  BY <1>0 DEF PipeTypeOK
<1>6. ASSUME NEW u \in Threads, pipePc'[u] = "place" PROVE Ready(u)'
  <2>1. u # t /\ own[u] # NoSlab /\ Fits(own[u], want[u]) /\ own[u] # own[t] /\ own[u] \in Slabs
    BY <1>0, <1>1, <1>5, <1>6 DEF StepsOK, Ready, Whereabouts, PipeTypeOK
  <2>2. want'[u] = want[u] /\ bytes'[own[u]] = bytes[own[u]] /\ own'[u] = own[u]
    BY <1>0, <1>2, <2>1
  <2> QED BY <2>1, <2>2 DEF Fits, Ready
<1>7. StepsOK'
  BY <1>0, <1>5, <1>6 DEF StepsOK
<1> QED BY <1>2, <1>3, <1>4, <1>7 DEF PipeInv

LEMMA DeallocateBlock ==
  ASSUME PipeInv, NEW o \in objects, Deallocate(o)
  PROVE  PipeInv'
<1>0. /\ PipeTypeOK /\ Whereabouts /\ StepsOK /\ BlocksOK
      /\ objects' = objects \ {o} /\ live' = [live EXCEPT ![o.slab] = @ - 1]
      /\ UNCHANGED <<mapped, bytes, own, pipePc, want, allocs, gc, free, gcPc, scan, doomed, running>>
  BY DEF PipeInv, Deallocate, gcVars, threadVars
<1> DEFINE s == o.slab
<1>1. s \in mapped /\ s \in Slabs /\ live[s] = Cardinality(In(s)) /\ live[s] \in Nat
  BY <1>0, BlockIs DEF BlocksOK, PipeTypeOK
<1>2. Cardinality(In(s) \ {o}) = live[s] - 1 /\ live[s] - 1 \in Nat
  <2>1. IsFiniteSet(In(s)) /\ o \in In(s)
    BY <1>0, FS_Subset DEF BlocksOK, In
  <2>2. Cardinality(In(s) \ {o}) = Cardinality(In(s)) - 1
    BY <2>1, FS_RemoveElement
  <2>3. IsFiniteSet(In(s) \ {o})
    BY <2>1, FS_Subset
  <2> QED BY <1>1, <2>2, <2>3, FS_CardinalityType
<1>3. live'[s] = live[s] - 1 /\ \A q \in Slabs \ {s} : live'[q] = live[q]
  BY <1>0, <1>1 DEF PipeTypeOK
<1>4. PipeTypeOK'
  <2>1. live' \in [Slabs -> Nat]
    BY <1>0, <1>1, <1>2 DEF PipeTypeOK
  <2> QED BY <1>0, <2>1 DEF PipeTypeOK
<1>5. Whereabouts'
  BY <1>0 DEF Whereabouts
<1>6. StepsOK'
  BY <1>0 DEF StepsOK, Ready, Fits
<1>7. ASSUME NEW q \in mapped PROVE live'[q] = Cardinality(In(q)')
  <2>1. CASE q = s
    <3>1. In(q)' = In(s) \ {o}
      BY <1>0, <2>1 DEF In
    <3> QED BY <1>2, <1>3, <2>1, <3>1
  <2>2. CASE q # s
    <3>1. In(q)' = In(q) /\ q \in Slabs
      BY <1>0, <2>2 DEF In, PipeTypeOK
    <3> QED BY <1>0, <1>3, <2>2, <3>1 DEF BlocksOK
  <2> QED BY <2>1, <2>2
<1>8. IsFiniteSet(objects')
  BY <1>0, FS_Subset DEF BlocksOK
<1>9. BlocksOK'
  BY <1>0, <1>7, <1>8 DEF BlocksOK, Apart
<1> QED BY <1>4, <1>5, <1>6, <1>9 DEF PipeInv

LEMMA ThreadExits ==
  ASSUME PipeInv, NEW t \in Threads, Exit(t)
  PROVE  PipeInv'
<1>0. /\ PipeTypeOK /\ Whereabouts /\ StepsOK /\ BlocksOK
      /\ pipePc[t] = "run"
      /\ UNCHANGED <<bytes, live, want, allocs, gc, free, gcPc, scan, doomed, running, objects>>
  BY DEF PipeInv, Exit, gcVars
<1>1. CASE own[t] # NoSlab /\ live[own[t]] # 0
  <2>1. pipePc' = [pipePc EXCEPT ![t] = "exiting"] /\ UNCHANGED <<mapped, own>>
    BY <1>1 DEF Exit
  <2>2. PipeTypeOK'
    BY <1>0, <2>1 DEF PipeTypeOK
  <2>3. Whereabouts' /\ BlocksOK'
    BY <1>0, <2>1 DEF Whereabouts, BlocksOK, In, Apart
  <2>4. pipePc'[t] = "exiting" /\ \A u \in Threads \ {t} : pipePc'[u] = pipePc[u]
    BY <1>0, <2>1 DEF PipeTypeOK
  <2>5. StepsOK'
    BY <1>0, <1>1, <2>1, <2>4 DEF StepsOK, Ready, Fits
  <2> QED BY <2>2, <2>3, <2>5 DEF PipeInv
<1>2. CASE ~ (own[t] # NoSlab /\ live[own[t]] # 0)
  <2>1. /\ mapped' = mapped \ {own[t]} /\ own' = [own EXCEPT ![t] = NoSlab]
        /\ pipePc' = [pipePc EXCEPT ![t] = "exited"]
    BY <1>2 DEF Exit
  <2>2. /\ own'[t] = NoSlab /\ pipePc'[t] = "exited"
        /\ \A u \in Threads \ {t} : own'[u] = own[u] /\ pipePc'[u] = pipePc[u]
    BY <1>0, <2>1 DEF PipeTypeOK
  <2>3. PipeTypeOK'
    BY <1>0, <2>1 DEF PipeTypeOK
  <2>4. own[t] \notin gc \cup free /\ (own[t] = doomed => doomed = NoSlab) /\ \A o \in objects : o.slab # own[t]
    <3>1. CASE own[t] = NoSlab
      BY <1>0, <3>1, BlockIs, SlabAssumption DEF PipeTypeOK
    <3>2. CASE own[t] # NoSlab
      BY <1>0, <1>2, <3>2, NothingIn DEF Whereabouts
    <3> QED BY <3>1, <3>2
  <2>5. Whereabouts'
    <3>1. \A u, v \in Threads : own'[u] = own'[v] /\ own'[u] # NoSlab => u = v
      BY <1>0, <2>2 DEF Whereabouts
    <3>2. \A u \in Threads : own'[u] # NoSlab => own'[u] \in mapped' \ (gc \cup free \cup {doomed})
      BY <1>0, <2>1, <2>2 DEF Whereabouts
    <3>3. gc \subseteq mapped' /\ free \subseteq mapped' /\ (doomed # NoSlab => doomed \in mapped')
      BY <1>0, <2>1, <2>4 DEF Whereabouts
    <3>4. \A s \in mapped' : (\E u \in Threads : own'[u] = s) \/ s \in gc \/ s \in free \/ s = doomed
      BY <1>0, <2>1, <2>2 DEF Whereabouts
    <3> QED BY <1>0, <3>1, <3>2, <3>3, <3>4 DEF Whereabouts
  <2>6. BlocksOK'
    BY <1>0, <2>1, <2>4, BlocksStay DEF BlocksOK
  <2>7. StepsOK'
    BY <1>0, <2>1, <2>2 DEF StepsOK, Ready, Fits
  <2> QED BY <2>3, <2>5, <2>6, <2>7 DEF PipeInv
<1> QED BY <1>1, <1>2

LEMMA ThreadPutsSlab ==
  ASSUME PipeInv, NEW t \in Threads, ExitPut(t)
  PROVE  PipeInv'
<1>0. /\ PipeTypeOK /\ Whereabouts /\ StepsOK /\ BlocksOK
      /\ pipePc[t] = "exiting" /\ gcPc # "scan" /\ scan = {} /\ own[t] # NoSlab
      /\ gc' = gc \cup {own[t]} /\ own' = [own EXCEPT ![t] = NoSlab] /\ pipePc' = [pipePc EXCEPT ![t] = "exited"]
      /\ UNCHANGED <<mapped, bytes, live, want, allocs, free, gcPc, scan, doomed, running, objects>>
  BY DEF PipeInv, ExitPut, gcVars, Locked, StepsOK
<1>1. /\ own'[t] = NoSlab /\ pipePc'[t] = "exited"
      /\ \A u \in Threads \ {t} : own'[u] = own[u] /\ pipePc'[u] = pipePc[u]
  BY <1>0 DEF PipeTypeOK
<1>2. own[t] \in mapped \ (gc \cup free \cup {doomed}) /\ own[t] \in Slabs
  BY <1>0 DEF Whereabouts, PipeTypeOK
<1>3. PipeTypeOK'
  BY <1>0, <1>2 DEF PipeTypeOK
<1>4. Whereabouts'
  <2>1. \A u, v \in Threads : own'[u] = own'[v] /\ own'[u] # NoSlab => u = v
    BY <1>0, <1>1 DEF Whereabouts
  <2>2. \A u \in Threads : own'[u] # NoSlab => own'[u] \in mapped \ (gc' \cup free \cup {doomed})
    BY <1>0, <1>1, <1>2 DEF Whereabouts
  <2>3. \A s \in mapped : (\E u \in Threads : own'[u] = s) \/ s \in gc' \/ s \in free \/ s = doomed
    BY <1>0, <1>1 DEF Whereabouts
  <2> QED BY <1>0, <1>2, <2>1, <2>2, <2>3 DEF Whereabouts
<1>5. BlocksOK'
  BY <1>0, BlocksStay DEF BlocksOK
<1>6. StepsOK'
  BY <1>0, <1>1 DEF StepsOK, Ready, Fits
<1> QED BY <1>3, <1>4, <1>5, <1>6 DEF PipeInv

\* The collecting thread takes a free slab to delete, or none.
LEMMA CollectorBegins == ASSUME PipeInv, GcBegin PROVE PipeInv'
<1>0. /\ PipeTypeOK /\ Whereabouts /\ StepsOK /\ BlocksOK
      /\ gcPc = "sleep" /\ gcPc' = "scan" /\ scan' = gc /\ doomed = NoSlab
      /\ UNCHANGED <<mapped, bytes, live, own, pipePc, want, allocs, gc, running, objects>>
  BY DEF PipeInv, GcBegin, threadVars, StepsOK
<1>1. /\ free' \subseteq free /\ doomed' \in {NoSlab} \cup (free \ free')
      /\ \A s \in free : s \in free' \/ s = doomed'
  BY <1>0 DEF GcBegin
<1>2. PipeTypeOK'
  BY <1>0, <1>1 DEF PipeTypeOK
<1>3. Whereabouts'
  <2>1. NoSlab \notin gc \cup free
    BY <1>0, SlabAssumption DEF PipeTypeOK
  <2>2. gc \cap free' = {} /\ doomed' \notin gc \cup free' /\ free' \subseteq mapped /\ (doomed' # NoSlab => doomed' \in mapped)
    BY <1>0, <1>1, <2>1 DEF Whereabouts
  <2>3. \A u \in Threads : own[u] # NoSlab => own[u] \in mapped \ (gc \cup free' \cup {doomed'})
    BY <1>0, <1>1 DEF Whereabouts
  <2>4. \A s \in mapped : (\E u \in Threads : own[u] = s) \/ s \in gc \/ s \in free' \/ s = doomed'
    BY <1>0, <1>1, SlabAssumption DEF Whereabouts, PipeTypeOK
  <2> QED BY <1>0, <2>2, <2>3, <2>4 DEF Whereabouts
<1>4. \A o \in objects : o.slab \in mapped /\ o.slab \notin free' /\ o.slab # doomed'
  BY <1>0, <1>1, BlockIs, SlabAssumption DEF BlocksOK
<1>5. BlocksOK'
  BY <1>0, <1>1, <1>4, BlocksStay DEF BlocksOK
<1>6. StepsOK'
  BY <1>0 DEF StepsOK, Ready, Fits
<1> QED BY <1>2, <1>3, <1>5, <1>6 DEF PipeInv

\* A slab of the garbage list is found without live allocations, or kept.
LEMMA CollectorScans ==
  ASSUME PipeInv, NEW s \in Slabs, GcScan(s)
  PROVE  PipeInv'
<1>0. /\ PipeTypeOK /\ Whereabouts /\ StepsOK /\ BlocksOK
      /\ gcPc = "scan" /\ s \in scan /\ s \in gc /\ scan' = scan \ {s}
      /\ UNCHANGED <<mapped, live, own, pipePc, want, allocs, gcPc, doomed, running, objects>>
  BY DEF PipeInv, GcScan, threadVars, PipeTypeOK
<1>1. CASE live[s] # 0
  <2>1. UNCHANGED <<bytes, gc, free>>
    BY <1>1 DEF GcScan, Dead
  <2>2. PipeTypeOK' /\ Whereabouts' /\ StepsOK' /\ BlocksOK'
    BY <1>0, <2>1 DEF PipeTypeOK, Whereabouts, StepsOK, Ready, Fits, BlocksOK, In, Apart
  <2> QED BY <2>2 DEF PipeInv
<1>2. CASE live[s] = 0
  <2>1. bytes' = [bytes EXCEPT ![s] = 0] /\ gc' = gc \ {s} /\ free' = free \cup {s}
    BY <1>2 DEF GcScan, Dead, ResetBytes
  <2>2. bytes'[s] = 0 /\ \A q \in Slabs \ {s} : bytes'[q] = bytes[q]
    BY <1>0, <2>1 DEF PipeTypeOK
  <2>3. s \in mapped /\ s # doomed /\ s \notin free /\ (\A u \in Threads : own[u] # s) /\ \A o \in objects : o.slab # s
    BY <1>0, <1>2, NothingIn, SlabAssumption DEF Whereabouts
  <2>4. PipeTypeOK'
    <3>1. 0 \in 0 .. SLAB_SIZE - CONTROL_SIZE
      BY SlabAssumption
    <3>2. bytes' \in [Slabs -> 0 .. SLAB_SIZE - CONTROL_SIZE]
      BY <1>0, <2>1, <3>1 DEF PipeTypeOK
    <3> QED BY <1>0, <2>1, <3>2 DEF PipeTypeOK
  <2>5. Whereabouts'
    <3>1. gc' \cap free' = {} /\ doomed \notin gc' \cup free' /\ gc' \subseteq mapped /\ free' \subseteq mapped
      BY <1>0, <2>1, <2>3 DEF Whereabouts
    <3>2. \A u \in Threads : own[u] # NoSlab => own[u] \in mapped \ (gc' \cup free' \cup {doomed})
      BY <1>0, <2>1, <2>3 DEF Whereabouts
    <3>3. \A q \in mapped : (\E u \in Threads : own[u] = q) \/ q \in gc' \/ q \in free' \/ q = doomed
      BY <1>0, <2>1 DEF Whereabouts
    <3> QED BY <1>0, <3>1, <3>2, <3>3 DEF Whereabouts
  <2>6. ASSUME NEW u \in Threads, pipePc[u] = "place" PROVE Ready(u)'
    <3>1. own[u] # NoSlab /\ Fits(own[u], want[u]) /\ own[u] \in Slabs \ {s}
      BY <1>0, <2>3, <2>6 DEF StepsOK, Ready, PipeTypeOK
    <3> QED BY <1>0, <2>2, <3>1 DEF Ready, Fits
  <2>7. StepsOK'
    BY <1>0, <2>6 DEF StepsOK
  <2>8. BlocksOK'
    <3>1. ASSUME NEW o \in objects
          PROVE  /\ o.slab \in mapped /\ o.slab \notin free' /\ o.slab # doomed
                 /\ SLAB_SIZE - bytes'[o.slab] <= o.offset /\ o.offset + o.size <= SLAB_SIZE
      BY <1>0, <2>1, <2>2, <2>3, BlockIs DEF BlocksOK
    <3>2. \A q \in free' : bytes'[q] = 0
      BY <1>0, <2>1, <2>2 DEF BlocksOK, PipeTypeOK
    <3> QED BY <1>0, <3>1, <3>2 DEF BlocksOK, In, Apart
  <2> QED BY <2>4, <2>5, <2>7, <2>8 DEF PipeInv
<1> QED BY <1>1, <1>2

LEMMA CollectorDeletes == ASSUME PipeInv, GcDelete PROVE PipeInv'
<1>0. /\ PipeTypeOK /\ Whereabouts /\ StepsOK /\ BlocksOK
      /\ gcPc = "delete" /\ mapped' = mapped \ {doomed} /\ doomed' = NoSlab /\ gcPc' = "check"
      /\ UNCHANGED <<bytes, live, own, pipePc, want, allocs, gc, free, scan, running, objects>>
  BY DEF PipeInv, GcDelete, threadVars
<1>1. PipeTypeOK'
  BY <1>0 DEF PipeTypeOK
<1>2. Whereabouts'
  <2>1. NoSlab \notin gc \cup free \cup mapped
    BY <1>0, SlabAssumption DEF PipeTypeOK
  <2> QED BY <1>0, <2>1 DEF Whereabouts
<1>3. BlocksOK'
  <2>1. \A o \in objects : o.slab # NoSlab
    BY <1>0, BlockIs, SlabAssumption
  <2>2. \A o \in objects : o.slab \in mapped' /\ o.slab \notin free' /\ o.slab # doomed'
    BY <1>0, <2>1 DEF BlocksOK
  <2> QED BY <1>0, <2>2, BlocksStay DEF BlocksOK
<1>4. StepsOK'
  BY <1>0 DEF StepsOK, Ready, Fits
<1> QED BY <1>1, <1>2, <1>3, <1>4 DEF PipeInv

LEMMA CollectionDestroyed == ASSUME PipeInv, DestroyAll PROVE PipeInv'
<1>0. /\ PipeTypeOK /\ Whereabouts /\ StepsOK /\ BlocksOK
      /\ gcPc = "stopped" /\ gcPc' = "destroyed" /\ gc' = {} /\ free' = {} /\ mapped' = mapped \ (gc \cup free)
      /\ doomed = NoSlab /\ objects = {} /\ \A t \in Threads : own[t] = NoSlab
      /\ scan = {} /\ running = FALSE
      /\ UNCHANGED <<bytes, live, own, pipePc, want, allocs, scan, doomed, running, objects>>
  BY DEF PipeInv, DestroyAll, threadVars, StepsOK, PipeTypeOK
<1>1. PipeTypeOK'
  BY <1>0 DEF PipeTypeOK
<1>2. mapped' = {}
  BY <1>0, SlabAssumption DEF Whereabouts, PipeTypeOK
<1>3. Whereabouts' /\ BlocksOK'
  BY <1>0, <1>2, FS_EmptySet DEF Whereabouts, BlocksOK
<1>4. StepsOK'
  BY <1>0 DEF StepsOK, Ready, Fits
<1> QED BY <1>1, <1>3, <1>4 DEF PipeInv

\* The other steps of the collecting thread, and the stop.
LEMMA PipeQuiet ==
  ASSUME PipeInv, GcCheck \/ GcUnlock \/ Stop \/ UNCHANGED pipeVars
  PROVE  PipeInv'
<1>0. PipeTypeOK /\ Whereabouts /\ StepsOK /\ BlocksOK
  BY DEF PipeInv
<1>1. UNCHANGED <<mapped, bytes, live, own, pipePc, want, allocs, gc, free, scan, doomed, objects>>
  BY DEF GcCheck, GcUnlock, Stop, pipeVars, threadVars, gcVars
<1>2. Whereabouts' /\ BlocksOK'
  BY <1>0, <1>1 DEF Whereabouts, BlocksOK, In, Apart
<1>3. PipeTypeOK'
  BY <1>0, <1>1 DEF PipeTypeOK, GcCheck, GcUnlock, Stop, pipeVars, gcVars
<1>4. StepsOK'
  <2>1. CASE GcCheck
    BY <1>0, <1>1, <2>1 DEF StepsOK, Ready, Fits, GcCheck
  <2>2. CASE GcUnlock
    BY <1>0, <1>1, <2>2 DEF StepsOK, Ready, Fits, GcUnlock
  <2>3. CASE Stop
    BY <1>0, <1>1, <2>3 DEF StepsOK, Ready, Fits, Stop
  <2>4. CASE UNCHANGED pipeVars
    BY <1>0, <1>1, <2>4 DEF StepsOK, Ready, Fits, pipeVars, gcVars
  <2> QED BY <2>1, <2>2, <2>3, <2>4
<1> QED BY <1>2, <1>3, <1>4 DEF PipeInv

LEMMA PipeKept == ASSUME PipeInv, [PipeNext]_pipeVars PROVE PipeInv'
<1>1. ASSUME NEW t \in Threads, ThreadSteps(t) PROVE PipeInv'
  BY <1>1, AllocateBlock, ReplaceSlab, NewSlabMapped, NewSlabFailed, PlaceBlock, ThreadExits, ThreadPutsSlab
     DEF ThreadSteps
<1>2. ASSUME GcSteps PROVE PipeInv'
  BY <1>2, PipeQuiet, CollectorBegins, CollectorScans, CollectorDeletes DEF GcSteps
<1>3. ASSUME NEW o \in objects, Deallocate(o) PROVE PipeInv'
  BY <1>3, DeallocateBlock
<1> QED BY <1>1, <1>2, <1>3, PipeQuiet, CollectionDestroyed DEF PipeNext

\* A slab is in one place as long as it is mapped, and in none otherwise.
LEMMA OnePlace ==
  ASSUME PipeInv, NEW s \in Slabs
  PROVE  Cardinality(Places(s)) = IF s \in mapped THEN 1 ELSE 0
<1>0. PipeTypeOK /\ Whereabouts /\ s # NoSlab
  BY SlabAssumption DEF PipeInv
<1> DEFINE One == Cardinality(Places(s)) = 1
<1>1. CASE s \notin mapped
  <2>1. s \notin gc /\ s \notin free /\ s # doomed /\ \A t \in Threads : own[t] # s
    BY <1>0, <1>1 DEF Whereabouts
  <2>2. Places(s) = {}
    BY <2>1 DEF Places
  <2> QED BY <1>1, <2>2, FS_EmptySet
<1>2. CASE s \in mapped /\ \E t \in Threads : own[t] = s
  <2>1. PICK t \in Threads : own[t] = s
    BY <1>2
  <2>2. s \notin gc /\ s \notin free /\ s # doomed /\ \A u \in Threads : own[u] = s => u = t
    BY <1>0, <2>1 DEF Whereabouts
  <2>3. {u \in Threads : own[u] = s} = {t} /\ {s} \cap gc = {} /\ {s} \cap free = {} /\ {s} \cap {doomed} = {}
    BY <2>1, <2>2
  <2>4. Places(s) = {<<t, "own">>}
    BY <2>3 DEF Places
  <2> QED BY <1>2, <2>4, FS_Singleton
<1>3. CASE s \in mapped /\ ~ \E t \in Threads : own[t] = s
  <2>1. {u \in Threads : own[u] = s} = {}
    BY <1>3
  <2>2. CASE s \in gc
    <3>1. {s} \cap gc = {s} /\ {s} \cap free = {} /\ {s} \cap {doomed} = {}
      BY <1>0, <2>2 DEF Whereabouts
    <3>2. Places(s) = {<<s, "gc">>}
      BY <2>1, <3>1 DEF Places
    <3> QED BY <1>3, <3>2, FS_Singleton
  <2>3. CASE s \in free
    <3>1. {s} \cap gc = {} /\ {s} \cap free = {s} /\ {s} \cap {doomed} = {}
      BY <1>0, <2>3 DEF Whereabouts
    <3>2. Places(s) = {<<s, "free">>}
      BY <2>1, <3>1 DEF Places
    <3> QED BY <1>3, <3>2, FS_Singleton
  <2>4. CASE s = doomed
    <3>1. {s} \cap gc = {} /\ {s} \cap free = {} /\ {s} \cap {doomed} = {s}
      BY <1>0, <2>4 DEF Whereabouts
    <3>2. Places(s) = {<<s, "doomed">>}
      BY <2>1, <3>1 DEF Places
    <3> QED BY <1>3, <3>2, FS_Singleton
  <2> QED BY <1>0, <1>3, <2>2, <2>3, <2>4 DEF Whereabouts
<1> QED BY <1>1, <1>2, <1>3

LEMMA PipeFollows == ASSUME PipeInv PROVE PipeSound
<1>1. Disjoint
  BY DEF PipeInv, BlocksOK, Apart, StepsOK, Ready, Disjoint
<1>2. LiveKept
  BY OnePlace DEF PipeInv, BlocksOK, In, LiveKept
<1> QED BY <1>1, <1>2 DEF PipeSound

\* However threads allocate, return blocks of each other and end while garbage is collected,
\* live blocks never overlap, and a slab is in one place, counts its live blocks, and is
\* neither recycled nor deleted while it has any (pipe_memory_allocator.cpp).
THEOREM PipeStaysSound == PipeSpec => []PipeSound
<1>1. PipeInit => PipeInv
  BY PipeStarts
<1>2. PipeInv /\ [PipeNext]_pipeVars => PipeInv'
  BY PipeKept
<1>3. PipeInv => PipeSound
  BY PipeFollows
<1> QED BY <1>1, <1>2, <1>3, PTL DEF PipeSpec
=============================================================================
