-------------------------- MODULE MCServices_proof --------------------------
(***************************************************************************)
(* Proofs about the services of MCServices, for any number of threads,     *)
(* agents, services and messages.  Each part of the invariant is about the *)
(* variables of one component and holds whichever of them runs.            *)
(***************************************************************************)
EXTENDS MCServices, SequenceLemmas

-----------------------------------------------------------------------------
(* The file service                                                        *)

\* Threads that have queued a command and not yet counted it.
Adders == {p \in Pushers : pushPc[p] = "add"}

Commands == Pushers \X Nat

FilesTypes ==
  /\ counter \in [work : Nat, stop : BOOLEAN]
  /\ ioQueue \in Seq(Commands) /\ pushed \in Seq(Commands) /\ done \in Seq(Commands)
  /\ pushPc \in [Pushers -> {"idle", "add", "wake"}]
  /\ sent \in [Pushers -> Nat]
  /\ ioPc \in {"wait", "sleep", "asleep", "take", "perform", "exited"}
  /\ work \in Nat /\ left \in 0 .. work
  /\ item \in Commands \cup {<<>>}

\* The thread that takes commands has counted them, one that waits has none, and
\* only while one is performed it is out of the queue.
IoState ==
  /\ work <= counter.work
  /\ ioPc \in {"wait", "sleep", "asleep"} => work = 0
  /\ item # <<>> <=> ioPc = "perform"

\* What is counted and not yet taken, and what is queued and not yet counted, is what
\* the queue holds.
QueueCounted == counter.work - (work - left) + Cardinality(Adders) = Len(ioQueue)

QueueOrder == pushed = done \o (IF item = <<>> THEN <<>> ELSE <<item>>) \o ioQueue

FilesInv == FilesTypes /\ IoState /\ QueueCounted /\ QueueOrder

LEMMA FilesInit == Files!Init => FilesInv
<1> SUFFICES ASSUME Files!Init PROVE FilesInv
  OBVIOUS
<1>1. Adders = {}
  BY DEF Files!Init, Adders
<1>2. FilesTypes /\ IoState /\ QueueOrder
  BY DEF Files!Init, FilesTypes, IoState, QueueOrder
<1>3. Cardinality(Adders) = 0
  BY <1>1, FS_EmptySet
<1> QED BY <1>2, <1>3 DEF Files!Init, FilesInv, QueueCounted

\* The number of adders is a number.
LEMMA AddersCounted ==
  ASSUME IsFiniteSet(Pushers)
  PROVE  IsFiniteSet(Adders) /\ Cardinality(Adders) \in Nat
BY FS_Subset, FS_CardinalityType DEF Adders

LEMMA PushInv ==
  ASSUME IsFiniteSet(Pushers), FilesInv, NEW p \in Pushers, Files!Push(p)
  PROVE  FilesInv'
<1> DEFINE x == <<p, sent[p]>>
           held == IF item = <<>> THEN <<>> ELSE <<item>>
<1>1. /\ pushPc[p] = "idle" /\ x \in Commands
      /\ ioQueue' = Append(ioQueue, x) /\ pushed' = Append(pushed, x)
      /\ pushPc' = [pushPc EXCEPT ![p] = "add"]
      /\ UNCHANGED <<counter, ioPc, work, left, item, done>>
  BY DEF Files!Push, FilesInv, FilesTypes, Commands, Files!ioVars
<1>2. FilesTypes'
  BY <1>1 DEF Files!Push, FilesInv, FilesTypes
<1>3. IoState'
  BY <1>1 DEF FilesInv, IoState
<1>4. Adders' = Adders \cup {p} /\ p \notin Adders
  BY <1>1 DEF FilesInv, FilesTypes, Adders
<1>5. Cardinality(Adders') = Cardinality(Adders) + 1
  BY <1>4, AddersCounted, FS_AddElement
<1>6. QueueCounted'
  <2>1. Len(ioQueue') = Len(ioQueue) + 1
    BY <1>1 DEF FilesInv, FilesTypes
  <2> QED BY SMTT(25), <1>1, <1>5, <2>1, AddersCounted DEF FilesInv, QueueCounted, FilesTypes
<1>7. QueueOrder'
  <2>1. /\ ioQueue \in Seq(Commands) /\ pushed \in Seq(Commands) /\ done \in Seq(Commands)
        /\ held \in Seq(Commands) /\ <<x>> \in Seq(Commands)
    BY <1>1 DEF FilesInv, FilesTypes
  <2>2. ioQueue' = ioQueue \o <<x>> /\ pushed' = pushed \o <<x>>
    BY <1>1, <2>1, AppendIsConcat
  <2> HIDE DEF x, held
  <2>3. done \o held \in Seq(Commands)
    BY <2>1, ConcatProperties
  <2>4. ((done \o held) \o ioQueue) \o <<x>> = (done \o held) \o (ioQueue \o <<x>>)
    BY SMTT(25), <2>1, <2>3, ConcatAssociative
  <2> QED BY <1>1, <2>2, <2>4 DEF FilesInv, QueueOrder, held
<1> QED BY <1>2, <1>3, <1>6, <1>7 DEF FilesInv

LEMMA AddWorkInv ==
  ASSUME IsFiniteSet(Pushers), FilesInv, NEW p \in Pushers, Files!AddWork(p)
  PROVE  FilesInv'
<1>1. PICK step \in {"wake", "idle"} : pushPc' = [pushPc EXCEPT ![p] = step]
  BY DEF Files!AddWork
<1>0. counter \in [work : Nat, stop : BOOLEAN] /\ counter' = [counter EXCEPT !.work = counter.work + 1]
  BY DEF Files!AddWork, FilesInv, FilesTypes
<1>2. /\ pushPc[p] = "add"
      /\ counter'.work = counter.work + 1 /\ counter' \in [work : Nat, stop : BOOLEAN]
      /\ UNCHANGED <<ioQueue, sent, pushed, ioPc, work, left, item, done>>
  BY <1>0 DEF Files!AddWork, Files!ioVars
<1>3. FilesTypes'
  BY <1>1, <1>2 DEF FilesInv, FilesTypes
<1>4. IoState' /\ QueueOrder'
  BY <1>2 DEF FilesInv, IoState, QueueOrder, FilesTypes
<1>5. Adders' = Adders \ {p} /\ p \in Adders
  BY <1>1, <1>2 DEF FilesInv, FilesTypes, Adders
<1>6. Cardinality(Adders') = Cardinality(Adders) - 1
  BY <1>5, AddersCounted, FS_RemoveElement
<1>7. QueueCounted'
  BY SMTT(25), <1>2, <1>6, AddersCounted DEF FilesInv, QueueCounted, FilesTypes
<1> QED BY <1>3, <1>4, <1>7 DEF FilesInv

LEMMA SameAdders ==
  ASSUME \A p \in Pushers : pushPc'[p] = "add" <=> pushPc[p] = "add"
  PROVE  Adders' = Adders
BY DEF Adders

\* A wake-up, the load and the sleep of FutexWorkCounter::wait, the stop bit and its wake-up.
LEMMA WaitInv ==
  ASSUME FilesInv,
         \/ \E p \in Pushers : Files!Wake(p)
         \/ Files!WaitFutex \/ Files!WaitSpurious
         \/ Files!StopSet \/ Files!StopWake \/ Files!Join
         \/ UNCHANGED fileVars
  PROVE  FilesInv'
<1>1. /\ counter'.work = counter.work /\ counter' \in [work : Nat, stop : BOOLEAN]
      /\ UNCHANGED <<ioQueue, sent, pushed, work, left, item, done>>
  BY DEF Files!Wake, Files!WaitFutex, Files!WaitSpurious, Files!StopSet, Files!StopWake, Files!Join,
         Files!pushVars, Files!ioVars, fileVars, FilesInv, FilesTypes
<1>2. \/ pushPc' = pushPc
      \/ \E p \in Pushers : pushPc[p] = "wake" /\ pushPc' = [pushPc EXCEPT ![p] = "idle"]
  BY DEF Files!Wake, Files!WaitFutex, Files!WaitSpurious, Files!StopSet, Files!StopWake, Files!Join,
         Files!pushVars, fileVars
<1>3. \/ ioPc' = ioPc
      \/ {ioPc, ioPc'} \subseteq {"wait", "sleep", "asleep"}
  BY DEF Files!Wake, Files!WaitFutex, Files!WaitSpurious, Files!StopSet, Files!StopWake, Files!Join,
         Files!ioVars, fileVars, Files!Woken
<1>4. FilesTypes'
  BY <1>1, <1>2, <1>3 DEF FilesInv, FilesTypes
<1>5. IoState'
  BY <1>1, <1>3 DEF FilesInv, IoState, FilesTypes
<1>6. Adders' = Adders
  BY <1>2, SameAdders DEF FilesInv, FilesTypes
<1>7. QueueCounted' /\ QueueOrder'
  BY <1>1, <1>6 DEF FilesInv, QueueCounted, QueueOrder
<1> QED BY <1>4, <1>5, <1>7 DEF FilesInv

LEMMA WaitLoadInv ==
  ASSUME FilesInv, Files!WaitLoad
  PROVE  FilesInv'
<1>1. /\ ioPc = "wait" /\ work = 0 /\ left = 0
      /\ \/ ioPc' = "sleep" /\ UNCHANGED <<work, left>>
         \/ ioPc' = "take" /\ work' = counter.work /\ left' = counter.work
      /\ UNCHANGED <<counter, ioQueue, item, done, pushPc, sent, pushed>>
  BY DEF Files!WaitLoad, FilesInv, FilesTypes, IoState, Files!pushVars
<1>2. FilesTypes' /\ IoState'
  BY <1>1 DEF FilesInv, FilesTypes, IoState
<1>3. Adders' = Adders
  BY <1>1, SameAdders
<1>4. work' - left' = work - left
  BY <1>1 DEF FilesInv, FilesTypes
<1>5. QueueCounted' /\ QueueOrder'
  BY <1>1, <1>3, <1>4 DEF FilesInv, QueueCounted, QueueOrder
<1> QED BY <1>2, <1>5 DEF FilesInv

\* What is left to take is in the queue.
LEMMA LeftIsQueued ==
  ASSUME IsFiniteSet(Pushers), FilesInv
  PROVE  /\ left <= Len(ioQueue)
         /\ counter.work - (work - left) \in 0 .. Len(ioQueue)
BY AddersCounted DEF FilesInv, FilesTypes, IoState, QueueCounted

LEMMA CommandNotEmpty == \A x \in Commands : x # <<>>
  BY DEF Commands

LEMMA TakeInv ==
  ASSUME IsFiniteSet(Pushers), FilesInv, Files!Take
  PROVE  FilesInv'
<1>1. /\ ioPc = "take" /\ left > 0 /\ left' = left - 1 /\ ioPc' = "perform"
      /\ item' = Head(ioQueue) /\ ioQueue' = Tail(ioQueue)
      /\ UNCHANGED <<counter, work, done, pushPc, sent, pushed>>
  BY DEF Files!Take, Files!pushVars
<1>2. ioQueue \in Seq(Commands) /\ ioQueue # <<>>
  BY <1>1, LeftIsQueued DEF FilesInv, FilesTypes
<1>3. /\ item' \in Commands /\ ioQueue' \in Seq(Commands) /\ Len(ioQueue') = Len(ioQueue) - 1
      /\ item' # <<>>
  BY <1>1, <1>2, HeadTailProperties, CommandNotEmpty
<1>4. item = <<>>
  BY <1>1 DEF FilesInv, IoState
<1>5. FilesTypes' /\ IoState'
  BY <1>1, <1>3 DEF FilesInv, FilesTypes, IoState
<1>6. QueueCounted'
  <2>1. Adders' = Adders
    BY <1>1, SameAdders
  <2>2. work' - left' = work - left + 1
    BY <1>1 DEF FilesInv, FilesTypes
  <2>3. counter.work - (work - left) + Cardinality(Adders) = Len(ioQueue)
    BY DEF FilesInv, QueueCounted
  <2>4. /\ counter.work \in Nat /\ work - left \in Nat /\ Cardinality(Adders) \in Nat
        /\ Len(ioQueue) \in Nat
    BY <1>2, AddersCounted DEF FilesInv, FilesTypes
  <2>5. counter'.work - (work' - left') + Cardinality(Adders') = Len(ioQueue')
    BY <1>1, <1>3, <2>1, <2>2, <2>3, <2>4
  <2> QED BY <2>5 DEF QueueCounted
<1>7. QueueOrder'
  <2>1. ioQueue = <<item'>> \o ioQueue'
    BY <1>1, <1>2
  <2>2. pushed = done \o ioQueue
    BY <1>2, <1>4, ConcatEmptySeq DEF FilesInv, FilesTypes, QueueOrder
  <2>3. <<item'>> \in Seq(Commands) /\ done \in Seq(Commands)
    BY <1>3 DEF FilesInv, FilesTypes
  <2>4. done \o (<<item'>> \o ioQueue') = (done \o <<item'>>) \o ioQueue'
    BY <1>3, <2>3, ConcatAssociative
  <2> QED BY <1>1, <1>3, <2>1, <2>2, <2>4 DEF QueueOrder
<1> QED BY <1>5, <1>6, <1>7 DEF FilesInv

LEMMA PerformInv ==
  ASSUME FilesInv, Files!Perform
  PROVE  FilesInv'
<1>1. /\ ioPc = "perform" /\ ioPc' = "take" /\ done' = Append(done, item) /\ item' = <<>>
      /\ UNCHANGED <<counter, ioQueue, work, left, pushPc, sent, pushed>>
  BY DEF Files!Perform, Files!pushVars
<1>2. item \in Commands /\ item # <<>>
  BY <1>1 DEF FilesInv, FilesTypes, IoState
<1>3. done \in Seq(Commands) /\ ioQueue \in Seq(Commands) /\ done' \in Seq(Commands)
  BY <1>1, <1>2 DEF FilesInv, FilesTypes
<1>4. FilesTypes' /\ IoState'
  BY <1>1, <1>3 DEF FilesInv, FilesTypes, IoState
<1>5. QueueCounted'
  BY <1>1, SameAdders DEF FilesInv, QueueCounted
<1>6. QueueOrder'
  <2>1. done' = done \o <<item>>
    BY <1>1, <1>2, <1>3, AppendIsConcat
  <2>2. pushed = (done \o <<item>>) \o ioQueue
    BY <1>2 DEF FilesInv, QueueOrder
  <2>3. done' \o <<>> = done'
    BY <1>3, ConcatEmptySeq
  <2> QED BY <1>1, <2>1, <2>2, <2>3 DEF QueueOrder
<1> QED BY <1>4, <1>5, <1>6 DEF FilesInv

LEMMA RemoveWorkInv ==
  ASSUME IsFiniteSet(Pushers), FilesInv, Files!RemoveWork
  PROVE  FilesInv'
<1>1. /\ ioPc = "take" /\ left = 0 /\ ioPc' \in {"exited", "wait", "take"}
      /\ ioPc' = "wait" => work' = 0
      /\ counter' = [counter EXCEPT !.work = counter.work - work]
      /\ work' = counter'.work /\ left' = work'
      /\ UNCHANGED <<ioQueue, item, done, pushPc, sent, pushed>>
  BY DEF Files!RemoveWork, Files!pushVars
<1> DEFINE less == counter.work - work
<1>a. counter \in [work : Nat, stop : BOOLEAN] /\ work \in Nat /\ work <= counter.work
  BY DEF FilesInv, FilesTypes, IoState
<1>b. less \in Nat
  BY <1>a
<1>c. counter' = [counter EXCEPT !.work = less]
  BY <1>1
<1> HIDE DEF less
<1>d. counter'.work = less /\ counter' \in [work : Nat, stop : BOOLEAN]
  BY <1>a, <1>b, <1>c
<1>2. counter'.work = counter.work - work /\ counter' \in [work : Nat, stop : BOOLEAN]
  BY <1>d DEF less
<1>3. FilesTypes' /\ IoState'
  BY <1>1, <1>2 DEF FilesInv, FilesTypes, IoState
<1>4. Adders' = Adders
  BY <1>1, SameAdders
<1>5. QueueCounted' /\ QueueOrder'
  BY <1>1, <1>2, <1>4, AddersCounted DEF FilesInv, FilesTypes, QueueCounted, QueueOrder
<1> QED BY <1>3, <1>5 DEF FilesInv

LEMMA FilesStep ==
  ASSUME IsFiniteSet(Pushers), FilesInv, Files!Next \/ UNCHANGED fileVars
  PROVE  FilesInv'
BY PushInv, AddWorkInv, WaitInv, WaitLoadInv, TakeInv, PerformInv, RemoveWorkInv
   DEF Files!Next, Files!PushSteps, Files!IoSteps, Files!StopSteps

\* However many threads push, the I/O thread (async_file_io_service.cpp) performs each
\* command once, in the order of the queue, and is never sent to an empty queue.
THEOREM CommandsPerformedInOrder ==
  ASSUME IsFiniteSet(Pushers)
  PROVE  AnySpec => []CommandsInOrder
<1>1. AnyInit => FilesInv
  BY FilesInit DEF AnyInit
<1>2. FilesInv /\ [AnyNext]_allVars => FilesInv'
  BY FilesStep DEF AnyNext, InLock, InFiles, InLocator, InMessaging, InRing, InWork,
                   allVars, smallVars
<1>3. FilesInv => CommandsInOrder
  BY LeftIsQueued DEF CommandsInOrder, Files!CommandsInOrder, FilesInv, QueueOrder
<1> QED BY <1>1, <1>2, <1>3, PTL DEF AnySpec

-----------------------------------------------------------------------------
(* The ring of a task queue                                                *)

\* Fewer tasks are pushed than there are indices.
NoWrapAround == IsFiniteSet(Producers) /\ Cardinality(Ring!PushedTasks) < IndexModulus

\* Each task is reserved a slot at most once, the one being pushed not yet.
OrderOK ==
  /\ \A i, j \in 1 .. Len(order) : order[i] = order[j] => i = j
  /\ \A i \in 1 .. Len(order) : order[i][2] <= pushes[order[i][1]]
  /\ \A p \in Producers : ringPc[p] # "idle" => pushes[p] >= 1
  /\ \A p \in Producers : ringPc[p] \in {"push", "reload", "reserve"} =>
       \A i \in 1 .. Len(order) : order[i] # Ring!Task(p)

\* The slave thread takes from a slot that holds a task, stopped or not.
PopOK ==
  /\ Len(popped) <= Len(order)
  /\ popPc = "take" => Len(popped) < Len(order)
  /\ popPc \in {"reserve", "take"} => items[Ring!Slot(popSeen.consume)] # Ring!Vacant
  /\ popPc = "reserve" => ~popSeen.stop

\* The indices count the slots reserved and the slots given up.
IndexOK ==
  /\ index.produce = Len(order)
  /\ index.consume = Len(popped) + (IF popPc = "take" THEN 1 ELSE 0)
  /\ Len(order) - Len(popped) <= RING_BUFFER_SIZE
  /\ popPc \in {"pop", "wait", "reserve", "take"} => popSeen.consume = Len(popped)

\* What a producer has read is older than the index; while it is not, the slot found
\* empty still is.
SeenOK ==
  \A p \in Producers :
    /\ ringSeen[p].produce <= index.produce /\ ringSeen[p].consume <= index.consume
    /\ ringPc[p] = "reserve" => ~Ring!Full(ringSeen[p])
    /\ ringPc[p] = "reserve" /\ ringSeen[p].produce = index.produce
         /\ ringSeen[p].consume = index.consume
         => items[Ring!Slot(index.produce)] = Ring!Vacant

\* A slot between the indices holds its task, or its producer is about to store it;
\* the other slots are empty.
SlotsOK ==
  /\ \A p \in Producers : ringPc[p] = "store" =>
       /\ ringSeen[p].produce \in index.consume .. Len(order) - 1
       /\ order[ringSeen[p].produce + 1] = Ring!Task(p)
       /\ items[Ring!Slot(ringSeen[p].produce)] = Ring!Vacant
  /\ \A j \in Len(popped) .. Len(order) - 1 :
       \/ items[Ring!Slot(j)] = order[j + 1]
       \/ \E p \in Producers : ringPc[p] = "store" /\ ringSeen[p].produce = j
  /\ \A s \in Ring!Slots : items[s] # Ring!Vacant =>
       \E j \in Len(popped) .. Len(order) - 1 : Ring!Slot(j) = s /\ items[s] = order[j + 1]
  /\ \A i \in 1 .. Len(popped) : popped[i] = order[i]

\* A stop that was requested is in the word.
StopOK == ringStopPc \in {"wake", "join", "destroyed"} => index.stop

RingInv ==
  /\ Ring!TypeOK /\ OrderOK /\ PopOK /\ StopOK
  /\ index.stop \/ (IndexOK /\ SeenOK /\ SlotsOK)

LEMMA RingSizes ==
  /\ RING_BUFFER_SIZE \in Nat \ {0} /\ IndexModulus \in Nat \ {0} /\ MaxPushes \in Nat
BY RingConstants DEF Ring!RingAssumption, Ring!PushesAssumption

\* What the types say.
LEMMA RingTypes ==
  ASSUME Ring!TypeOK
  PROVE  /\ index.produce \in Nat /\ index.consume \in Nat
         /\ index.stop \in BOOLEAN /\ index.wait \in BOOLEAN
         /\ items \in [Ring!Slots -> Ring!PushedTasks \cup {Ring!Vacant}]
         /\ ringPc \in [Producers -> {"idle", "push", "reload", "reserve", "store", "wake"}]
         /\ ringSeen \in [Producers -> Ring!ProduceConsumeIndex]
         /\ \A p \in Producers : ringSeen[p].produce \in Nat /\ ringSeen[p].consume \in Nat
         /\ pushes \in [Producers -> 0 .. MaxPushes]
         /\ \A p \in Producers : pushes[p] \in Nat
         /\ popSeen.produce \in Nat /\ popSeen.consume \in Nat
         /\ popSeen.stop \in BOOLEAN /\ popSeen.wait \in BOOLEAN
         /\ order \in Seq(Ring!PushedTasks) /\ popped \in Seq(Ring!PushedTasks)
         /\ Len(order) \in Nat /\ Len(popped) \in Nat
<1>1. Ring!Indices \subseteq Nat
  BY RingSizes DEF Ring!Indices
<1>2. 0 .. MaxPushes \subseteq Nat
  OBVIOUS
<1>3. \A i \in Ring!ProduceConsumeIndex : /\ i.produce \in Nat /\ i.consume \in Nat
                                         /\ i.stop \in BOOLEAN /\ i.wait \in BOOLEAN
  BY <1>1 DEF Ring!ProduceConsumeIndex
<1>4. \A p \in Producers : ringSeen[p] \in Ring!ProduceConsumeIndex /\ pushes[p] \in Nat
  BY <1>2 DEF Ring!TypeOK
<1>5. Len(order) \in Nat /\ Len(popped) \in Nat
  BY LenProperties DEF Ring!TypeOK
<1> QED BY <1>3, <1>4, <1>5 DEF Ring!TypeOK

LEMMA SlotType == \A i \in Nat : Ring!Slot(i) \in Ring!Slots
BY RingSizes, ModRange DEF Ring!Slot, Ring!Slots

LEMMA NextType == \A i \in Nat : Ring!Next1(i) \in Ring!Indices
BY RingSizes, ModRange DEF Ring!Next1, Ring!Indices

\* A task is no empty slot.
LEMMA TaskNotVacant == \A t \in Ring!PushedTasks : t # Ring!Vacant
BY DEF Ring!PushedTasks, Ring!Vacant

\* Of RING_BUFFER_SIZE indices in a row each has a slot of its own.
LEMMA SlotsApart ==
  ASSUME NEW i \in Nat, NEW j \in Nat, i # j, j - i < RING_BUFFER_SIZE, i - j < RING_BUFFER_SIZE
  PROVE  Ring!Slot(i) # Ring!Slot(j)
<1>1. CASE i < j
  BY <1>1, RingSizes, ModApart DEF Ring!Slot
<1>2. CASE j < i
  BY <1>2, RingSizes, ModApart DEF Ring!Slot
<1> QED BY <1>1, <1>2

LEMMA RingInit == Ring!Init => RingInv
<1> SUFFICES ASSUME Ring!Init PROVE RingInv
  OBVIOUS
<1>1. /\ index = [produce |-> 0, consume |-> 0, wait |-> FALSE, stop |-> FALSE]
      /\ order = <<>> /\ popped = <<>> /\ items = [s \in Ring!Slots |-> Ring!Vacant]
      /\ ringPc = [p \in Producers |-> "idle"] /\ ringSeen = [p \in Producers |-> index]
      /\ pushes = [p \in Producers |-> 0] /\ popPc = "idle" /\ popSeen = index
  BY DEF Ring!Init
<1>2. Len(order) = 0 /\ Len(popped) = 0
  BY <1>1
<1>3. index \in Ring!ProduceConsumeIndex
  BY <1>1, RingSizes DEF Ring!ProduceConsumeIndex, Ring!Indices
<1>4. Ring!TypeOK
  <2>1. order \in Seq(Ring!PushedTasks) /\ popped \in Seq(Ring!PushedTasks)
    BY <1>1
  <2>2. pushes \in [Producers -> 0 .. MaxPushes]
    BY <1>1, RingSizes
  <2> QED BY <1>1, <1>3, <2>1, <2>2 DEF Ring!TypeOK, Ring!Init
<1>5. OrderOK /\ PopOK /\ StopOK
  BY <1>1, <1>2 DEF OrderOK, PopOK, StopOK, Ring!Init
<1>6. IndexOK /\ SeenOK
  BY <1>1, <1>2, RingSizes DEF IndexOK, SeenOK
<1>7. SlotsOK
  BY <1>1, <1>2 DEF SlotsOK
<1> QED BY <1>4, <1>5, <1>6, <1>7 DEF RingInv

-----------------------------------------------------------------------------
\* Nothing moves in the ring.
LEMMA SlotsKept ==
  ASSUME SlotsOK, UNCHANGED <<items, order, popped>>, index'.consume = index.consume,
         \A p \in Producers : ringPc'[p] = "store" <=> ringPc[p] = "store",
         \A p \in Producers : ringPc[p] = "store" =>
           ringSeen'[p] = ringSeen[p] /\ pushes'[p] = pushes[p]
  PROVE  SlotsOK'
<1>1. ASSUME NEW p \in Producers, ringPc'[p] = "store"
      PROVE  /\ ringSeen'[p].produce \in index'.consume .. Len(order') - 1
             /\ order'[ringSeen'[p].produce + 1] = Ring!Task(p)'
             /\ items'[Ring!Slot(ringSeen'[p].produce)] = Ring!Vacant
  <2>1. Ring!Task(p)' = Ring!Task(p)
    BY <1>1 DEF Ring!Task
  <2> QED BY <1>1, <2>1 DEF SlotsOK
<1>2. ASSUME NEW j \in Len(popped') .. Len(order') - 1
      PROVE  \/ items'[Ring!Slot(j)] = order'[j + 1]
             \/ \E p \in Producers : ringPc'[p] = "store" /\ ringSeen'[p].produce = j
  BY DEF SlotsOK
<1>3. ASSUME NEW t \in Ring!Slots, items'[t] # Ring!Vacant
      PROVE  \E j \in Len(popped') .. Len(order') - 1 : Ring!Slot(j) = t /\ items'[t] = order'[j + 1]
  BY <1>3 DEF SlotsOK
<1>4. \A i \in 1 .. Len(popped') : popped'[i] = order'[i]
  BY DEF SlotsOK
<1> QED BY <1>1, <1>2, <1>3, <1>4 DEF SlotsOK

LEMMA PopKept ==
  ASSUME PopOK, UNCHANGED <<order, popped, items, popPc, popSeen>>
  PROVE  PopOK'
BY DEF PopOK

LEMMA IndexKept ==
  ASSUME IndexOK, UNCHANGED <<order, popped, popPc, popSeen>>,
         index'.produce = index.produce, index'.consume = index.consume
  PROVE  IndexOK'
BY DEF IndexOK

\* The producer p reads the index, or looks at the slot it has read.
LEMMA PushReadInv ==
  ASSUME RingInv, NEW p \in Producers,
         \/ Ring!Push(p) \/ Ring!PushReload(p)
         \/ Ring!PushReserve(p) /\ ~Ring!Unchanged(p)
  PROVE  RingInv'
<1>1. /\ ringPc[p] \in {"idle", "push", "reload", "reserve"}
      /\ ringPc' = [ringPc EXCEPT ![p] = "push"]
      /\ ringSeen' = [ringSeen EXCEPT ![p] = index]
      /\ \/ pushes' = pushes /\ ringPc[p] # "idle"
         \/ /\ pushes' = [pushes EXCEPT ![p] = pushes[p] + 1]
            /\ ringPc[p] = "idle" /\ pushes[p] < MaxPushes
      /\ UNCHANGED <<index, items, order, Ring!popVars, Ring!stopVars>>
  BY DEF Ring!Push, Ring!PushReload, Ring!PushReserve
<1>2. Ring!TypeOK
  BY DEF RingInv
<1>3. /\ ringPc \in [Producers -> {"idle", "push", "reload", "reserve", "store", "wake"}]
      /\ ringSeen \in [Producers -> Ring!ProduceConsumeIndex]
      /\ pushes \in [Producers -> 0 .. MaxPushes] /\ pushes[p] \in Nat
      /\ MaxPushes \in Nat
  BY <1>2, RingTypes, RingSizes
<1>4. Ring!TypeOK'
  <2>1. pushes' \in [Producers -> 0 .. MaxPushes]
    BY <1>1, <1>3
  <2> QED BY <1>1, <1>2, <2>1 DEF Ring!TypeOK, Ring!popVars, Ring!stopVars
<1>5. OrderOK'
  <2>1. \A i \in 1 .. Len(order) : /\ order[i] \in Ring!PushedTasks
                                   /\ order[i][1] \in Producers /\ order[i][2] \in Nat
    BY SMTT(25), <1>2, RingTypes, ElementOfSeq DEF Ring!PushedTasks
  <2>2. ASSUME NEW i \in 1 .. Len(order)
        PROVE  order'[i][2] <= pushes'[order'[i][1]]
    <3> DEFINE q == order[i][1]
    <3>1. q \in Producers /\ pushes[q] \in Nat /\ order[i][2] <= pushes[q]
      BY <1>2, <2>1, RingTypes DEF RingInv, OrderOK
    <3>2. pushes'[q] \in {pushes[q], pushes[q] + 1}
      BY <1>1, <1>3, <3>1
    <3> QED BY <1>1, <2>1, <3>1, <3>2, <1>4, RingSizes DEF Ring!TypeOK
  <2>3. \A q \in Producers : ringPc'[q] # "idle" => pushes'[q] >= 1
    BY <1>1, <1>3 DEF RingInv, OrderOK
  <2>4. ASSUME NEW q \in Producers, ringPc'[q] \in {"push", "reload", "reserve"},
               NEW i \in 1 .. Len(order)
        PROVE  order'[i] # Ring!Task(q)'
    <3>1. CASE q # p \/ ringPc[p] # "idle"
      BY <1>1, <1>3, <2>4, <3>1 DEF RingInv, OrderOK, Ring!Task
    <3>2. CASE q = p /\ ringPc[p] = "idle"
      BY <1>1, <1>3, <2>1, <2>4, <3>2 DEF RingInv, OrderOK, Ring!Task
    <3> QED BY <3>1, <3>2
  <2> QED BY <1>1, <2>2, <2>3, <2>4 DEF RingInv, OrderOK
<1>6. PopOK' /\ StopOK'
  BY <1>1, PopKept DEF RingInv, Ring!popVars, Ring!stopVars, StopOK
<1>7. CASE ~index.stop
  <2>1. IndexOK'
    BY <1>1, <1>7, IndexKept DEF RingInv, Ring!popVars
  <2>2. SlotsOK'
    BY <1>1, <1>3, <1>7, SlotsKept DEF RingInv, Ring!popVars
  <2>3. SeenOK'
    BY <1>1, <1>2, <1>3, <1>7, RingTypes DEF RingInv, SeenOK
  <2> QED BY <1>4, <1>5, <1>6, <2>1, <2>2, <2>3 DEF RingInv
<1> QED BY <1>1, <1>4, <1>5, <1>6, <1>7 DEF RingInv

LEMMA PushProbeInv ==
  ASSUME RingInv, NEW p \in Producers, Ring!PushProbe(p)
  PROVE  RingInv'
<1>1. /\ ringPc[p] = "push" /\ ~Ring!Full(ringSeen[p])
      /\ UNCHANGED <<index, items, ringSeen, pushes, order, Ring!popVars, Ring!stopVars>>
  BY DEF Ring!PushProbe
<1>2. \/ /\ items[Ring!Slot(ringSeen[p].produce)] = Ring!Vacant
         /\ ringPc' = [ringPc EXCEPT ![p] = "reserve"]
      \/ ringPc' = [ringPc EXCEPT ![p] = "reload"]
  BY DEF Ring!PushProbe
<1>3. ringPc \in [Producers -> {"idle", "push", "reload", "reserve", "store", "wake"}]
  BY DEF RingInv, Ring!TypeOK
<1>4. Ring!TypeOK'
  BY <1>1, <1>2, <1>3 DEF RingInv, Ring!TypeOK, Ring!popVars, Ring!stopVars
<1>5. OrderOK'
  BY <1>1, <1>2, <1>3 DEF RingInv, OrderOK, Ring!Task
<1>6. PopOK' /\ StopOK'
  BY <1>1, PopKept DEF RingInv, Ring!popVars, Ring!stopVars, StopOK
<1>7. CASE ~index.stop
  <2>1. IndexOK'
    BY <1>1, <1>7, IndexKept DEF RingInv, Ring!popVars
  <2>2. SlotsOK'
    BY <1>1, <1>2, <1>3, <1>7, SlotsKept DEF RingInv, Ring!popVars
  <2>3. SeenOK'
    BY <1>1, <1>2, <1>3, <1>7 DEF RingInv, SeenOK
  <2> QED BY <1>4, <1>5, <1>6, <2>1, <2>2, <2>3 DEF RingInv
<1> QED BY <1>1, <1>4, <1>5, <1>6, <1>7 DEF RingInv

\* While the queue is not stopped the indices do not reach IndexModulus.
LEMMA IndexNext ==
  ASSUME NoWrapAround, NEW s \in Seq(Ring!PushedTasks), \A i, j \in 1 .. Len(s) : s[i] = s[j] => i = j,
         NEW k \in Nat, k < Len(s)
  PROVE  Ring!Next1(k) = k + 1
<1>1. IsFiniteSet(Ring!PushedTasks)
  <2>1. IsFiniteSet(1 .. MaxPushes) /\ IsFiniteSet(Producers)
    BY FS_Interval, RingSizes DEF NoWrapAround
  <2>2. IsFiniteSet(Producers \X (1 .. MaxPushes))
    BY <2>1, FS_Product
  <2> QED BY <2>2 DEF Ring!PushedTasks
<1>2. Len(s) <= Cardinality(Ring!PushedTasks)
  BY <1>1, DistinctLength
<1>3. Len(s) \in Nat /\ Cardinality(Ring!PushedTasks) \in Nat
  BY <1>1, FS_CardinalityType, LenProperties
<1>4. k + 1 \in Nat /\ k + 1 < IndexModulus
  BY <1>2, <1>3, RingSizes DEF NoWrapAround
<1> QED BY <1>4, RingSizes, ModSmall DEF Ring!Next1

LEMMA PushReserveInv ==
  ASSUME NoWrapAround, RingInv, NEW p \in Producers, Ring!PushReserve(p), Ring!Unchanged(p)
  PROVE  RingInv'
<1> DEFINE n == Len(order)
           m == Len(popped)
           k == n + 1
<1>1. /\ ringPc[p] = "reserve" /\ index = ringSeen[p]
      /\ index' = [index EXCEPT !.produce = Ring!Next1(index.produce), !.wait = FALSE]
      /\ order' = Append(order, Ring!Task(p))
      /\ ringPc' = [ringPc EXCEPT ![p] = "store"]
      /\ UNCHANGED <<items, ringSeen, pushes, popPc, popSeen, waiting, popped, Ring!stopVars>>
  BY DEF Ring!PushReserve, Ring!Unchanged, Ring!popVars
<1>2. Ring!TypeOK /\ index \in Ring!ProduceConsumeIndex
  BY DEF RingInv, Ring!TypeOK
<1>3. /\ ringPc \in [Producers -> {"idle", "push", "reload", "reserve", "store", "wake"}]
      /\ order \in Seq(Ring!PushedTasks) /\ n \in Nat /\ m \in Nat
      /\ index.produce \in Nat /\ index.consume \in Nat /\ popSeen.consume \in Nat
      /\ pushes[p] \in 0 .. MaxPushes
  BY <1>2, RingTypes DEF Ring!TypeOK
<1>4. Ring!Task(p) \in Ring!PushedTasks
  BY <1>1, <1>3, RingSizes DEF RingInv, OrderOK, Ring!Task, Ring!PushedTasks
<1>5. /\ order' \in Seq(Ring!PushedTasks) /\ Len(order') = n + 1
      /\ \A i \in 1 .. n : order'[i] = order[i]
      /\ order'[n + 1] = Ring!Task(p)
  BY <1>1, <1>3, <1>4, AppendProperties
<1>6. /\ index' \in Ring!ProduceConsumeIndex
      /\ index'.produce = Ring!Next1(index.produce)
      /\ index'.consume = index.consume /\ index'.stop = index.stop
  BY <1>1, <1>2, <1>3, NextType DEF Ring!ProduceConsumeIndex
<1>7. Ring!TypeOK'
  BY <1>1, <1>2, <1>5, <1>6 DEF Ring!TypeOK, Ring!stopVars
<1>8. OrderOK'
  <2>1. \A i \in 1 .. n : order[i] # Ring!Task(p)
    BY <1>1 DEF RingInv, OrderOK
  <2>2. \A i, j \in 1 .. n + 1 : order'[i] = order'[j] => i = j
    <3>1. \A i, j \in 1 .. n : order[i] = order[j] => i = j
      BY DEF RingInv, OrderOK
    <3>2. \A i \in 1 .. n + 1 : i \in 1 .. n \/ i = n + 1
      BY <1>3
    <3> HIDE DEF n
    <3> QED BY <3>1, <3>2, <1>5, <2>1
  <2>3. ASSUME NEW i \in 1 .. n + 1 PROVE order'[i][2] <= pushes'[order'[i][1]]
    <3>1. CASE i \in 1 .. n
      BY <1>1, <1>5, <3>1 DEF RingInv, OrderOK
    <3>2. CASE i = n + 1
      <4>1. order'[i][1] = p /\ order'[i][2] = pushes[p]
        BY <1>5, <3>2 DEF Ring!Task
      <4> QED BY <1>1, <1>3, <4>1
    <3> QED BY <1>3, <3>1, <3>2
  <2>4. \A q \in Producers : ringPc'[q] # "idle" => pushes'[q] >= 1
    BY <1>1, <1>3 DEF RingInv, OrderOK
  <2>5. ASSUME NEW q \in Producers, ringPc'[q] \in {"push", "reload", "reserve"},
               NEW i \in 1 .. n + 1
        PROVE  order'[i] # Ring!Task(q)'
    <3>1. q # p /\ ringPc[q] \in {"push", "reload", "reserve"} /\ Ring!Task(q)' = Ring!Task(q)
      BY <1>1, <1>3, <2>5 DEF Ring!Task
    <3>2. Ring!Task(q) # Ring!Task(p)
      BY <3>1 DEF Ring!Task
    <3>3. CASE i \in 1 .. n
      BY <1>5, <3>1, <3>3 DEF RingInv, OrderOK
    <3> QED BY <1>3, <1>5, <3>1, <3>2, <3>3
  <2> QED BY <1>5, <2>2, <2>3, <2>4, <2>5 DEF OrderOK
<1>9. PopOK' /\ StopOK'
  BY <1>1, <1>3, <1>5, <1>6 DEF RingInv, PopOK, StopOK, Ring!stopVars
<1>10. CASE ~index.stop
  <2>1. IndexOK /\ SeenOK /\ SlotsOK /\ PopOK
    BY <1>10 DEF RingInv
  <2>2. index.produce = n /\ index'.produce = n + 1
    <3>1. Ring!Next1(n) = n + 1
      BY SMTT(25), <1>3, <1>5, <1>8, IndexNext DEF OrderOK
    <3> QED BY <1>6, <2>1, <3>1 DEF IndexOK
  <2>3. items[Ring!Slot(n)] = Ring!Vacant /\ n # index.consume + RING_BUFFER_SIZE
    BY <1>1, <2>1, <2>2 DEF SeenOK, Ring!Full
  <2>4. n - m < RING_BUFFER_SIZE
    <3>1. SUFFICES ASSUME n = m + RING_BUFFER_SIZE PROVE FALSE
      BY <1>3, <2>1, RingSizes DEF IndexOK
    <3>2. popPc = "take" /\ popSeen.consume = m
      BY <1>3, <2>1, <2>3, <3>1 DEF IndexOK
    <3>3. Ring!Slot(n) = Ring!Slot(m)
      BY <1>3, <3>1, RingSizes, ModNext DEF Ring!Slot
    <3> QED BY <2>1, <2>3, <3>2, <3>3 DEF PopOK
  <2>5. IndexOK'
    BY <1>1, <1>3, <1>5, <1>6, <2>1, <2>2, <2>4, RingSizes DEF IndexOK
  <2>6. SeenOK'
    <3>1. ASSUME NEW q \in Producers
          PROVE  /\ ringSeen[q].produce <= n /\ ringSeen[q].produce \in Nat
                 /\ ringSeen[q].consume <= index.consume
                 /\ ringPc'[q] = "reserve" => ringPc[q] = "reserve"
      BY <1>1, <1>2, <1>3, <2>1, <2>2, RingTypes DEF SeenOK
    <3> QED BY <1>1, <1>3, <1>6, <2>1, <2>2, <3>1 DEF SeenOK
  <2>7. SlotsOK'
    <3>1. ASSUME NEW q \in Producers, ringPc'[q] = "store"
          PROVE  /\ ringSeen'[q].produce \in index'.consume .. Len(order') - 1
                 /\ order'[ringSeen'[q].produce + 1] = Ring!Task(q)'
                 /\ items'[Ring!Slot(ringSeen'[q].produce)] = Ring!Vacant
      <4>1. Ring!Task(q)' = Ring!Task(q)
        BY <1>1 DEF Ring!Task
      <4>2. CASE q = p
        <5>1. index.consume <= n
          BY <1>3, <2>1 DEF IndexOK, PopOK
        <5> QED BY <1>1, <1>3, <1>5, <1>6, <2>2, <2>3, <4>1, <4>2, <5>1
      <4>3. CASE q # p
        <5>1. ringPc[q] = "store"
          BY <1>1, <1>3, <3>1, <4>3
        <5>2. /\ ringSeen[q].produce \in index.consume .. n - 1
              /\ order[ringSeen[q].produce + 1] = Ring!Task(q)
              /\ items[Ring!Slot(ringSeen[q].produce)] = Ring!Vacant
          BY <2>1, <5>1 DEF SlotsOK
        <5> QED BY SMTT(25), <1>1, <1>3, <1>5, <1>6, <4>1, <5>2
      <4> QED BY <4>2, <4>3
    <3>2. ASSUME NEW j \in Len(popped') .. Len(order') - 1
          PROVE  \/ items'[Ring!Slot(j)] = order'[j + 1]
                 \/ \E q \in Producers : ringPc'[q] = "store" /\ ringSeen'[q].produce = j
      <4>1. CASE j = n
        BY <1>1, <1>3, <2>2, <4>1
      <4>2. CASE j # n
        <5>1. j \in m .. n - 1 /\ order'[j + 1] = order[j + 1]
          BY <1>1, <1>3, <1>5, <4>2
        <5>2. \/ items[Ring!Slot(j)] = order[j + 1]
              \/ \E q \in Producers : ringPc[q] = "store" /\ ringSeen[q].produce = j
          BY <2>1, <5>1 DEF SlotsOK
        <5> QED BY <1>1, <1>3, <5>1, <5>2
      <4> QED BY <4>1, <4>2
    <3>3. ASSUME NEW t \in Ring!Slots, items'[t] # Ring!Vacant
          PROVE  \E j \in Len(popped') .. Len(order') - 1 :
                   Ring!Slot(j) = t /\ items'[t] = order'[j + 1]
      <4>1. PICK j \in m .. n - 1 : Ring!Slot(j) = t /\ items[t] = order[j + 1]
        BY <1>1, <2>1, <3>3 DEF SlotsOK
      <4> QED BY SMTT(25), <1>1, <1>3, <1>5, <4>1
    <3>4. \A i \in 1 .. Len(popped') : popped'[i] = order'[i]
      BY <1>1, <1>3, <1>5, <2>1 DEF SlotsOK, PopOK
    <3> QED BY <3>1, <3>2, <3>3, <3>4 DEF SlotsOK
  <2> QED BY <1>7, <1>8, <1>9, <2>5, <2>6, <2>7 DEF RingInv
<1> QED BY <1>6, <1>7, <1>8, <1>9, <1>10 DEF RingInv

LEMMA PushStoreInv ==
  ASSUME RingInv, NEW p \in Producers, Ring!PushStore(p)
  PROVE  RingInv'
<1> DEFINE n == Len(order)
           m == Len(popped)
           k == ringSeen[p].produce
           x == Ring!Slot(k)
<1>1. /\ ringPc[p] = "store" /\ items' = [items EXCEPT ![x] = Ring!Task(p)]
      /\ \E step \in {"wake", "idle"} : ringPc' = [ringPc EXCEPT ![p] = step]
      /\ UNCHANGED <<index, ringSeen, pushes, order, popPc, popSeen, waiting, popped, Ring!stopVars>>
  BY DEF Ring!PushStore, Ring!popVars
<1>2. Ring!TypeOK
  BY DEF RingInv
<1>3. /\ ringPc \in [Producers -> {"idle", "push", "reload", "reserve", "store", "wake"}]
      /\ items \in [Ring!Slots -> Ring!PushedTasks \cup {Ring!Vacant}]
      /\ n \in Nat /\ m \in Nat /\ k \in Nat /\ popSeen.consume \in Nat
      /\ index.produce \in Nat /\ index.consume \in Nat
      /\ pushes[p] \in 0 .. MaxPushes
  BY <1>2, RingTypes DEF Ring!TypeOK
<1>4. Ring!Task(p) \in Ring!PushedTasks /\ Ring!Task(p) # Ring!Vacant
  BY <1>1, <1>3, RingSizes DEF RingInv, OrderOK, Ring!Task, Ring!PushedTasks, Ring!Vacant
<1>5. items' \in [Ring!Slots -> Ring!PushedTasks \cup {Ring!Vacant}] /\ x \in Ring!Slots
  BY <1>1, <1>3, <1>4, SlotType
<1>6. /\ \A q \in Producers : ringPc'[q] = "store" <=> q # p /\ ringPc[q] = "store"
      /\ \A q \in Producers : ringPc'[q] \in {"push", "reload", "reserve"} => ringPc'[q] = ringPc[q]
      /\ \A q \in Producers : ringPc'[q] # "idle" => ringPc[q] # "idle"
      /\ ringPc' \in [Producers -> {"idle", "push", "reload", "reserve", "store", "wake"}]
  BY <1>1, <1>3
<1> HIDE DEF x, k
<1>7. Ring!TypeOK'
  BY <1>1, <1>2, <1>5, <1>6 DEF Ring!TypeOK, Ring!stopVars
<1>8. OrderOK' /\ StopOK'
  BY <1>1, <1>6 DEF RingInv, OrderOK, StopOK, Ring!Task, Ring!stopVars
<1>9. PopOK'
  <2>1. Ring!Slot(popSeen.consume) \in Ring!Slots
    BY <1>3, SlotType
  <2> QED BY <1>1, <1>3, <1>4, <2>1 DEF RingInv, PopOK
<1>10. CASE ~index.stop
  <2>1. IndexOK /\ SeenOK /\ SlotsOK
    BY <1>10 DEF RingInv
  <2>2. k \in index.consume .. n - 1 /\ order[k + 1] = Ring!Task(p)
    BY <1>1, <2>1 DEF SlotsOK, k
  <2>3. m <= index.consume /\ n - m <= RING_BUFFER_SIZE /\ index.produce = n
    BY <1>3, <2>1 DEF IndexOK
  <2>4. \A j \in m .. n - 1 : j # k => Ring!Slot(j) # x
    BY <1>3, <2>2, <2>3, SlotsApart, RingSizes DEF x
  <2>5. IndexOK'
    BY <1>1, <2>1, IndexKept
  <2>6. SeenOK'
    <3>1. ASSUME NEW q \in Producers, ringPc'[q] = "reserve", ringSeen[q].produce = index.produce,
                 ringSeen[q].consume = index.consume
          PROVE  items'[Ring!Slot(index.produce)] = Ring!Vacant
      <4>1. ringPc[q] = "reserve"
        BY <1>6, <3>1
      <4>2. items[Ring!Slot(n)] = Ring!Vacant /\ n # index.consume + RING_BUFFER_SIZE
        BY <2>1, <2>3, <3>1, <4>1 DEF SeenOK, Ring!Full
      <4>3. k \in Nat /\ n \in Nat /\ k # n /\ n - k < RING_BUFFER_SIZE /\ k - n < RING_BUFFER_SIZE
        BY SMTT(25), <1>3, <2>2, <2>3, <4>2, RingSizes
      <4>4. Ring!Slot(n) # x /\ Ring!Slot(n) \in Ring!Slots
        BY <4>3, SlotsApart, SlotType DEF x
      <4> QED BY <1>1, <1>3, <2>3, <4>2, <4>4
    <3> QED BY <1>1, <1>6, <2>1, <3>1 DEF SeenOK
  <2>7. SlotsOK'
    <3>1. ASSUME NEW q \in Producers, ringPc'[q] = "store"
          PROVE  /\ ringSeen'[q].produce \in index'.consume .. Len(order') - 1
                 /\ order'[ringSeen'[q].produce + 1] = Ring!Task(q)'
                 /\ items'[Ring!Slot(ringSeen'[q].produce)] = Ring!Vacant
      <4>1. q # p /\ ringPc[q] = "store" /\ Ring!Task(q)' = Ring!Task(q)
        BY <1>1, <1>6, <3>1 DEF Ring!Task
      <4>2. /\ ringSeen[q].produce \in index.consume .. n - 1
            /\ order[ringSeen[q].produce + 1] = Ring!Task(q)
            /\ items[Ring!Slot(ringSeen[q].produce)] = Ring!Vacant
        BY <2>1, <4>1 DEF SlotsOK
      <4>3. ringSeen[q].produce # k
        BY <2>2, <4>1, <4>2 DEF Ring!Task
      <4>4. ringSeen[q].produce \in m .. n - 1 /\ ringSeen[q].produce \in Nat
        BY SMTT(25), <1>3, <2>3, <4>2
      <4>5. Ring!Slot(ringSeen[q].produce) # x /\ Ring!Slot(ringSeen[q].produce) \in Ring!Slots
        BY <2>4, <4>3, <4>4, SlotType
      <4> QED BY <1>1, <1>3, <4>1, <4>2, <4>5
    <3>2. ASSUME NEW j \in Len(popped') .. Len(order') - 1
          PROVE  \/ items'[Ring!Slot(j)] = order'[j + 1]
                 \/ \E q \in Producers : ringPc'[q] = "store" /\ ringSeen'[q].produce = j
      <4>1. CASE j = k
        BY <1>1, <1>3, <1>5, <2>2, <4>1 DEF x
      <4>2. CASE j # k
        <5>1. \/ items[Ring!Slot(j)] = order[j + 1]
              \/ \E q \in Producers : ringPc[q] = "store" /\ ringSeen[q].produce = j
          BY <1>1, <2>1 DEF SlotsOK
        <5>2. j \in Nat /\ Ring!Slot(j) # x /\ Ring!Slot(j) \in Ring!Slots
          BY <1>1, <1>3, <2>4, <4>2, SlotType
        <5>3. items'[Ring!Slot(j)] = items[Ring!Slot(j)]
          BY <1>1, <1>3, <5>2
        <5>4. \A q \in Producers : ringPc[q] = "store" /\ ringSeen[q].produce = j => ringPc'[q] = "store"
          BY <1>6, <4>2 DEF k
        <5> QED BY <1>1, <5>1, <5>3, <5>4
      <4> QED BY <4>1, <4>2
    <3>3. ASSUME NEW t \in Ring!Slots, items'[t] # Ring!Vacant
          PROVE  \E j \in Len(popped') .. Len(order') - 1 :
                   Ring!Slot(j) = t /\ items'[t] = order'[j + 1]
      <4>1. CASE t = x
        <5>1. k \in m .. n - 1 /\ Ring!Slot(k) = t /\ items'[t] = order[k + 1]
          BY <1>1, <1>3, <2>2, <2>3, <4>1 DEF x
        <5> QED BY <1>1, <5>1
      <4>2. CASE t # x
        <5>1. items'[t] = items[t]
          BY <1>1, <1>3, <4>2
        <5> QED BY <1>1, <2>1, <3>3, <5>1 DEF SlotsOK
      <4> QED BY <4>1, <4>2
    <3>4. \A i \in 1 .. Len(popped') : popped'[i] = order'[i]
      BY <1>1, <2>1 DEF SlotsOK
    <3> QED BY <3>1, <3>2, <3>3, <3>4 DEF SlotsOK
  <2> QED BY <1>7, <1>8, <1>9, <2>5, <2>6, <2>7 DEF RingInv
<1> QED BY <1>1, <1>7, <1>8, <1>9, <1>10 DEF RingInv

\* A wake-up, and the end of pushTask.
LEMMA WakeInv ==
  ASSUME RingInv, \/ \E p \in Producers : Ring!PushWake(p)
                  \/ Ring!StopWake
  PROVE  RingInv'
<1>1. /\ popPc' = IF popPc = "asleep" THEN "reload" ELSE popPc
      /\ UNCHANGED <<index, items, ringSeen, pushes, order, popSeen, waiting, popped, stopSeen, newIndex>>
      /\ \/ UNCHANGED ringStopPc
               /\ \E p \in Producers : ringPc[p] = "wake" /\ ringPc' = [ringPc EXCEPT ![p] = "idle"]
         \/ UNCHANGED ringPc /\ ringStopPc = "wake" /\ ringStopPc' = "join"
  BY DEF Ring!PushWake, Ring!StopWake, Ring!WakeAll, Ring!stopVars, Ring!pushVars
<1>2. Ring!TypeOK
  BY DEF RingInv
<1>3. Ring!TypeOK'
  BY <1>1, <1>2 DEF Ring!TypeOK
<1>4. \A q \in Producers : ringPc'[q] = ringPc[q] \/ (ringPc[q] = "wake" /\ ringPc'[q] = "idle")
  BY <1>1, <1>2 DEF Ring!TypeOK
<1>5. OrderOK' /\ StopOK' /\ PopOK'
  BY <1>1, <1>4 DEF RingInv, OrderOK, StopOK, PopOK, Ring!Task
<1>6. IndexOK => IndexOK'
  BY <1>1 DEF IndexOK
<1>7. SeenOK => SeenOK'
  BY <1>1, <1>4 DEF SeenOK
<1>8. SlotsOK => SlotsOK'
  BY <1>1, <1>4, SlotsKept
<1> QED BY <1>1, <1>3, <1>5, <1>6, <1>7, <1>8 DEF RingInv

\* The slave thread reads the index, waits, or returns without a task.
LEMMA PopReadInv ==
  ASSUME RingInv,
         \/ \E wait \in BOOLEAN : Ring!Pop(wait)
         \/ Ring!PopReload \/ Ring!PopNothing \/ Ring!PopSetWait \/ Ring!PopWait \/ Ring!PopSpurious
         \/ Ring!PopReserve /\ index # popSeen
  PROVE  RingInv'
<1>1. /\ UNCHANGED <<items, popped, Ring!pushVars, Ring!stopVars>>
      /\ popSeen' \in {index, popSeen}
      /\ popPc # "take" /\ popPc' \in {"pop", "exited", "idle", "wait", "asleep", "reload"}
      /\ popPc' \in {"pop", "wait"} => popSeen' = index \/ popPc \in {"pop", "wait"}
      /\ waiting' \in {TRUE, FALSE, waiting}
  BY DEF Ring!Pop, Ring!PopReload, Ring!PopNothing, Ring!PopSetWait, Ring!PopWait,
         Ring!PopSpurious, Ring!PopReserve
<1>2. index' = index \/ index' = [index EXCEPT !.wait = TRUE]
  BY DEF Ring!Pop, Ring!PopReload, Ring!PopNothing, Ring!PopSetWait, Ring!PopWait,
         Ring!PopSpurious, Ring!PopReserve
<1>3. Ring!TypeOK /\ index \in Ring!ProduceConsumeIndex
  BY DEF RingInv, Ring!TypeOK
<1>4. /\ index' \in Ring!ProduceConsumeIndex
      /\ index'.produce = index.produce /\ index'.consume = index.consume /\ index'.stop = index.stop
  BY <1>2, <1>3 DEF Ring!ProduceConsumeIndex
<1>5. Ring!TypeOK'
  <2>1. waiting' \in BOOLEAN /\ popSeen' \in Ring!ProduceConsumeIndex
    BY <1>1, <1>3 DEF Ring!TypeOK
  <2> QED BY <1>1, <1>3, <1>4, <2>1 DEF Ring!TypeOK, Ring!pushVars, Ring!stopVars
<1>6. OrderOK' /\ StopOK' /\ PopOK'
  BY <1>1, <1>4 DEF RingInv, OrderOK, StopOK, PopOK, Ring!Task, Ring!pushVars, Ring!stopVars
<1>7. IndexOK => IndexOK'
  BY <1>1, <1>3, <1>4, RingTypes DEF IndexOK, Ring!pushVars
<1>8. SeenOK => SeenOK'
  BY <1>1, <1>4 DEF SeenOK, Ring!pushVars
<1>9. SlotsOK => SlotsOK'
  BY <1>1, <1>4, SlotsKept DEF Ring!pushVars
<1> QED BY <1>4, <1>5, <1>6, <1>7, <1>8, <1>9 DEF RingInv

LEMMA PopProbeInv ==
  ASSUME RingInv, Ring!PopProbe
  PROVE  RingInv'
<1>1. /\ popPc = "pop" /\ ~popSeen.stop
      /\ popPc' = IF items[Ring!Slot(popSeen.consume)] = Ring!Vacant THEN "reload" ELSE "reserve"
      /\ UNCHANGED <<index, items, popSeen, waiting, popped, Ring!pushVars, Ring!stopVars>>
  BY DEF Ring!PopProbe
<1>2. Ring!TypeOK'
  BY <1>1 DEF RingInv, Ring!TypeOK, Ring!pushVars, Ring!stopVars
<1>3. OrderOK' /\ StopOK'
  BY <1>1 DEF RingInv, OrderOK, StopOK, Ring!Task, Ring!pushVars, Ring!stopVars
<1>4. PopOK'
  BY <1>1 DEF RingInv, PopOK, Ring!pushVars
<1>5. IndexOK => IndexOK'
  BY <1>1 DEF IndexOK, Ring!pushVars
<1>6. SeenOK => SeenOK'
  BY <1>1 DEF SeenOK, Ring!pushVars
<1>7. SlotsOK => SlotsOK'
  BY <1>1, SlotsKept DEF Ring!pushVars
<1> QED BY <1>1, <1>2, <1>3, <1>4, <1>5, <1>6, <1>7 DEF RingInv

\* A task is found only in the slots between the indices, and the oldest is the one
\* reserved first.
LEMMA OldestSlot ==
  ASSUME Ring!TypeOK, IndexOK, SlotsOK, items[Ring!Slot(Len(popped))] # Ring!Vacant
  PROVE  Len(popped) < Len(order) /\ items[Ring!Slot(Len(popped))] = order[Len(popped) + 1]
<1> DEFINE n == Len(order)
           m == Len(popped)
<1>1. n \in Nat /\ m \in Nat
  BY RingTypes
<1>2. PICK j \in m .. n - 1 : Ring!Slot(j) = Ring!Slot(m) /\ items[Ring!Slot(m)] = order[j + 1]
  BY <1>1, SlotType DEF SlotsOK
<1>3. j = m
  BY <1>1, <1>2, SlotsApart, RingSizes DEF IndexOK
<1> QED BY <1>1, <1>2, <1>3

LEMMA PopReserveInv ==
  ASSUME NoWrapAround, RingInv, Ring!PopReserve, index = popSeen
  PROVE  RingInv'
<1> DEFINE n == Len(order)
           m == Len(popped)
<1>1. /\ popPc = "reserve" /\ popPc' = "take"
      /\ index' = [index EXCEPT !.consume = Ring!Next1(index.consume)]
      /\ UNCHANGED <<popSeen, items, waiting, popped, Ring!pushVars, Ring!stopVars>>
  BY DEF Ring!PopReserve
<1>2. /\ Ring!TypeOK /\ index \in Ring!ProduceConsumeIndex
      /\ n \in Nat /\ m \in Nat /\ index.consume \in Nat /\ order \in Seq(Ring!PushedTasks)
  BY RingTypes DEF RingInv, Ring!TypeOK
<1>3. /\ index' \in Ring!ProduceConsumeIndex
      /\ index'.consume = Ring!Next1(index.consume)
      /\ index'.produce = index.produce /\ index'.stop = index.stop
  BY <1>1, <1>2, NextType DEF Ring!ProduceConsumeIndex
<1>4. Ring!TypeOK'
  BY <1>1, <1>2, <1>3 DEF Ring!TypeOK, Ring!pushVars, Ring!stopVars
<1>5. OrderOK' /\ StopOK'
  BY <1>1, <1>3 DEF RingInv, OrderOK, StopOK, Ring!Task, Ring!pushVars, Ring!stopVars
<1>6. /\ ~index.stop /\ IndexOK /\ SeenOK /\ SlotsOK
      /\ items[Ring!Slot(m)] # Ring!Vacant /\ popSeen.consume = m /\ index.consume = m
  BY <1>1 DEF RingInv, PopOK, IndexOK
<1>7. m < n
  BY <1>2, <1>6, OldestSlot
<1>8. index'.consume = m + 1
  BY <1>2, <1>3, <1>6, <1>7, IndexNext DEF RingInv, OrderOK
<1>9. PopOK'
  BY <1>1, <1>2, <1>6, <1>7 DEF PopOK, Ring!pushVars
<1>10. IndexOK'
  BY <1>1, <1>2, <1>3, <1>6, <1>8 DEF IndexOK, Ring!pushVars
<1>11. SeenOK'
  <2>1. ASSUME NEW p \in Producers
        PROVE  /\ ringSeen[p].produce <= index'.produce
               /\ ringSeen[p].consume < index'.consume
    BY <1>2, <1>3, <1>6, <1>8, RingTypes DEF SeenOK
  <2> QED BY <1>1, <1>2, <1>6, <1>8, <2>1, RingTypes DEF SeenOK, Ring!pushVars
<1>12. SlotsOK'
  <2>1. ASSUME NEW q \in Producers, ringPc'[q] = "store"
        PROVE  /\ ringSeen'[q].produce \in index'.consume .. Len(order') - 1
               /\ order'[ringSeen'[q].produce + 1] = Ring!Task(q)'
               /\ items'[Ring!Slot(ringSeen'[q].produce)] = Ring!Vacant
    <3>1. Ring!Task(q)' = Ring!Task(q)
      BY <1>1 DEF Ring!Task, Ring!pushVars
    <3>2. /\ ringSeen[q].produce \in m .. n - 1
          /\ order[ringSeen[q].produce + 1] = Ring!Task(q)
          /\ items[Ring!Slot(ringSeen[q].produce)] = Ring!Vacant
      BY <1>1, <1>6, <2>1 DEF SlotsOK, Ring!pushVars
    <3>3. ringSeen[q].produce # m
      BY <1>6, <3>2
    <3> QED BY <1>1, <1>2, <1>8, <3>1, <3>2, <3>3 DEF Ring!pushVars
  <2>2. ASSUME NEW j \in Len(popped') .. Len(order') - 1
        PROVE  \/ items'[Ring!Slot(j)] = order'[j + 1]
               \/ \E q \in Producers : ringPc'[q] = "store" /\ ringSeen'[q].produce = j
    BY <1>1, <1>6 DEF SlotsOK, Ring!pushVars
  <2>3. ASSUME NEW t \in Ring!Slots, items'[t] # Ring!Vacant
        PROVE  \E j \in Len(popped') .. Len(order') - 1 :
                 Ring!Slot(j) = t /\ items'[t] = order'[j + 1]
    BY <1>1, <1>6, <2>3 DEF SlotsOK, Ring!pushVars
  <2>4. \A i \in 1 .. Len(popped') : popped'[i] = order'[i]
    BY <1>1, <1>6 DEF SlotsOK, Ring!pushVars
  <2> QED BY <2>1, <2>2, <2>3, <2>4 DEF SlotsOK
<1> QED BY <1>4, <1>5, <1>9, <1>10, <1>11, <1>12 DEF RingInv

LEMMA PopTakeInv ==
  ASSUME RingInv, Ring!PopTake
  PROVE  RingInv'
<1> DEFINE n == Len(order)
           m == Len(popped)
           x == Ring!Slot(popSeen.consume)
<1>1. /\ popPc = "take" /\ popPc' = "idle"
      /\ items' = [items EXCEPT ![x] = Ring!Vacant]
      /\ popped' = Append(popped, items[x])
      /\ UNCHANGED <<index, popSeen, waiting, Ring!pushVars, Ring!stopVars>>
  BY DEF Ring!PopTake
<1>2. /\ Ring!TypeOK
      /\ items \in [Ring!Slots -> Ring!PushedTasks \cup {Ring!Vacant}]
      /\ n \in Nat /\ m \in Nat /\ index.consume \in Nat
      /\ popped \in Seq(Ring!PushedTasks) /\ x \in Ring!Slots
      /\ \A p \in Producers : ringSeen[p].produce \in Nat
  BY RingTypes, SlotType DEF RingInv
<1>3. items[x] \in Ring!PushedTasks /\ m < n
  BY <1>1, <1>2 DEF RingInv, PopOK
<1> HIDE DEF x
<1>4. /\ popped' \in Seq(Ring!PushedTasks) /\ Len(popped') = m + 1
      /\ \A i \in 1 .. m : popped'[i] = popped[i]
      /\ popped'[m + 1] = items[x]
  BY <1>1, <1>2, <1>3, AppendProperties
<1>5. Ring!TypeOK'
  BY <1>1, <1>2, <1>4 DEF Ring!TypeOK, Ring!pushVars, Ring!stopVars
<1>6. OrderOK' /\ StopOK'
  BY <1>1 DEF RingInv, OrderOK, StopOK, Ring!Task, Ring!pushVars, Ring!stopVars
<1>7. PopOK'
  BY <1>1, <1>2, <1>3, <1>4 DEF PopOK, Ring!pushVars
<1>8. CASE ~index.stop
  <2>1. IndexOK /\ SeenOK /\ SlotsOK /\ n - m <= RING_BUFFER_SIZE
    BY <1>8 DEF RingInv, IndexOK
  <2>2. popSeen.consume = m /\ index.consume = m + 1 /\ x = Ring!Slot(m)
    BY <1>1, <2>1 DEF IndexOK, x
  <2>3. items[x] = order[m + 1]
    BY <1>1, <1>2, <2>1, <2>2, OldestSlot DEF RingInv, PopOK, x
  <2>4. \A j \in m + 1 .. n - 1 : Ring!Slot(j) # x /\ Ring!Slot(j) \in Ring!Slots /\ j \in Nat
    BY <1>2, <2>1, <2>2, SlotsApart, SlotType, RingSizes
  <2>5. IndexOK'
    BY <1>1, <1>2, <1>4, <2>1, <2>2, RingSizes DEF IndexOK, Ring!pushVars
  <2>6. \A t \in Ring!Slots : items[t] = Ring!Vacant => items'[t] = Ring!Vacant
    BY <1>1, <1>2
  <2>7. SeenOK'
    <3>1. index.produce \in Nat /\ Ring!Slot(index.produce) \in Ring!Slots
      BY <1>2, RingTypes, SlotType
    <3> QED BY <1>1, <2>1, <2>6, <3>1 DEF SeenOK, Ring!pushVars
  <2>8. SlotsOK'
    <3>1. ASSUME NEW q \in Producers, ringPc'[q] = "store"
          PROVE  /\ ringSeen'[q].produce \in index'.consume .. Len(order') - 1
                 /\ order'[ringSeen'[q].produce + 1] = Ring!Task(q)'
                 /\ items'[Ring!Slot(ringSeen'[q].produce)] = Ring!Vacant
      <4>1. Ring!Task(q)' = Ring!Task(q)
        BY <1>1 DEF Ring!Task, Ring!pushVars
      <4>2. Ring!Slot(ringSeen[q].produce) \in Ring!Slots
        BY <1>2, SlotType
      <4> QED BY <1>1, <2>1, <2>6, <3>1, <4>1, <4>2 DEF SlotsOK, Ring!pushVars
    <3>2. ASSUME NEW j \in Len(popped') .. Len(order') - 1
          PROVE  \/ items'[Ring!Slot(j)] = order'[j + 1]
                 \/ \E q \in Producers : ringPc'[q] = "store" /\ ringSeen'[q].produce = j
      <4>1. j \in m + 1 .. n - 1 /\ j \in m .. n - 1
        BY <1>1, <1>2, <1>4 DEF Ring!pushVars
      <4>2. items'[Ring!Slot(j)] = items[Ring!Slot(j)]
        BY <1>1, <1>2, <2>4, <4>1
      <4> QED BY <1>1, <2>1, <4>1, <4>2 DEF SlotsOK, Ring!pushVars
    <3>3. ASSUME NEW t \in Ring!Slots, items'[t] # Ring!Vacant
          PROVE  \E j \in Len(popped') .. Len(order') - 1 :
                   Ring!Slot(j) = t /\ items'[t] = order'[j + 1]
      <4>1. t # x /\ items'[t] = items[t]
        BY <1>1, <1>2, <3>3
      <4>2. PICK j \in m .. n - 1 : Ring!Slot(j) = t /\ items[t] = order[j + 1]
        BY <2>1, <3>3, <4>1 DEF SlotsOK
      <4>3. j # m
        BY <2>2, <4>1, <4>2
      <4> QED BY <1>1, <1>2, <1>4, <4>1, <4>2, <4>3 DEF Ring!pushVars
    <3>4. \A i \in 1 .. Len(popped') : popped'[i] = order'[i]
      BY <1>1, <1>2, <1>4, <2>1, <2>3 DEF SlotsOK, Ring!pushVars
    <3> QED BY <3>1, <3>2, <3>3, <3>4 DEF SlotsOK
  <2> QED BY <1>5, <1>6, <1>7, <2>5, <2>7, <2>8 DEF RingInv
<1> QED BY <1>1, <1>5, <1>6, <1>7, <1>8 DEF RingInv

\* The stopping thread reads the index, sets the stop bit and empties the ring.
LEMMA StopInv ==
  ASSUME RingInv, Ring!StopLoad \/ Ring!StopSet \/ Ring!Destroy
  PROVE  RingInv'
<1>1. /\ UNCHANGED <<items, Ring!pushVars, Ring!popVars>>
      /\ \/ /\ index' = index /\ stopSeen' \in {index, stopSeen} /\ newIndex' \in {index, newIndex}
            /\ ringStopPc' \in {"idle", "stop"} \/ (index.stop /\ ringStopPc' = "destroyed")
         \/ /\ index' = [newIndex EXCEPT !.wait = FALSE, !.stop = TRUE]
            /\ UNCHANGED <<stopSeen, newIndex>> /\ ringStopPc' \in {"wake", "join"}
  BY DEF Ring!StopLoad, Ring!StopSet, Ring!Destroy, Ring!Drained, Ring!popVars, RingInv, StopOK
<1>2. Ring!TypeOK /\ index \in Ring!ProduceConsumeIndex /\ newIndex \in Ring!ProduceConsumeIndex
  BY DEF RingInv, Ring!TypeOK
<1>3. index' \in Ring!ProduceConsumeIndex /\ (index' = index \/ index'.stop)
  BY <1>1, <1>2 DEF Ring!ProduceConsumeIndex
<1>4. Ring!TypeOK'
  BY <1>1, <1>2, <1>3 DEF Ring!TypeOK, Ring!pushVars, Ring!popVars
<1>5. OrderOK' /\ PopOK'
  BY <1>1 DEF RingInv, OrderOK, PopOK, Ring!Task, Ring!pushVars, Ring!popVars
<1>6. StopOK'
  BY <1>1, <1>2 DEF StopOK, Ring!ProduceConsumeIndex
<1>7. CASE index' = index
  BY <1>1, <1>4, <1>5, <1>6, <1>7, IndexKept, SlotsKept
     DEF RingInv, SeenOK, Ring!pushVars, Ring!popVars
<1> QED BY <1>3, <1>4, <1>5, <1>6, <1>7 DEF RingInv

LEMMA RingStutter ==
  ASSUME RingInv, UNCHANGED ringVars
  PROVE  RingInv'
BY IndexKept, SlotsKept, PopKept
   DEF RingInv, SeenOK, OrderOK, StopOK, Ring!TypeOK, Ring!Task, ringVars

LEMMA RingStep ==
  ASSUME NoWrapAround, RingInv, Ring!Next \/ UNCHANGED ringVars
  PROVE  RingInv'
BY PushReadInv, PushProbeInv, PushReserveInv, PushStoreInv, WakeInv, PopReadInv, PopProbeInv,
   PopReserveInv, PopTakeInv, StopInv, RingStutter
   DEF Ring!Next, Ring!PushSteps, Ring!PopSteps, Ring!StopSteps

LEMMA RingInvConsistent ==
  ASSUME RingInv
  PROVE  RingConsistent
<1> DEFINE n == Len(order)
           m == Len(popped)
           Stored == {Ring!Task(p) : p \in {q \in Producers : ringPc[q] = "store"}}
<1>1. /\ Ring!TypeOK /\ n \in Nat /\ m \in Nat /\ m <= n /\ index.consume \in Nat
      /\ order \in Seq(Ring!PushedTasks)
      /\ \A i \in 1 .. n : order[i] \in Ring!PushedTasks
  BY RingTypes, ElementOfSeq DEF RingInv, PopOK
<1>2. CASE ~index.stop
  <2>1. IndexOK /\ SlotsOK /\ OrderOK
    BY <1>2 DEF RingInv
  <2>2. n - m <= RING_BUFFER_SIZE /\ m <= index.consume
    BY <1>1, <2>1 DEF IndexOK
  <2>3. ASSUME NEW p \in Producers, ringPc[p] = "store"
        PROVE  /\ ringSeen[p].produce \in m .. n - 1 /\ ringSeen[p].produce \in Nat
               /\ order[ringSeen[p].produce + 1] = Ring!Task(p)
               /\ items[Ring!Slot(ringSeen[p].produce)] = Ring!Vacant
    BY <1>1, <2>1, <2>2, <2>3 DEF SlotsOK
  <2>4. Ring!Exclusive
    <3>1. ASSUME NEW p \in Producers, ringPc[p] = "store",
                 NEW q \in Producers \ {p}, ringPc[q] = "store"
          PROVE  Ring!Slot(ringSeen[q].produce) # Ring!Slot(ringSeen[p].produce)
      <4>1. ringSeen[q].produce # ringSeen[p].produce
        BY <2>3, <3>1 DEF Ring!Task
      <4>2. /\ ringSeen[p].produce \in m .. n - 1 /\ ringSeen[p].produce \in Nat
            /\ ringSeen[q].produce \in m .. n - 1 /\ ringSeen[q].produce \in Nat
        BY <2>3, <3>1
      <4> QED BY <1>1, <2>2, <4>1, <4>2, SlotsApart, RingSizes
    <3> QED BY <2>3, <3>1 DEF Ring!Exclusive
  <2>5. ASSUME NEW s \in Ring!Slots, items[s] # Ring!Vacant
        PROVE  items[s] \in {order[i] : i \in m + 1 .. n} \ Stored
    <3>1. PICK j \in m .. n - 1 : Ring!Slot(j) = s /\ items[s] = order[j + 1]
      BY <2>1, <2>5 DEF SlotsOK
    <3>2. items[s] \in {order[i] : i \in m + 1 .. n}
      BY <1>1, <3>1
    <3>3. ASSUME NEW p \in Producers, ringPc[p] = "store", items[s] = Ring!Task(p)
          PROVE  FALSE
      <4>1. order[j + 1] = order[ringSeen[p].produce + 1]
        BY <2>3, <3>1, <3>3
      <4>2. j = ringSeen[p].produce
        BY SMTT(25), <1>1, <2>1, <2>3, <3>3, <4>1 DEF OrderOK
      <4> QED BY <2>3, <2>5, <3>1, <3>3, <4>2
    <3> QED BY <3>2, <3>3
  <2>6. ASSUME NEW i \in m + 1 .. n, order[i] \notin Stored
        PROVE  \E s \in Ring!Slots : items[s] = order[i] /\ items[s] # Ring!Vacant
    <3>1. i - 1 \in m .. n - 1 /\ i - 1 \in Nat /\ i \in 1 .. n /\ (i - 1) + 1 = i
      BY <1>1
    <3>2. \/ items[Ring!Slot(i - 1)] = order[i]
          \/ \E p \in Producers : ringPc[p] = "store" /\ ringSeen[p].produce = i - 1
      BY <2>1, <3>1 DEF SlotsOK
    <3>3. ASSUME NEW p \in Producers, ringPc[p] = "store", ringSeen[p].produce = i - 1
          PROVE  FALSE
      BY <2>3, <2>6, <3>1, <3>3
    <3> QED BY <1>1, <3>1, <3>2, <3>3, SlotType, TaskNotVacant
  <2>7. Ring!Conserved
    BY <2>5, <2>6 DEF Ring!Conserved
  <2>8. Ring!PoppedInOrder
    BY <1>1, <2>1 DEF SlotsOK, Ring!PoppedInOrder
  <2> QED BY <1>1, <2>4, <2>7, <2>8 DEF RingConsistent, Ring!RingConsistent
<1> QED BY <1>1, <1>2 DEF RingConsistent, Ring!RingConsistent

\* The queue that the ring stands for.
Inside == SubSeq(order, Len(popped) + 1, Len(order))

\* A step of the ring enqueues the task whose slot is reserved, dequeues the one that is
\* taken, or stops the queue.
LEMMA RingImplements ==
  ASSUME NoWrapAround, RingInv, RingInv', Ring!Next \/ UNCHANGED ringVars
  PROVE  Ring!Queue!Next \/ UNCHANGED <<Inside, index.stop>>
<1> DEFINE n == Len(order)
           m == Len(popped)
<1>1. /\ Ring!TypeOK /\ n \in Nat /\ m \in Nat /\ m <= n
      /\ order \in Seq(Ring!PushedTasks) /\ popped \in Seq(Ring!PushedTasks)
  BY RingTypes DEF RingInv, PopOK
<1>2. ASSUME NEW p \in Producers, Ring!PushReserve(p), Ring!Unchanged(p)
      PROVE  Ring!Queue!Next
  <2>1. /\ order' = Append(order, Ring!Task(p)) /\ popped' = popped
        /\ index.stop' = index.stop
    BY ZenonT(40), <1>1, <1>2 DEF Ring!PushReserve, Ring!Unchanged, Ring!popVars, Ring!TypeOK, Ring!ProduceConsumeIndex
  <2>2. Ring!Task(p) \in Ring!PushedTasks
    BY <1>1, <1>2, RingSizes DEF RingInv, OrderOK, Ring!PushReserve, Ring!Task, Ring!PushedTasks, Ring!TypeOK
  <2>3. Inside' = Append(Inside, Ring!Task(p))
    <3>1. m \in 0 .. Len(order)
      BY <1>1
    <3>2. SubSeq(Append(order, Ring!Task(p)), m + 1, Len(Append(order, Ring!Task(p))))
            = Append(SubSeq(order, m + 1, Len(order)), Ring!Task(p))
      BY <1>1, <2>2, <3>1, RestAppended
    <3> QED BY <2>1, <3>2 DEF Inside
  <2>4. Len(Inside) < RING_BUFFER_SIZE \/ index.stop
    <3>1. CASE ~index.stop
      <4>1. IndexOK'
        BY <2>1, <3>1 DEF RingInv
      <4>2. Len(order') = n + 1
        BY <1>1, <2>1, <2>2, AppendProperties
      <4>3. Len(Inside) = n - m
        BY <1>1, RestElements DEF Inside
      <4> QED BY <1>1, <2>1, <4>1, <4>2, <4>3, RingSizes DEF IndexOK
    <3> QED BY <3>1
  <2>5. Ring!Queue!Enqueue(Ring!Task(p))
    BY <2>1, <2>3, <2>4 DEF Ring!Queue!Enqueue, Inside
  <2> QED BY <2>2, <2>5 DEF Ring!Queue!Next
<1>3. ASSUME Ring!PopTake PROVE Ring!Queue!Next
  <2>1. /\ popPc = "take" /\ Len(popped') = m + 1 /\ order' = order /\ index' = index
    BY <1>1, <1>3, AppendProperties, RingTypes, SlotType
       DEF Ring!PopTake, Ring!pushVars, RingInv, PopOK
  <2>2. m \in 0 .. n - 1
    BY <1>1, <2>1 DEF RingInv, PopOK
  <2>3. Inside # <<>> /\ Inside' = Tail(Inside)
    <3>1. Inside' = SubSeq(order, m + 2, Len(order))
      BY <1>1, <2>1 DEF Inside
    <3> QED BY <1>1, <2>2, <3>1, RestTail DEF Inside
  <2> QED BY <2>1, <2>3 DEF Ring!Queue!Next, Ring!Queue!Dequeue, Inside
<1>4. ASSUME Ring!StopSet PROVE Ring!Queue!Next \/ UNCHANGED <<Inside, index.stop>>
  <2>1. UNCHANGED <<order, popped>> /\ (index' = index \/ index'.stop = TRUE)
    BY <1>1, <1>4 DEF Ring!StopSet, Ring!pushVars, Ring!popVars, Ring!TypeOK, Ring!ProduceConsumeIndex
  <2> QED BY <2>1 DEF Inside, Ring!Queue!Next, Ring!Queue!Stop
<1>5. ASSUME NEW p \in Producers,
             \/ Ring!Push(p) \/ Ring!PushReload(p) \/ Ring!PushProbe(p) \/ Ring!PushStore(p)
             \/ Ring!PushWake(p) \/ (Ring!PushReserve(p) /\ ~Ring!Unchanged(p))
      PROVE  UNCHANGED <<Inside, index.stop>>
  BY <1>5 DEF Inside, Ring!Push, Ring!PushReload, Ring!PushProbe, Ring!PushStore, Ring!PushWake,
              Ring!PushReserve, Ring!popVars
<1>6. ASSUME \/ \E wait \in BOOLEAN : Ring!Pop(wait)
             \/ Ring!PopReload \/ Ring!PopNothing \/ Ring!PopSetWait \/ Ring!PopWait
             \/ Ring!PopProbe \/ Ring!PopReserve \/ Ring!PopSpurious
             \/ Ring!StopLoad \/ Ring!StopWake \/ Ring!Destroy \/ UNCHANGED ringVars
      PROVE  UNCHANGED <<Inside, index.stop>>
  <2>1. UNCHANGED <<order, popped>>
    BY <1>6 DEF Ring!Pop, Ring!PopReload, Ring!PopNothing, Ring!PopSetWait, Ring!PopWait,
         Ring!PopProbe, Ring!PopReserve, Ring!PopSpurious, Ring!StopLoad, Ring!StopWake, Ring!Destroy,
         ringVars, Ring!pushVars, Ring!popVars
  <2>2. \/ index' = index \/ index' = [index EXCEPT !.wait = TRUE]
        \/ index' = [index EXCEPT !.consume = Ring!Next1(index.consume)]
    BY <1>6 DEF Ring!Pop, Ring!PopReload, Ring!PopNothing, Ring!PopSetWait, Ring!PopWait,
         Ring!PopProbe, Ring!PopReserve, Ring!PopSpurious, Ring!StopLoad, Ring!StopWake, Ring!Destroy,
         ringVars
  <2>3. index'.stop = index.stop
    BY <1>1, <2>2 DEF Ring!TypeOK, Ring!ProduceConsumeIndex
  <2> QED BY <2>1, <2>3 DEF Inside
<1> QED BY <1>2, <1>3, <1>4, <1>5, <1>6 DEF Ring!Next, Ring!PushSteps, Ring!PopSteps, Ring!StopSteps

LEMMA AnyRingStep ==
  ASSUME [AnyNext]_allVars
  PROVE  Ring!Next \/ UNCHANGED ringVars
BY DEF AnyNext, InLock, InFiles, InLocator, InMessaging, InRing, InWork, allVars

\* However many producers push and wherever they stall, until the stop is requested a
\* reserved slot of the ring (task_queue_set.cpp) belongs to one producer, no task is lost
\* or invented, and the slave thread pops them in the order of their reservation; as long
\* as the indices do not wrap around.
THEOREM RingStaysConsistent ==
  ASSUME NoWrapAround
  PROVE  AnySpec => []RingConsistent
<1>1. AnyInit => RingInv
  BY RingInit DEF AnyInit
<1>2. RingInv /\ [AnyNext]_allVars => RingInv'
  BY AnyRingStep, RingStep
<1>3. RingInv => RingConsistent
  BY RingInvConsistent
<1> QED BY <1>1, <1>2, <1>3, PTL DEF AnySpec

\* The ring with its separate reservations and stores implements the bounded FIFO queue.
THEOREM RingImplementsQueue ==
  ASSUME NoWrapAround
  PROVE  AnySpec => ImplementsQueue
<1>1. AnyInit => RingInv
  BY RingInit DEF AnyInit
<1>2. RingInv /\ [AnyNext]_allVars => RingInv'
  BY AnyRingStep, RingStep
<1>3. AnyInit => Ring!Queue!Init
  BY DEF AnyInit, Ring!Init, Ring!Queue!Init
<1>4. RingInv /\ RingInv' /\ [AnyNext]_allVars => [Ring!Queue!Next]_<<Inside, index.stop>>
  BY AnyRingStep, RingImplements
<1> QED BY <1>1, <1>2, <1>3, <1>4, PTL
    DEF AnySpec, ImplementsQueue, Ring!ImplementsQueue, Ring!Queue!Spec, Inside

-----------------------------------------------------------------------------
(* The locator                                                             *)

CallFrames == [id : Services, at : {"find", "start", "factory", "out"}, done : Nat]

LocatorTypes ==
  /\ active \in SUBSET Services /\ factories \in SUBSET Services /\ dying \in SUBSET Services
  /\ startOrder \in Seq(Services) /\ pending \in Seq(Services)
  /\ frames \in [Callers -> Seq(CallFrames)]
  /\ thrown \in [Callers -> {"none", "circular", "unresolved", "factory"}]
  /\ crossed \in BOOLEAN

\* A call that has made another is in its factory, which requests what the service depends
\* on in order; what it has been given is active.
CallsOf(t) ==
  /\ \A i \in 1 .. Len(frames[t]) :
       /\ frames[t][i].done <= Len(Deps[frames[t][i].id])
       /\ \A k \in 1 .. frames[t][i].done : Deps[frames[t][i].id][k] \in active
  /\ \A i \in 1 .. Len(frames[t]) - 1 :
       /\ frames[t][i].at = "factory"
       /\ frames[t][i].done < Len(Deps[frames[t][i].id])
       /\ frames[t][i + 1].id = Deps[frames[t][i].id][frames[t][i].done + 1]

CallsOK == \A t \in Callers : CallsOf(t)

\* What is pending is what the calls of t that are in their factories start, none of it
\* twice.
PendingOf(t) ==
  /\ Len(pending) <= Len(frames[t]) /\ Len(frames[t]) <= Len(pending) + 1
  /\ frames[t] # <<>> =>
       (Len(pending) = Len(frames[t]) <=> frames[t][Len(frames[t])].at = "factory")
  /\ \A i \in 1 .. Len(pending) : pending[i] = frames[t][i].id /\ pending[i] \notin active
  /\ \A i, j \in 1 .. Len(pending) : pending[i] = pending[j] => i = j

\* As long as calls do not cross, one thread at most starts services, and what is pending
\* is its own.
PendingOK ==
  ~ crossed =>
    /\ \A t, u \in Callers : Locator!Starting(t) /\ Locator!Starting(u) => t = u
    /\ \A t \in Callers : Locator!Starting(t) => PendingOf(t)
    /\ (\A t \in Callers : ~ Locator!Starting(t)) => pending = <<>>

\* A thread whose innermost call has found a circle.
FoundCircle(t) ==
  thrown[t] = "circular" /\ frames[t] # <<>> /\ frames[t][Len(frames[t])].at = "out"

\* The call that found a circle is that of a service which its own thread is starting.
CircleFound ==
  ~ crossed =>
    \A t \in Callers :
      FoundCircle(t) =>
        /\ Locator!Starting(t)
        /\ \E i \in 1 .. Len(pending) : pending[i] = frames[t][Len(frames[t])].id

\* Whoever starts it, a service is started after those it depends on ...
StartedOrder ==
  /\ \A i \in 1 .. Len(startOrder) : \A k \in 1 .. Len(Deps[startOrder[i]]) :
       \E j \in 1 .. i - 1 : startOrder[j] = Deps[startOrder[i]][k]
  /\ ~ down => /\ \A i \in 1 .. Len(startOrder) : startOrder[i] \in active
               /\ \A s \in active : \E i \in 1 .. Len(startOrder) : startOrder[i] = s
  /\ dying # {} => down

\* ... and as long as calls do not cross it is started once, and these outlive it.
StartedOnce ==
  ~ crossed =>
    /\ \A i \in 1 .. Len(startOrder) : startOrder[i] \in active
    /\ \A s \in active : \E i \in 1 .. Len(startOrder) : startOrder[i] = s
    /\ \A i, j \in 1 .. Len(startOrder) : startOrder[i] = startOrder[j] => i = j
    /\ \A s \in dying : s \notin active /\ Locator!ToSet(Deps[s]) \subseteq active

StartedOK == StartedOrder /\ StartedOnce

NobodyLeft == down => \A t \in Callers : frames[t] = <<>>

LocatorInv ==
  LocatorTypes /\ CallsOK /\ PendingOK /\ CircleFound /\ StartedOK /\ NobodyLeft

\* The innermost call, and the others.
LEMMA TopIsLast ==
  ASSUME NEW t \in Callers
  PROVE  Locator!Top(t) = Last(frames[t]) /\ Locator!Front(frames[t]) = Front(frames[t])
BY DEF Locator!Top, Locator!Last, Last, Locator!Front, Front

LEMMA DepsOf ==
  ASSUME NEW s \in Services
  PROVE  /\ Deps[s] \in Seq(Services) /\ Len(Deps[s]) \in Nat
         /\ \A x : x \in Locator!ToSet(Deps[s]) <=> \E k \in 1 .. Len(Deps[s]) : x = Deps[s][k]
         /\ \A k \in 1 .. Len(Deps[s]) : Deps[s][k] \in Services
<1>1. Deps[s] \in Seq(Services)
  BY LocatorAssumption DEF Locator!DepsAssumption
<1>2. Len(Deps[s]) \in Nat /\ DOMAIN Deps[s] = 1 .. Len(Deps[s])
  BY <1>1, LenProperties
<1>3. \A k \in 1 .. Len(Deps[s]) : Deps[s][k] \in Services
  BY <1>1, ElementOfSeq
<1> QED BY <1>1, <1>2, <1>3 DEF Locator!ToSet

\* A closed set holds what its members need.
LEMMA NeedsWithin ==
  ASSUME NEW s \in Services, NEW S \in SUBSET Services,
         Locator!Closed(S), Locator!ToSet(Deps[s]) \subseteq S
  PROVE  Locator!Needs(s) \subseteq S
<1> SUFFICES ASSUME NEW x \in Locator!Needs(s) PROVE x \in S
  OBVIOUS
<1>1. \A T \in SUBSET Services :
        Locator!Closed(T) /\ Locator!ToSet(Deps[s]) \subseteq T => x \in T
  BY DEF Locator!Needs
<1> QED BY <1>1

LEMMA LocatorInit == Locator!Init => LocatorInv
<1> SUFFICES ASSUME Locator!Init PROVE LocatorInv
  OBVIOUS
<1>1. /\ active = {} /\ factories = {} /\ startOrder = <<>> /\ pending = <<>>
      /\ \A t \in Callers : frames[t] = <<>>
      /\ dying = {} /\ down = FALSE
  BY DEF Locator!Init
<1>2. LocatorTypes
  <2>1. frames = [t \in Callers |-> <<>>] /\ thrown = [t \in Callers |-> "none"]
        /\ crossed = FALSE
    BY DEF Locator!Init
  <2>2. frames \in [Callers -> Seq(CallFrames)]
    BY <2>1
  <2>3. thrown \in [Callers -> {"none", "circular", "unresolved", "factory"}]
    BY <2>1
  <2>4. <<>> \in Seq(Services) /\ {} \in SUBSET Services /\ FALSE \in BOOLEAN
    OBVIOUS
  <2> QED BY <1>1, <2>1, <2>2, <2>3, <2>4, Zenon DEF LocatorTypes
<1>3. CallsOK /\ CircleFound /\ NobodyLeft
  BY <1>1 DEF CallsOK, CallsOf, CircleFound, FoundCircle, NobodyLeft
<1>4. StartedOK
  BY <1>1 DEF StartedOK, StartedOrder, StartedOnce
<1>5. PendingOK
  BY <1>1 DEF PendingOK, Locator!Starting
<1> QED BY <1>2, <1>3, <1>4, <1>5 DEF LocatorInv

\* Each service needs only what was started before it.
LEMMA NeedsStarted ==
  ASSUME LocatorInv, NEW i \in 1 .. Len(startOrder)
  PROVE  Locator!Needs(startOrder[i]) \subseteq {startOrder[j] : j \in 1 .. i - 1}
<1> DEFINE S == {startOrder[j] : j \in 1 .. i - 1}
<1>1. startOrder \in Seq(Services) /\ Len(startOrder) \in Nat
      /\ \A j \in 1 .. Len(startOrder) : startOrder[j] \in Services
  BY LenProperties, ElementOfSeq DEF LocatorInv, LocatorTypes
<1>2. S \in SUBSET Services /\ \A x : x \in S <=> \E j \in 1 .. i - 1 : x = startOrder[j]
  BY <1>1
<1> HIDE DEF S
<1>3. ASSUME NEW j \in 1 .. i
      PROVE  Locator!ToSet(Deps[startOrder[j]]) \subseteq S
  <2>1. j \in 1 .. Len(startOrder)
    BY <1>1
  <2> SUFFICES ASSUME NEW x \in Locator!ToSet(Deps[startOrder[j]]) PROVE x \in S
    OBVIOUS
  <2>4. startOrder[j] \in Services
    BY <1>1, <2>1
  <2>5. PICK k \in 1 .. Len(Deps[startOrder[j]]) : x = Deps[startOrder[j]][k]
    BY <2>4, DepsOf
  <2>2. PICK l \in 1 .. j - 1 : startOrder[l] = Deps[startOrder[j]][k]
    BY <2>1 DEF LocatorInv, StartedOK, StartedOrder
  <2>3. l \in 1 .. i - 1
    BY <1>1
  <2> QED BY <1>2, <2>2, <2>3, <2>5
<1>4. Locator!Closed(S)
  <2> SUFFICES ASSUME NEW j \in 1 .. i - 1 PROVE Locator!ToSet(Deps[startOrder[j]]) \subseteq S
    BY <1>2 DEF Locator!Closed
  <2>1. j \in 1 .. i
    BY <1>1
  <2> QED BY <1>3, <2>1
<1>5. Locator!ToSet(Deps[startOrder[i]]) \subseteq S
  BY <1>1, <1>3
<1>6. Locator!Needs(startOrder[i]) \subseteq S
  BY <1>1, <1>2, <1>4, <1>5, NeedsWithin
<1> QED BY <1>6 DEF S

LEMMA ActiveClosed ==
  ASSUME LocatorInv, ~ crossed
  PROVE  Locator!Closed(active)
<1> SUFFICES ASSUME NEW s \in active PROVE Locator!ToSet(Deps[s]) \subseteq active
  BY DEF Locator!Closed
<1>1. startOrder \in Seq(Services) /\ Len(startOrder) \in Nat
      /\ \A j \in 1 .. Len(startOrder) : startOrder[j] \in Services
  BY LenProperties, ElementOfSeq DEF LocatorInv, LocatorTypes
<1>2. PICK i \in 1 .. Len(startOrder) : s = startOrder[i]
  BY DEF LocatorInv, StartedOK, StartedOnce
<1> SUFFICES ASSUME NEW x \in Locator!ToSet(Deps[s]) PROVE x \in active
  OBVIOUS
<1>5. s \in Services
  BY <1>1, <1>2
<1>6. PICK k \in 1 .. Len(Deps[s]) : x = Deps[s][k]
  BY <1>5, DepsOf
<1>3. PICK j \in 1 .. i - 1 : startOrder[j] = Deps[s][k]
  BY <1>2 DEF LocatorInv, StartedOK, StartedOrder
<1>4. j \in 1 .. Len(startOrder)
  BY <1>1
<1> QED BY <1>3, <1>4, <1>6 DEF LocatorInv, StartedOK, StartedOnce

\* Each service that is being started needs those above it on the stack.
LEMMA CallsNeed ==
  ASSUME LocatorInv, NEW t \in Callers,
         NEW i \in 1 .. Len(frames[t]), NEW m \in i + 1 .. Len(frames[t])
  PROVE  frames[t][m].id \in Locator!Needs(frames[t][i].id)
<1>1. /\ frames[t] \in Seq(CallFrames) /\ Len(frames[t]) \in Nat
      /\ \A j \in 1 .. Len(frames[t]) : frames[t][j] \in CallFrames
                                        /\ frames[t][j].id \in Services
                                        /\ frames[t][j].done \in Nat
  <2>1. frames[t] \in Seq(CallFrames)
    BY DEF LocatorInv, LocatorTypes
  <2>2. \A j \in 1 .. Len(frames[t]) : frames[t][j] \in CallFrames
    BY <2>1, ElementOfSeq
  <2> QED BY <2>1, <2>2, LenProperties DEF CallFrames
<1> SUFFICES ASSUME NEW S \in SUBSET Services, Locator!Closed(S),
                    Locator!ToSet(Deps[frames[t][i].id]) \subseteq S
             PROVE  frames[t][m].id \in S
  BY <1>1 DEF Locator!Needs
<1>2. ASSUME NEW j \in 1 .. Len(frames[t]) - 1
      PROVE  frames[t][j + 1].id \in Locator!ToSet(Deps[frames[t][j].id])
  <2>1. /\ frames[t][j].done < Len(Deps[frames[t][j].id])
        /\ frames[t][j + 1].id = Deps[frames[t][j].id][frames[t][j].done + 1]
    BY DEF LocatorInv, CallsOK, CallsOf
  <2>2. j \in 1 .. Len(frames[t])
    BY <1>1
  <2>3. frames[t][j].done + 1 \in 1 .. Len(Deps[frames[t][j].id])
    BY SMTT(25), <1>1, <2>1, <2>2, DepsOf
  <2> QED BY <1>1, <2>1, <2>2, <2>3, DepsOf
<1> DEFINE Missing == {j \in i + 1 .. Len(frames[t]) : frames[t][j].id \notin S}
<1>3. SUFFICES ASSUME Missing # {} PROVE FALSE
  OBVIOUS
<1>4. Missing \in SUBSET Nat
  BY <1>1
<1>5. PICK j \in Missing : \A y \in Missing : j <= y
  BY <1>3, <1>4, LeastExists
<1>6. j - 1 \in 1 .. Len(frames[t]) - 1 /\ j - 1 + 1 = j
  BY <1>1, <1>5
<1>7. frames[t][j].id \in Locator!ToSet(Deps[frames[t][j - 1].id])
  BY <1>2, <1>6
<1>8. CASE j = i + 1
  <2>1. j - 1 = i
    BY <1>8
  <2> QED BY <1>5, <1>7, <2>1
<1>9. CASE j # i + 1
  <2>1. j - 1 \in i + 1 .. Len(frames[t]) /\ ~(j <= j - 1)
    BY <1>1, <1>5, <1>9
  <2>2. frames[t][j - 1].id \in S
    BY <1>5, <2>1
  <2> QED BY <1>5, <1>7, <2>2 DEF Locator!Closed
<1> QED BY <1>8, <1>9

\* What the types say of the calls of a thread.
LEMMA CallFacts ==
  ASSUME LocatorInv, NEW t \in Callers
  PROVE  /\ frames \in [Callers -> Seq(CallFrames)]
         /\ frames[t] \in Seq(CallFrames) /\ Len(frames[t]) \in Nat
         /\ frames[t] = <<>> <=> Len(frames[t]) = 0
         /\ \A j \in 1 .. Len(frames[t]) :
              /\ frames[t][j] \in CallFrames /\ frames[t][j].id \in Services
              /\ frames[t][j].at \in {"find", "start", "factory", "out"}
              /\ frames[t][j].done \in Nat
         /\ frames[t] # <<>> => Locator!Top(t) = frames[t][Len(frames[t])]
         /\ pending \in Seq(Services) /\ Len(pending) \in Nat
         /\ pending = <<>> <=> Len(pending) = 0
<1>1. frames \in [Callers -> Seq(CallFrames)] /\ pending \in Seq(Services)
  BY DEF LocatorInv, LocatorTypes
<1>2. \A j \in 1 .. Len(frames[t]) : frames[t][j] \in CallFrames
  BY <1>1, ElementOfSeq
<1>3. frames[t] # <<>> => Locator!Top(t) = frames[t][Len(frames[t])]
  BY <1>1, FrontElements, TopIsLast
<1> QED BY <1>1, <1>2, <1>3, LenProperties, EmptySeq DEF CallFrames

\* Which calls are in their factories.
LEMMA StartingAt ==
  ASSUME NEW f \in [Callers -> Seq(CallFrames)], NEW t \in Callers
  PROVE  (\E i \in DOMAIN f[t] : f[t][i].at = "factory")
           <=> (\E i \in 1 .. Len(f[t]) : f[t][i].at = "factory")
<1>1. f[t] \in Seq(CallFrames)
  OBVIOUS
<1>2. DOMAIN f[t] = 1 .. Len(f[t])
  BY <1>1, LenProperties
<1> QED BY <1>2

LEMMA TopStarting ==
  ASSUME LocatorInv, NEW t \in Callers, frames[t] # <<>>, Locator!Top(t).at = "factory"
  PROVE  Locator!Starting(t)
<1>1. frames \in [Callers -> Seq(CallFrames)] /\ Len(frames[t]) \in 1 .. Len(frames[t])
      /\ frames[t][Len(frames[t])].at = "factory"
  BY CallFacts
<1> QED BY <1>1, StartingAt DEF Locator!Starting

\* A thread that starts nothing has one call at most, and it is not in its factory.
LEMMA IdleCalls ==
  ASSUME NEW f \in [Callers -> Seq(CallFrames)], NEW t \in Callers,
         \A i \in 1 .. Len(f[t]) - 1 : f[t][i].at = "factory",
         ~ \E i \in DOMAIN f[t] : f[t][i].at = "factory"
  PROVE  /\ Len(f[t]) = 0 \/ Len(f[t]) = 1
         /\ \A i \in 1 .. Len(f[t]) : f[t][i].at # "factory"
<1>1. f[t] \in Seq(CallFrames) /\ Len(f[t]) \in Nat
  BY LenProperties
<1>2. \A i \in 1 .. Len(f[t]) : f[t][i].at # "factory"
  BY StartingAt
<1>3. PICK n \in Nat : n = Len(f[t])
  BY <1>1
<1>4. ~ (n > 1)
  <2> SUFFICES ASSUME n > 1 PROVE FALSE
    OBVIOUS
  <2>1. 1 \in 1 .. n /\ 1 \in 1 .. n - 1
    OBVIOUS
  <2> QED BY <1>2, <1>3, <2>1
<1>5. n = 0 \/ n = 1
  BY <1>4
<1> QED BY <1>2, <1>3, <1>5

OthersStart(t) == \E u \in Callers \ {t} : Locator!Starting(u)

\* While no other thread starts a service, what is pending is a thread's own.
LEMMA PendingAlone ==
  ASSUME LocatorInv, ~ crossed, NEW t \in Callers,
         ~ OthersStart(t)
  PROVE  PendingOf(t)
<1>1. CASE Locator!Starting(t)
  BY <1>1 DEF LocatorInv, PendingOK
<1>2. CASE ~ Locator!Starting(t)
  <2>1. pending = <<>> /\ Len(pending) = 0
    <3>1. pending = <<>>
      BY <1>2 DEF LocatorInv, PendingOK, OthersStart
    <3> QED BY <3>1, CallFacts
  <2>2. Len(frames[t]) \in Nat /\ (Len(frames[t]) = 0 \/ Len(frames[t]) = 1)
        /\ \A i \in 1 .. Len(frames[t]) : frames[t][i].at # "factory"
    <3>1. \A i \in 1 .. Len(frames[t]) - 1 : frames[t][i].at = "factory"
      BY DEF LocatorInv, CallsOK, CallsOf
    <3> QED BY <1>2, <3>1, CallFacts, IdleCalls DEF Locator!Starting
  <2>3. frames[t] # <<>> => Len(frames[t]) = 1 /\ frames[t][1].at # "factory"
    BY <2>2, CallFacts
  <2> QED BY <2>1, <2>2, <2>3 DEF PendingOf
<1> QED BY <1>1, <1>2

\* A step of one thread: its own calls, for others keep theirs ...
LEMMA CallsStep ==
  ASSUME LocatorInv, NEW t \in Callers,
         \A u \in Callers \ {t} : frames'[u] = frames[u],
         active \subseteq active', CallsOf(t)'
  PROVE  CallsOK'
<1> SUFFICES ASSUME NEW u \in Callers, u # t PROVE CallsOf(u)'
  BY DEF CallsOK
<1>1. frames'[u] = frames[u]
  OBVIOUS
<1>2. CallsOf(u)
  BY DEF LocatorInv, CallsOK
<1> QED BY <1>1, <1>2 DEF CallsOf

\* ... what is pending, which it leaves alone while another thread is starting a service ...
LEMMA PendingStep ==
  ASSUME LocatorInv, LocatorTypes', CallsOK', NEW t \in Callers,
         \A u \in Callers \ {t} : frames'[u] = frames[u],
         crossed => crossed',
         ~ crossed' /\ PendingOf(t) => PendingOf(t)',
         ~ crossed' /\ ~ Locator!Starting(t) /\ OthersStart(t) =>
           ~ Locator!Starting(t)' /\ UNCHANGED <<active, pending>>
  PROVE  PendingOK'
<1> SUFFICES ASSUME ~ crossed'
             PROVE  /\ \A u, v \in Callers : Locator!Starting(u)' /\ Locator!Starting(v)' => u = v
                    /\ \A u \in Callers : Locator!Starting(u)' => PendingOf(u)'
                    /\ (\A u \in Callers : ~ Locator!Starting(u)') => pending' = <<>>
  BY DEF PendingOK
<1>1. \A u \in Callers \ {t} : Locator!Starting(u)' <=> Locator!Starting(u)
  BY DEF Locator!Starting
<1>2. CASE ~ OthersStart(t)
  <2>1. PendingOf(t)'
    BY <1>2, PendingAlone
  <2>2. \A u \in Callers : Locator!Starting(u)' => u = t
    BY <1>1, <1>2 DEF OthersStart
  <2>3. ASSUME ~ Locator!Starting(t)' PROVE pending' = <<>>
    <3>1. frames' \in [Callers -> Seq(CallFrames)] /\ pending' \in Seq(Services)
      BY DEF LocatorTypes
    <3>2. Len(pending') \in Nat /\ Len(frames'[t]) \in Nat
          /\ (frames'[t] = <<>> <=> Len(frames'[t]) = 0)
      BY <3>1, LenProperties, EmptySeq
    <3>3. (Len(frames'[t]) = 0 \/ Len(frames'[t]) = 1)
          /\ \A i \in 1 .. Len(frames'[t]) : frames'[t][i].at # "factory"
      <4>1. \A i \in 1 .. Len(frames'[t]) - 1 : frames'[t][i].at = "factory"
        BY DEF CallsOK, CallsOf
      <4>2. ~ \E i \in DOMAIN frames'[t] : frames'[t][i].at = "factory"
        BY <2>3 DEF Locator!Starting
      <4> QED BY <3>1, <4>1, <4>2, IdleCalls
    <3>4. Len(pending') = 0
      BY <2>1, <3>2, <3>3 DEF PendingOf
    <3> QED BY <3>1, <3>4, EmptySeq
  <2> QED BY <2>1, <2>2, <2>3
<1>3. CASE OthersStart(t)
  <2>1. PICK u \in Callers \ {t} : Locator!Starting(u)
    BY <1>3 DEF OthersStart
  <2>2. /\ \A v, w \in Callers : Locator!Starting(v) /\ Locator!Starting(w) => v = w
        /\ \A v \in Callers : Locator!Starting(v) => PendingOf(v)
    BY DEF LocatorInv, PendingOK
  <2>3. ~ Locator!Starting(t)
    BY <2>1, <2>2
  <2>4. ~ Locator!Starting(t)' /\ active' = active /\ pending' = pending
    BY <1>3, <2>3
  <2>5. ASSUME NEW v \in Callers, Locator!Starting(v)' PROVE Locator!Starting(v) /\ PendingOf(v)'
    <3>1. v # t /\ Locator!Starting(v) /\ frames'[v] = frames[v]
      BY <1>1, <2>4, <2>5
    <3>2. PendingOf(v)
      BY <2>2, <3>1
    <3> QED BY <2>4, <3>1, <3>2 DEF PendingOf
  <2>6. Locator!Starting(u)'
    BY <1>1, <2>1
  <2> QED BY <2>2, <2>5, <2>6
<1> QED BY <1>2, <1>3

\* ... and the circle it may have found.
LEMMA CircleStep ==
  ASSUME LocatorInv, NEW t \in Callers,
         \A u \in Callers \ {t} : frames'[u] = frames[u] /\ thrown'[u] = thrown[u],
         crossed => crossed',
         ~ crossed' /\ ~ Locator!Starting(t) /\ OthersStart(t) => UNCHANGED pending,
         ~ crossed' /\ FoundCircle(t)' =>
           /\ Locator!Starting(t)'
           /\ \E i \in 1 .. Len(pending') : pending'[i] = frames'[t][Len(frames'[t])].id
  PROVE  CircleFound'
<1> SUFFICES ASSUME ~ crossed', NEW u \in Callers, FoundCircle(u)'
             PROVE  /\ Locator!Starting(u)'
                    /\ \E i \in 1 .. Len(pending') : pending'[i] = frames'[u][Len(frames'[u])].id
  BY DEF CircleFound
<1>1. CASE u = t
  BY <1>1
<1>2. CASE u # t
  <2>1. frames'[u] = frames[u] /\ thrown'[u] = thrown[u]
    BY <1>2
  <2>2. FoundCircle(u)
    BY <2>1 DEF FoundCircle
  <2>3. /\ Locator!Starting(u)
        /\ \E i \in 1 .. Len(pending) : pending[i] = frames[u][Len(frames[u])].id
    BY <2>2 DEF LocatorInv, CircleFound
  <2>4. ~ Locator!Starting(t)
    BY <1>2, <2>3 DEF LocatorInv, PendingOK
  <2>5. pending' = pending
    BY <1>2, <2>3, <2>4 DEF OthersStart
  <2>6. Locator!Starting(u)'
    BY <2>1, <2>3 DEF Locator!Starting
  <2> QED BY <2>1, <2>3, <2>5, <2>6
<1> QED BY <1>1, <1>2

LEMMA StartsSoundFollows ==
  ASSUME LocatorInv
  PROVE  Locator!StartsSound
<1>1. startOrder \in Seq(Services) /\ Len(startOrder) \in Nat
      /\ DOMAIN startOrder = 1 .. Len(startOrder)
      /\ \A j \in 1 .. Len(startOrder) : startOrder[j] \in Services
  BY LenProperties, ElementOfSeq DEF LocatorInv, LocatorTypes
<1>a. Locator!StartedAfterNeeds
  <2>1. ASSUME NEW i \in DOMAIN startOrder, NEW x \in Locator!Needs(startOrder[i])
        PROVE  \E j \in 1 .. i - 1 : startOrder[j] = x
    BY <1>1, NeedsStarted
  <2>2. ~ down => Locator!ToSet(startOrder) = active
    BY <1>1 DEF LocatorInv, StartedOK, StartedOrder, Locator!ToSet
  <2> QED BY <2>1, <2>2 DEF Locator!StartedAfterNeeds
<1> SUFFICES ASSUME ~ crossed
             PROVE  Locator!DependenciesOutlive /\ Locator!CircularOnlyIfCircular
  BY <1>a DEF Locator!StartsSound
<1>2. /\ \A i \in 1 .. Len(startOrder) : startOrder[i] \in active
      /\ \A s \in active : \E i \in 1 .. Len(startOrder) : startOrder[i] = s
      /\ \A i, j \in 1 .. Len(startOrder) : startOrder[i] = startOrder[j] => i = j
  BY DEF LocatorInv, StartedOK, StartedOnce
<1>3. ASSUME NEW s \in active \cup dying
      PROVE  Locator!Needs(s) \subseteq active /\ s \notin Locator!Needs(s)
  <2>1. CASE s \in active
    <3>1. PICK i \in 1 .. Len(startOrder) : s = startOrder[i]
      BY <1>2, <2>1
    <3>2. Locator!Needs(s) \subseteq {startOrder[j] : j \in 1 .. i - 1}
      BY <3>1, NeedsStarted
    <3>3. \A j \in 1 .. i - 1 : j \in 1 .. Len(startOrder) /\ j # i
      BY <1>1
    <3> QED BY <1>2, <3>1, <3>2, <3>3
  <2>2. CASE s \in dying
    <3>1. s \in Services /\ s \notin active /\ Locator!ToSet(Deps[s]) \subseteq active
          /\ active \in SUBSET Services
      BY <2>2 DEF LocatorInv, LocatorTypes, StartedOK, StartedOnce
    <3>2. Locator!Needs(s) \subseteq active
      BY <3>1, ActiveClosed, NeedsWithin
    <3> QED BY <3>1, <3>2
  <2> QED BY <2>1, <2>2
<1>4. ASSUME NEW i \in DOMAIN startOrder, NEW j \in DOMAIN startOrder,
             startOrder[j] \in Locator!Needs(startOrder[i])
      PROVE  j < i
  <2>1. i \in 1 .. Len(startOrder) /\ j \in 1 .. Len(startOrder)
    BY <1>1
  <2>2. PICK k \in 1 .. i - 1 : startOrder[j] = startOrder[k]
    BY <1>4, <2>1, NeedsStarted
  <2>3. k \in 1 .. Len(startOrder)
    BY <1>1, <2>1
  <2>4. j = k
    BY <1>2, <2>1, <2>2, <2>3
  <2> QED BY <2>1, <2>4
<1>5. Locator!ToSet(startOrder) = active
  BY <1>1, <1>2 DEF Locator!ToSet
<1>6. Locator!IsInjective(startOrder)
  BY <1>1, <1>2 DEF Locator!IsInjective
<1>7. (\A t \in Callers : frames[t] = <<>>) => pending = <<>>
  <2> SUFFICES ASSUME \A t \in Callers : frames[t] = <<>> PROVE pending = <<>>
    OBVIOUS
  <2>1. \A t \in Callers : ~ Locator!Starting(t)
    BY DEF Locator!Starting
  <2> QED BY <2>1 DEF LocatorInv, PendingOK
<1>8. Locator!CircularOnlyIfCircular
  <2> SUFFICES ASSUME NEW t \in Callers, thrown[t] = "circular", frames[t] # <<>>,
                      Locator!Top(t).at = "out"
               PROVE  Locator!Top(t).id \in Locator!Needs(Locator!Top(t).id)
    BY DEF Locator!CircularOnlyIfCircular
  <2>1. frames[t] \in Seq(CallFrames) /\ Len(frames[t]) \in 1 .. Len(frames[t])
        /\ Locator!Top(t) = frames[t][Len(frames[t])] /\ Len(pending) \in Nat
    <3>1. frames[t] \in Seq(CallFrames) /\ pending \in Seq(Services)
      BY DEF LocatorInv, LocatorTypes
    <3> QED BY <3>1, FrontElements, LenProperties, TopIsLast
  <2>a. PendingOf(t) /\ \E i \in 1 .. Len(pending) : pending[i] = frames[t][Len(frames[t])].id
    <3>1. FoundCircle(t)
      BY <2>1 DEF FoundCircle
    <3>2. Locator!Starting(t) /\ \E i \in 1 .. Len(pending) : pending[i] = frames[t][Len(frames[t])].id
      BY <3>1 DEF LocatorInv, CircleFound
    <3> QED BY <3>2 DEF LocatorInv, PendingOK
  <2>2. PICK i \in 1 .. Len(pending) : pending[i] = frames[t][Len(frames[t])].id
    BY <2>a
  <2>3. Len(pending) <= Len(frames[t]) /\ Len(pending) # Len(frames[t])
        /\ pending[i] = frames[t][i].id
    BY <2>1, <2>2, <2>a DEF PendingOf
  <2>4. i \in 1 .. Len(frames[t]) /\ Len(frames[t]) \in i + 1 .. Len(frames[t])
    BY <2>1, <2>2, <2>3
  <2> QED BY <2>1, <2>2, <2>3, <2>4, CallsNeed
<1> QED BY <1>3, <1>4, <1>5, <1>6, <1>7, <1>8
        DEF Locator!DependenciesOutlive

\* A call enters the function, moves on in it, or leaves it.
LEMMA Entered ==
  ASSUME LocatorInv, NEW t \in Callers, NEW s \in Services, Locator!Enter(t, s)
  PROVE  /\ frames' \in [Callers -> Seq(CallFrames)]
         /\ \A u \in Callers \ {t} : frames'[u] = frames[u]
         /\ Len(frames'[t]) = Len(frames[t]) + 1
         /\ \A i \in 1 .. Len(frames[t]) : frames'[t][i] = frames[t][i]
         /\ frames'[t][Len(frames[t]) + 1] = [id |-> s, at |-> "find", done |-> 0]
<1> DEFINE frame == [id |-> s, at |-> "find", done |-> 0]
<1>1. frame \in CallFrames
  BY DEF CallFrames
<1>2. frames' = [frames EXCEPT ![t] = Append(frames[t], frame)]
  BY DEF Locator!Enter, Locator!Frame
<1> HIDE DEF frame
<1>3. frames'[t] = Append(frames[t], frame)
  BY <1>2, CallFacts
<1>4. /\ Append(frames[t], frame) \in Seq(CallFrames)
      /\ Len(Append(frames[t], frame)) = Len(frames[t]) + 1
      /\ \A i \in 1 .. Len(frames[t]) : Append(frames[t], frame)[i] = frames[t][i]
      /\ Append(frames[t], frame)[Len(frames[t]) + 1] = frame
  BY <1>1, CallFacts, AppendProperties
<1>5. frames' \in [Callers -> Seq(CallFrames)]
  BY <1>2, <1>4, CallFacts
<1>6. \A u \in Callers \ {t} : frames'[u] = frames[u]
  BY <1>2, CallFacts
<1> QED BY <1>3, <1>4, <1>5, <1>6 DEF frame

LEMMA Moved ==
  ASSUME LocatorInv, NEW t \in Callers, frames[t] # <<>>,
         NEW place \in {"find", "start", "factory", "out"},
         Locator!Move(t, [Locator!Top(t) EXCEPT !.at = place])
  PROVE  /\ frames' \in [Callers -> Seq(CallFrames)]
         /\ \A u \in Callers \ {t} : frames'[u] = frames[u]
         /\ Len(frames'[t]) = Len(frames[t])
         /\ \A i \in 1 .. Len(frames[t]) : /\ frames'[t][i].id = frames[t][i].id
                                           /\ frames'[t][i].done = frames[t][i].done
         /\ \A i \in 1 .. Len(frames[t]) - 1 : frames'[t][i].at = frames[t][i].at
         /\ frames'[t][Len(frames[t])].at = place
<1> DEFINE n == Len(frames[t])
           frame == [frames[t][n] EXCEPT !.at = place]
<1>1. n \in 1 .. n /\ frames[t][n] \in CallFrames
  BY CallFacts
<1>2. /\ frame \in CallFrames /\ frame.id = frames[t][n].id
      /\ frame.done = frames[t][n].done /\ frame.at = place
  BY <1>1 DEF CallFrames
<1>3. frames' = [frames EXCEPT ![t] = Front(frames[t]) \o <<frame>>]
  BY CallFacts, TopIsLast DEF Locator!Move
<1> HIDE DEF frame
<1>4. Front(frames[t]) \in Seq(CallFrames) /\ Len(Front(frames[t])) = n - 1
      /\ \A j \in 1 .. n - 1 : Front(frames[t])[j] = frames[t][j]
  BY CallFacts, FrontElements
<1>5. frames'[t] = Front(frames[t]) \o <<frame>>
  BY <1>3, CallFacts
<1>6. /\ Front(frames[t]) \o <<frame>> = Append(Front(frames[t]), frame)
      /\ Append(Front(frames[t]), frame) \in Seq(CallFrames)
      /\ Len(Append(Front(frames[t]), frame)) = n - 1 + 1
      /\ \A i \in 1 .. n - 1 : Append(Front(frames[t]), frame)[i] = Front(frames[t])[i]
      /\ Append(Front(frames[t]), frame)[n - 1 + 1] = frame
  BY <1>2, <1>4, AppendProperties, AppendIsConcat
<1>7. frames' \in [Callers -> Seq(CallFrames)]
  BY <1>3, <1>6, CallFacts
<1>8. n - 1 + 1 = n /\ \A i \in 1 .. n : i \in 1 .. n - 1 \/ i = n
  BY <1>1
<1>9. Len(frames'[t]) = n /\ frames'[t][n] = frame
      /\ \A i \in 1 .. n - 1 : frames'[t][i] = frames[t][i]
  BY <1>4, <1>5, <1>6, <1>8
<1>10. \A u \in Callers \ {t} : frames'[u] = frames[u]
  BY <1>3, CallFacts
<1> QED BY <1>2, <1>7, <1>8, <1>9, <1>10

LEMMA Left ==
  ASSUME LocatorInv, NEW t \in Callers, frames[t] # <<>>, Locator!Leave(t)
  PROVE  /\ frames' \in [Callers -> Seq(CallFrames)]
         /\ \A u \in Callers \ {t} : frames'[u] = frames[u]
         /\ Len(frames'[t]) = Len(frames[t]) - 1
         /\ \A i \in 1 .. Len(frames[t]) - 1 : /\ frames'[t][i].id = frames[t][i].id
                                               /\ frames'[t][i].at = frames[t][i].at
         /\ \A i \in 1 .. Len(frames[t]) - 2 : frames'[t][i].done = frames[t][i].done
         /\ Len(frames[t]) > 1 =>
              frames'[t][Len(frames[t]) - 1].done = frames[t][Len(frames[t]) - 1].done + 1
<1> DEFINE rest == Front(frames[t])
<1>0. PICK n \in Nat : n = Len(frames[t])
  BY CallFacts
<1>1. n \in 1 .. n
  BY <1>0, CallFacts
<1>2. rest \in Seq(CallFrames) /\ Len(rest) = n - 1
      /\ \A j \in 1 .. n - 1 : rest[j] = frames[t][j]
  BY <1>0, CallFacts, FrontElements
<1>3. rest = <<>> <=> n = 1
  BY <1>1, <1>2, EmptySeq, LenProperties
<1>4. frames' = [frames EXCEPT ![t] =
                   IF rest = <<>> THEN rest
                   ELSE Front(rest) \o <<[Last(rest) EXCEPT !.done = @ + 1]>>]
  BY TopIsLast DEF Locator!Leave, Locator!Front, Front, Locator!Last, Last
<1> HIDE DEF rest
<1>a. \A u \in Callers \ {t} : frames'[u] = frames[u]
  BY <1>4, CallFacts
<1>5. CASE n = 1
  <2>1. frames' = [frames EXCEPT ![t] = rest]
    BY <1>3, <1>4, <1>5
  <2>2. frames'[t] = rest /\ frames' \in [Callers -> Seq(CallFrames)]
    BY <1>0, <1>2, <2>1, CallFacts
  <2> QED BY <1>0, <1>2, <1>a, <1>5, <2>2
<1>6. CASE n # 1
  <2> DEFINE frame == [rest[n - 1] EXCEPT !.done = @ + 1]
  <2>1. n - 1 \in 1 .. n - 1 /\ n - 1 \in 1 .. n
    BY <1>1, <1>6
  <2>2. rest[n - 1] \in CallFrames /\ rest[n - 1] = frames[t][n - 1]
    BY <1>0, <1>2, <2>1, CallFacts
  <2>3. /\ frame \in CallFrames /\ frame.id = frames[t][n - 1].id
        /\ frame.at = frames[t][n - 1].at /\ frame.done = frames[t][n - 1].done + 1
    BY <2>2 DEF CallFrames
  <2>4. /\ Front(rest) \in Seq(CallFrames) /\ Len(Front(rest)) = n - 2
        /\ Last(rest) = rest[n - 1]
        /\ \A j \in 1 .. n - 2 : Front(rest)[j] = rest[j]
    BY <1>1, <1>2, <1>3, <1>6, FrontElements
  <2>5. frames' = [frames EXCEPT ![t] = Front(rest) \o <<frame>>]
    BY <1>3, <1>4, <1>6, <2>4
  <2> HIDE DEF frame
  <2>6. /\ Front(rest) \o <<frame>> = Append(Front(rest), frame)
        /\ Append(Front(rest), frame) \in Seq(CallFrames)
        /\ Len(Append(Front(rest), frame)) = n - 2 + 1
        /\ \A i \in 1 .. n - 2 : Append(Front(rest), frame)[i] = Front(rest)[i]
        /\ Append(Front(rest), frame)[n - 2 + 1] = frame
    BY <2>3, <2>4, AppendProperties, AppendIsConcat
  <2>7. frames' \in [Callers -> Seq(CallFrames)] /\ frames'[t] = Append(Front(rest), frame)
    BY <2>5, <2>6, CallFacts
  <2>8. /\ n - 2 + 1 = n - 1 /\ \A i \in 1 .. n - 1 : i \in 1 .. n - 2 \/ i = n - 1
        /\ \A i \in 1 .. n - 2 : i \in 1 .. n - 1
    BY <1>1
  <2>9. Len(frames'[t]) = n - 1 /\ frames'[t][n - 1] = frame
        /\ \A i \in 1 .. n - 2 : frames'[t][i] = frames[t][i]
    BY <1>2, <2>4, <2>6, <2>7, <2>8
  <2> QED BY <1>0, <1>a, <2>3, <2>7, <2>8, <2>9
<1> QED BY <1>5, <1>6

\* Nothing but the calls of the thread and what is registered changes.
Started == <<active, startOrder, dying, down>>

LEMMA StartedKept ==
  ASSUME LocatorInv, UNCHANGED Started, crossed => crossed'
  PROVE  StartedOK'
<1>1. active' = active /\ startOrder' = startOrder /\ dying' = dying /\ down' = down
  BY DEF Started
<1>2. StartedOrder /\ StartedOnce
  BY DEF LocatorInv, StartedOK
<1>3. StartedOrder'
  BY <1>1, <1>2 DEF StartedOrder
<1>4. StartedOnce'
  BY <1>1, <1>2 DEF StartedOnce
<1> QED BY <1>3, <1>4 DEF StartedOK

\* A call returns, to a factory if one made it, when its service is active.
LEMMA ReturnCalls ==
  ASSUME LocatorInv, NEW t \in Callers, frames[t] # <<>>,
         Locator!Leave(t), active \subseteq active', Locator!Top(t).id \in active'
  PROVE  CallsOK'
<1>0. PICK n \in Nat : n = Len(frames[t])
  BY CallFacts
<1>1. n \in 1 .. n /\ Locator!Top(t) = frames[t][n]
  BY <1>0, CallFacts
<1>2. /\ Len(frames'[t]) = n - 1
      /\ \A i \in 1 .. n - 1 : frames'[t][i].id = frames[t][i].id
                               /\ frames'[t][i].at = frames[t][i].at
      /\ \A i \in 1 .. n - 2 : frames'[t][i].done = frames[t][i].done
      /\ n > 1 => frames'[t][n - 1].done = frames[t][n - 1].done + 1
  BY <1>0, Left
<1>3. /\ \A i \in 1 .. n :
           /\ frames[t][i].done <= Len(Deps[frames[t][i].id])
           /\ \A k \in 1 .. frames[t][i].done : Deps[frames[t][i].id][k] \in active
      /\ \A i \in 1 .. n - 1 :
           /\ frames[t][i].at = "factory"
           /\ frames[t][i].done < Len(Deps[frames[t][i].id])
           /\ frames[t][i + 1].id = Deps[frames[t][i].id][frames[t][i].done + 1]
  BY <1>0 DEF LocatorInv, CallsOK, CallsOf
<1>4. ASSUME NEW i \in 1 .. n - 1
      PROVE  /\ frames'[t][i].done <= Len(Deps[frames'[t][i].id])
             /\ \A k \in 1 .. frames'[t][i].done : Deps[frames'[t][i].id][k] \in active'
  <2>1. i \in 1 .. n /\ (i \in 1 .. n - 2 \/ i = n - 1)
    OBVIOUS
  <2>2. frames[t][i].done \in Nat /\ Len(Deps[frames[t][i].id]) \in Nat
    BY <1>0, <2>1, CallFacts, DepsOf
  <2>3. CASE i \in 1 .. n - 2
    BY <1>2, <1>3, <2>1, <2>3
  <2>4. CASE i = n - 1
    <3>1. frames'[t][i].done = frames[t][i].done + 1
      BY <1>2, <2>4
    <3>2. frames[t][i].done + 1 <= Len(Deps[frames[t][i].id])
      BY <1>3, <2>2
    <3>3. i + 1 = n /\ Deps[frames[t][i].id][frames[t][i].done + 1] \in active'
      BY <1>1, <1>3, <2>4
    <3>4. ASSUME NEW k \in 1 .. frames[t][i].done + 1
          PROVE  Deps[frames[t][i].id][k] \in active'
      <4>1. k \in 1 .. frames[t][i].done \/ k = frames[t][i].done + 1
        BY <2>2
      <4> QED BY <1>3, <2>1, <3>3, <4>1
    <3> QED BY <1>2, <3>1, <3>2, <3>4
  <2> QED BY <2>1, <2>3, <2>4
<1>5. ASSUME NEW i \in 1 .. n - 1 - 1
      PROVE  /\ frames'[t][i].at = "factory"
             /\ frames'[t][i].done < Len(Deps[frames'[t][i].id])
             /\ frames'[t][i + 1].id = Deps[frames'[t][i].id][frames'[t][i].done + 1]
  <2>1. i \in 1 .. n - 1 /\ i \in 1 .. n - 2 /\ i + 1 \in 1 .. n - 1
    OBVIOUS
  <2> QED BY <1>2, <1>3, <2>1
<1>6. CallsOf(t)'
  BY <1>2, <1>4, <1>5 DEF CallsOf
<1> QED BY <1>6, Left, CallsStep

\* A call that had not started its service returns: what is pending are the calls left.
LEMMA ReturnPending ==
  ASSUME LocatorInv, NEW t \in Callers, frames[t] # <<>>,
         Locator!Leave(t), Locator!Top(t).at # "factory", UNCHANGED <<active, pending>>
  PROVE  /\ PendingOf(t) => PendingOf(t)'
         /\ Locator!Starting(t)' => Locator!Starting(t)
<1>0. PICK n \in Nat : n = Len(frames[t])
  BY CallFacts
<1>1. n \in 1 .. n /\ Locator!Top(t) = frames[t][n]
  BY <1>0, CallFacts
<1>2. /\ Len(frames'[t]) = n - 1 /\ frames'[t] \in Seq(CallFrames)
      /\ \A i \in 1 .. n - 1 : frames'[t][i].id = frames[t][i].id
                               /\ frames'[t][i].at = frames[t][i].at
  BY <1>0, Left
<1>a. Locator!Starting(t)' => Locator!Starting(t)
  <2> SUFFICES ASSUME Locator!Starting(t)' PROVE Locator!Starting(t)
    OBVIOUS
  <2>1. frames' \in [Callers -> Seq(CallFrames)] /\ frames \in [Callers -> Seq(CallFrames)]
    BY Left, CallFacts
  <2>2. PICK i \in 1 .. n - 1 : frames'[t][i].at = "factory"
    BY <1>2, <2>1, StartingAt DEF Locator!Starting
  <2>3. i \in 1 .. n /\ frames[t][i].at = "factory"
    BY <1>2, <2>2
  <2> QED BY <1>0, <2>1, <2>3, StartingAt DEF Locator!Starting
<1> SUFFICES ASSUME PendingOf(t) PROVE PendingOf(t)'
  BY <1>a
<1>3. /\ Len(pending) \in Nat /\ Len(pending) = n - 1
      /\ \A i \in 1 .. Len(pending) : pending[i] = frames[t][i].id /\ pending[i] \notin active
      /\ \A i, j \in 1 .. Len(pending) : pending[i] = pending[j] => i = j
  BY <1>0, <1>1, CallFacts DEF PendingOf
<1>4. frames'[t] # <<>> => frames'[t][n - 1].at = "factory"
  <2> SUFFICES ASSUME frames'[t] # <<>> PROVE frames'[t][n - 1].at = "factory"
    OBVIOUS
  <2>1. n - 1 \in 1 .. n - 1
    BY <1>2, EmptySeq
  <2> QED BY <1>0, <1>2, <2>1 DEF LocatorInv, CallsOK, CallsOf
<1> QED BY <1>2, <1>3, <1>4 DEF PendingOf

LEMMA RegisterInv ==
  ASSUME LocatorInv, NEW s \in Services, Locator!Register(s)
  PROVE  LocatorInv'
<1>1. /\ UNCHANGED <<active, startOrder, pending, frames, thrown, dying, down, crossed>>
      /\ factories' \in SUBSET Services
  BY DEF Locator!Register, LocatorInv, LocatorTypes
<1>2. LocatorTypes'
  BY <1>1 DEF LocatorInv, LocatorTypes
<1>3. CallsOK'
  BY <1>1 DEF LocatorInv, CallsOK, CallsOf
<1>4. PendingOK'
  BY <1>1 DEF LocatorInv, PendingOK, PendingOf, Locator!Starting
<1>5. CircleFound' /\ NobodyLeft'
  BY <1>1 DEF LocatorInv, CircleFound, FoundCircle, Locator!Starting, NobodyLeft
<1>6. StartedOK'
  BY <1>1, StartedKept DEF Started
<1> QED BY <1>2, <1>3, <1>4, <1>5, <1>6 DEF LocatorInv

LEMMA RequestInv ==
  ASSUME LocatorInv, NEW t \in Callers, NEW s \in Services, Locator!Request(t, s)
  PROVE  LocatorInv'
<1>1. /\ ~down /\ frames[t] = <<>> /\ thrown[t] = "none" /\ Locator!Enter(t, s)
      /\ UNCHANGED <<active, factories, startOrder, pending, thrown, dying, down, crossed>>
  BY DEF Locator!Request
<1>2. Len(frames[t]) = 0
  BY <1>1, CallFacts
<1>3. /\ frames' \in [Callers -> Seq(CallFrames)] /\ Len(frames'[t]) = 1
      /\ \A u \in Callers \ {t} : frames'[u] = frames[u]
      /\ frames'[t][1] = [id |-> s, at |-> "find", done |-> 0]
  <2>1. frames'[t][Len(frames[t]) + 1] = [id |-> s, at |-> "find", done |-> 0]
        /\ Len(frames'[t]) = Len(frames[t]) + 1
        /\ frames' \in [Callers -> Seq(CallFrames)]
        /\ \A u \in Callers \ {t} : frames'[u] = frames[u]
    BY <1>1, Entered
  <2>2. Len(frames[t]) + 1 = 1
    BY <1>2
  <2> QED BY <2>1, <2>2
<1>5. LocatorTypes'
  BY <1>1, <1>3 DEF LocatorInv, LocatorTypes
<1>6. CallsOK'
  <2>1. ASSUME NEW i \in 1 .. 1
        PROVE  /\ frames'[t][i].done <= Len(Deps[frames'[t][i].id])
               /\ \A k \in 1 .. frames'[t][i].done : Deps[frames'[t][i].id][k] \in active'
    <3>1. frames'[t][i].done = 0 /\ frames'[t][i].id = s
      BY <1>3
    <3> QED BY <3>1, DepsOf
  <2>2. \A i \in 1 .. 1 - 1 : FALSE
    OBVIOUS
  <2>3. CallsOf(t)'
    BY <1>3, <2>1, <2>2 DEF CallsOf
  <2> QED BY <1>1, <1>3, <2>3, CallsStep
<1>4. ~ Locator!Starting(t)'
  <2>1. \A i \in 1 .. Len(frames'[t]) : frames'[t][i].at # "factory"
    BY <1>3
  <2> QED BY <1>3, <2>1, StartingAt DEF Locator!Starting
<1>7. PendingOK'
  <2>1. ASSUME PendingOf(t) PROVE PendingOf(t)'
    <3>1. Len(pending) = 0
      BY <1>2, <2>1, CallFacts DEF PendingOf
    <3>2. /\ Len(pending') = 0 /\ Len(pending') <= Len(frames'[t])
          /\ Len(frames'[t]) <= Len(pending') + 1
          /\ frames'[t][Len(frames'[t])].at # "factory"
      BY <1>1, <1>3, <3>1
    <3>3. \A i \in 1 .. Len(pending') : FALSE
      BY <3>2
    <3>4. Len(pending') = Len(frames'[t]) <=> frames'[t][Len(frames'[t])].at = "factory"
      BY <1>3, <3>2
    <3> QED BY <3>2, <3>3, <3>4 DEF PendingOf
  <2> QED BY <1>1, <1>3, <1>4, <1>5, <1>6, <2>1, PendingStep
<1>8. CircleFound' /\ NobodyLeft'
  <2>1. ~ FoundCircle(t)'
    BY <1>1 DEF FoundCircle
  <2> QED BY <1>1, <1>3, <2>1, CircleStep DEF NobodyLeft
<1>9. StartedOK'
  BY <1>1, StartedKept DEF Started
<1> QED BY <1>5, <1>6, <1>7, <1>8, <1>9 DEF LocatorInv

LEMMA MovedCalls ==
  ASSUME LocatorInv, NEW t \in Callers, frames[t] # <<>>,
         NEW place \in {"find", "start", "factory", "out"},
         Locator!Move(t, [Locator!Top(t) EXCEPT !.at = place]), UNCHANGED active
  PROVE  CallsOK'
<1>0. PICK n \in Nat : n = Len(frames[t])
  BY CallFacts
<1>1. n \in 1 .. n
  BY <1>0, CallFacts
<1>2. /\ Len(frames'[t]) = n
      /\ \A i \in 1 .. n : frames'[t][i].id = frames[t][i].id
                           /\ frames'[t][i].done = frames[t][i].done
      /\ \A i \in 1 .. n - 1 : frames'[t][i].at = frames[t][i].at
  BY <1>0, Moved
<1>3. /\ \A i \in 1 .. n :
           /\ frames[t][i].done <= Len(Deps[frames[t][i].id])
           /\ \A k \in 1 .. frames[t][i].done : Deps[frames[t][i].id][k] \in active
      /\ \A i \in 1 .. n - 1 :
           /\ frames[t][i].at = "factory"
           /\ frames[t][i].done < Len(Deps[frames[t][i].id])
           /\ frames[t][i + 1].id = Deps[frames[t][i].id][frames[t][i].done + 1]
  BY <1>0 DEF LocatorInv, CallsOK, CallsOf
<1>4. ASSUME NEW i \in 1 .. n
      PROVE  /\ frames'[t][i].done <= Len(Deps[frames'[t][i].id])
             /\ \A k \in 1 .. frames'[t][i].done : Deps[frames'[t][i].id][k] \in active'
  BY <1>2, <1>3
<1>5. ASSUME NEW i \in 1 .. n - 1
      PROVE  /\ frames'[t][i].at = "factory"
             /\ frames'[t][i].done < Len(Deps[frames'[t][i].id])
             /\ frames'[t][i + 1].id = Deps[frames'[t][i].id][frames'[t][i].done + 1]
  <2>1. i \in 1 .. n /\ i + 1 \in 1 .. n
    OBVIOUS
  <2> QED BY <1>2, <1>3, <2>1
<1>6. CallsOf(t)'
  BY <1>2, <1>4, <1>5 DEF CallsOf
<1> QED BY <1>6, Moved, CallsStep

LEMMA MovedPending ==
  ASSUME LocatorInv, NEW t \in Callers, frames[t] # <<>>,
         NEW place \in {"start", "out"}, Locator!Top(t).at # "factory",
         Locator!Move(t, [Locator!Top(t) EXCEPT !.at = place]), UNCHANGED <<active, pending>>
  PROVE  /\ PendingOf(t) => PendingOf(t)'
         /\ Locator!Starting(t)' => Locator!Starting(t)
<1>0. PICK n \in Nat : n = Len(frames[t])
  BY CallFacts
<1>1. n \in 1 .. n /\ Locator!Top(t) = frames[t][n]
  BY <1>0, CallFacts
<1>2. /\ Len(frames'[t]) = n /\ frames'[t][n].at = place
      /\ \A i \in 1 .. n : frames'[t][i].id = frames[t][i].id
      /\ \A i \in 1 .. n - 1 : frames'[t][i].at = frames[t][i].at
  BY <1>0, Moved
<1>a. Locator!Starting(t)' => Locator!Starting(t)
  <2> SUFFICES ASSUME Locator!Starting(t)' PROVE Locator!Starting(t)
    OBVIOUS
  <2>1. frames' \in [Callers -> Seq(CallFrames)] /\ frames \in [Callers -> Seq(CallFrames)]
    BY Moved, CallFacts
  <2>2. PICK i \in 1 .. n : frames'[t][i].at = "factory"
    BY <1>2, <2>1, StartingAt DEF Locator!Starting
  <2>3. i \in 1 .. n - 1
    BY <1>2, <2>2
  <2>4. i \in 1 .. n /\ frames[t][i].at = "factory"
    BY <1>2, <2>2, <2>3
  <2> QED BY <1>0, <2>1, <2>4, StartingAt DEF Locator!Starting
<1> SUFFICES ASSUME PendingOf(t) PROVE PendingOf(t)'
  BY <1>a
<1>3. /\ Len(pending) \in Nat /\ Len(pending) = n - 1
      /\ \A i \in 1 .. Len(pending) : pending[i] = frames[t][i].id /\ pending[i] \notin active
      /\ \A i, j \in 1 .. Len(pending) : pending[i] = pending[j] => i = j
  BY <1>0, <1>1, CallFacts DEF PendingOf
<1>4. \A i \in 1 .. Len(pending') : pending'[i] = frames'[t][i].id /\ pending'[i] \notin active'
  BY <1>2, <1>3
<1>5. /\ Len(pending') <= Len(frames'[t]) /\ Len(frames'[t]) <= Len(pending') + 1
      /\ Len(pending') = Len(frames'[t]) <=> frames'[t][Len(frames'[t])].at = "factory"
  BY <1>2, <1>3
<1> QED BY <1>3, <1>4, <1>5 DEF PendingOf

LEMMA NobodyLeftKept ==
  ASSUME LocatorInv, NEW t \in Callers, frames[t] # <<>>, UNCHANGED down
  PROVE  NobodyLeft'
BY DEF LocatorInv, NobodyLeft

LEMMA FindInv ==
  ASSUME LocatorInv, NEW t \in Callers, Locator!Find(t)
  PROVE  LocatorInv'
<1>1. /\ frames[t] # <<>> /\ Locator!Top(t).at = "find" /\ thrown[t] = "none"
      /\ UNCHANGED <<active, factories, startOrder, pending, thrown, dying, down, crossed>>
  BY DEF Locator!Find, Locator!At
<1>2. NobodyLeft' /\ StartedOK'
  BY <1>1, NobodyLeftKept, StartedKept DEF Started
<1>3. /\ frames' \in [Callers -> Seq(CallFrames)]
      /\ \A u \in Callers \ {t} : frames'[u] = frames[u]
      /\ CallsOK' /\ (PendingOf(t) => PendingOf(t)')
      /\ Locator!Starting(t)' => Locator!Starting(t)
  <2>1. CASE Locator!Top(t).id \in active /\ Locator!Leave(t)
    BY <1>1, <2>1, Left, ReturnCalls, ReturnPending
  <2>2. CASE Locator!Move(t, [Locator!Top(t) EXCEPT !.at = "start"])
    BY <1>1, <2>2, Moved, MovedCalls, MovedPending
  <2> QED BY <2>1, <2>2 DEF Locator!Find
<1>4. LocatorTypes'
  BY <1>1, <1>3 DEF LocatorInv, LocatorTypes
<1>5. PendingOK'
  BY <1>1, <1>3, <1>4, PendingStep
<1>6. CircleFound'
  <2>1. ~ FoundCircle(t)'
    BY <1>1 DEF FoundCircle
  <2> QED BY <1>1, <1>3, <2>1, CircleStep
<1> QED BY <1>2, <1>3, <1>4, <1>5, <1>6 DEF LocatorInv

\* A thread that looks at what is pending while another starts a service makes calls cross.
LEMMA CrossedAlone ==
  ASSUME NEW t \in Callers, Locator!Crossed(t)
  PROVE  (crossed => crossed') /\ (~ crossed' => ~ OthersStart(t))
BY DEF Locator!Crossed, OthersStart

LEMMA StartInv ==
  ASSUME LocatorInv, NEW t \in Callers, Locator!Start(t)
  PROVE  LocatorInv'
<1>0. PICK n \in Nat : n = Len(frames[t])
  BY CallFacts
<1> DEFINE s == frames[t][n].id
<1>1. /\ frames[t] # <<>> /\ Locator!Top(t).at = "start" /\ thrown[t] = "none"
      /\ UNCHANGED <<active, factories, startOrder, dying, down>>
  BY DEF Locator!Start, Locator!At
<1>2. n \in 1 .. n /\ Locator!Top(t) = frames[t][n]
  BY <1>0, <1>1, CallFacts
<1>3. /\ Len(pending) \in Nat /\ pending \in Seq(Services) /\ s \in Services
      /\ DOMAIN pending = 1 .. Len(pending)
  BY <1>0, <1>2, CallFacts, LenProperties
<1>4. NobodyLeft' /\ (UNCHANGED crossed \/ Locator!Crossed(t)) /\ StartedOK'
  <2>1. UNCHANGED crossed \/ Locator!Crossed(t)
    BY DEF Locator!Start
  <2> QED BY <1>1, <2>1, NobodyLeftKept, StartedKept, CrossedAlone DEF Started
<1>5. CASE Locator!Leave(t) /\ s \in active /\ UNCHANGED <<pending, thrown, crossed>>
  <2>1. /\ frames' \in [Callers -> Seq(CallFrames)]
        /\ \A u \in Callers \ {t} : frames'[u] = frames[u]
        /\ CallsOK' /\ (PendingOf(t) => PendingOf(t)')
        /\ Locator!Starting(t)' => Locator!Starting(t)
    BY <1>1, <1>2, <1>5, Left, ReturnCalls, ReturnPending
  <2>2. LocatorTypes'
    BY <1>1, <1>5, <2>1 DEF LocatorInv, LocatorTypes
  <2>3. PendingOK'
    BY <1>1, <1>5, <2>1, <2>2, PendingStep
  <2>4. CircleFound'
    <3>1. ~ FoundCircle(t)'
      BY <1>1, <1>5 DEF FoundCircle
    <3> QED BY <1>5, <2>1, <3>1, CircleStep
  <2> QED BY <1>4, <2>1, <2>2, <2>3, <2>4 DEF LocatorInv
<1>6. ASSUME NEW error \in {"circular", "unresolved"}, Locator!Throw(t, error),
             Locator!Move(t, [Locator!Top(t) EXCEPT !.at = "out"]), UNCHANGED pending,
             error = "circular" => /\ \E i \in DOMAIN pending : pending[i] = s
                                   /\ Locator!Crossed(t)
      PROVE  LocatorInv'
  <2>1. /\ \A u \in Callers \ {t} : frames'[u] = frames[u]
        /\ CallsOK' /\ (PendingOf(t) => PendingOf(t)')
        /\ Locator!Starting(t)' => Locator!Starting(t)
    BY <1>1, <1>6, Moved, MovedCalls, MovedPending
  <2>2. /\ thrown' = [thrown EXCEPT ![t] = error]
        /\ frames' \in [Callers -> Seq(CallFrames)] /\ Len(frames'[t]) = n
        /\ frames'[t][n].id = s
        /\ \A i \in 1 .. n - 1 : frames'[t][i].at = frames[t][i].at
    BY <1>0, <1>1, <1>2, <1>6, Moved DEF Locator!Throw
  <2>3. LocatorTypes' /\ thrown'[t] = error /\ \A u \in Callers \ {t} : thrown'[u] = thrown[u]
    <3>1. error \in {"none", "circular", "unresolved", "factory"}
      OBVIOUS
    <3>2. crossed' \in BOOLEAN
      BY <1>4 DEF LocatorInv, LocatorTypes, Locator!Crossed
    <3> QED BY <1>1, <1>6, <2>2, <3>1, <3>2 DEF LocatorInv, LocatorTypes
  <2>4. PendingOK'
    BY <1>1, <1>4, <1>6, <2>1, <2>3, PendingStep, CrossedAlone
  <2>5. ASSUME ~ crossed', FoundCircle(t)'
        PROVE  /\ Locator!Starting(t)'
               /\ \E i \in 1 .. Len(pending') : pending'[i] = frames'[t][Len(frames'[t])].id
    <3>1. error = "circular"
      BY <2>3, <2>5 DEF FoundCircle
    <3>2. ~ crossed /\ ~ OthersStart(t)
      BY <1>6, <2>5, <3>1, CrossedAlone
    <3>3. PICK i \in 1 .. Len(pending) : pending[i] = s
      BY <1>3, <1>6, <3>1
    <3>4. pending # <<>> /\ Locator!Starting(t)
      <4>1. pending # <<>>
        BY <1>3, CallFacts
      <4> QED BY <3>2, <4>1 DEF LocatorInv, PendingOK, OthersStart
    <3>5. PICK j \in 1 .. n : frames[t][j].at = "factory"
      BY <1>0, <3>4, CallFacts, StartingAt DEF Locator!Starting
    <3>6. j \in 1 .. n - 1 /\ j \in 1 .. Len(frames'[t])
      BY <1>1, <1>2, <2>2, <3>5
    <3>7. Locator!Starting(t)'
      BY <2>2, <3>5, <3>6, StartingAt DEF Locator!Starting
    <3> QED BY <1>6, <2>2, <3>3, <3>7
  <2>6. CircleFound'
    BY <1>4, <1>6, <2>1, <2>3, <2>5, CircleStep, CrossedAlone
  <2> QED BY <1>4, <2>1, <2>3, <2>4, <2>6 DEF LocatorInv
<1>7. CASE /\ s \notin active /\ \A i \in DOMAIN pending : pending[i] # s
           /\ pending' = Append(pending, s) /\ Locator!Crossed(t)
           /\ Locator!Move(t, [Locator!Top(t) EXCEPT !.at = "factory"]) /\ UNCHANGED thrown
  <2>1. CallsOK' /\ \A u \in Callers \ {t} : frames'[u] = frames[u]
    BY <1>1, <1>7, Moved, MovedCalls
  <2>2. /\ frames' \in [Callers -> Seq(CallFrames)] /\ Len(frames'[t]) = n
        /\ frames'[t][n].at = "factory"
        /\ \A i \in 1 .. n : frames'[t][i].id = frames[t][i].id
    BY <1>0, <1>1, <1>7, Moved
  <2>3. /\ pending' \in Seq(Services) /\ Len(pending') = Len(pending) + 1
        /\ pending'[Len(pending) + 1] = s
        /\ \A i \in 1 .. Len(pending) : pending'[i] = pending[i]
    <3> HIDE DEF s
    <3> QED BY <1>3, <1>7, AppendProperties
  <2>4. LocatorTypes'
    <3>1. crossed' \in BOOLEAN
      BY <1>4 DEF LocatorInv, LocatorTypes, Locator!Crossed
    <3> QED BY <1>1, <1>7, <2>2, <2>3, <3>1 DEF LocatorInv, LocatorTypes
  <2>5. ASSUME PendingOf(t) PROVE PendingOf(t)'
    <3>1. /\ Len(pending) = n - 1
          /\ \A i \in 1 .. n - 1 : pending[i] = frames[t][i].id /\ pending[i] \notin active
          /\ \A i, j \in 1 .. n - 1 : pending[i] = pending[j] => i = j
      BY <1>0, <1>1, <1>2, <1>3, <2>5 DEF PendingOf
    <3>2. Len(pending') = n /\ pending'[n] = s
          /\ \A i \in 1 .. n - 1 : pending'[i] = pending[i]
      BY <1>2, <2>3, <3>1
    <3>3. \A i \in 1 .. n : i \in 1 .. n - 1 \/ i = n
      BY <1>2
    <3>4. \A i \in 1 .. n : pending'[i] = frames'[t][i].id /\ pending'[i] \notin active'
      BY <1>1, <1>7, <2>2, <3>1, <3>2, <3>3
    <3>5. \A i, j \in 1 .. n : pending'[i] = pending'[j] => i = j
      BY <1>3, <1>7, <3>1, <3>2, <3>3
    <3> QED BY <2>2, <3>2, <3>4, <3>5 DEF PendingOf
  <2>6. PendingOK'
    BY <1>7, <2>1, <2>4, <2>5, PendingStep, CrossedAlone
  <2>7. CircleFound'
    <3>1. ~ FoundCircle(t)'
      BY <1>1, <1>7 DEF FoundCircle
    <3> QED BY <1>7, <2>1, <3>1, CircleStep, CrossedAlone
  <2> QED BY <1>4, <2>1, <2>4, <2>6, <2>7 DEF LocatorInv
<1>8. \/ Locator!Leave(t) /\ s \in active /\ UNCHANGED <<pending, thrown, crossed>>
      \/ \E error \in {"circular", "unresolved"} :
           /\ Locator!Throw(t, error) /\ UNCHANGED pending
           /\ Locator!Move(t, [Locator!Top(t) EXCEPT !.at = "out"])
           /\ error = "circular" => /\ \E i \in DOMAIN pending : pending[i] = s
                                    /\ Locator!Crossed(t)
      \/ /\ s \notin active /\ \A i \in DOMAIN pending : pending[i] # s
         /\ pending' = Append(pending, s) /\ Locator!Crossed(t)
         /\ Locator!Move(t, [Locator!Top(t) EXCEPT !.at = "factory"]) /\ UNCHANGED thrown
  BY <1>2 DEF Locator!Start
<1> QED BY <1>5, <1>6, <1>7, <1>8

LEMMA DependInv ==
  ASSUME LocatorInv, NEW t \in Callers, Locator!Depend(t)
  PROVE  LocatorInv'
<1>0. PICK n \in Nat : n = Len(frames[t])
  BY CallFacts
<1>1. /\ frames[t] # <<>> /\ Locator!Top(t).at = "factory" /\ thrown[t] = "none"
      /\ UNCHANGED <<active, factories, startOrder, pending, thrown, dying, down, crossed>>
  BY DEF Locator!Depend, Locator!At
<1>2. n \in 1 .. n /\ Locator!Top(t) = frames[t][n]
  BY <1>0, <1>1, CallFacts
<1> DEFINE s == Deps[frames[t][n].id][frames[t][n].done + 1]
<1>3. frames[t][n].done \in Nat /\ frames[t][n].done < Len(Deps[frames[t][n].id])
      /\ Locator!Enter(t, s)
  BY <1>0, <1>2, CallFacts DEF Locator!Depend
<1>4. frames[t][n].done + 1 \in 1 .. Len(Deps[frames[t][n].id]) /\ s \in Services
  BY <1>0, <1>2, <1>3, CallFacts, DepsOf
<1>5. /\ frames' \in [Callers -> Seq(CallFrames)] /\ Len(frames'[t]) = n + 1
      /\ \A i \in 1 .. n : frames'[t][i] = frames[t][i]
      /\ frames'[t][n + 1].id = s /\ frames'[t][n + 1].at = "find"
      /\ frames'[t][n + 1].done = 0
  <2> HIDE DEF s
  <2>1. /\ frames' \in [Callers -> Seq(CallFrames)] /\ Len(frames'[t]) = n + 1
        /\ \A i \in 1 .. n : frames'[t][i] = frames[t][i]
        /\ frames'[t][n + 1] = [id |-> s, at |-> "find", done |-> 0]
    BY <1>0, <1>3, <1>4, Entered
  <2> QED BY <2>1
<1>a. \A u \in Callers \ {t} : frames'[u] = frames[u]
  BY <1>3, <1>4, Entered
<1>6. CircleFound' /\ NobodyLeft' /\ StartedOK'
  <2>1. ~ FoundCircle(t)'
    BY <1>1 DEF FoundCircle
  <2>2. CircleFound'
    BY <1>1, <1>a, <2>1, CircleStep
  <2> QED BY <1>1, <2>2, NobodyLeftKept, StartedKept DEF Started
<1>7. LocatorTypes'
  BY <1>1, <1>5 DEF LocatorInv, LocatorTypes
<1>8. /\ \A i \in 1 .. n :
           /\ frames[t][i].done <= Len(Deps[frames[t][i].id])
           /\ \A k \in 1 .. frames[t][i].done : Deps[frames[t][i].id][k] \in active
      /\ \A i \in 1 .. n - 1 :
           /\ frames[t][i].at = "factory"
           /\ frames[t][i].done < Len(Deps[frames[t][i].id])
           /\ frames[t][i + 1].id = Deps[frames[t][i].id][frames[t][i].done + 1]
  BY <1>0 DEF LocatorInv, CallsOK, CallsOf
<1>9. CallsOK'
  <2>1. ASSUME NEW i \in 1 .. n + 1
        PROVE  /\ frames'[t][i].done <= Len(Deps[frames'[t][i].id])
               /\ \A k \in 1 .. frames'[t][i].done : Deps[frames'[t][i].id][k] \in active'
    <3>1. CASE i \in 1 .. n
      BY <1>1, <1>5, <1>8, <3>1
    <3>2. CASE i = n + 1
      <4> HIDE DEF s
      <4> QED BY <1>4, <1>5, <3>2, DepsOf
    <3> QED BY <3>1, <3>2
  <2>2. ASSUME NEW i \in 1 .. n + 1 - 1
        PROVE  /\ frames'[t][i].at = "factory"
               /\ frames'[t][i].done < Len(Deps[frames'[t][i].id])
               /\ frames'[t][i + 1].id = Deps[frames'[t][i].id][frames'[t][i].done + 1]
    <3>1. i \in 1 .. n /\ ((i \in 1 .. n - 1 /\ i + 1 \in 1 .. n) \/ i = n)
      OBVIOUS
    <3> QED BY <1>1, <1>2, <1>3, <1>5, <1>8, <3>1
  <2>3. Len(frames'[t]) = n + 1
    BY <1>5
  <2>4. \A i \in 1 .. Len(frames'[t]) :
          /\ frames'[t][i].done <= Len(Deps[frames'[t][i].id])
          /\ \A k \in 1 .. frames'[t][i].done : Deps[frames'[t][i].id][k] \in active'
    BY <2>1, <2>3
  <2>5. \A i \in 1 .. Len(frames'[t]) - 1 :
          /\ frames'[t][i].at = "factory"
          /\ frames'[t][i].done < Len(Deps[frames'[t][i].id])
          /\ frames'[t][i + 1].id = Deps[frames'[t][i].id][frames'[t][i].done + 1]
    BY <2>2, <2>3
  <2> HIDE DEF s
  <2>6. CallsOf(t)'
    BY <2>4, <2>5, Zenon DEF CallsOf
  <2> QED BY <1>1, <1>a, <2>6, CallsStep
<1>10. PendingOK'
  <2>1. ASSUME PendingOf(t) PROVE PendingOf(t)'
    <3>1. /\ Len(pending) \in Nat /\ Len(pending) = n
          /\ \A i \in 1 .. Len(pending) : pending[i] = frames[t][i].id /\ pending[i] \notin active
          /\ \A i, j \in 1 .. Len(pending) : pending[i] = pending[j] => i = j
      BY <1>0, <1>1, <1>2, <2>1, CallFacts DEF PendingOf
    <3>2. \A i \in 1 .. Len(pending') :
            pending'[i] = frames'[t][i].id /\ pending'[i] \notin active'
      BY <1>1, <1>5, <3>1
    <3>3. /\ Len(pending') <= Len(frames'[t]) /\ Len(frames'[t]) <= Len(pending') + 1
          /\ Len(pending') = Len(frames'[t]) <=> frames'[t][Len(frames'[t])].at = "factory"
      BY <1>1, <1>5, <3>1
    <3> QED BY <1>1, <3>1, <3>2, <3>3 DEF PendingOf
  <2>2. Locator!Starting(t)
    BY <1>1, TopStarting
  <2> QED BY <1>1, <1>7, <1>9, <1>a, <2>1, <2>2, PendingStep
<1> QED BY <1>6, <1>7, <1>9, <1>10 DEF LocatorInv

\* What is left when the last is taken off, if there is one.
LEMMA FrontIsSeq ==
  ASSUME NEW S, NEW s \in Seq(S)
  PROVE  Front(s) \in Seq(S)
<1>1. 1 \in Int /\ Len(s) - 1 \in Int /\ \A i \in 1 .. Len(s) - 1 : s[i] \in S
  BY LenProperties, ElementOfSeq
<1>2. SubSeq(s, 1, Len(s) - 1) \in Seq(S)
  BY <1>1, SubSeqProperties
<1> QED BY <1>2 DEF Front

LEMMA ConstructedInv ==
  ASSUME LocatorInv, NEW t \in Callers, Locator!Constructed(t)
  PROVE  LocatorInv'
<1>0. PICK n \in Nat : n = Len(frames[t])
  BY CallFacts
<1>1. /\ frames[t] # <<>> /\ Locator!Top(t).at = "factory" /\ thrown[t] = "none"
      /\ Locator!Leave(t) /\ UNCHANGED <<factories, thrown, dying, down, crossed>>
  BY DEF Locator!Constructed, Locator!At
<1>2. n \in 1 .. n /\ Locator!Top(t) = frames[t][n]
  BY <1>0, <1>1, CallFacts
<1> DEFINE s == frames[t][n].id
<1>3. /\ s \in Services /\ frames[t][n].done = Len(Deps[s])
      /\ active' = active \cup {s}
      /\ startOrder' = Append(startOrder, s)
      /\ pending' = Front(pending)
  BY <1>0, <1>2, CallFacts DEF Locator!Constructed, Locator!Front, Front
<1>4. pending' \in Seq(Services)
  BY <1>3, FrontIsSeq, CallFacts
<1>5. Locator!Starting(t) /\ ~ down
  BY <1>1, TopStarting DEF LocatorInv, NobodyLeft
<1>6. \A k \in 1 .. Len(Deps[s]) : Deps[s][k] \in active
  BY <1>0, <1>2, <1>3 DEF LocatorInv, CallsOK, CallsOf
<1>7. ASSUME PendingOf(t)
      PROVE  /\ Len(pending) = n /\ pending \in Seq(Services) /\ pending # <<>>
             /\ \A i \in 1 .. n : pending[i] = frames[t][i].id /\ pending[i] \notin active
             /\ \A i, j \in 1 .. n : pending[i] = pending[j] => i = j
             /\ s = pending[n] /\ s \notin active
  <2>1. /\ Len(pending) = n /\ pending \in Seq(Services) /\ pending # <<>>
        /\ \A i \in 1 .. n : pending[i] = frames[t][i].id /\ pending[i] \notin active
        /\ \A i, j \in 1 .. n : pending[i] = pending[j] => i = j
    BY <1>0, <1>1, <1>2, <1>7, CallFacts DEF PendingOf
  <2> QED BY <1>2, <2>1
<1> HIDE DEF s
<1>8. PICK m \in Nat : m = Len(startOrder)
  BY LenProperties DEF LocatorInv, LocatorTypes
<1>9. /\ startOrder' \in Seq(Services) /\ Len(startOrder') = m + 1 /\ startOrder'[m + 1] = s
      /\ \A i \in 1 .. m : startOrder'[i] = startOrder[i]
  <2>1. startOrder \in Seq(Services)
    BY DEF LocatorInv, LocatorTypes
  <2> QED BY <1>3, <1>8, <2>1, AppendProperties
<1>10. LocatorTypes'
  BY <1>1, <1>3, <1>4, <1>9, Left DEF LocatorInv, LocatorTypes
<1>11. CallsOK'
  BY <1>1, <1>2, <1>3, ReturnCalls DEF s
<1>12. PendingOK'
  <2> SUFFICES ASSUME PendingOf(t) PROVE PendingOf(t)'
    BY <1>1, <1>5, <1>10, <1>11, Left, PendingStep
  <2>1. /\ Len(frames'[t]) = n - 1 /\ frames'[t] \in Seq(CallFrames)
        /\ \A i \in 1 .. n - 1 : frames'[t][i].id = frames[t][i].id
                                 /\ frames'[t][i].at = frames[t][i].at
    BY <1>0, <1>1, Left
  <2>a. /\ Len(pending') = n - 1 /\ \A i \in 1 .. n - 1 : pending'[i] = pending[i]
    BY <1>3, <1>7, FrontElements
  <2>2. frames'[t] # <<>> => frames'[t][n - 1].at = "factory"
    <3> SUFFICES ASSUME frames'[t] # <<>> PROVE frames'[t][n - 1].at = "factory"
      OBVIOUS
    <3>1. n - 1 \in 1 .. n - 1
      BY <2>1, EmptySeq
    <3> QED BY <1>0, <2>1, <3>1 DEF LocatorInv, CallsOK, CallsOf
  <2>3. \A i \in 1 .. n - 1 : i \in 1 .. n /\ i # n
    OBVIOUS
  <2>4. \A i \in 1 .. n - 1 : pending'[i] = frames'[t][i].id /\ pending'[i] \notin active'
    BY SMTT(25), <1>2, <1>3, <1>7, <2>a, <2>1, <2>3
  <2>5. \A i, j \in 1 .. n - 1 : pending'[i] = pending'[j] => i = j
    BY <1>7, <2>a, <2>3
  <2> QED BY <2>a, <2>1, <2>2, <2>4, <2>5 DEF PendingOf
<1>13. CircleFound'
  <2>1. ~ FoundCircle(t)'
    BY <1>1 DEF FoundCircle
  <2> QED BY <1>1, <1>5, <2>1, Left, CircleStep
<1>14. StartedOrder'
  <2>1. /\ \A i \in 1 .. m : \A k \in 1 .. Len(Deps[startOrder[i]]) :
             \E j \in 1 .. i - 1 : startOrder[j] = Deps[startOrder[i]][k]
        /\ \A i \in 1 .. m : startOrder[i] \in active
        /\ \A x \in active : \E i \in 1 .. m : startOrder[i] = x
        /\ dying = {}
    BY <1>5, <1>8 DEF LocatorInv, StartedOK, StartedOrder
  <2>2. m + 1 \in 1 .. m + 1
        /\ \A i \in 1 .. m + 1 : i \in 1 .. m \/ i = m + 1
    OBVIOUS
  <2>3. \A i \in 1 .. m + 1 : startOrder'[i] \in active'
    BY <1>3, <1>9, <2>1, <2>2
  <2>4. ASSUME NEW x \in active' PROVE \E i \in 1 .. m + 1 : startOrder'[i] = x
    <3>1. CASE x = s
      BY <1>9, <2>2, <3>1
    <3>2. CASE x \in active
      <4>1. PICK i \in 1 .. m : startOrder[i] = x
        BY <2>1, <3>2
      <4>2. i \in 1 .. m + 1
        OBVIOUS
      <4> QED BY <1>9, <4>1, <4>2
    <3> QED BY <1>3, <3>1, <3>2
  <2>6. ASSUME NEW i \in 1 .. m + 1, NEW k \in 1 .. Len(Deps[startOrder'[i]])
        PROVE  \E j \in 1 .. i - 1 : startOrder'[j] = Deps[startOrder'[i]][k]
    <3>1. CASE i \in 1 .. m
      <4>1. PICK j \in 1 .. i - 1 : startOrder[j] = Deps[startOrder[i]][k]
        BY <1>9, <2>1, <3>1
      <4>2. j \in 1 .. m
        BY <3>1
      <4> QED BY <1>9, <3>1, <4>1, <4>2
    <3>2. CASE i = m + 1
      <4>1. Deps[s][k] \in active
        BY <1>6, <1>9, <3>2
      <4>2. PICK j \in 1 .. m : startOrder[j] = Deps[s][k]
        BY <2>1, <4>1
      <4>3. j \in 1 .. i - 1
        BY <3>2
      <4> QED BY <1>9, <3>2, <4>2, <4>3
    <3> QED BY <2>2, <3>1, <3>2
  <2>7. dying' = {}
    BY <1>1, <2>1
  <2> QED BY <1>9, <2>3, <2>4, <2>6, <2>7 DEF StartedOrder
<1>15. StartedOnce'
  <2> SUFFICES ASSUME ~ crossed' PROVE StartedOnce'
    BY DEF StartedOnce
  <2>1. PendingOf(t)
    BY <1>1, <1>5 DEF LocatorInv, PendingOK
  <2>2. /\ \A i \in 1 .. m : startOrder[i] \in active
        /\ \A i, j \in 1 .. m : startOrder[i] = startOrder[j] => i = j
        /\ dying = {}
    BY <1>1, <1>5, <1>8 DEF LocatorInv, StartedOK, StartedOnce, StartedOrder
  <2>3. \A i \in 1 .. m + 1 : i \in 1 .. m \/ i = m + 1
    OBVIOUS
  <2>4. \A i, j \in 1 .. m + 1 : startOrder'[i] = startOrder'[j] => i = j
    BY <1>7, <1>9, <2>1, <2>2, <2>3
  <2>5. /\ \A i \in 1 .. Len(startOrder') : startOrder'[i] \in active'
        /\ \A x \in active' : \E i \in 1 .. Len(startOrder') : startOrder'[i] = x
    BY <1>1, <1>5, <1>14 DEF StartedOrder
  <2>6. dying' = {}
    BY <1>1, <2>2
  <2> QED BY <1>9, <2>4, <2>5, <2>6 DEF StartedOnce
<1> QED BY <1>1, <1>10, <1>11, <1>12, <1>13, <1>14, <1>15, NobodyLeftKept
    DEF LocatorInv, StartedOK

LEMMA UnwindInv ==
  ASSUME LocatorInv, NEW t \in Callers, Locator!Unwind(t)
  PROVE  LocatorInv'
<1>0. PICK n \in Nat : n = Len(frames[t])
  BY CallFacts
<1>1. UNCHANGED <<active, factories, startOrder, dying, down, crossed>>
  BY DEF Locator!Unwind
<1>2. StartedOK'
  BY <1>1, StartedKept DEF Started
<1>3. CASE frames[t] = <<>>
  <2>1. UNCHANGED <<pending, frames>> /\ thrown' = [thrown EXCEPT ![t] = "none"]
    BY <1>3 DEF Locator!Unwind, Locator!Throw
  <2>2. LocatorTypes'
    BY <1>1, <2>1 DEF LocatorInv, LocatorTypes
  <2>3. CallsOK'
    BY <1>1, <2>1 DEF LocatorInv, CallsOK, CallsOf
  <2>4. PendingOK'
    BY <1>1, <2>1 DEF LocatorInv, PendingOK, PendingOf, Locator!Starting
  <2>5. CircleFound' /\ NobodyLeft'
    <3>1. ~ FoundCircle(t)'
      BY <1>3, <2>1 DEF FoundCircle
    <3>2. \A u \in Callers \ {t} : frames'[u] = frames[u] /\ thrown'[u] = thrown[u]
      BY <2>1 DEF LocatorInv, LocatorTypes
    <3>3. CircleFound'
      BY <1>1, <2>1, <3>1, <3>2, CircleStep
    <3> QED BY <1>1, <2>1, <3>3 DEF LocatorInv, NobodyLeft
  <2> QED BY <1>2, <2>2, <2>3, <2>4, <2>5 DEF LocatorInv
<1>4. CASE frames[t] # <<>>
  <2>1. n \in 1 .. n /\ Locator!Top(t) = frames[t][n]
    BY <1>0, <1>4, CallFacts
  <2>2. /\ frames' = [frames EXCEPT ![t] = Front(frames[t])] /\ thrown' = thrown
        /\ pending' = IF frames[t][n].at = "factory" THEN Front(pending) ELSE pending
    BY <1>4, <2>1 DEF Locator!Unwind, Locator!Front, Front
  <2>3. /\ Front(frames[t]) \in Seq(CallFrames) /\ Len(Front(frames[t])) = n - 1
        /\ \A j \in 1 .. n - 1 : Front(frames[t])[j] = frames[t][j]
    BY <1>0, <1>4, CallFacts, FrontElements
  <2>4. /\ frames' \in [Callers -> Seq(CallFrames)] /\ Len(frames'[t]) = n - 1
        /\ frames'[t] \in Seq(CallFrames)
        /\ \A j \in 1 .. n - 1 : frames'[t][j] = frames[t][j]
        /\ \A u \in Callers \ {t} : frames'[u] = frames[u]
    BY <2>2, <2>3, CallFacts
  <2>5. LocatorTypes' /\ NobodyLeft'
    <3>1. pending' \in Seq(Services)
      BY <2>2, FrontIsSeq, CallFacts
    <3> QED BY <1>1, <1>4, <2>2, <2>4, <3>1, NobodyLeftKept DEF LocatorInv, LocatorTypes
  <2>6. \A i \in 1 .. n - 1 : i \in 1 .. n
    OBVIOUS
  <2>7. /\ \A i \in 1 .. n :
             /\ frames[t][i].done <= Len(Deps[frames[t][i].id])
             /\ \A k \in 1 .. frames[t][i].done : Deps[frames[t][i].id][k] \in active
        /\ \A i \in 1 .. n - 1 :
             /\ frames[t][i].at = "factory"
             /\ frames[t][i].done < Len(Deps[frames[t][i].id])
             /\ frames[t][i + 1].id = Deps[frames[t][i].id][frames[t][i].done + 1]
    BY <1>0 DEF LocatorInv, CallsOK, CallsOf
  <2>8. CallsOK'
    <3>1. ASSUME NEW i \in 1 .. n - 1
          PROVE  /\ frames'[t][i].done <= Len(Deps[frames'[t][i].id])
                 /\ \A k \in 1 .. frames'[t][i].done : Deps[frames'[t][i].id][k] \in active'
      BY <1>1, <2>4, <2>6, <2>7
    <3>2. ASSUME NEW i \in 1 .. n - 1 - 1
          PROVE  /\ frames'[t][i].at = "factory"
                 /\ frames'[t][i].done < Len(Deps[frames'[t][i].id])
                 /\ frames'[t][i + 1].id = Deps[frames'[t][i].id][frames'[t][i].done + 1]
      <4>1. i \in 1 .. n - 1 /\ i + 1 \in 1 .. n - 1
        OBVIOUS
      <4> QED BY <2>4, <2>7, <4>1
    <3>3. CallsOf(t)'
      BY <2>4, <3>1, <3>2 DEF CallsOf
    <3> QED BY <1>1, <2>4, <3>3, CallsStep
  <2>9. frames'[t] # <<>> => frames'[t][n - 1].at = "factory"
    <3> SUFFICES ASSUME frames'[t] # <<>> PROVE frames'[t][n - 1].at = "factory"
      OBVIOUS
    <3>1. n - 1 \in 1 .. n - 1
      BY <2>4, EmptySeq
    <3> QED BY <2>4, <2>7, <3>1
  <2>10. ASSUME PendingOf(t) PROVE PendingOf(t)'
    <3>1. /\ Len(pending) \in Nat /\ pending \in Seq(Services)
          /\ Len(pending) = n <=> frames[t][n].at = "factory"
          /\ Len(pending) = n \/ Len(pending) = n - 1
          /\ \A i \in 1 .. Len(pending) : pending[i] = frames[t][i].id /\ pending[i] \notin active
          /\ \A i, j \in 1 .. Len(pending) : pending[i] = pending[j] => i = j
      BY <1>0, <1>4, <2>1, <2>10, CallFacts DEF PendingOf
    <3>2. Len(pending') = n - 1 /\ \A i \in 1 .. n - 1 : pending'[i] = pending[i]
      <4>1. CASE frames[t][n].at = "factory"
        <5>1. pending # <<>> /\ pending' = Front(pending)
          BY <2>1, <2>2, <3>1, <4>1, EmptySeq
        <5> QED BY <3>1, <4>1, <5>1, FrontElements
      <4>2. CASE frames[t][n].at # "factory"
        BY <2>2, <3>1, <4>2
      <4> QED BY <4>1, <4>2
    <3>3. \A i \in 1 .. n - 1 : i \in 1 .. Len(pending)
      BY <3>1
    <3>4. \A i \in 1 .. n - 1 : pending'[i] = frames'[t][i].id /\ pending'[i] \notin active'
      BY <1>1, <2>4, <2>6, <3>1, <3>2, <3>3
    <3>5. \A i, j \in 1 .. n - 1 : pending'[i] = pending'[j] => i = j
      BY <3>1, <3>2, <3>3
    <3> QED BY <2>4, <2>9, <3>2, <3>4, <3>5 DEF PendingOf
  <2>11. ~ Locator!Starting(t) => ~ Locator!Starting(t)' /\ pending' = pending
    <3>1. ASSUME ~ Locator!Starting(t) PROVE \A i \in 1 .. n : frames[t][i].at # "factory"
      BY <1>0, <3>1, CallFacts, StartingAt DEF Locator!Starting
    <3>2. (\A i \in 1 .. n : frames[t][i].at # "factory") => ~ Locator!Starting(t)'
      BY <2>4, <2>6, StartingAt DEF Locator!Starting
    <3> QED BY <2>1, <2>2, <3>1, <3>2
  <2>12. PendingOK'
    BY <1>1, <2>4, <2>5, <2>8, <2>10, <2>11, PendingStep
  <2>13. CircleFound'
    <3>1. ~ FoundCircle(t)'
      BY <2>4, <2>9 DEF FoundCircle
    <3> QED BY <1>1, <2>2, <2>4, <2>11, <3>1, CircleStep
  <2> QED BY <1>2, <2>5, <2>8, <2>12, <2>13 DEF LocatorInv
<1> QED BY <1>3, <1>4

LEMMA FactoryFailsInv ==
  ASSUME LocatorInv, NEW t \in Callers, Locator!FactoryFails(t)
  PROVE  LocatorInv'
<1>1. /\ frames[t] # <<>> /\ Locator!Top(t).at = "factory"
      /\ thrown' = [thrown EXCEPT ![t] = "factory"]
      /\ UNCHANGED <<active, factories, startOrder, pending, frames, dying, down, crossed>>
  BY DEF Locator!FactoryFails, Locator!At, Locator!Throw
<1>2. LocatorTypes'
  BY <1>1 DEF LocatorInv, LocatorTypes
<1>3. CallsOK'
  BY <1>1 DEF LocatorInv, CallsOK, CallsOf
<1>4. PendingOK'
  BY <1>1 DEF LocatorInv, PendingOK, PendingOf, Locator!Starting
<1>5. CircleFound' /\ NobodyLeft'
  <2>1. frames[t][Len(frames[t])].at = "factory"
    BY <1>1, CallFacts
  <2>2. ~ FoundCircle(t)'
    BY <1>1, <2>1 DEF FoundCircle
  <2>3. \A u \in Callers \ {t} : frames'[u] = frames[u] /\ thrown'[u] = thrown[u]
    BY <1>1 DEF LocatorInv, LocatorTypes
  <2>4. CircleFound'
    BY <1>1, <2>2, <2>3, CircleStep
  <2> QED BY <1>1, <2>4, NobodyLeftKept
<1>6. StartedOK'
  BY <1>1, StartedKept DEF Started
<1> QED BY <1>2, <1>3, <1>4, <1>5, <1>6 DEF LocatorInv

LEMMA ShutdownInv ==
  ASSUME LocatorInv, Locator!Shutdown
  PROVE  LocatorInv'
<1>1. /\ ~down /\ \A t \in Callers : frames[t] = <<>>
      /\ down' = TRUE
      /\ UNCHANGED <<active, factories, startOrder, pending, frames, thrown, dying, crossed>>
  BY DEF Locator!Shutdown
<1>2. LocatorTypes'
  BY <1>1 DEF LocatorInv, LocatorTypes
<1>3. CallsOK'
  BY <1>1 DEF LocatorInv, CallsOK, CallsOf
<1>4. PendingOK'
  BY <1>1 DEF LocatorInv, PendingOK, PendingOf, Locator!Starting
<1>5. CircleFound' /\ NobodyLeft'
  BY <1>1 DEF LocatorInv, CircleFound, FoundCircle, Locator!Starting, NobodyLeft
<1>6. StartedOK'
  <2>1. StartedOrder /\ StartedOnce
    BY DEF LocatorInv, StartedOK
  <2>2. StartedOrder' /\ StartedOnce'
    BY <1>1, <2>1 DEF StartedOrder, StartedOnce
  <2> QED BY <2>2 DEF StartedOK
<1> QED BY <1>2, <1>3, <1>4, <1>5, <1>6 DEF LocatorInv

LEMMA DestroyNextInv ==
  ASSUME LocatorInv, Locator!DestroyNext
  PROVE  LocatorInv'
<1>1. /\ down /\ startOrder # <<>> /\ startOrder \in Seq(Services)
      /\ UNCHANGED <<factories, pending, frames, thrown, down, crossed>>
  BY DEF Locator!DestroyNext, LocatorInv, LocatorTypes
<1>2. active' = active \ {Last(startOrder)} /\ dying' = {Last(startOrder)}
      /\ startOrder' = Front(startOrder)
  BY DEF Locator!DestroyNext, Locator!Last, Last, Locator!Front, Front
<1>3. PICK m \in Nat : m = Len(startOrder)
  BY <1>1, LenProperties
<1>4. /\ m \in 1 .. m /\ Last(startOrder) = startOrder[m] /\ startOrder[m] \in Services
      /\ startOrder' \in Seq(Services) /\ Len(startOrder') = m - 1
      /\ \A i \in 1 .. m - 1 : startOrder'[i] = startOrder[i]
  BY <1>1, <1>2, <1>3, FrontElements
<1>5. \A t \in Callers : frames[t] = <<>> /\ Len(frames[t]) = 0 /\ ~ Locator!Starting(t)
  BY <1>1, CallFacts DEF LocatorInv, NobodyLeft, Locator!Starting
<1>6. LocatorTypes'
  BY <1>1, <1>2, <1>4 DEF LocatorInv, LocatorTypes
<1>7. CallsOK'
  <2>1. \A i \in 1 .. 0 : FALSE
    OBVIOUS
  <2>2. \A i \in 1 .. 0 - 1 : FALSE
    OBVIOUS
  <2> QED BY <1>1, <1>5, <2>1, <2>2 DEF CallsOK, CallsOf
<1>8. PendingOK'
  <2>1. \A t \in Callers : ~ Locator!Starting(t)'
    BY <1>1, <1>5 DEF Locator!Starting
  <2>2. ~ crossed => pending = <<>>
    BY <1>5 DEF LocatorInv, PendingOK
  <2> QED BY <1>1, <2>1, <2>2 DEF PendingOK
<1>9. CircleFound' /\ NobodyLeft'
  BY <1>1, <1>5 DEF CircleFound, FoundCircle, NobodyLeft
<1>a. StartedOrder'
  <2>1. \A i \in 1 .. m : \A k \in 1 .. Len(Deps[startOrder[i]]) :
          \E j \in 1 .. i - 1 : startOrder[j] = Deps[startOrder[i]][k]
    BY <1>3 DEF LocatorInv, StartedOK, StartedOrder
  <2>2. \A i \in 1 .. m - 1 : i \in 1 .. m
    OBVIOUS
  <2>3. ASSUME NEW i \in 1 .. m - 1, NEW k \in 1 .. Len(Deps[startOrder'[i]])
        PROVE  \E j \in 1 .. i - 1 : startOrder'[j] = Deps[startOrder'[i]][k]
    <3>1. PICK j \in 1 .. i - 1 : startOrder[j] = Deps[startOrder[i]][k]
      BY <1>4, <2>1, <2>2
    <3>2. j \in 1 .. m - 1
      OBVIOUS
    <3> QED BY <1>4, <3>1, <3>2
  <2> QED BY <1>1, <1>4, <2>3 DEF StartedOrder
<1>10. StartedOnce'
  <2> SUFFICES ASSUME ~ crossed' PROVE StartedOnce'
    BY DEF StartedOnce
  <2>1. /\ \A i \in 1 .. m : startOrder[i] \in active
        /\ \A x \in active : \E i \in 1 .. m : startOrder[i] = x
        /\ \A i, j \in 1 .. m : startOrder[i] = startOrder[j] => i = j
        /\ \A i \in 1 .. m : \A k \in 1 .. Len(Deps[startOrder[i]]) :
             \E j \in 1 .. i - 1 : startOrder[j] = Deps[startOrder[i]][k]
    BY <1>1, <1>3 DEF LocatorInv, StartedOK, StartedOrder, StartedOnce
  <2>2. \A i \in 1 .. m - 1 : i \in 1 .. m /\ i # m
    OBVIOUS
  <2>3. \A i \in 1 .. m : i \in 1 .. m - 1 \/ i = m
    OBVIOUS
  <2>4. \A i \in 1 .. m - 1 : startOrder'[i] \in active'
    BY <1>2, <1>4, <2>1, <2>2
  <2>5. ASSUME NEW x \in active' PROVE \E i \in 1 .. m - 1 : startOrder'[i] = x
    <3>1. PICK i \in 1 .. m : startOrder[i] = x
      BY <1>2, <2>1
    <3>2. i \in 1 .. m - 1
      BY <1>2, <1>4, <2>3, <3>1
    <3> QED BY <1>4, <3>1, <3>2
  <2>6. \A i, j \in 1 .. m - 1 : startOrder'[i] = startOrder'[j] => i = j
    BY <1>4, <2>1, <2>2
  <2>8. ASSUME NEW s \in dying'
        PROVE  s \notin active' /\ Locator!ToSet(Deps[s]) \subseteq active'
    <3>1. s = startOrder[m] /\ s \in Services
      BY <1>2, <1>4, <2>8
    <3> SUFFICES ASSUME NEW x \in Locator!ToSet(Deps[s]) PROVE x \in active'
      BY <1>2, <1>4, <3>1
    <3>2. PICK k \in 1 .. Len(Deps[s]) : x = Deps[s][k]
      BY <3>1, DepsOf
    <3>3. PICK j \in 1 .. m - 1 : startOrder[j] = x
      BY <1>4, <2>1, <3>1, <3>2
    <3> QED BY <1>4, <2>4, <3>3
  <2> QED BY <1>4, <2>4, <2>5, <2>6, <2>8 DEF StartedOnce
<1> QED BY <1>6, <1>7, <1>8, <1>9, <1>a, <1>10 DEF LocatorInv, StartedOK

LEMMA DestroyedInv ==
  ASSUME LocatorInv, Locator!Destroyed
  PROVE  LocatorInv'
<1>1. dying' = {} /\ UNCHANGED <<active, factories, startOrder, pending, frames, thrown, down, crossed>>
  BY DEF Locator!Destroyed
<1>2. LocatorTypes'
  BY <1>1 DEF LocatorInv, LocatorTypes
<1>3. CallsOK'
  BY <1>1 DEF LocatorInv, CallsOK, CallsOf
<1>4. PendingOK'
  BY <1>1 DEF LocatorInv, PendingOK, PendingOf, Locator!Starting
<1>5. CircleFound' /\ NobodyLeft'
  BY <1>1 DEF LocatorInv, CircleFound, FoundCircle, Locator!Starting, NobodyLeft
<1>6. StartedOK'
  <2>1. StartedOrder /\ StartedOnce
    BY DEF LocatorInv, StartedOK
  <2>2. StartedOrder' /\ StartedOnce'
    BY <1>1, <2>1 DEF StartedOrder, StartedOnce
  <2> QED BY <2>2 DEF StartedOK
<1> QED BY <1>2, <1>3, <1>4, <1>5, <1>6 DEF LocatorInv

LEMMA LocatorStep ==
  ASSUME LocatorInv, Locator!Next \/ UNCHANGED locatorVars
  PROVE  LocatorInv'
<1>1. ASSUME NEW s \in Services, Locator!Register(s) PROVE LocatorInv'
  BY <1>1, RegisterInv
<1>2. ASSUME NEW s \in Services, NEW t \in Callers, Locator!Request(t, s) PROVE LocatorInv'
  BY <1>2, RequestInv
<1>3. ASSUME NEW t \in Callers, Locator!Steps(t) PROVE LocatorInv'
  BY <1>3, FindInv, StartInv, DependInv, ConstructedInv, FactoryFailsInv, UnwindInv
     DEF Locator!Steps
<1>4. CASE Locator!Shutdown \/ Locator!DestroyNext \/ Locator!Destroyed
  BY <1>4, ShutdownInv, DestroyNextInv, DestroyedInv
<1>5. CASE UNCHANGED locatorVars
  <2>1. UNCHANGED <<active, factories, startOrder, pending, frames, thrown, dying, down, crossed>>
    BY <1>5 DEF locatorVars
  <2>2. LocatorTypes'
    BY <2>1 DEF LocatorInv, LocatorTypes
  <2>3. CallsOK'
    BY <2>1 DEF LocatorInv, CallsOK, CallsOf
  <2>4. PendingOK'
    BY <2>1 DEF LocatorInv, PendingOK, PendingOf, Locator!Starting
  <2>5. CircleFound' /\ NobodyLeft'
    BY <2>1 DEF LocatorInv, CircleFound, FoundCircle, Locator!Starting, NobodyLeft
  <2>6. StartedOK'
    BY <2>1, StartedKept DEF Started
  <2> QED BY <2>2, <2>3, <2>4, <2>5, <2>6 DEF LocatorInv
<1> QED BY <1>1, <1>2, <1>3, <1>4, <1>5 DEF Locator!Next

LEMMA AnyLocatorStep ==
  ASSUME [AnyNext]_allVars
  PROVE  Locator!Next \/ UNCHANGED locatorVars
BY DEF AnyNext, InLock, InFiles, InLocator, InMessaging, InRing, InWork, allVars, smallVars

\* Whatever depends on whatever, whichever factories fail and however many threads ask
\* for services: a service is started after what it needs (service_locator.cpp); and as
\* long as no call looks at pending_services while another thread starts a service, it is
\* started once, destroyed before what it needs, and a request fails as circular only when
\* the service needs itself.
THEOREM ServicesStartSoundly == AnySpec => []StartsSound
<1>1. AnyInit => LocatorInv
  BY LocatorInit DEF AnyInit
<1>2. LocatorInv /\ [AnyNext]_allVars => LocatorInv'
  BY AnyLocatorStep, LocatorStep
<1>3. LocatorInv => StartsSound
  BY StartsSoundFollows DEF StartsSound
<1> QED BY <1>1, <1>2, <1>3, PTL DEF AnySpec

-----------------------------------------------------------------------------
(* The lock                                                                *)

\* What the locals of a thread tell: it spins while it may, and it announces
\* itself on a lock it saw taken.
LocalsOK ==
  \A t \in Threads :
    /\ pc[t] = "spin" => spin_count[t] < MAX_SPIN_COUNT
    /\ pc[t] = "announce" => expected[t] # 0

LockInv == TypeOK /\ LocalsOK /\ Exclusion /\ SleepersCounted

LEMMA LockInit == Init => LockInv
  BY SpinAssumption, CallsAssumption
  DEF Init, LockInv, TypeOK, LocalsOK, Exclusion, SleepersCounted, Asleep

LEMMA LockTypes == TypeOK /\ LocalsOK /\ [Next]_vars => TypeOK' /\ LocalsOK'
<1> USE SpinAssumption, CallsAssumption DEF TypeOK, LocalsOK, Goto, Call
<1> SUFFICES ASSUME TypeOK, LocalsOK, [Next]_vars PROVE TypeOK' /\ LocalsOK'
    OBVIOUS
<1>1. CASE UNCHANGED vars
      BY <1>1 DEF vars
<1>2. ASSUME NEW t \in Threads, Lock(t) \/ TryLock(t)
      PROVE  TypeOK' /\ LocalsOK'
      BY <1>2 DEF Lock, TryLock
<1>3. ASSUME NEW t \in Threads, Spin(t)
      PROVE  TypeOK' /\ LocalsOK'
      BY <1>3 DEF Spin
<1>4. ASSUME NEW t \in Threads, Announce(t) \/ Retry(t)
      PROVE  TypeOK' /\ LocalsOK'
      BY <1>4 DEF Announce, Retry
<1>5. ASSUME NEW t \in Threads, Wait(t) \/ Spurious(t) \/ Unlock(t)
      PROVE  TypeOK' /\ LocalsOK'
      BY <1>5 DEF Wait, Spurious, Unlock
<1>6. ASSUME NEW t \in Threads, WakeSingle(t)
      PROVE  TypeOK' /\ LocalsOK'
      BY <1>6 DEF WakeSingle, Asleep
<1>7. QED BY <1>1, <1>2, <1>3, <1>4, <1>5, <1>6 DEF Next, Steps

\* The word and the holders change together.
LEMMA ExclusionStep == TypeOK /\ LocalsOK /\ Exclusion /\ [Next]_vars => Exclusion'
<1> USE DEF TypeOK, Exclusion, Goto, Call
<1> SUFFICES ASSUME TypeOK, LocalsOK, Exclusion, [Next]_vars PROVE Exclusion'
    OBVIOUS
<1>1. CASE UNCHANGED vars
      BY <1>1 DEF vars
<1>2. ASSUME NEW t \in Threads, Lock(t) \/ TryLock(t) \/ Spin(t) \/ Retry(t)
      PROVE  Exclusion'
      BY <1>2 DEF Lock, TryLock, Spin, Retry
<1>3. ASSUME NEW t \in Threads, Announce(t) \/ Wait(t) \/ Spurious(t)
      PROVE  Exclusion'
      BY <1>3 DEF Announce, Wait, Spurious, LocalsOK
<1>4. ASSUME NEW t \in Threads, Unlock(t)
      PROVE  Exclusion'
      BY <1>4 DEF Unlock
<1>5. ASSUME NEW t \in Threads, WakeSingle(t)
      PROVE  Exclusion'
      BY <1>5 DEF WakeSingle, Asleep
<1>6. QED BY <1>1, <1>2, <1>3, <1>4, <1>5 DEF Next, Steps

\* A sleeping thread is remembered by the word, or by a thread that will wake
\* one or mark the word before it sleeps itself.
LEMMA SleepersStep == TypeOK /\ Exclusion /\ SleepersCounted /\ [Next]_vars => SleepersCounted'
<1> USE DEF TypeOK, SleepersCounted, Asleep, Goto, Call
<1> SUFFICES ASSUME TypeOK, Exclusion, SleepersCounted, [Next]_vars PROVE SleepersCounted'
    OBVIOUS
<1>1. CASE UNCHANGED vars
      BY <1>1 DEF vars
<1>2. ASSUME NEW t \in Threads, Lock(t) \/ TryLock(t) \/ Spin(t)
      PROVE  SleepersCounted'
      BY <1>2 DEF Lock, TryLock, Spin
<1>3. ASSUME NEW t \in Threads, Announce(t) \/ Wait(t) \/ Spurious(t)
      PROVE  SleepersCounted'
      BY <1>3 DEF Announce, Wait, Spurious
<1>4. ASSUME NEW t \in Threads, Retry(t)
      PROVE  SleepersCounted'
      BY <1>4 DEF Retry
<1>5. ASSUME NEW t \in Threads, Unlock(t)
      PROVE  SleepersCounted'
      BY <1>5 DEF Unlock
<1>6. ASSUME NEW t \in Threads, WakeSingle(t)
      PROVE  SleepersCounted'
      BY <1>6 DEF WakeSingle
<1>7. QED BY <1>1, <1>2, <1>3, <1>4, <1>5, <1>6 DEF Next, Steps

LEMMA LockStep == LockInv /\ [Next]_vars => LockInv'
  BY LockTypes, ExclusionStep, SleepersStep DEF LockInv

LEMMA LockInvariance == Spec => []LockInv
<1> QED BY LockInit, LockStep, PTL DEF Spec

\* The word and the locals of every thread keep their types; a thread never
\* spins more than MAX_SPIN_COUNT turns.
THEOREM TypeCorrect == Spec => []TypeOK
<1>1. LockInv => TypeOK BY DEF LockInv
<1> QED BY LockInvariance, <1>1, PTL

\* At most one thread is between lock or try_lock and unlock, and the word is 0
\* exactly when there is none, for any number of threads and calls.
THEOREM MutualExclusion == Spec => []Exclusion
<1>1. LockInv => Exclusion BY DEF LockInv
<1> QED BY LockInvariance, <1>1, PTL

\* No thread sleeps on a word that does not say so unless another thread is
\* about to wake somebody or to mark the word: no wake-up is lost.
THEOREM NoLostWakeUp == Spec => []SleepersCounted
<1>1. LockInv => SleepersCounted BY DEF LockInv
<1> QED BY LockInvariance, <1>1, PTL
=============================================================================
