----------------------------- MODULE LandService -----------------------------
(***************************************************************************)
(* The land service (land/land_service.cpp) on one column of the world.    *)
(* Its own thread ticks: it handles its inbox, applies what the finished   *)
(* jobs invalidated, enqueues generation tasks for the ticketed keys and   *)
(* forgets keys nobody referenced for a while.  The tasks run on the task  *)
(* service's threads in any order their waits allow and report by message. *)
(* Ticket owners and block editors only send messages.                     *)
(*                                                                         *)
(* Ticks are counted relatively: age is the ticks since the last reference *)
(* to a key and lru[k] the ticks until its cleanup visit.  The data of a   *)
(* chunk is the number of the last edit applied to it, 0 when generated;   *)
(* that of a pseudo-chunk or surface is what it was made of.  Objects are  *)
(* named by the counter of the task that creates their contents, 0 is the  *)
(* null pointer.  The global map task that generation waits for is not     *)
(* told apart from a generation task that is late.                         *)
(***************************************************************************)
EXTENDS LandKeys, Sequences, FiniteSetsExt, Functions

CONSTANTS Clients,        \* owners of at most one ticket each
          Areas,          \* areas they ask for
          EditKeys,       \* chunks that get edited
          StaleAge,       \* STALE_CHUNK_AGE_THRESHOLD
          KeysPerTick,    \* KEYS_PER_TICK
          VisitsPerTick,  \* keys visited per tick for cleanup
          MaxCalls,       \* bound on ticket requests, adjustments, drops and edits
          MaxTicks        \* bound on ticks

ASSUME LandServiceAssumption ==
    /\ StaleAge \in Nat \ {0} /\ KeysPerTick \in Nat \ {0} /\ VisitsPerTick \in Nat \ {0}
    /\ MaxCalls \in Nat /\ MaxTicks \in Nat
    /\ EditKeys \subseteq {k \in Keys : k.lod = 0}

VARIABLES
    phase,       \* where the service's thread is
    work,        \* metastates, cleanup order, unfinished tasks, next counter
    dataInv,     \* m_this_tick_pseudo_data_invalidations
    surfaceInv,  \* m_this_tick_pseudo_surface_invalidations
    keysToUpdate,\* m_keys_to_update
    tickets,     \* m_chunk_tickets
    chunks,      \* chunk_table: the object stored for a key
    surfaces,    \* pseudo_chunk_surface_table
    contents,    \* contents of the objects some pointer refers to
    inbox,       \* the service's message queue
    client,      \* ticket of each client
    calls        \* number of edits, of all calls and of ticks so far

vars == <<phase, work, dataInv, surfaceInv, keysToUpdate, tickets, chunks, surfaces,
          contents, inbox, client, calls>>

service == <<phase, work, dataInv, surfaceInv, keysToUpdate, tickets, chunks, surfaces>>

\* The function that maps k to v and is f elsewhere.
Put(f, k, v) == [x \in DOMAIN f \cup {k} |-> IF x = k THEN v ELSE f[x]]

-----------------------------------------------------------------------------
(* Metastates and tasks: operators from one value of work to the next.     *)

NewMeta(age) == [age |-> age, pending |-> 0,
            chunkInv |-> TRUE, dataInv |-> TRUE, surfaceInv |-> TRUE, virgin |-> TRUE,
            chunkCounter |-> 0, dataCounter |-> 0, surfaceCounter |-> 0,
            chunkPtr |-> 0, dataPtr |-> 0]

\* A reference to k: its metastate is created and registered for cleanup when
\* there is none.
Touch(k, w) ==
    IF k \in DOMAIN w.meta
    THEN [w EXCEPT !.meta[k].age = 0]
    ELSE [w EXCEPT !.meta = Put(@, k, NewMeta(0)),
                   !.lru = Put(@, k, StaleAge)]

\* pending_task_count is a bit field of 8 bits.
AddPending(k, n, w) == [w EXCEPT !.meta[k].pending = (@ + n) % 256]

\* The counter and the pointer of k's data that its users depend on.
DataCounter(k, w) == IF k.lod = 0 THEN w.meta[k].chunkCounter ELSE w.meta[k].dataCounter
DataPtr(k, w)     == IF k.lod = 0 THEN w.meta[k].chunkPtr ELSE w.meta[k].dataPtr

\* A task waits for those of the counters that are not complete yet.
EnqueueTask(kind, k, ptr, edit, waits, reads, w) ==
    LET task == [kind |-> kind, key |-> k, ptr |-> ptr, edit |-> edit,
                 waits |-> {c \in DOMAIN w.tasks : c \in waits},
                 reads |-> [d \in reads |-> DataPtr(d, w)]]
    IN  AddPending(k, 1, [w EXCEPT !.tasks = Put(@, w.next, task), !.next = @ + 1])

EnqueueChunkDataGen(k, w) ==
    LET m == w.meta[k]
        cleared == [w EXCEPT !.meta[k].chunkInv = FALSE]
    IN  IF ~m.chunkInv \/ m.chunkCounter > 0
        THEN cleared
        ELSE EnqueueTask("chunk", k, w.next, 0, {}, {},
                         [cleared EXCEPT !.meta[k].chunkPtr = w.next,
                                         !.meta[k].chunkCounter = w.next])

\* Whether a result of k last produced under the given counter is older than
\* the data of one of its sources.
Outdated(counter, sources, w) == \E d \in sources : counter <= DataCounter(d, w)

DirectlyGenerated(k, m) == k.lod \in 2..MaxGeneratableLod /\ m.virgin

RECURSIVE EnqueuePseudoDataGen(_, _)
EnqueuePseudoDataGen(k, w) ==
    LET m == w.meta[k]
        cleared == [w EXCEPT !.meta[k].dataInv = FALSE]
        Source(d, v) == IF d.lod = 0 THEN EnqueueChunkDataGen(d, Touch(d, v))
                                     ELSE EnqueuePseudoDataGen(d, Touch(d, v))
        prepared == FoldSet(Source, cleared, DataSources(k))
        Launch(kind, waits, reads, v) ==
            EnqueueTask(kind, k, v.next, 0, waits \cup {m.dataCounter}, reads,
                        [v EXCEPT !.meta[k].dataPtr = v.next, !.meta[k].dataCounter = v.next])
    IN  CASE ~m.dataInv -> w
          [] m.dataInv /\ k.lod = 0 -> cleared
          [] m.dataInv /\ DirectlyGenerated(k, m) ->
               IF m.dataPtr # 0 THEN cleared ELSE Launch("direct", {}, {}, cleared)
          [] OTHER ->
               IF Outdated(m.dataCounter, DataSources(k), prepared)
               THEN Launch("data", {DataCounter(d, prepared) : d \in DataSources(k)},
                           DataSources(k), prepared)
               ELSE prepared

EnqueueData(k, w) == IF k.lod = 0 THEN EnqueueChunkDataGen(k, w) ELSE EnqueuePseudoDataGen(k, w)

\* A surface waits for the one before it and for the data around it.
\* (mutant) The data around it is not waited for.
SurfaceWaitsOwn(k, sources, w) == {w.meta[k].surfaceCounter}
\* (mutant) The surface before it is not waited for.
SurfaceWaitsUnordered(k, sources, w) == {DataCounter(d, w) : d \in sources}
SurfaceWaits(k, sources, w) ==
    {w.meta[k].surfaceCounter} \cup {DataCounter(d, w) : d \in sources}

EnqueuePseudoSurfaceGen(k, w) ==
    LET m == w.meta[k]
        cleared == [w EXCEPT !.meta[k].surfaceInv = FALSE]
        Source(d, v) == EnqueueData(d, Touch(d, v))
        prepared == FoldSet(Source, EnqueueData(k, cleared), SurfaceSources(k))
        sources == {k} \cup SurfaceSources(k)
    IN  CASE ~m.surfaceInv -> w
          [] m.surfaceInv /\ Outdated(m.surfaceCounter, sources, prepared) ->
               EnqueueTask("surface", k, 0, 0, SurfaceWaits(k, sources, prepared), sources,
                           [prepared EXCEPT !.meta[k].surfaceCounter = prepared.next])
          [] OTHER -> prepared

TickChunkKey(k, w) ==
    LET touched == Touch(k, w)
    IN  EnqueuePseudoSurfaceGen(k, IF k.lod = 0 THEN EnqueueChunkDataGen(k, touched)
                                                ELSE touched)

EnqueueEdit(k, n, w) ==
    LET loaded == EnqueueChunkDataGen(k, Touch(k, w))
        edited == EnqueueTask("edit", k, loaded.meta[k].chunkPtr, n,
                              {loaded.meta[k].chunkCounter}, {},
                              [loaded EXCEPT !.meta[k].chunkCounter = loaded.next,
                                             !.meta[k].surfaceInv = TRUE])
    IN  EnqueuePseudoSurfaceGen(k, edited)

-----------------------------------------------------------------------------
(* Cleanup of stale keys.                                                   *)

\* Order of the packed 64-bit keys on the column.
Packed(k) == (k.y % 65536) * 16 + k.lod

Least(S, Rank(_)) == CHOOSE x \in S : \A y \in S : Rank(x) <= Rank(y)

Oldest(w) ==
    LET due == {k \in DOMAIN w.lru : \A j \in DOMAIN w.lru : w.lru[k] <= w.lru[j]}
    IN  Least(due, Packed)

\* Ticks until a visited key is visited again, 0 to forget it.  A stale key with
\* pending work stays at its place.
\* (mutant) A stale key is forgotten with its work pending.
NextVisitHasty(m) == IF m.age < StaleAge THEN StaleAge - m.age ELSE 0
NextVisit(m) ==
    IF m.age < StaleAge THEN StaleAge - m.age
    ELSE IF m.pending > 0 THEN 1
    ELSE 0

\* One callback of visitOldest.
VisitOldest(i, w) ==
    IF DOMAIN w.lru = {} \/ w.lru[Oldest(w)] > 0 THEN w
    ELSE LET k == Oldest(w)
             forgotten == [w EXCEPT !.lru = Restrict(@, DOMAIN @ \ {k})]
         IN  IF k \notin DOMAIN w.meta THEN forgotten
             ELSE IF NextVisit(w.meta[k]) > 0 THEN [w EXCEPT !.lru[k] = NextVisit(w.meta[k])]
             ELSE [forgotten EXCEPT !.meta = Restrict(@, DOMAIN @ \ {k})]

-----------------------------------------------------------------------------
(* Messages.                                                                *)

TicketRequest(c, a)  == [kind |-> "ticket", client |-> c, area |-> a]
TicketAdjust(id, a)  == [kind |-> "adjust", id |-> id, area |-> a]
TicketRemove(id)     == [kind |-> "remove", id |-> id]
BlockEdit(k, n)      == [kind |-> "edit", key |-> k, edit |-> n]
ChunkLoaded(k, ptr)  == [kind |-> "chunkDone", key |-> k, ptr |-> ptr]
DataDone(k)          == [kind |-> "dataDone", key |-> k]
SurfaceDone(k, c, v) == [kind |-> "surfaceDone", key |-> k, counter |-> c, made |-> v]

CompletionKinds == {"chunkDone", "dataDone", "surfaceDone"}

\* Only objects that a metastate, a table or an unfinished task points to.
Live(w, table, objects) ==
    LET used == UNION {{w.meta[k].chunkPtr, w.meta[k].dataPtr} : k \in DOMAIN w.meta}
                \cup UNION {{w.tasks[c].ptr} \cup Range(w.tasks[c].reads) : c \in DOMAIN w.tasks}
                \cup Range(table)
    IN  Restrict(objects, DOMAIN objects \cap used)

-----------------------------------------------------------------------------
(* The clients.                                                             *)

\* Messages to a service that is gone are dropped.
Send(msg) == inbox' = IF phase = "destroyed" THEN inbox ELSE Append(inbox, msg)

NoTicket == [st |-> "none", id |-> 0]

Init ==
    /\ phase = "idle"
    /\ work = [meta |-> << >>, lru |-> << >>, tasks |-> << >>, next |-> 1]
    /\ dataInv = {} /\ surfaceInv = {} /\ keysToUpdate = {}
    /\ tickets = << >> /\ chunks = << >> /\ surfaces = << >> /\ contents = << >>
    /\ inbox = << >>
    /\ client = [c \in Clients |-> NoTicket]
    /\ calls = [edits |-> 0, all |-> 0, ticks |-> 0]

CallTicket == calls.all < MaxCalls /\ calls' = [calls EXCEPT !.all = @ + 1]

RequestTicket(c, a) ==
    /\ client[c].st = "none" /\ CallTicket
    /\ Send(TicketRequest(c, a))
    /\ client' = [client EXCEPT ![c].st = "asked"]
    /\ UNCHANGED <<service, contents>>

\* A ticket sends through the service's own sender, so it is used only while
\* the service exists.
AdjustTicket(c, a) ==
    /\ client[c].st = "held" /\ phase # "destroyed" /\ CallTicket
    /\ Send(TicketAdjust(client[c].id, a))
    /\ UNCHANGED <<service, contents, client>>

\* ~ChunkTicket
DropTicket(c) ==
    /\ client[c].st = "held" /\ phase # "destroyed" /\ CallTicket
    /\ Send(TicketRemove(client[c].id))
    /\ client' = [client EXCEPT ![c] = NoTicket]
    /\ UNCHANGED <<service, contents>>

EditBlock(k) ==
    /\ calls.all < MaxCalls
    /\ calls' = [calls EXCEPT !.all = @ + 1, !.edits = @ + 1]
    /\ Send(BlockEdit(k, calls.edits + 1))
    /\ UNCHANGED <<service, contents, client>>

-----------------------------------------------------------------------------
(* The tasks, run by the task service's threads.                            *)

Runnable(c) == c \in DOMAIN work.tasks /\ work.tasks[c].waits = {}

\* Values of what task c reads, as the objects are when it runs.
Read(c) == [d \in DOMAIN work.tasks[c].reads |-> contents[work.tasks[c].reads[d]]]

FinishTask(c, objects) ==
    LET left == DOMAIN work.tasks \ {c}
        rest == [work EXCEPT !.tasks =
                    [e \in left |-> [work.tasks[e] EXCEPT !.waits = @ \ {c}]]]
    IN  /\ work' = rest
        /\ contents' = Live(rest, chunks, objects)
        /\ UNCHANGED <<phase, dataInv, surfaceInv, keysToUpdate, tickets, chunks, surfaces,
                       client, calls>>

RunChunkGen(c) ==
    /\ Runnable(c) /\ work.tasks[c].kind = "chunk"
    /\ Send(ChunkLoaded(work.tasks[c].key, work.tasks[c].ptr))
    /\ FinishTask(c, Put(contents, work.tasks[c].ptr, 0))

\* The edit changes the chunk in place, or finds the block as wanted.
RunEdit(c) ==
    /\ Runnable(c) /\ work.tasks[c].kind = "edit"
    /\ Send(ChunkLoaded(work.tasks[c].key, 0))
    /\ FinishTask(c, [contents EXCEPT ![work.tasks[c].ptr] = work.tasks[c].edit])

RunUnneededEdit(c) ==
    /\ Runnable(c) /\ work.tasks[c].kind = "edit"
    /\ FinishTask(c, contents)
    /\ UNCHANGED inbox

RunPseudoDataGen(c) ==
    /\ Runnable(c) /\ work.tasks[c].kind \in {"data", "direct"}
    /\ Send(DataDone(work.tasks[c].key))
    /\ FinishTask(c, Put(contents, work.tasks[c].ptr, Read(c)))

RunSurfaceGen(c) ==
    /\ Runnable(c) /\ work.tasks[c].kind = "surface"
    /\ Send(SurfaceDone(work.tasks[c].key, c, Read(c)))
    /\ FinishTask(c, contents)

-----------------------------------------------------------------------------
(* The service's thread: message handlers.                                  *)

Receive(kind) == phase \in {"poll", "lastPoll"} /\ inbox # << >> /\ Head(inbox).kind = kind
Received == inbox' = Tail(inbox)

\* Whoever owned an object last releases it when the service lets go of it.
SetWork(w, table) ==
    /\ work' = w
    /\ chunks' = table
    /\ contents' = Live(w, table, contents)

\* A free slot is taken again, the first one of them.
FreeSlots == {i \in DOMAIN tickets : ~tickets[i].valid}
NewTicketId == IF FreeSlots = {} THEN Len(tickets) + 1 ELSE Min(FreeSlots)

HandleChunkTicketRequest ==
    /\ Receive("ticket") /\ Received
    /\ LET msg == Head(inbox) IN
       IF ValidArea(msg.area)
       THEN /\ tickets' = Put(tickets, NewTicketId, [area |-> msg.area, valid |-> TRUE])
            /\ client' = [client EXCEPT ![msg.client] = [st |-> "held", id |-> NewTicketId]]
       ELSE /\ client' = [client EXCEPT ![msg.client] = NoTicket]
            /\ UNCHANGED tickets
    /\ UNCHANGED <<phase, work, dataInv, surfaceInv, keysToUpdate, chunks, surfaces, contents, calls>>

HandleChunkTicketAdjust ==
    /\ Receive("adjust") /\ Received
    /\ tickets' = IF ValidArea(Head(inbox).area)
                  THEN [tickets EXCEPT ![Head(inbox).id].area = Head(inbox).area]
                  ELSE tickets
    /\ UNCHANGED <<phase, work, dataInv, surfaceInv, keysToUpdate, chunks, surfaces, contents,
                   client, calls>>

HandleChunkTicketRemove ==
    /\ Receive("remove") /\ Received
    /\ tickets' = [tickets EXCEPT ![Head(inbox).id].valid = FALSE]
    /\ UNCHANGED <<phase, work, dataInv, surfaceInv, keysToUpdate, chunks, surfaces, contents,
                   client, calls>>

HandleBlockEditMessage ==
    /\ Receive("edit") /\ Received
    /\ SetWork(EnqueueEdit(Head(inbox).key, Head(inbox).edit, work), chunks)
    /\ UNCHANGED <<phase, dataInv, surfaceInv, keysToUpdate, tickets, surfaces, client, calls>>

\* m_metastate[key]: creates a metastate, unknown to the cleanup, when there
\* is none.
Completed(k) ==
    AddPending(k, 255, IF k \in DOMAIN work.meta THEN work
                       ELSE [work EXCEPT !.meta = Put(@, k, NewMeta(StaleAge))])

HandleChunkLoadCompletion ==
    /\ Receive("chunkDone") /\ Received
    /\ LET k == Head(inbox).key IN
       /\ SetWork([Completed(k) EXCEPT !.meta[k].surfaceInv = TRUE],
                  Put(chunks, k, Head(inbox).ptr))
       /\ surfaceInv' = surfaceInv \cup SurfaceDependents(k)
       /\ dataInv' = dataInv \cup DataDependents(k)
    /\ UNCHANGED <<phase, keysToUpdate, tickets, surfaces, client, calls>>

HandlePseudoDataGenCompletion ==
    /\ Receive("dataDone") /\ Received
    /\ LET k == Head(inbox).key IN
       /\ SetWork([Completed(k) EXCEPT !.meta[k].surfaceInv = TRUE], chunks)
       /\ surfaceInv' = surfaceInv \cup SurfaceDependents(k)
       /\ dataInv' = dataInv \cup DataDependents(k)
    /\ UNCHANGED <<phase, keysToUpdate, tickets, surfaces, client, calls>>

HandlePseudoSurfaceGenCompletion ==
    /\ Receive("surfaceDone") /\ Received
    /\ LET msg == Head(inbox) IN
       /\ SetWork(Completed(msg.key), chunks)
       /\ surfaces' = Put(surfaces, msg.key, [counter |-> msg.counter, made |-> msg.made])
    /\ UNCHANGED <<phase, dataInv, surfaceInv, keysToUpdate, tickets, client, calls>>

-----------------------------------------------------------------------------
(* The service's thread: the tick and the destructor.                       *)

\* m_tick_id grows by one.
BeginTick ==
    /\ phase = "idle" /\ calls.ticks < MaxTicks
    /\ calls' = [calls EXCEPT !.ticks = @ + 1]
    /\ phase' = "poll"
    /\ work' = [work EXCEPT !.meta = [k \in DOMAIN @ |->
                                [@[k] EXCEPT !.age = IF @ < StaleAge THEN @ + 1 ELSE @]],
                            !.lru = [k \in DOMAIN @ |-> @[k] - 1]]
    /\ UNCHANGED <<dataInv, surfaceInv, keysToUpdate, tickets, chunks, surfaces, contents,
                   inbox, client>>

Invalidate(w) ==
    [w EXCEPT !.meta = [k \in DOMAIN @ |->
        [@[k] EXCEPT !.dataInv = @ \/ k \in dataInv,
                     !.virgin = @ /\ k \notin dataInv,
                     !.surfaceInv = @ \/ k \in surfaceInv]]]

TicketedKeys == UNION {AreaKeys(tickets[i].area) : i \in {j \in DOMAIN tickets : tickets[j].valid}}

\* The last keys of the sorted list are visited first.
RECURSIVE TickKeys(_, _, _)
TickKeys(keys, n, w) ==
    IF n = 0 \/ keys = {} THEN [left |-> keys, work |-> w]
    ELSE LET k == Least(keys, LAMBDA j : -Packed(j))
         IN  TickKeys(keys \ {k}, n - 1, TickChunkKey(k, w))

\* The rest of doTick once the inbox is empty.
FinishTick ==
    /\ phase = "poll" /\ inbox = << >>
    /\ LET keys   == IF keysToUpdate = {} THEN TicketedKeys ELSE keysToUpdate
           ticked == TickKeys(keys, KeysPerTick, Invalidate(work))
           clean  == FoldSet(VisitOldest, ticked.work, 1..VisitsPerTick)
           erased == DOMAIN ticked.work.meta \ DOMAIN clean.meta
       IN  /\ keysToUpdate' = ticked.left
           /\ surfaces' = Restrict(surfaces, DOMAIN surfaces \ erased)
           /\ SetWork(clean, Restrict(chunks, DOMAIN chunks \ erased))
    /\ dataInv' = {} /\ surfaceInv' = {}
    /\ phase' = "idle"
    /\ UNCHANGED <<tickets, inbox, client, calls>>

\* ~LandServiceImpl waits until every counter in a metastate is complete...
BeginDestroy ==
    /\ phase = "idle"
    /\ phase' = "drain"
    /\ UNCHANGED <<work, dataInv, surfaceInv, keysToUpdate, tickets, chunks, surfaces, contents,
                   inbox, client, calls>>

\* (mutant) Surface tasks are not waited for.
KnownCountersNoSurface ==
    UNION {{work.meta[k].chunkCounter, work.meta[k].dataCounter} : k \in DOMAIN work.meta}
KnownCounters ==
    UNION {{work.meta[k].chunkCounter, work.meta[k].dataCounter, work.meta[k].surfaceCounter} :
              k \in DOMAIN work.meta}

Drained ==
    /\ phase = "drain" /\ KnownCounters \cap DOMAIN work.tasks = {}
    /\ phase' = "lastPoll"
    /\ UNCHANGED <<work, dataInv, surfaceInv, keysToUpdate, tickets, chunks, surfaces, contents,
                   inbox, client, calls>>

\* ...then handles what is left in the inbox.
Destroyed ==
    /\ phase = "lastPoll" /\ inbox = << >>
    /\ phase' = "destroyed"
    /\ UNCHANGED <<work, dataInv, surfaceInv, keysToUpdate, tickets, chunks, surfaces, contents,
                   inbox, client, calls>>
-----------------------------------------------------------------------------
Handle ==
    \/ HandleChunkTicketRequest \/ HandleChunkTicketAdjust \/ HandleChunkTicketRemove
    \/ HandleBlockEditMessage \/ HandleChunkLoadCompletion
    \/ HandlePseudoDataGenCompletion \/ HandlePseudoSurfaceGenCompletion

Tick == BeginTick \/ Handle \/ FinishTick

Destroy == BeginDestroy \/ Drained \/ Destroyed

RunTask(c) ==
    RunChunkGen(c) \/ RunEdit(c) \/ RunUnneededEdit(c) \/ RunPseudoDataGen(c) \/ RunSurfaceGen(c)

Client(c) == DropTicket(c) \/ \E a \in Areas : RequestTicket(c, a) \/ AdjustTicket(c, a)

Next ==
    \/ Tick \/ Destroy
    \/ \E c \in DOMAIN work.tasks : RunTask(c)
    \/ \E c \in Clients : Client(c)
    \/ \E k \in EditKeys : EditBlock(k)

Spec == Init /\ [][Next]_vars

-----------------------------------------------------------------------------
(* Properties.                                                              *)

Counters == 0..(work.next - 1)

\* Every variable has its type; what is optional is a partial function.
TypeOK ==
    /\ phase \in {"idle", "poll", "drain", "lastPoll", "destroyed"}
    /\ DOMAIN work.meta \subseteq Keys /\ DOMAIN work.lru \subseteq Keys
    /\ \A k \in DOMAIN work.meta : LET m == work.meta[k] IN
         /\ m.age \in 0..StaleAge /\ m.pending \in 0..255
         /\ {m.chunkInv, m.dataInv, m.surfaceInv, m.virgin} \subseteq BOOLEAN
         /\ {m.chunkCounter, m.dataCounter, m.surfaceCounter, m.chunkPtr, m.dataPtr}
              \subseteq Counters
    /\ \A k \in DOMAIN work.lru : work.lru[k] <= StaleAge
    /\ DOMAIN work.tasks \subseteq Counters \ {0}
    /\ \A c \in DOMAIN work.tasks : LET t == work.tasks[c] IN
         /\ t.kind \in {"chunk", "edit", "data", "direct", "surface"}
         /\ t.waits \subseteq 1..(c - 1) /\ t.ptr \in 0..c
    /\ keysToUpdate \subseteq Keys
    /\ \A i \in DOMAIN tickets : tickets[i].area \in Areas /\ tickets[i].valid \in BOOLEAN
    /\ DOMAIN contents \subseteq Counters \ {0}
    /\ client \in [Clients -> [st : {"none", "asked", "held"}, id : Nat]]

Outstanding(k) ==
    Cardinality({c \in DOMAIN work.tasks : work.tasks[c].key = k})
    + Cardinality({i \in DOMAIN inbox : inbox[i].kind \in CompletionKinds /\ inbox[i].key = k})

\* No result comes back for a key that was forgotten meanwhile: the cleanup
\* knows exactly the keys that have a metastate, every unfinished task and
\* every report waiting in the inbox belongs to one of them and is counted by
\* its pending_task_count (which also counts edits that changed nothing and
\* never report), and nothing stays in the tables for an unknown key.
Tracked ==
    /\ TypeOK
    /\ DOMAIN work.lru = DOMAIN work.meta
    /\ \A k \in Keys : Outstanding(k) > 0 =>
          k \in DOMAIN work.meta /\ Outstanding(k) <= work.meta[k].pending
    /\ DOMAIN chunks \cup DOMAIN surfaces \subseteq DOMAIN work.meta

\* What a task was given by pointer is generated by the time its waits let it
\* run: its reads never see an object no task has filled in.
ReadsGenerated ==
    \A c \in DOMAIN work.tasks : Runnable(c) =>
        /\ Range(work.tasks[c].reads) \subseteq DOMAIN contents
        /\ work.tasks[c].kind = "edit" => work.tasks[c].ptr \in DOMAIN contents

\* Data of d that is about to change, or whose change the service is yet to hear of.
DataOnItsWay(d) ==
    \/ \E c \in DOMAIN work.tasks : work.tasks[c].key = d /\ work.tasks[c].kind # "surface"
    \/ \E i \in DOMAIN inbox : inbox[i].kind \in {"chunkDone", "dataDone"} /\ inbox[i].key = d

SurfaceOnItsWay(k) ==
    \/ \E c \in DOMAIN work.tasks : work.tasks[c].key = k /\ work.tasks[c].kind = "surface"
    \/ \E i \in DOMAIN inbox : inbox[i].kind = "surfaceDone" /\ inbox[i].key = k

\* Generated data of d, a known key, differs from what some result was made of.
Differs(made, d) ==
    /\ d \in DOMAIN work.meta /\ DataPtr(d, work) \in DOMAIN contents
    /\ made[d] # contents[DataPtr(d, work)]

SurfaceUpToDate(k) ==
    k \in DOMAIN surfaces /\ \A d \in {k} \cup SurfaceSources(k) : ~Differs(surfaces[k].made, d)

\* No update is forgotten between the two invalidation paths: a known key's
\* surface is made of the current data around it, or its flag or a queued
\* invalidation, a running task or an unread report will have it made again.
SurfacesRemembered ==
    phase # "destroyed" => \A k \in DOMAIN work.meta :
        \/ SurfaceUpToDate(k)
        \/ work.meta[k].surfaceInv \/ k \in surfaceInv \/ SurfaceOnItsWay(k)
        \/ \E d \in {k} \cup SurfaceSources(k) : DataOnItsWay(d)

\* The same of pseudo-chunk data aggregated from finer data.
DataRemembered ==
    phase # "destroyed" => \A k \in DOMAIN work.meta :
        LET m == work.meta[k] IN
        (k.lod > 0 /\ m.dataPtr \in DOMAIN contents) =>
            \/ \A d \in DOMAIN contents[m.dataPtr] : ~Differs(contents[m.dataPtr], d)
            \/ m.dataInv \/ k \in dataInv
            \/ \E d \in DataSources(k) : DataOnItsWay(d)

Remembered == SurfacesRemembered /\ DataRemembered

\* "This will ensure successive pseudo surface gen tasks complete in order": a
\* surface is never replaced by the one of an earlier task.
SurfacesInOrder ==
    [][\A k \in DOMAIN surfaces \cap DOMAIN surfaces' :
          surfaces[k].counter <= surfaces'[k].counter]_vars

\* A ticket has one owner: ids of two clients differ, a held slot is valid, and
\* a valid slot that nobody holds has its removal in the inbox.
TicketsOwned ==
    /\ \A a, b \in Clients :
          client[a].st = "held" /\ client[b].st = "held" /\ client[a].id = client[b].id => a = b
    /\ \A c \in Clients : client[c].st = "held" => tickets[client[c].id].valid
    /\ phase # "destroyed" => \A i \in DOMAIN tickets : tickets[i].valid =>
          \/ \E c \in Clients : client[c].st = "held" /\ client[c].id = i
          \/ \E j \in DOMAIN inbox : inbox[j].kind = "remove" /\ inbox[j].id = i

\* The service knows its keys, tasks and tickets.
Accounted == Tracked /\ TicketsOwned

\* "Jobs can reference this object, wait for completion before destroying": the
\* counters kept in the metastates, one per kind and key, stand for every task.
DrainedOnDestroy ==
    [][phase = "drain" /\ phase' = "lastPoll" => DOMAIN work.tasks = {}]_vars

\* land_service.cpp:886 "Invalidate pseudo-data of the parent chunk (force
\* reaggregation)": between ticks, data of a ticketed key that its known sources
\* have outgrown is going to be made again, with a flag set that its next tick
\* acts upon or with something of its sources still on the way.
ReaggregationForced ==
    \A k \in TicketedKeys \cap DOMAIN work.meta :
        LET m == work.meta[k] IN
        (phase = "idle" /\ k.lod > 0 /\ m.dataPtr \in DOMAIN contents) =>
            \/ \A d \in DOMAIN contents[m.dataPtr] : ~Differs(contents[m.dataPtr], d)
            \/ m.surfaceInv
            \/ \E d \in DataSources(k) : DataOnItsWay(d)
            \/ \E i \in DOMAIN inbox : inbox[i].kind = "dataDone" /\ inbox[i].key = k
=============================================================================
