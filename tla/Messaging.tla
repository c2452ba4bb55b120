------------------------------ MODULE Messaging ------------------------------
(***************************************************************************)
(* The messaging service (svc/messaging_private.cpp, message_queue.cpp,    *)
(* message_handling.cpp): agents come and go, each with an inbound queue   *)
(* taken from a pool, and send each other plain messages, requests tracked *)
(* by a handle and requests tracked by a completion message.               *)
(*                                                                         *)
(* Every agent is one thread.  A critical section is one step; between the *)
(* lookup of a route and the push to the queue found, and between the      *)
(* steps of completeRequest, any other thread may run.  Which messages an  *)
(* agent has handlers for is left open at every message.                   *)
(***************************************************************************)
EXTENDS Integers, FiniteSets, SequencesExt

CONSTANTS Agents,     \* UIDs with a queue or a sender
          Servers,    \* agents that stay, poll for ever and let no exception out of poll
          Links,      \* who sends to whom
          BatchSize,  \* messages popped at a time
          MaxQueues,  \* bound on inbound queues ever made
          MaxMsgs     \* bound on messages ever sent

\* Checked by the modules that instantiate this one.
MessagingAssumption ==
    /\ Servers \subseteq Agents /\ Links \subseteq Agents \X Agents
    /\ BatchSize \in Nat \ {0} /\ MaxQueues \in Nat \ {0} /\ MaxMsgs \in Nat

VARIABLES
    route,     \* queue of each registered agent, 0 of the others
    queue,     \* the inbound queues made so far: their messages, oldest first
    waitWord,  \* m_wait_word of each queue
    free,      \* m_free_queues
    msgs,      \* headers of the messages sent so far
    pc,        \* where each agent's thread is
    mine,      \* inbound queue the agent's MessageQueue points to, 0 without one
    batch,     \* messages popped and not yet handled
    out,       \* what is left of the agent's send or completeRequest
    req,       \* request the agent holds a handle of, 0 without one
    seen,      \* atomic word a thread waiting on a handle last read
    lost       \* messages of batches abandoned by an exception

vars == <<route, queue, waitWord, free, msgs, pc, mine, batch, out, req, seen, lost>>

queues == <<queue, waitWord>>
local == <<pc, mine, batch, req, seen, lost>>

Queues == 1..Len(queue)
Msgs == 1..Len(msgs)

Requests == {"handle", "completion"}
Nothing == [step |-> "none", msg |-> 0]

\* An agent takes its next step when it is not in the middle of a send.
At(a, place) == pc[a] = place /\ out[a] = Nothing
Goto(a, place) == pc' = [pc EXCEPT ![a] = place]

\* A header that loses n owners; at zero it is freed.
Freed == [refs |-> 0]
Without(header, n) == IF header.refs = n THEN Freed ELSE [header EXCEPT !.refs = @ - n]

Released(ms, m) == [ms EXCEPT ![m] = Without(ms[m], 1)]

\* Each message of the sequence s loses the owners it has there.
ReleasedAll(ms, s) ==
    [m \in DOMAIN ms |->
       LET n == Cardinality({i \in DOMAIN s : s[i] = m})
       IN  IF n = 0 THEN ms[m] ELSE Without(ms[m], n)]

\* The bit fields of the atomic word of a request.
Word(m) == <<msgs[m].refs, msgs[m].waiting, msgs[m].status>>

Init ==
    /\ route = [a \in Agents |-> 0]
    /\ queue = << >> /\ waitWord = << >> /\ free = << >> /\ msgs = << >>
    /\ pc = [a \in Agents |-> "idle"]
    /\ mine = [a \in Agents |-> 0]
    /\ batch = [a \in Agents |-> << >>]
    /\ out = [a \in Agents |-> Nothing]
    /\ req = [a \in Agents |-> 0]
    /\ seen = [a \in Agents |-> << >>]
    /\ lost = {}

-----------------------------------------------------------------------------
(* Agents come and go.                                                      *)

\* The table of routes, sharded by UID; a UID has at most one.
FindRoute(a) == route[a]
AddRoute(a, q) == route[a] = 0 /\ route' = [route EXCEPT ![a] = q]
RemoveRoute(a) == route' = [route EXCEPT ![a] = 0]

\* The last freed queue is taken again before a new one is made.
Register(a) ==
    /\ At(a, "idle") /\ mine[a] = 0
    /\ \/ /\ free # << >>
          /\ AddRoute(a, Last(free))
          /\ free' = Front(free)
          /\ UNCHANGED queues
       \/ /\ free = << >> /\ Len(queue) < MaxQueues
          /\ AddRoute(a, Len(queue) + 1)
          /\ queue' = Append(queue, << >>) /\ waitWord' = Append(waitWord, 0)
          /\ UNCHANGED free
    /\ mine' = [mine EXCEPT ![a] = route'[a]]
    /\ UNCHANGED <<msgs, pc, batch, out, req, seen, lost>>

\* A second registration of a throws; the queue made for it stays in the pool.
RegisterTwice(a) ==
    /\ FindRoute(a) # 0 /\ free = << >> /\ Len(queue) < MaxQueues
    /\ queue' = Append(queue, << >>) /\ waitWord' = Append(waitWord, 0)
    /\ free' = << Len(queue) + 1 >>
    /\ UNCHANGED <<route, msgs, out, local>>

\* unregisterAgent: the route goes first, then the messages, then the queue.
Unregister(a) ==
    /\ At(a, "idle") /\ mine[a] # 0 /\ a \notin Servers
    /\ RemoveRoute(a)
    /\ Goto(a, "clear")
    /\ UNCHANGED <<queue, waitWord, free, msgs, mine, batch, out, req, seen, lost>>

ClearQueue(a) ==
    /\ At(a, "clear")
    /\ msgs' = ReleasedAll(msgs, queue[mine[a]])
    /\ queue' = [queue EXCEPT ![mine[a]] = << >>]
    /\ Goto(a, "free")
    /\ UNCHANGED <<route, waitWord, free, mine, batch, out, req, seen, lost>>

FreeQueue(a) ==
    /\ At(a, "free")
    /\ free' = Append(free, mine[a])
    /\ mine' = [mine EXCEPT ![a] = 0]
    /\ Goto(a, "idle")
    /\ UNCHANGED <<route, queue, waitWord, msgs, batch, out, req, seen, lost>>

-----------------------------------------------------------------------------
(* send and completeRequest.                                                *)

\* (mutant) The sender's handle holds no reference.
HeaderUncounted(a, to, kind) ==
    [from |-> a, to |-> to, kind |-> kind, refs |-> 1,
     waiting |-> FALSE, status |-> "Pending", done |-> FALSE]
Header(a, to, kind) ==
    [from |-> a, to |-> to, kind |-> kind, refs |-> IF kind = "handle" THEN 2 ELSE 1,
     waiting |-> FALSE, status |-> "Pending", done |-> FALSE]

\* Allocation and findRoute.  Without a route a plain message is freed at once.
Send(a, to, kind) ==
    /\ At(a, "idle") /\ Len(msgs) < MaxMsgs
    /\ kind = "handle" => req[a] = 0
    /\ kind = "completion" => mine[a] # 0
    /\ LET m == Len(msgs) + 1
           sent == Append(msgs, Header(a, to, kind))
       IN  /\ req' = IF kind = "handle" THEN [req EXCEPT ![a] = m] ELSE req
           /\ CASE FindRoute(to) # 0 ->
                     /\ msgs' = sent
                     /\ out' = [out EXCEPT ![a] = [step |-> "push", msg |-> m, queue |-> FindRoute(to)]]
                [] FindRoute(to) = 0 /\ kind \in Requests ->
                     /\ msgs' = sent
                     /\ out' = [out EXCEPT ![a] = [step |-> "complete", msg |-> m, status |-> "Dropped"]]
                [] OTHER -> msgs' = Released(sent, m) /\ UNCHANGED out
    /\ UNCHANGED <<route, queue, waitWord, free, pc, mine, batch, seen, lost>>

\* Whoever sleeps on the queue q.
WokenQueue(q) ==
    [a \in Agents |-> IF pc[a] = "asleep" /\ mine[a] = q THEN "waitCheck" ELSE pc[a]]

PushNewest(q, m) == Append(queue[q], m)

\* The wake-up is sent before the queue is unlocked.
Push(a) ==
    /\ out[a].step = "push"
    /\ LET q == out[a].queue IN
       /\ queue' = [queue EXCEPT ![q] = PushNewest(q, out[a].msg)]
       /\ waitWord' = [waitWord EXCEPT ![q] = 0]
       /\ pc' = IF waitWord[q] = 1 THEN WokenQueue(q) ELSE pc
    /\ out' = [out EXCEPT ![a] = Nothing]
    /\ UNCHANGED <<route, free, msgs, mine, batch, req, seen, lost>>

SetStatus(a) ==
    /\ out[a].step = "complete"
    /\ LET m == out[a].msg IN
       /\ msgs' = [msgs EXCEPT ![m].status = out[a].status]
       /\ out' = [out EXCEPT ![a] = [step |-> IF msgs[m].waiting THEN "wake" ELSE "forward",
                                     msg |-> m]]
    /\ UNCHANGED <<route, queues, free, local>>

WakeRequester(a) ==
    /\ out[a].step = "wake"
    /\ pc' = [b \in Agents |->
                IF pc[b] = "handleAsleep" /\ req[b] = out[a].msg THEN "handleCheck" ELSE pc[b]]
    /\ out' = [out EXCEPT ![a].step = "forward"]
    /\ UNCHANGED <<route, queues, free, msgs, mine, batch, req, seen, lost>>

\* The request goes back to its sender as a completion message, or is released.
ForwardTo(m) == IF msgs[m].kind = "completion" THEN FindRoute(msgs[m].from) ELSE 0
Forward(a) ==
    /\ out[a].step = "forward"
    /\ LET m == out[a].msg
           marked == [msgs EXCEPT ![m].done = @ \/ msgs[m].kind = "completion"]
       IN  IF ForwardTo(m) # 0
           THEN /\ msgs' = marked
                /\ out' = [out EXCEPT ![a] = [step |-> "push", msg |-> m, queue |-> ForwardTo(m)]]
           ELSE /\ msgs' = Released(marked, m)
                /\ out' = [out EXCEPT ![a] = Nothing]
    /\ UNCHANGED <<route, queues, free, local>>

-----------------------------------------------------------------------------
(* The handle of a request.                                                 *)

\* Also ~RequestHandle; the request itself goes on.
ResetHandle(a) ==
    /\ At(a, "idle") /\ req[a] # 0
    /\ msgs' = Released(msgs, req[a])
    /\ req' = [req EXCEPT ![a] = 0]
    /\ UNCHANGED <<route, queues, free, pc, mine, batch, out, seen, lost>>

\* RequestHandle::wait.  Nobody waits here for an agent that may leave.
AwaitRequest(a) ==
    /\ At(a, "idle") /\ a \notin Servers /\ req[a] # 0 /\ msgs[req[a]].to \in Servers
    /\ msgs[req[a]].status = "Pending"
    /\ Goto(a, "handleFlag")
    /\ UNCHANGED <<route, queues, free, msgs, mine, batch, out, req, seen, lost>>

\* The word just read; it is forgotten when it has a status.
Remember(a) ==
    IF msgs[req[a]].status = "Pending"
    THEN seen' = [seen EXCEPT ![a] = Word(req[a])] /\ Goto(a, "handleSleep")
    ELSE seen' = [seen EXCEPT ![a] = << >>] /\ Goto(a, "idle")

\* The word remembered is the one without the waiting flag.
SetWaitFlag(a) ==
    /\ At(a, "handleFlag")
    /\ msgs' = [msgs EXCEPT ![req[a]].waiting = TRUE]
    /\ Remember(a)
    /\ UNCHANGED <<route, queues, free, mine, batch, out, req, lost>>

\* The futex call compares the word with the one remembered.
WordUnchanged(a) == Word(req[a]) = seen[a]
HandleSleep(a) ==
    /\ At(a, "handleSleep")
    /\ Goto(a, IF WordUnchanged(a) THEN "handleAsleep" ELSE "handleCheck")
    /\ UNCHANGED <<route, queues, free, msgs, mine, batch, out, req, seen, lost>>

HandleCheck(a) ==
    /\ At(a, "handleCheck")
    /\ Remember(a)
    /\ UNCHANGED <<route, queues, free, msgs, mine, batch, out, req, lost>>

-----------------------------------------------------------------------------
(* waitMessages and pollMessages.                                           *)

PollMessages(a) ==
    /\ At(a, "idle") /\ mine[a] # 0
    /\ Goto(a, "poll")
    /\ UNCHANGED <<route, queues, free, msgs, mine, batch, out, req, seen, lost>>

WaitMessages(a) ==
    /\ At(a, "idle") /\ mine[a] # 0
    /\ Goto(a, "waitCheck")
    /\ UNCHANGED <<route, queues, free, msgs, mine, batch, out, req, seen, lost>>

\* The queue is looked at and the waiting flag set under its lock.  Polling
\* follows messages and timeouts alike.
WaitCheck(a) ==
    /\ At(a, "waitCheck")
    /\ \/ Goto(a, "poll") /\ UNCHANGED waitWord
       \/ /\ queue[mine[a]] = << >>
          /\ waitWord' = [waitWord EXCEPT ![mine[a]] = 1]
          /\ Goto(a, "waitSleep")
    /\ UNCHANGED <<route, queue, free, msgs, mine, batch, out, req, seen, lost>>

\* The futex call compares the flag with 1.
WaitSleep(a) ==
    /\ At(a, "waitSleep")
    /\ Goto(a, IF waitWord[mine[a]] = 1 THEN "asleep" ELSE "waitCheck")
    /\ UNCHANGED <<route, queues, free, msgs, mine, batch, out, req, seen, lost>>

WaitTimeout(a) ==
    /\ pc[a] = "asleep"
    /\ Goto(a, "waitCheck")
    /\ UNCHANGED <<route, queues, free, msgs, mine, batch, out, req, seen, lost>>

\* Polling ends when a pop finds the queue empty.
PopBatch(a) ==
    /\ At(a, "poll") /\ batch[a] = << >>
    /\ LET q == queue[mine[a]]
           n == IF Len(q) < BatchSize THEN Len(q) ELSE BatchSize
       IN  /\ batch' = [batch EXCEPT ![a] = SubSeq(q, 1, n)]
           /\ queue' = [queue EXCEPT ![mine[a]] = SubSeq(q, n + 1, Len(q))]
           /\ Goto(a, IF n = 0 THEN "idle" ELSE "poll")
    /\ UNCHANGED <<route, waitWord, free, msgs, mine, out, req, seen, lost>>

\* A request on its way back is a completion message.
\* (mutant) A completion message is handled as a request again.
IsRequestFirst(a) == msgs[Head(batch[a])].kind \in Requests
IsRequest(a) == LET m == Head(batch[a]) IN msgs[m].kind \in Requests /\ ~msgs[m].done

Handling(a) == At(a, "poll") /\ batch[a] # << >>

\* A plain or a completion message, with a handler or without.
HandleMessage(a) ==
    /\ Handling(a) /\ ~IsRequest(a)
    /\ msgs' = Released(msgs, Head(batch[a]))
    /\ batch' = [batch EXCEPT ![a] = Tail(@)]
    /\ UNCHANGED <<route, queues, free, pc, mine, out, req, seen, lost>>

\* Its handler throws: polling is over and the rest of the batch is nobody's.
MessageHandlerThrows(a) ==
    /\ Handling(a) /\ ~IsRequest(a) /\ a \notin Servers
    /\ msgs' = Released(msgs, Head(batch[a]))
    /\ lost' = lost \cup ToSet(Tail(batch[a]))
    /\ batch' = [batch EXCEPT ![a] = << >>]
    /\ Goto(a, "idle")
    /\ UNCHANGED <<route, queues, free, mine, out, req, seen>>

\* The handler returns, throws, or there is none.
HandleRequest(a, status) ==
    /\ Handling(a) /\ IsRequest(a)
    /\ out' = [out EXCEPT ![a] = [step |-> "complete", msg |-> Head(batch[a]), status |-> status]]
    /\ batch' = [batch EXCEPT ![a] = Tail(@)]
    /\ UNCHANGED <<route, queues, free, msgs, pc, mine, req, seen, lost>>
-----------------------------------------------------------------------------
FinishSend(a) == Push(a) \/ SetStatus(a) \/ WakeRequester(a) \/ Forward(a)

Handle(a) ==
    \/ HandleMessage(a) \/ MessageHandlerThrows(a)
    \/ \E status \in {"Complete", "Failed", "Dropped"} : HandleRequest(a, status)

\* What a thread goes on with once it has begun.
Continue(a) ==
    \/ FinishSend(a)
    \/ ClearQueue(a) \/ FreeQueue(a)
    \/ SetWaitFlag(a) \/ HandleSleep(a) \/ HandleCheck(a)
    \/ WaitCheck(a) \/ WaitSleep(a) \/ PopBatch(a) \/ Handle(a)

\* What it may begin.
Begin(a) ==
    \/ Register(a) \/ Unregister(a)
    \/ \E to \in {b \in Agents : <<a, b>> \in Links}, kind \in {"plain"} \cup Requests : Send(a, to, kind)
    \/ ResetHandle(a) \/ AwaitRequest(a)
    \/ PollMessages(a) \/ WaitMessages(a)

Next ==
    \E a \in Agents : Begin(a) \/ Continue(a) \/ RegisterTwice(a) \/ WaitTimeout(a)

\* Threads run, and servers wait for messages again and again.  Timeouts are
\* not counted on.
Fairness ==
    /\ \A a \in Agents : WF_vars(Continue(a))
    /\ \A a \in Servers : WF_vars(WaitMessages(a) \/ PollMessages(a))

Spec == Init /\ [][Next]_vars /\ Fairness

-----------------------------------------------------------------------------
(* Properties.                                                              *)

\* Where messages are: in a thread's send, a queue, a batch, behind a handle.
Places(m) ==
    Cardinality({a \in Agents : out[a].msg = m})
    + Cardinality({q \in Queues : m \in ToSet(queue[q])})
    + Cardinality({a \in Agents : m \in ToSet(batch[a])})
    + Cardinality({a \in Agents : req[a] = m})
    + Cardinality({m} \cap lost)

\* The registered agents and those on their way out have a queue each, the other
\* queues are in the pool, once.
QueuesOwned ==
    /\ \A a \in Agents : route[a] \in {0, mine[a]}
    /\ \A a, b \in Agents : mine[a] # 0 /\ mine[a] = mine[b] => a = b
    /\ IsInjective(free)
    /\ \A q \in Queues : q \in ToSet(free) <=> \A a \in Agents : mine[a] # q

\* The count in a header is the number of its owners at every step of every
\* path: no message is used after it was freed, none is freed twice, and the
\* only ones never freed are those of a batch a throwing handler abandoned.
\* No queue is shared or lost, through every failed registration.
RefsExact ==
    /\ \A m \in Msgs : msgs[m].refs = Places(m)
    /\ QueuesOwned

\* Messages of one sender stay in the order they were sent, in every queue and
\* in what was popped from it before.
Waiting(a) == batch[a] \o queue[mine[a]]
InOrder ==
    \A a \in Agents : mine[a] # 0 =>
        \A i, j \in DOMAIN Waiting(a) :
            LET x == msgs[Waiting(a)[i]]
                y == msgs[Waiting(a)[j]]
            IN  i < j /\ x.from = y.from /\ ~x.done /\ ~y.done => Waiting(a)[i] < Waiting(a)[j]

\* "When it changes to any other value, that value will remain unchanged"
\* (message_handling.hpp:92), and the bits of two statuses are never mixed.
StatusOnce ==
    [][\A m \in Msgs :
          msgs[m] # Freed /\ msgs'[m] # Freed /\ msgs[m].status # "Pending"
            => msgs'[m].status = msgs[m].status]_vars

\* wait on a request to an agent that stays returns.
NobodyWaits == \A a \in Agents : pc[a] \notin {"handleFlag", "handleSleep", "handleAsleep"}
WaitReturns == []<>NobodyWaits
=============================================================================
