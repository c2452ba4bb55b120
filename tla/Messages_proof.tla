---------------------------- MODULE Messages_proof ----------------------------
(***************************************************************************)
(* Proofs about the message queues of MCServices, for any number of agents *)
(* and messages.                                                           *)
(***************************************************************************)
EXTENDS MCServices, SequenceLemmas

AgentPlaces == {"idle", "clear", "free", "poll", "waitCheck", "waitSleep", "asleep",
                "handleFlag", "handleSleep", "handleAsleep", "handleCheck"}
Statuses == {"Pending", "Complete", "Failed", "Dropped"}

Headers == [from : Agents, to : Agents, kind : {"plain", "handle", "completion"}, refs : {1, 2},
            waiting : BOOLEAN, status : Statuses, done : BOOLEAN]

\* What is left of a send or of completeRequest.
Outs == [step : {"push"}, msg : Nat \ {0}, queue : Nat]
          \cup [step : {"complete"}, msg : Nat \ {0}, status : Statuses \ {"Pending"}]
          \cup [step : {"wake", "forward"}, msg : Nat \ {0}]

MessageTypes ==
  /\ route \in [Agents -> Nat] /\ mine \in [Agents -> Nat]
  /\ inbound \in Seq(Seq(Nat)) /\ free \in Seq(Nat)
  /\ msgs \in Seq(Headers \cup {Messages!Freed})
  /\ agentPc \in [Agents -> AgentPlaces]
  /\ batch \in [Agents -> Seq(Nat)]
  /\ out \in [Agents -> Outs \cup {Messages!Nothing}]
  /\ req \in [Agents -> Nat]
  /\ lost \subseteq 1 .. Len(msgs)

\* What a thread is about when it is in the middle of something.
ThreadsOK ==
  \A x \in Agents :
    /\ batch[x] # <<>> => agentPc[x] = "poll"
    /\ agentPc[x] \in {"poll", "waitCheck", "waitSleep", "asleep", "clear", "free"} => mine[x] # 0
    /\ agentPc[x] \in {"clear", "free"} => route[x] = 0
    /\ agentPc[x] \in {"handleFlag", "handleSleep", "handleAsleep", "handleCheck"} => req[x] # 0
    /\ out[x].step = "push" => out[x].queue \in 1 .. Len(inbound)

\* A queue is an agent's or in the pool.
QueuesOK ==
  /\ \A x \in Agents : mine[x] \in 0 .. Len(inbound) /\ route[x] \in {0, mine[x]}
  /\ \A x, y \in Agents : mine[x] # 0 /\ mine[x] = mine[y] => x = y
  /\ \A i \in 1 .. Len(free) : free[i] \in 1 .. Len(inbound) /\ \A x \in Agents : mine[x] # free[i]
  /\ \A i, j \in 1 .. Len(free) : free[i] = free[j] => i = j
  /\ \A q \in 1 .. Len(inbound) : (\A x \in Agents : mine[x] # q) => \E i \in 1 .. Len(free) : free[i] = q

IsIn(m, s) == \E i \in 1 .. Len(s) : s[i] = m

\* Each message is in one place at most: a thread's send, a queue, a batch.
Located(place, holder) ==
  /\ \A m \in 1 .. Len(msgs), x \in Agents : out[x].msg = m <=> place[m] = "out" /\ holder[m] = x
  /\ \A m \in 1 .. Len(msgs), x \in Agents : IsIn(m, batch[x]) <=> place[m] = "batch" /\ holder[m] = x
  /\ \A m \in 1 .. Len(msgs), q \in 1 .. Len(inbound) :
       IsIn(m, inbound[q]) <=> place[m] = "queue" /\ holder[m] = q
  /\ \A m \in 1 .. Len(msgs) : m \in lost <=> place[m] = "lost"
  /\ \A m \in 1 .. Len(msgs) : place[m] \in {"out", "batch"} => holder[m] \in Agents
  /\ \A m \in 1 .. Len(msgs) : place[m] = "queue" => holder[m] \in 1 .. Len(inbound)

\* Its count says so, and whether its sender has a handle of it.
Counted(place) ==
  \A m \in 1 .. Len(msgs) :
    msgs[m].refs = (IF place[m] = "gone" THEN 0 ELSE 1)
                   + (IF \E x \in Agents : req[x] = m THEN 1 ELSE 0)

Places == {"out", "queue", "batch", "lost", "gone"}
FlowOK ==
  \E place \in [Nat -> Places], holder \in [Nat -> Agents \cup Nat] :
    Located(place, holder) /\ Counted(place)

\* No message is twice in a queue or a batch; all were sent.
PlacesOK ==
  /\ \A q \in 1 .. Len(inbound) :
       /\ \A i \in 1 .. Len(inbound[q]) : inbound[q][i] \in 1 .. Len(msgs)
       /\ \A i, j \in 1 .. Len(inbound[q]) : inbound[q][i] = inbound[q][j] => i = j
  /\ \A x \in Agents :
       /\ \A i \in 1 .. Len(batch[x]) : batch[x][i] \in 1 .. Len(msgs)
       /\ \A i, j \in 1 .. Len(batch[x]) : batch[x][i] = batch[x][j] => i = j
       /\ out[x].msg \in 0 .. Len(msgs)
  /\ \A x \in Agents : req[x] # 0 => req[x] \in 1 .. Len(msgs) /\ msgs[req[x]].from = x

\* A message has its first status until completeRequest, and is a completion message when
\* it is queued again.
Unanswered(m) == msgs[m].status # "Pending" => msgs[m].done
StatusOK ==
  /\ \A q \in 1 .. Len(inbound) : \A i \in 1 .. Len(inbound[q]) : Unanswered(inbound[q][i])
  /\ \A x \in Agents : \A i \in 1 .. Len(batch[x]) : Unanswered(batch[x][i])
  /\ \A x \in Agents :
       /\ out[x].step = "push" => Unanswered(out[x].msg)
       /\ out[x].step = "complete" => msgs[out[x].msg].status = "Pending"

\* The earlier of two messages of a sender is before the later.
Precedes(k, m) ==
  msgs[k].from = msgs[m].from /\ ~msgs[k].done /\ ~msgs[m].done => k < m

OrderedOK ==
  /\ \A q \in 1 .. Len(inbound) :
       \A i, j \in 1 .. Len(inbound[q]) : i < j => Precedes(inbound[q][i], inbound[q][j])
  /\ \A x \in Agents :
       \A i, j \in 1 .. Len(batch[x]) : i < j => Precedes(batch[x][i], batch[x][j])
  /\ \A x \in Agents : mine[x] # 0 =>
       \A i \in 1 .. Len(batch[x]), j \in 1 .. Len(inbound[mine[x]]) :
         Precedes(batch[x][i], inbound[mine[x]][j])
  /\ \A x \in Agents : out[x].step = "push" /\ ~msgs[out[x].msg].done =>
       /\ msgs[out[x].msg].from = x
       /\ \A m \in 1 .. Len(msgs) : msgs[m].refs # 0 /\ msgs[m].from = x => m <= out[x].msg

MessagesInv ==
  MessageTypes /\ ThreadsOK /\ QueuesOK /\ FlowOK /\ PlacesOK /\ StatusOK /\ OrderedOK

\* What the types say of single threads and messages.
LEMMA ThreadFacts ==
  ASSUME MessagesInv, NEW x \in Agents
  PROVE  /\ route[x] \in Nat /\ mine[x] \in 0 .. Len(inbound) /\ req[x] \in 0 .. Len(msgs)
         /\ agentPc[x] \in AgentPlaces
         /\ batch[x] \in Seq(Nat) /\ Len(batch[x]) \in Nat
         /\ \A i \in 1 .. Len(batch[x]) : batch[x][i] \in 1 .. Len(msgs)
         /\ out[x] \in Outs \cup {Messages!Nothing} /\ out[x].msg \in 0 .. Len(msgs)
         /\ out[x] = Messages!Nothing <=> out[x].msg = 0
         /\ out[x] = Messages!Nothing <=> out[x].step = "none"
<1>1. /\ route[x] \in Nat /\ agentPc[x] \in AgentPlaces
      /\ batch[x] \in Seq(Nat) /\ out[x] \in Outs \cup {Messages!Nothing}
  BY DEF MessagesInv, MessageTypes
<1>2. req[x] \in 0 .. Len(msgs) /\ mine[x] \in 0 .. Len(inbound)
  <2>1. req[x] \in Nat /\ Len(msgs) \in Nat
    BY LenProperties DEF MessagesInv, MessageTypes
  <2> QED BY <2>1 DEF MessagesInv, PlacesOK, QueuesOK
<1>3. /\ out[x] = Messages!Nothing <=> out[x].msg = 0
      /\ out[x] = Messages!Nothing <=> out[x].step = "none"
  BY <1>1 DEF Outs, Messages!Nothing
<1> QED BY <1>1, <1>2, <1>3, LenProperties DEF MessagesInv, PlacesOK

LEMMA MessageFacts ==
  ASSUME MessagesInv
  PROVE  /\ Len(msgs) \in Nat /\ Len(inbound) \in Nat /\ DOMAIN msgs = 1 .. Len(msgs)
         /\ \A m \in 1 .. Len(msgs) : /\ msgs[m] \in Headers \cup {Messages!Freed}
                                      /\ msgs[m].refs \in 0 .. 2
                                      /\ msgs[m].refs # 0 => msgs[m] \in Headers
         /\ \A q \in 1 .. Len(inbound) :
              /\ inbound[q] \in Seq(Nat) /\ Len(inbound[q]) \in Nat
              /\ \A i \in 1 .. Len(inbound[q]) : inbound[q][i] \in 1 .. Len(msgs)
<1>1. msgs \in Seq(Headers \cup {Messages!Freed}) /\ inbound \in Seq(Seq(Nat))
  BY DEF MessagesInv, MessageTypes
<1>2. ASSUME NEW m \in 1 .. Len(msgs)
      PROVE  /\ msgs[m] \in Headers \cup {Messages!Freed} /\ msgs[m].refs \in 0 .. 2
             /\ msgs[m].refs # 0 => msgs[m] \in Headers
  <2>1. msgs[m] \in Headers \cup {Messages!Freed}
    BY <1>1, ElementOfSeq
  <2>2. CASE msgs[m] \in Headers
    BY <2>2 DEF Headers
  <2>3. CASE msgs[m] = Messages!Freed
    BY <2>3 DEF Messages!Freed
  <2> QED BY <2>1, <2>2, <2>3
<1>3. ASSUME NEW q \in 1 .. Len(inbound)
      PROVE  /\ inbound[q] \in Seq(Nat) /\ Len(inbound[q]) \in Nat
             /\ \A i \in 1 .. Len(inbound[q]) : inbound[q][i] \in 1 .. Len(msgs)
  <2>1. inbound[q] \in Seq(Nat)
    BY <1>1, ElementOfSeq
  <2> QED BY <2>1, LenProperties DEF MessagesInv, PlacesOK
<1> QED BY <1>1, <1>2, <1>3, LenProperties

\* A header that loses an owner.
LEMMA ReleasedFacts ==
  ASSUME NEW ms \in Seq(Headers \cup {Messages!Freed}), NEW m \in 1 .. Len(ms), ms[m] \in Headers
  PROVE  LET rs == Messages!Released(ms, m)
         IN  /\ rs \in Seq(Headers \cup {Messages!Freed}) /\ Len(rs) = Len(ms)
             /\ \A k \in 1 .. Len(ms) : k # m => rs[k] = ms[k]
             /\ rs[m].refs = ms[m].refs - 1
             /\ rs[m].refs # 0 => /\ rs[m].from = ms[m].from /\ rs[m].done = ms[m].done
                                  /\ rs[m].status = ms[m].status
<1> DEFINE h == Messages!Without(ms[m], 1)
<1>1. Messages!Released(ms, m) = [ms EXCEPT ![m] = h]
  BY DEF Messages!Released
<1>2. /\ h \in Headers \cup {Messages!Freed} /\ h.refs = ms[m].refs - 1
      /\ h.refs # 0 => h.from = ms[m].from /\ h.done = ms[m].done /\ h.status = ms[m].status
  <2>1. CASE ms[m].refs = 1
    BY <2>1 DEF Messages!Freed, Messages!Without
  <2>2. CASE ms[m].refs = 2
    BY <2>2 DEF Headers, Messages!Without
  <2> QED BY <2>1, <2>2 DEF Headers
<1> HIDE DEF h
<1>3. /\ [ms EXCEPT ![m] = h] \in Seq(Headers \cup {Messages!Freed})
      /\ Len([ms EXCEPT ![m] = h]) = Len(ms)
      /\ \A k \in 1 .. Len(ms) : [ms EXCEPT ![m] = h][k] = IF k = m THEN h ELSE ms[k]
  BY <1>2, ExceptSeq
<1> QED BY <1>1, <1>2, <1>3

\* A message that is somewhere has an owner, and is nowhere else.
LEMMA Apart ==
  ASSUME MessagesInv
  PROVE  /\ \A x \in Agents : out[x].msg # 0 => msgs[out[x].msg].refs # 0
         /\ \A x \in Agents : req[x] # 0 => msgs[req[x]].refs # 0
         /\ \A x \in Agents : \A i \in 1 .. Len(batch[x]) : msgs[batch[x][i]].refs # 0
         /\ \A q \in 1 .. Len(inbound) : \A i \in 1 .. Len(inbound[q]) : msgs[inbound[q][i]].refs # 0
         /\ \A x, y \in Agents : out[x].msg = out[y].msg /\ out[x].msg # 0 => x = y
         /\ \A x, y \in Agents : out[x].msg # 0 =>
              \A i \in 1 .. Len(batch[y]) : batch[y][i] # out[x].msg
         /\ \A x \in Agents, q \in 1 .. Len(inbound) : out[x].msg # 0 =>
              \A i \in 1 .. Len(inbound[q]) : inbound[q][i] # out[x].msg
         /\ \A x \in Agents, q \in 1 .. Len(inbound) :
              \A i \in 1 .. Len(batch[x]), j \in 1 .. Len(inbound[q]) : batch[x][i] # inbound[q][j]
         /\ \A x, y \in Agents : \A i \in 1 .. Len(batch[x]), j \in 1 .. Len(batch[y]) :
              batch[x][i] = batch[y][j] => x = y
         /\ \A q, r \in 1 .. Len(inbound) : \A i \in 1 .. Len(inbound[q]), j \in 1 .. Len(inbound[r]) :
              inbound[q][i] = inbound[r][j] => q = r
         /\ \A x \in Agents : out[x].msg \notin lost
         /\ \A x \in Agents : \A i \in 1 .. Len(batch[x]) : batch[x][i] \notin lost
<1>1. PICK place \in [Nat -> Places], holder \in [Nat -> Agents \cup Nat] :
        Located(place, holder) /\ Counted(place)
  BY DEF MessagesInv, FlowOK
<1>2. \A x \in Agents : out[x].msg # 0 =>
        /\ out[x].msg \in 1 .. Len(msgs)
        /\ place[out[x].msg] = "out" /\ holder[out[x].msg] = x
  <2> TAKE x \in Agents
  <2> HAVE out[x].msg # 0
  <2>1. out[x].msg \in 1 .. Len(msgs)
    BY ThreadFacts, MessageFacts
  <2> QED BY <1>1, <2>1 DEF Located
<1>3. \A x \in Agents : \A i \in 1 .. Len(batch[x]) :
        /\ batch[x][i] \in 1 .. Len(msgs)
        /\ place[batch[x][i]] = "batch" /\ holder[batch[x][i]] = x
  BY <1>1, ThreadFacts DEF Located, IsIn
<1>4. \A q \in 1 .. Len(inbound) : \A i \in 1 .. Len(inbound[q]) :
        /\ inbound[q][i] \in 1 .. Len(msgs)
        /\ place[inbound[q][i]] = "queue" /\ holder[inbound[q][i]] = q
  <2> TAKE q \in 1 .. Len(inbound)
  <2> TAKE i \in 1 .. Len(inbound[q])
  <2>1. inbound[q][i] \in 1 .. Len(msgs) /\ IsIn(inbound[q][i], inbound[q])
    BY MessageFacts DEF IsIn
  <2> QED BY <1>1, <2>1 DEF Located
<1>5. \A m \in 1 .. Len(msgs) : place[m] # "gone" => msgs[m].refs # 0
  BY <1>1 DEF Counted
<1>6. \A x \in Agents : req[x] # 0 => req[x] \in 1 .. Len(msgs) /\ msgs[req[x]].refs # 0
  BY SMTT(25), <1>1 DEF Counted, MessagesInv, PlacesOK
<1>7. \A x \in Agents : \A i \in 1 .. Len(batch[x]) : msgs[batch[x][i]].refs # 0
  BY <1>3, <1>5
<1>8. \A x \in Agents : out[x].msg # 0 => msgs[out[x].msg].refs # 0
  BY <1>2, <1>5
<1>9. \A q \in 1 .. Len(inbound) : \A i \in 1 .. Len(inbound[q]) : msgs[inbound[q][i]].refs # 0
  BY <1>4, <1>5
<1>10. \A x, y \in Agents : out[x].msg = out[y].msg /\ out[x].msg # 0 => x = y
  BY <1>2
<1>11. \A x, y \in Agents : out[x].msg # 0 =>
         \A i \in 1 .. Len(batch[y]) : batch[y][i] # out[x].msg
  BY <1>2, <1>3
<1>12. \A x \in Agents, q \in 1 .. Len(inbound) : out[x].msg # 0 =>
         \A i \in 1 .. Len(inbound[q]) : inbound[q][i] # out[x].msg
  BY <1>2, <1>4
<1>13. \A x \in Agents, q \in 1 .. Len(inbound) :
         \A i \in 1 .. Len(batch[x]), j \in 1 .. Len(inbound[q]) : batch[x][i] # inbound[q][j]
  BY <1>3, <1>4
<1>14. \A x, y \in Agents : \A i \in 1 .. Len(batch[x]), j \in 1 .. Len(batch[y]) :
         batch[x][i] = batch[y][j] => x = y
  BY <1>3
<1>15. \A q, r \in 1 .. Len(inbound) : \A i \in 1 .. Len(inbound[q]), j \in 1 .. Len(inbound[r]) :
         inbound[q][i] = inbound[r][j] => q = r
  BY SMTT(25), <1>4
<1>16. \A x \in Agents : out[x].msg \notin lost
  <2> TAKE x \in Agents
  <2>1. lost \subseteq 1 .. Len(msgs) /\ 0 \notin 1 .. Len(msgs)
    BY MessageFacts DEF MessagesInv, MessageTypes
  <2>2. CASE out[x].msg # 0
    BY <1>1, <1>2, <2>2 DEF Located
  <2> QED BY <2>1, <2>2
<1>17. \A x \in Agents : \A i \in 1 .. Len(batch[x]) : batch[x][i] \notin lost
  BY <1>1, <1>3 DEF Located
<1> QED BY <1>6, <1>7, <1>8, <1>9, <1>10, <1>11, <1>12, <1>13, <1>14, <1>15, <1>16, <1>17

LEMMA MessagesInit == Messages!Init => MessagesInv
<1> SUFFICES ASSUME Messages!Init PROVE MessagesInv
  OBVIOUS
<1>1. MessageTypes
  BY DEF Messages!Init, MessageTypes, AgentPlaces
<1>2. /\ Len(inbound) = 0 /\ Len(msgs) = 0 /\ Len(free) = 0
      /\ \A x \in Agents : /\ route[x] = 0 /\ mine[x] = 0 /\ req[x] = 0 /\ agentPc[x] = "idle"
                           /\ batch[x] = <<>> /\ Len(batch[x]) = 0
                           /\ out[x].step = "none" /\ out[x].msg = 0
  BY DEF Messages!Init, Messages!Nothing
<1>3. \A i \in 1 .. 0 : FALSE
  OBVIOUS
<1>4. ThreadsOK /\ QueuesOK
  BY <1>2, <1>3 DEF ThreadsOK, QueuesOK
<1>5. PlacesOK /\ StatusOK
  BY <1>2, <1>3 DEF PlacesOK, StatusOK
<1>6. OrderedOK
  BY <1>2, <1>3 DEF OrderedOK
<1>7. FlowOK
  <2> DEFINE place == [m \in Nat |-> "gone"]
             holder == [m \in Nat |-> 0]
  <2>1. place \in [Nat -> Places] /\ holder \in [Nat -> Agents \cup Nat]
    BY DEF Places
  <2>2. Located(place, holder) /\ Counted(place)
    BY <1>2, <1>3 DEF Located, Counted
  <2> QED BY <2>1, <2>2 DEF FlowOK
<1> QED BY <1>1, <1>4, <1>5, <1>6, <1>7 DEF MessagesInv

\* Places, owners and what the headers say of sender, count and status do not change.
LEMMA FlowKept ==
  ASSUME MessagesInv, UNCHANGED <<inbound, batch, out, req, lost>>,
         \A x \in Agents : mine'[x] = mine[x] \/ batch[x] = <<>>,
         Len(msgs') = Len(msgs),
         \A m \in 1 .. Len(msgs) : msgs'[m].refs = msgs[m].refs,
         \A m \in 1 .. Len(msgs) : msgs[m].refs # 0 =>
           msgs'[m].from = msgs[m].from /\ msgs'[m].done = msgs[m].done
           /\ msgs'[m].status = msgs[m].status
  PROVE  FlowOK' /\ PlacesOK' /\ StatusOK' /\ OrderedOK'
<1>1. /\ inbound' = inbound /\ batch' = batch /\ out' = out
      /\ req' = req /\ lost' = lost
  OBVIOUS
<1>2. FlowOK'
  <2>1. PICK place \in [Nat -> Places], holder \in [Nat -> Agents \cup Nat] :
          Located(place, holder) /\ Counted(place)
    BY DEF MessagesInv, FlowOK
  <2>2. Located(place, holder)'
    BY <1>1, <2>1 DEF Located, IsIn
  <2>3. \A m \in 1 .. Len(msgs) :
          msgs'[m].refs = (IF place[m] = "gone" THEN 0 ELSE 1)
                          + (IF \E x \in Agents : req[x] = m THEN 1 ELSE 0)
    BY <2>1 DEF Counted
  <2>4. Counted(place)'
    BY <1>1, <2>3 DEF Counted
  <2> QED BY <2>2, <2>4 DEF FlowOK
<1>3. \A x \in Agents : req[x] # 0 => msgs'[req[x]].from = x
  BY Apart DEF MessagesInv, PlacesOK
<1>4. PlacesOK'
  BY <1>1, <1>3 DEF MessagesInv, PlacesOK
<1>5. StatusOK'
  <2>1. \A q \in 1 .. Len(inbound) : \A k \in 1 .. Len(inbound[q]) : Unanswered(inbound[q][k])'
    <3> TAKE q \in 1 .. Len(inbound)
    <3> TAKE k \in 1 .. Len(inbound[q])
    <3>1. inbound[q][k] \in 1 .. Len(msgs) /\ msgs[inbound[q][k]].refs # 0
      BY Apart, MessageFacts
    <3>2. Unanswered(inbound[q][k])
      BY DEF MessagesInv, StatusOK
    <3> QED BY <1>1, <3>1, <3>2 DEF Unanswered
  <2>2. \A x \in Agents : \A k \in 1 .. Len(batch[x]) : Unanswered(batch[x][k])'
    <3> TAKE x \in Agents
    <3> TAKE k \in 1 .. Len(batch[x])
    <3>1. batch[x][k] \in 1 .. Len(msgs) /\ msgs[batch[x][k]].refs # 0
      BY Apart, ThreadFacts
    <3>2. Unanswered(batch[x][k])
      BY DEF MessagesInv, StatusOK
    <3> QED BY <1>1, <3>1, <3>2 DEF Unanswered
  <2>3. \A x \in Agents : /\ out[x].step = "push" => Unanswered(out[x].msg)'
                          /\ out[x].step = "complete" => msgs'[out[x].msg].status = "Pending"
    <3> TAKE x \in Agents
    <3>1. out[x].step \in {"push", "complete"} => out[x].msg # 0
      BY ThreadFacts
    <3>2. out[x].msg # 0 => out[x].msg \in 1 .. Len(msgs) /\ msgs[out[x].msg].refs # 0
      BY ThreadFacts, MessageFacts, Apart
    <3> QED BY <1>1, <3>1, <3>2 DEF MessagesInv, StatusOK, Unanswered
  <2> QED BY <1>1, <2>1, <2>2, <2>3 DEF StatusOK
<1>6. OrderedOK'
  <2>1. ASSUME NEW k \in 1 .. Len(msgs), NEW m \in 1 .. Len(msgs), Precedes(k, m),
               msgs[k].refs # 0, msgs[m].refs # 0
        PROVE  Precedes(k, m)'
    BY <2>1 DEF Precedes
  <2>2. \A q \in 1 .. Len(inbound) : \A i, j \in 1 .. Len(inbound[q]) :
          i < j => Precedes(inbound[q][i], inbound[q][j])'
    <3> TAKE q \in 1 .. Len(inbound)
    <3> TAKE i, j \in 1 .. Len(inbound[q])
    <3> HAVE i < j
    <3>1. Precedes(inbound[q][i], inbound[q][j])
      BY DEF MessagesInv, OrderedOK
    <3>2. /\ inbound[q][i] \in 1 .. Len(msgs) /\ msgs[inbound[q][i]].refs # 0
          /\ inbound[q][j] \in 1 .. Len(msgs) /\ msgs[inbound[q][j]].refs # 0
      BY Apart, MessageFacts
    <3> QED BY <2>1, <3>1, <3>2
  <2>3. \A x \in Agents : \A i, j \in 1 .. Len(batch[x]) :
          i < j => Precedes(batch[x][i], batch[x][j])'
    <3> TAKE x \in Agents
    <3> TAKE i, j \in 1 .. Len(batch[x])
    <3> HAVE i < j
    <3>1. Precedes(batch[x][i], batch[x][j])
      BY DEF MessagesInv, OrderedOK
    <3>2. /\ batch[x][i] \in 1 .. Len(msgs) /\ msgs[batch[x][i]].refs # 0
          /\ batch[x][j] \in 1 .. Len(msgs) /\ msgs[batch[x][j]].refs # 0
      BY Apart, ThreadFacts
    <3> QED BY <2>1, <3>1, <3>2
  <2>4. ASSUME NEW x \in Agents, NEW q \in 1 .. Len(inbound), mine'[x] = q,
               NEW i \in 1 .. Len(batch[x]), NEW j \in 1 .. Len(inbound[q])
        PROVE  Precedes(batch[x][i], inbound[q][j])'
    <3>1. mine[x] = q /\ q # 0
      BY <2>4
    <3>2. Precedes(batch[x][i], inbound[q][j])
      BY <3>1 DEF MessagesInv, OrderedOK
    <3>3. batch[x][i] \in 1 .. Len(msgs) /\ msgs[batch[x][i]].refs # 0
      BY SMTT(25), Apart, ThreadFacts
    <3>4. inbound[q][j] \in 1 .. Len(msgs) /\ msgs[inbound[q][j]].refs # 0
      BY Apart, MessageFacts
    <3> QED BY <2>1, <3>2, <3>3, <3>4
  <2>6. \A x \in Agents : mine'[x] # 0 /\ batch[x] # <<>> => mine'[x] \in 1 .. Len(inbound)
    BY ThreadFacts, MessageFacts
  <2>7. \A x \in Agents : mine'[x] # 0 =>
          \A i \in 1 .. Len(batch'[x]), j \in 1 .. Len(inbound'[mine'[x]]) :
            Precedes(batch[x][i], inbound[mine[x]][j])'
    <3> TAKE x \in Agents
    <3> HAVE mine'[x] # 0
    <3> TAKE i \in 1 .. Len(batch'[x]), j \in 1 .. Len(inbound'[mine'[x]])
    <3>1. batch[x] # <<>>
      BY <1>1
    <3> QED BY <1>1, <2>4, <2>6, <3>1
  <2>5. ASSUME NEW x \in Agents, out[x].step = "push", ~msgs'[out[x].msg].done
        PROVE  /\ msgs'[out[x].msg].from = x
               /\ \A m \in 1 .. Len(msgs) : msgs'[m].refs # 0 /\ msgs'[m].from = x => m <= out[x].msg
    <3>1. out[x].msg \in 1 .. Len(msgs) /\ msgs[out[x].msg].refs # 0
      BY <2>5, ThreadFacts, MessageFacts, Apart
    <3> QED BY <2>5, <3>1 DEF MessagesInv, OrderedOK
  <2> QED BY <1>1, <2>2, <2>3, <2>5, <2>7 DEF OrderedOK
<1> QED BY <1>2, <1>4, <1>5, <1>6

LEMMA QueuesKept ==
  ASSUME MessagesInv, UNCHANGED <<route, mine, free>>, Len(inbound') = Len(inbound)
  PROVE  QueuesOK'
<1>1. route' = route /\ mine' = mine /\ free' = free
  OBVIOUS
<1> QED BY <1>1 DEF MessagesInv, QueuesOK

\* A thread moves on, and nothing else changes that the invariant is about.
LEMMA GoesOn ==
  ASSUME MessagesInv, NEW x \in Agents, NEW spot \in AgentPlaces, Messages!Goto(x, spot),
         UNCHANGED <<route, inbound, free, msgs, mine, batch, out, req, lost>>,
         batch[x] # <<>> => spot = "poll",
         spot \in {"poll", "waitCheck", "waitSleep", "asleep"} => mine[x] # 0,
         spot \notin {"clear", "free"},
         spot \in {"handleFlag", "handleSleep", "handleAsleep", "handleCheck"} => req[x] # 0
  PROVE  MessagesInv'
<1>1. agentPc' = [agentPc EXCEPT ![x] = spot]
  BY DEF Messages!Goto
<1>2. MessageTypes'
  BY <1>1 DEF MessagesInv, MessageTypes
<1>3. \A y \in Agents : agentPc'[y] = IF y = x THEN spot ELSE agentPc[y]
  BY <1>1 DEF MessagesInv, MessageTypes
<1>4. ThreadsOK'
  BY <1>3 DEF MessagesInv, ThreadsOK
<1>5. FlowOK' /\ PlacesOK' /\ StatusOK' /\ OrderedOK'
  BY FlowKept
<1> QED BY <1>2, <1>4, <1>5, QueuesKept DEF MessagesInv

\* A queue is made for an agent.
LEMMA QueueAdded ==
  ASSUME MessagesInv, inbound' = Append(inbound, <<>>), UNCHANGED <<msgs, batch, out, req, lost>>,
         \A x \in Agents : mine'[x] = mine[x] \/ batch[x] = <<>>
  PROVE  /\ FlowOK' /\ PlacesOK' /\ StatusOK' /\ OrderedOK'
         /\ inbound' \in Seq(Seq(Nat)) /\ Len(inbound') = Len(inbound) + 1
<1>0. PICK n \in Nat : n = Len(inbound)
  BY MessageFacts
<1>1. /\ inbound' \in Seq(Seq(Nat)) /\ Len(inbound') = n + 1
      /\ \A q \in 1 .. n : inbound'[q] = inbound[q]
      /\ inbound'[n + 1] = <<>> /\ Len(inbound'[n + 1]) = 0
  <2>1. inbound \in Seq(Seq(Nat)) /\ <<>> \in Seq(Nat)
    BY DEF MessagesInv, MessageTypes
  <2>2. Append(inbound, <<>>) \in Seq(Seq(Nat)) /\ Len(Append(inbound, <<>>)) = n + 1
    BY <1>0, <2>1, AppendProperties
  <2>3. /\ \A q \in 1 .. n : Append(inbound, <<>>)[q] = inbound[q]
        /\ Append(inbound, <<>>)[n + 1] = <<>>
    BY <1>0, <2>1, AppendProperties
  <2> QED BY <2>2, <2>3
<1>2. /\ msgs' = msgs /\ batch' = batch /\ out' = out /\ req' = req /\ lost' = lost
  OBVIOUS
<1>3. \A q \in 1 .. n + 1 : q \in 1 .. n \/ (q = n + 1 /\ \A i \in 1 .. Len(inbound'[q]) : FALSE)
  BY <1>1
<1>4. FlowOK'
  <2>1. PICK place \in [Nat -> Places], holder \in [Nat -> Agents \cup Nat] :
          Located(place, holder) /\ Counted(place)
    BY DEF MessagesInv, FlowOK
  <2>2. ASSUME NEW m \in 1 .. Len(msgs), NEW q \in 1 .. n + 1
        PROVE  IsIn(m, inbound'[q]) <=> place[m] = "queue" /\ holder[m] = q
    <3>1. CASE q \in 1 .. n
      BY <1>0, <1>1, <2>1, <3>1 DEF Located
    <3>2. CASE q = n + 1
      <4>1. ~ IsIn(m, inbound'[q])
        BY <1>1, <3>2 DEF IsIn
      <4>2. place[m] = "queue" => holder[m] \in 1 .. n
        BY <1>0, <2>1 DEF Located
      <4>3. n + 1 \notin 1 .. n
        OBVIOUS
      <4>4. ~ (place[m] = "queue" /\ holder[m] = q)
        BY <3>2, <4>2, <4>3
      <4> QED BY <4>1, <4>4
    <3> QED BY <1>3, <3>1, <3>2
  <2>3. \A m \in 1 .. Len(msgs) : place[m] = "queue" => holder[m] \in 1 .. n + 1
    BY <1>0, <2>1 DEF Located
  <2>4. /\ \A m \in 1 .. Len(msgs'), x \in Agents :
             out'[x].msg = m <=> place[m] = "out" /\ holder[m] = x
        /\ \A m \in 1 .. Len(msgs') : m \in lost' <=> place[m] = "lost"
        /\ \A m \in 1 .. Len(msgs') : place[m] \in {"out", "batch"} => holder[m] \in Agents
    BY <1>2, <2>1 DEF Located
  <2>5. \A m \in 1 .. Len(msgs'), x \in Agents :
             IsIn(m, batch'[x]) <=> place[m] = "batch" /\ holder[m] = x
    BY <1>2, <2>1 DEF Located, IsIn
  <2>6. Located(place, holder)'
    BY <1>1, <1>2, <2>2, <2>3, <2>4, <2>5 DEF Located, IsIn
  <2>7. Counted(place)'
    BY <1>2, <2>1 DEF Counted
  <2> QED BY <2>6, <2>7 DEF FlowOK
<1>5. PlacesOK'
  <2>1. \A q \in 1 .. n + 1 :
          /\ \A i \in 1 .. Len(inbound'[q]) : inbound'[q][i] \in 1 .. Len(msgs)
          /\ \A i, j \in 1 .. Len(inbound'[q]) : inbound'[q][i] = inbound'[q][j] => i = j
    BY SMTT(25), <1>0, <1>1, <1>3 DEF MessagesInv, PlacesOK
  <2> QED BY <1>1, <1>2, <2>1 DEF MessagesInv, PlacesOK
<1>6. StatusOK'
  <2>1. \A q \in 1 .. n + 1 : \A i \in 1 .. Len(inbound'[q]) : Unanswered(inbound'[q][i])
    BY <1>0, <1>1, <1>3 DEF MessagesInv, StatusOK
  <2> QED BY <1>1, <1>2, <2>1 DEF MessagesInv, StatusOK, Unanswered
<1>7. OrderedOK'
  <2>1. \A q \in 1 .. n + 1 : \A i, j \in 1 .. Len(inbound'[q]) :
          i < j => Precedes(inbound'[q][i], inbound'[q][j])
    BY <1>0, <1>1, <1>3 DEF MessagesInv, OrderedOK
  <2>2. \A x \in Agents : mine'[x] # 0 =>
          \A i \in 1 .. Len(batch[x]), j \in 1 .. Len(inbound'[mine'[x]]) :
            Precedes(batch[x][i], inbound'[mine'[x]][j])
    <3> SUFFICES ASSUME NEW x \in Agents, mine'[x] # 0, NEW i \in 1 .. Len(batch[x]),
                        NEW j \in 1 .. Len(inbound'[mine'[x]])
                 PROVE  Precedes(batch[x][i], inbound'[mine'[x]][j])
      OBVIOUS
    <3>1. mine'[x] = mine[x] /\ mine[x] \in 1 .. n
      BY <1>0, ThreadFacts
    <3> QED BY SMTT(25), <1>1, <3>1 DEF MessagesInv, OrderedOK
  <2>3. /\ \A x \in Agents : \A i, j \in 1 .. Len(batch[x]) :
             i < j => Precedes(batch[x][i], batch[x][j])
        /\ \A x \in Agents : out[x].step = "push" /\ ~msgs[out[x].msg].done =>
             /\ msgs[out[x].msg].from = x
             /\ \A m \in 1 .. Len(msgs) : msgs[m].refs # 0 /\ msgs[m].from = x => m <= out[x].msg
    BY DEF MessagesInv, OrderedOK
  <2>4. \A q \in 1 .. Len(inbound') : \A i, j \in 1 .. Len(inbound'[q]) :
          i < j => Precedes(inbound[q][i], inbound[q][j])'
    <3> TAKE q \in 1 .. Len(inbound')
    <3> TAKE i, j \in 1 .. Len(inbound'[q])
    <3> HAVE i < j
    <3>1. Precedes(inbound'[q][i], inbound'[q][j])
      BY <1>1, <2>1
    <3> QED BY <1>2, <3>1 DEF Precedes
  <2>5. \A x \in Agents : \A i, j \in 1 .. Len(batch'[x]) :
          i < j => Precedes(batch[x][i], batch[x][j])'
    BY <1>2, <2>3 DEF Precedes
  <2>6. \A x \in Agents : mine'[x] # 0 =>
          \A i \in 1 .. Len(batch'[x]), j \in 1 .. Len(inbound'[mine'[x]]) :
            Precedes(batch[x][i], inbound[mine[x]][j])'
    BY ZenonT(40), <1>2, <2>2 DEF Precedes
  <2> QED BY <1>2, <2>3, <2>4, <2>5, <2>6 DEF OrderedOK
<1> QED BY <1>0, <1>1, <1>4, <1>5, <1>6, <1>7

LEMMA RegisterAgentInv ==
  ASSUME MessagesInv, NEW x \in Agents, Messages!Register(x)
  PROVE  MessagesInv'
<1>0. PICK n \in Nat : n = Len(inbound)
  BY MessageFacts
<1>1. /\ agentPc[x] = "idle" /\ mine[x] = 0 /\ mine' = [mine EXCEPT ![x] = route'[x]]
      /\ UNCHANGED <<msgs, agentPc, batch, out, req, lost>>
  BY DEF Messages!Register, Messages!At
<1>2. batch[x] = <<>> /\ \A y \in Agents : y # x => mine'[y] = mine[y]
  BY <1>1 DEF MessagesInv, MessageTypes, ThreadsOK
<1>3. route \in [Agents -> Nat] /\ mine \in [Agents -> Nat]
  BY DEF MessagesInv, MessageTypes
<1>4. \A y \in Agents : mine[y] \in 0 .. n /\ route[y] \in {0, mine[y]}
  BY <1>0 DEF MessagesInv, QueuesOK
<1>5. ASSUME NEW q \in Nat \ {0}, route' = [route EXCEPT ![x] = q],
             q \in 1 .. Len(inbound'), Len(inbound') >= n, \A y \in Agents : mine[y] # q
      PROVE  /\ ThreadsOK' /\ route' \in [Agents -> Nat] /\ mine' \in [Agents -> Nat]
             /\ \A y \in Agents : mine'[y] = IF y = x THEN q ELSE mine[y]
             /\ \A y \in Agents : mine'[y] \in 0 .. Len(inbound') /\ route'[y] \in {0, mine'[y]}
             /\ \A y, z \in Agents : mine'[y] # 0 /\ mine'[y] = mine'[z] => y = z
  <2>1. \A y \in Agents : route'[y] = IF y = x THEN q ELSE route[y]
    BY <1>3, <1>5
  <2>2. \A y \in Agents : mine'[y] = IF y = x THEN q ELSE mine[y]
    BY <1>1, <1>3, <2>1
  <2>3. ThreadsOK'
    <3> SUFFICES ASSUME NEW y \in Agents
                 PROVE  /\ batch[y] # <<>> => agentPc[y] = "poll"
                        /\ agentPc[y] \in {"poll", "waitCheck", "waitSleep", "asleep", "clear", "free"}
                             => mine'[y] # 0
                        /\ agentPc[y] \in {"clear", "free"} => route'[y] = 0
                        /\ agentPc[y] \in {"handleFlag", "handleSleep", "handleAsleep", "handleCheck"}
                             => req[y] # 0
                        /\ out[y].step = "push" => out[y].queue \in 1 .. Len(inbound')
      BY <1>1 DEF ThreadsOK
    <3>1. out[y].step = "push" => out[y].queue \in 1 .. n
      BY <1>0 DEF MessagesInv, ThreadsOK
    <3>2. \A r \in 1 .. n : r \in 1 .. Len(inbound')
      BY <1>5
    <3> QED BY <1>1, <2>1, <2>2, <3>1, <3>2 DEF MessagesInv, ThreadsOK
  <2>4. \A y \in Agents : mine'[y] \in 0 .. Len(inbound') /\ route'[y] \in {0, mine'[y]}
    BY <1>4, <1>5, <2>1, <2>2
  <2>5. \A y, z \in Agents : mine'[y] # 0 /\ mine'[y] = mine'[z] => y = z
    BY <1>5, <2>2 DEF MessagesInv, QueuesOK
  <2>6. route' \in [Agents -> Nat] /\ mine' \in [Agents -> Nat]
    <3>1. route'[x] = q
      BY <2>1
    <3>2. mine' = [mine EXCEPT ![x] = q] /\ route' = [route EXCEPT ![x] = q]
      BY <1>1, <1>5, <3>1
    <3> QED BY <1>3, <3>2
  <2> QED BY <2>2, <2>3, <2>4, <2>5, <2>6
<1>6. CASE /\ free # <<>> /\ route' = [route EXCEPT ![x] = Last(free)]
           /\ free' = Front(free) /\ inbound' = inbound
  <2>1. PICK l \in Nat : l = Len(free)
    BY LenProperties DEF MessagesInv, MessageTypes
  <2>2. /\ l \in 1 .. l /\ Last(free) = free[l] /\ free' \in Seq(Nat) /\ Len(free') = l - 1
        /\ \A i \in 1 .. l - 1 : free'[i] = free[i]
    BY <1>6, <2>1, FrontElements DEF MessagesInv, MessageTypes
  <2>3. /\ \A i \in 1 .. l : free[i] \in 1 .. n /\ \A y \in Agents : mine[y] # free[i]
        /\ \A i, j \in 1 .. l : free[i] = free[j] => i = j
        /\ \A q \in 1 .. n : (\A y \in Agents : mine[y] # q) => \E i \in 1 .. l : free[i] = q
    BY <1>0, <2>1 DEF MessagesInv, QueuesOK
  <2>4. free[l] \in Nat \ {0} /\ free[l] \in 1 .. Len(inbound') /\ Len(inbound') >= n
        /\ \A y \in Agents : mine[y] # free[l]
    BY <1>0, <1>6, <2>2, <2>3
  <2>5. /\ ThreadsOK' /\ route' \in [Agents -> Nat] /\ mine' \in [Agents -> Nat]
        /\ \A y \in Agents : mine'[y] = IF y = x THEN free[l] ELSE mine[y]
        /\ \A y \in Agents : mine'[y] \in 0 .. Len(inbound') /\ route'[y] \in {0, mine'[y]}
        /\ \A y, z \in Agents : mine'[y] # 0 /\ mine'[y] = mine'[z] => y = z
    BY <1>5, <1>6, <2>2, <2>4
  <2>6. \A i \in 1 .. l - 1 : i \in 1 .. l /\ i # l
    OBVIOUS
  <2>7. \A i \in 1 .. l - 1 : free'[i] \in 1 .. n /\ \A y \in Agents : mine'[y] # free'[i]
    <3> TAKE i \in 1 .. l - 1
    <3>1. i \in 1 .. l /\ i # l
      OBVIOUS
    <3>2. free'[i] = free[i] /\ free[i] \in 1 .. n /\ free[i] # free[l]
      BY <2>2, <2>3, <3>1
    <3>3. \A y \in Agents : mine'[y] # free[i]
      BY SMTT(25), <2>3, <2>5, <3>1, <3>2
    <3> QED BY <3>2, <3>3
  <2>8. \A i, j \in 1 .. l - 1 : free'[i] = free'[j] => i = j
    BY <2>2, <2>3, <2>6
  <2>9. ASSUME NEW q \in 1 .. n, \A y \in Agents : mine'[y] # q
        PROVE  \E i \in 1 .. l - 1 : free'[i] = q
    <3>1. \A y \in Agents : mine[y] # q
      BY <1>1, <2>5, <2>9
    <3>2. PICK i \in 1 .. l : free[i] = q
      BY <2>3, <3>1
    <3>3. i # l
      BY <2>5, <2>9, <3>2
    <3>4. i \in 1 .. l - 1
      BY <3>3
    <3> QED BY <2>2, <3>2, <3>4
  <2>10. QueuesOK'
    BY <1>0, <1>6, <2>2, <2>5, <2>7, <2>8, <2>9 DEF QueuesOK
  <2>11. MessageTypes'
    BY <1>1, <1>6, <2>2, <2>5 DEF MessagesInv, MessageTypes
  <2>12. FlowOK' /\ PlacesOK' /\ StatusOK' /\ OrderedOK'
    BY <1>1, <1>2, <1>6, FlowKept
  <2> QED BY <2>5, <2>10, <2>11, <2>12 DEF MessagesInv
<1>7. CASE /\ free = <<>> /\ route' = [route EXCEPT ![x] = Len(inbound) + 1]
           /\ inbound' = Append(inbound, <<>>) /\ free' = free
  <2>1. /\ FlowOK' /\ PlacesOK' /\ StatusOK' /\ OrderedOK'
        /\ inbound' \in Seq(Seq(Nat)) /\ Len(inbound') = n + 1
    BY <1>0, <1>1, <1>2, <1>7, QueueAdded
  <2>2. n + 1 \in Nat \ {0} /\ n + 1 \in 1 .. Len(inbound') /\ Len(inbound') >= n
        /\ \A y \in Agents : mine[y] # n + 1
    BY <1>4, <2>1
  <2>3. /\ ThreadsOK' /\ route' \in [Agents -> Nat] /\ mine' \in [Agents -> Nat]
        /\ \A y \in Agents : mine'[y] = IF y = x THEN n + 1 ELSE mine[y]
        /\ \A y \in Agents : mine'[y] \in 0 .. Len(inbound') /\ route'[y] \in {0, mine'[y]}
        /\ \A y, z \in Agents : mine'[y] # 0 /\ mine'[y] = mine'[z] => y = z
    BY <1>0, <1>5, <1>7, <2>2
  <2>4. Len(free) = 0 /\ \A i \in 1 .. 0 : FALSE
    BY <1>7
  <2>5. ASSUME NEW q \in 1 .. n + 1 PROVE \E y \in Agents : mine'[y] = q
    <3>1. CASE q = n + 1
      BY <2>3, <3>1
    <3>2. CASE q # n + 1
      <4>1. q \in 1 .. n
        BY <3>2
      <4>2. PICK y \in Agents : mine[y] = q
        BY <1>0, <2>4, <4>1 DEF MessagesInv, QueuesOK
      <4>3. y # x
        BY <1>1, <4>1, <4>2
      <4> QED BY <2>3, <4>2, <4>3
    <3> QED BY <3>1, <3>2
  <2>6. QueuesOK'
    BY <1>7, <2>1, <2>3, <2>4, <2>5 DEF QueuesOK
  <2>7. MessageTypes'
    BY <1>1, <1>7, <2>1, <2>3 DEF MessagesInv, MessageTypes
  <2> QED BY <2>1, <2>3, <2>6, <2>7 DEF MessagesInv
<1> QED BY <1>6, <1>7
        DEF Messages!Register, Messages!AddRoute, Messages!Last, Last, Messages!Front, Front,
            Messages!queues

\* The two halves of the invariants about messages: of those in queues and batches, and of
\* those that a thread sends or has a handle of.
ContentsOK ==
  /\ \A q \in 1 .. Len(inbound) :
       /\ \A i \in 1 .. Len(inbound[q]) : inbound[q][i] \in 1 .. Len(msgs) /\ Unanswered(inbound[q][i])
       /\ \A i, j \in 1 .. Len(inbound[q]) : inbound[q][i] = inbound[q][j] => i = j
       /\ \A i, j \in 1 .. Len(inbound[q]) : i < j => Precedes(inbound[q][i], inbound[q][j])
  /\ \A x \in Agents :
       /\ \A i \in 1 .. Len(batch[x]) : batch[x][i] \in 1 .. Len(msgs) /\ Unanswered(batch[x][i])
       /\ \A i, j \in 1 .. Len(batch[x]) : batch[x][i] = batch[x][j] => i = j
       /\ \A i, j \in 1 .. Len(batch[x]) : i < j => Precedes(batch[x][i], batch[x][j])
  /\ \A x \in Agents : mine[x] # 0 =>
       \A i \in 1 .. Len(batch[x]), j \in 1 .. Len(inbound[mine[x]]) :
         Precedes(batch[x][i], inbound[mine[x]][j])

SendsOK ==
  \A x \in Agents :
    /\ out[x].msg \in 0 .. Len(msgs)
    /\ req[x] # 0 => req[x] \in 1 .. Len(msgs) /\ msgs[req[x]].from = x
    /\ out[x].step = "push" => Unanswered(out[x].msg)
    /\ out[x].step = "complete" => msgs[out[x].msg].status = "Pending"
    /\ out[x].step = "push" /\ ~msgs[out[x].msg].done =>
         /\ msgs[out[x].msg].from = x
         /\ \A m \in 1 .. Len(msgs) : msgs[m].refs # 0 /\ msgs[m].from = x => m <= out[x].msg

LEMMA Halves ==
  ASSUME ContentsOK', SendsOK' PROVE PlacesOK' /\ StatusOK' /\ OrderedOK'
<1>1. PlacesOK'
  BY DEF ContentsOK, SendsOK, PlacesOK
<1>2. StatusOK'
  BY DEF ContentsOK, SendsOK, StatusOK
<1>3. OrderedOK'
  BY DEF ContentsOK, SendsOK, OrderedOK
<1> QED BY <1>1, <1>2, <1>3

\* Messages leave queues and batches, those that stay keep their headers.
LEMMA ContentsKept ==
  ASSUME MessagesInv, FlowOK', mine' = mine,
         Len(inbound') = Len(inbound), Len(msgs') \in Nat, Len(msgs') >= Len(msgs),
         \A q \in 1 .. Len(inbound) : inbound'[q] = inbound[q] \/ inbound'[q] = <<>>,
         \A x \in Agents : \/ batch'[x] = batch[x] \/ batch'[x] = <<>>
                           \/ batch[x] # <<>> /\ batch'[x] = Tail(batch[x]),
         \A m \in 1 .. Len(msgs) : msgs'[m].refs # 0 =>
           \/ msgs'[m].from = msgs[m].from /\ msgs'[m].done = msgs[m].done
              /\ msgs'[m].status = msgs[m].status
           \/ /\ \A x \in Agents : ~ IsIn(m, batch'[x])
              /\ \A q \in 1 .. Len(inbound) : ~ IsIn(m, inbound'[q])
  PROVE  ContentsOK'
<1> DEFINE Same(m) == /\ msgs'[m].from = msgs[m].from /\ msgs'[m].done = msgs[m].done
                      /\ msgs'[m].status = msgs[m].status
<1>1. \A q \in 1 .. Len(inbound) : /\ Len(inbound'[q]) \in Nat
                                   /\ \A i \in 1 .. Len(inbound'[q]) :
                                        i \in 1 .. Len(inbound[q]) /\ inbound'[q][i] = inbound[q][i]
  <2> TAKE q \in 1 .. Len(inbound)
  <2>1. Len(<<>>) = 0 /\ \A i \in 1 .. 0 : FALSE
    OBVIOUS
  <2>2. CASE inbound'[q] = inbound[q]
    BY <2>2, MessageFacts
  <2>3. CASE inbound'[q] = <<>>
    BY <2>1, <2>3
  <2> QED BY <2>2, <2>3
<1>2. \A x \in Agents : \E cut \in {0, 1} :
        /\ Len(batch'[x]) \in Nat
        /\ \A i \in 1 .. Len(batch'[x]) :
             i + cut \in 1 .. Len(batch[x]) /\ batch'[x][i] = batch[x][i + cut]
  <2> TAKE x \in Agents
  <2>1. Len(<<>>) = 0 /\ \A i \in 1 .. 0 : FALSE
    OBVIOUS
  <2>2. CASE batch'[x] = batch[x]
    BY <2>2, ThreadFacts
  <2>3. CASE batch'[x] = <<>>
    BY <2>1, <2>3
  <2>4. CASE batch[x] # <<>> /\ batch'[x] = Tail(batch[x])
    <3>1. batch[x] \in Seq(Nat) /\ Len(batch[x]) \in Nat
      BY ThreadFacts
    <3>2. /\ Len(Tail(batch[x])) = Len(batch[x]) - 1
          /\ \A i \in 1 .. Len(batch[x]) - 1 : Tail(batch[x])[i] = batch[x][i + 1]
      BY <2>4, <3>1, HeadTailProperties
    <3>3. Len(batch[x]) # 0
      BY <2>4, <3>1
    <3> QED BY <2>4, <3>1, <3>2, <3>3
  <2> QED BY <2>2, <2>3, <2>4
<1>3. PICK place \in [Nat -> Places], holder \in [Nat -> Agents \cup Nat] :
        Located(place, holder)' /\ Counted(place)'
  BY DEF FlowOK
<1>4. ASSUME NEW m \in 1 .. Len(msgs), place[m] \in {"queue", "batch"} PROVE Same(m)
  <2>1. m \in 1 .. Len(msgs')
    BY MessageFacts
  <2>2. msgs'[m].refs # 0
    BY <1>3, <1>4, <2>1 DEF Counted
  <2>3. (\E x \in Agents : IsIn(m, batch'[x])) \/ (\E q \in 1 .. Len(inbound) : IsIn(m, inbound'[q]))
    BY <1>3, <1>4, <2>1 DEF Located, IsIn
  <2> QED BY <2>2, <2>3
<1>5. ASSUME NEW q \in 1 .. Len(inbound), NEW i \in 1 .. Len(inbound'[q])
      PROVE  /\ inbound'[q][i] \in 1 .. Len(msgs) /\ Same(inbound'[q][i])
             /\ Unanswered(inbound[q][i])
  <2>1. i \in 1 .. Len(inbound[q]) /\ inbound'[q][i] = inbound[q][i]
    BY <1>1
  <2>2. inbound[q][i] \in 1 .. Len(msgs) /\ Unanswered(inbound[q][i])
    BY <2>1, MessageFacts DEF MessagesInv, StatusOK
  <2>3. inbound'[q][i] \in 1 .. Len(msgs') /\ IsIn(inbound'[q][i], inbound'[q])
    BY SMTT(25), <2>1, <2>2, MessageFacts DEF IsIn
  <2>4. place[inbound'[q][i]] = "queue"
    BY <1>3, <2>3 DEF Located, IsIn
  <2> QED BY <1>4, <2>1, <2>2, <2>4
<1>6. ASSUME NEW x \in Agents, NEW i \in 1 .. Len(batch'[x])
      PROVE  batch'[x][i] \in 1 .. Len(msgs) /\ Same(batch'[x][i]) /\ Unanswered(batch'[x][i])
  <2>1. PICK k \in 1 .. Len(batch[x]) : batch'[x][i] = batch[x][k]
    BY <1>2
  <2>2. batch[x][k] \in 1 .. Len(msgs) /\ Unanswered(batch[x][k])
    BY <2>1, ThreadFacts DEF MessagesInv, StatusOK
  <2>3. batch'[x][i] \in 1 .. Len(msgs') /\ IsIn(batch'[x][i], batch'[x])
    BY <2>1, <2>2, MessageFacts DEF IsIn
  <2>4. place[batch'[x][i]] = "batch"
    BY <1>3, <2>3 DEF Located, IsIn
  <2> QED BY <1>4, <2>1, <2>2, <2>4
<1>7. ASSUME NEW k \in 1 .. Len(msgs), NEW m \in 1 .. Len(msgs), Same(k), Same(m), Precedes(k, m)
      PROVE  Precedes(k, m)'
  BY <1>7 DEF Precedes
<1>8. ASSUME NEW m \in 1 .. Len(msgs), Same(m), Unanswered(m) PROVE Unanswered(m)'
  BY <1>8 DEF Unanswered
<1> HIDE DEF Same
<1>9. ASSUME NEW q \in 1 .. Len(inbound)
      PROVE  /\ \A i \in 1 .. Len(inbound'[q]) :
                  inbound'[q][i] \in 1 .. Len(msgs') /\ Unanswered(inbound[q][i])'
             /\ \A i, j \in 1 .. Len(inbound'[q]) : inbound'[q][i] = inbound'[q][j] => i = j
             /\ \A i, j \in 1 .. Len(inbound'[q]) : i < j => Precedes(inbound[q][i], inbound[q][j])'
  <2>1. ASSUME NEW i \in 1 .. Len(inbound'[q])
        PROVE  inbound'[q][i] \in 1 .. Len(msgs') /\ Unanswered(inbound[q][i])'
    <3>1. /\ inbound'[q][i] = inbound[q][i] /\ inbound'[q][i] \in 1 .. Len(msgs)
          /\ Same(inbound'[q][i]) /\ Unanswered(inbound[q][i])
      BY <1>1, <1>5
    <3> QED BY <3>1, MessageFacts DEF Unanswered, Same
  <2>2. ASSUME NEW i \in 1 .. Len(inbound'[q]), NEW j \in 1 .. Len(inbound'[q])
        PROVE  /\ inbound'[q][i] = inbound'[q][j] => i = j
               /\ i < j => Precedes(inbound[q][i], inbound[q][j])'
    <3>1. /\ i \in 1 .. Len(inbound[q]) /\ inbound'[q][i] = inbound[q][i]
          /\ j \in 1 .. Len(inbound[q]) /\ inbound'[q][j] = inbound[q][j]
          /\ inbound'[q][i] \in 1 .. Len(msgs) /\ Same(inbound'[q][i])
          /\ inbound'[q][j] \in 1 .. Len(msgs) /\ Same(inbound'[q][j])
      BY <1>1, <1>5
    <3>2. /\ inbound[q][i] = inbound[q][j] => i = j
          /\ i < j => Precedes(inbound[q][i], inbound[q][j])
      BY <3>1 DEF MessagesInv, PlacesOK, OrderedOK
    <3>3. i < j => Precedes(inbound'[q][i], inbound'[q][j])
      BY <3>1, <3>2
    <3> QED BY <1>7, <3>1, <3>2, <3>3 DEF Precedes, Same
  <2> QED BY <2>1, <2>2
<1>10. ASSUME NEW x \in Agents
       PROVE  /\ \A i \in 1 .. Len(batch'[x]) :
                   batch'[x][i] \in 1 .. Len(msgs') /\ Unanswered(batch[x][i])'
              /\ \A i, j \in 1 .. Len(batch'[x]) : batch'[x][i] = batch'[x][j] => i = j
              /\ \A i, j \in 1 .. Len(batch'[x]) : i < j => Precedes(batch[x][i], batch[x][j])'
  <2>1. ASSUME NEW i \in 1 .. Len(batch'[x])
        PROVE  batch'[x][i] \in 1 .. Len(msgs') /\ Unanswered(batch[x][i])'
    <3>1. batch'[x][i] \in 1 .. Len(msgs) /\ Same(batch'[x][i]) /\ Unanswered(batch'[x][i])
      BY <1>6
    <3> QED BY <3>1, MessageFacts DEF Unanswered, Same
  <2>2. ASSUME NEW i \in 1 .. Len(batch'[x]), NEW j \in 1 .. Len(batch'[x])
        PROVE  /\ batch'[x][i] = batch'[x][j] => i = j
               /\ i < j => Precedes(batch[x][i], batch[x][j])'
    <3>1. PICK cut \in {0, 1} :
            /\ i + cut \in 1 .. Len(batch[x]) /\ batch'[x][i] = batch[x][i + cut]
            /\ j + cut \in 1 .. Len(batch[x]) /\ batch'[x][j] = batch[x][j + cut]
      BY <1>2
    <3>2. /\ batch[x][i + cut] = batch[x][j + cut] => i + cut = j + cut
          /\ i + cut < j + cut => Precedes(batch[x][i + cut], batch[x][j + cut])
      BY <3>1 DEF MessagesInv, PlacesOK, OrderedOK
    <3>3. i < j => Precedes(batch'[x][i], batch'[x][j])
      BY <3>1, <3>2
    <3>4. /\ batch'[x][i] \in 1 .. Len(msgs) /\ Same(batch'[x][i])
          /\ batch'[x][j] \in 1 .. Len(msgs) /\ Same(batch'[x][j])
      BY <1>6
    <3> QED BY <3>1, <3>2, <3>3, <3>4 DEF Precedes, Same
  <2> QED BY <2>1, <2>2
<1>11. ASSUME NEW x \in Agents, mine[x] # 0,
              NEW i \in 1 .. Len(batch'[x]), NEW j \in 1 .. Len(inbound'[mine[x]])
       PROVE  Precedes(batch[x][i], inbound[mine[x]][j])'
  <2>1. mine[x] \in 1 .. Len(inbound)
    BY <1>11, ThreadFacts
  <2>2. PICK k \in 1 .. Len(batch[x]) : batch'[x][i] = batch[x][k]
    BY <1>2
  <2>3. j \in 1 .. Len(inbound[mine[x]]) /\ inbound'[mine[x]][j] = inbound[mine[x]][j]
    BY <1>1, <2>1
  <2>4. Precedes(batch[x][k], inbound[mine[x]][j])
    BY <1>11, <2>3 DEF MessagesInv, OrderedOK
  <2>5. Precedes(batch'[x][i], inbound'[mine[x]][j])
    BY <2>2, <2>3, <2>4
  <2>6. Same(batch'[x][i]) /\ Same(inbound'[mine[x]][j])
    BY <1>5, <1>6, <2>1
  <2> QED BY <2>5, <2>6 DEF Precedes, Same
<1> QED BY <1>9, <1>10, <1>11 DEF ContentsOK

\* Sends end and handles go; the messages that stay keep their headers.
LEMMA SendsKept ==
  ASSUME MessagesInv, FlowOK', Len(msgs') = Len(msgs),
         \A x \in Agents : out'[x] = out[x] \/ out'[x] = Messages!Nothing,
         \A x \in Agents : req'[x] = req[x] \/ req'[x] = 0,
         \A m \in 1 .. Len(msgs) : msgs'[m].refs # 0 =>
           /\ msgs[m].refs # 0 /\ msgs'[m].from = msgs[m].from
           /\ \/ msgs'[m].done = msgs[m].done /\ msgs'[m].status = msgs[m].status
              \/ \A x \in Agents : out'[x].msg # m
  PROVE  SendsOK'
<1>1. PICK place \in [Nat -> Places], holder \in [Nat -> Agents \cup Nat] :
        Located(place, holder)' /\ Counted(place)'
  BY DEF FlowOK
<1>0. \A m \in 1 .. Len(msgs) :
        msgs'[m].refs = (IF place[m] = "gone" THEN 0 ELSE 1)
                        + (IF \E x \in Agents : req'[x] = m THEN 1 ELSE 0)
  BY <1>1 DEF Counted
<1>2. Messages!Nothing.msg = 0 /\ Messages!Nothing.step = "none"
  BY DEF Messages!Nothing
<1>3. ASSUME NEW x \in Agents
      PROVE  /\ out'[x].msg \in 0 .. Len(msgs')
             /\ req'[x] # 0 => req'[x] \in 1 .. Len(msgs') /\ msgs'[req'[x]].from = x
  <2>1. out'[x].msg \in 0 .. Len(msgs')
    BY <1>2, ThreadFacts, MessageFacts
  <2>2. ASSUME req'[x] # 0 PROVE req'[x] \in 1 .. Len(msgs') /\ msgs'[req'[x]].from = x
    <3>1. req'[x] = req[x] /\ req[x] \in 1 .. Len(msgs) /\ msgs[req[x]].from = x
      BY <2>2 DEF MessagesInv, PlacesOK
    <3>2. msgs'[req[x]].refs # 0
      <4>1. \E y \in Agents : req'[y] = req[x]
        BY <3>1
      <4>2. msgs'[req[x]].refs = (IF place[req[x]] = "gone" THEN 0 ELSE 1) + 1
        BY <1>0, <3>1, <4>1
      <4> QED BY <4>2
    <3> QED BY <3>1, <3>2
  <2> QED BY <2>1, <2>2
<1>4. ASSUME NEW x \in Agents, out'[x].step \in {"push", "complete"}
      PROVE  /\ out'[x].step = "push" => Unanswered(out[x].msg)'
             /\ out'[x].step = "complete" => msgs'[out'[x].msg].status = "Pending"
             /\ out'[x].step = "push" /\ ~msgs'[out'[x].msg].done =>
                  /\ msgs'[out'[x].msg].from = x
                  /\ \A m \in 1 .. Len(msgs') :
                       msgs'[m].refs # 0 /\ msgs'[m].from = x => m <= out'[x].msg
  <2>1. out'[x] = out[x] /\ out[x].msg # 0 /\ out[x].msg \in 1 .. Len(msgs)
    BY <1>2, <1>4, ThreadFacts, MessageFacts
  <2>2. msgs'[out[x].msg].refs # 0
    <3>1. place[out[x].msg] = "out" /\ out[x].msg \in 1 .. Len(msgs')
      BY <1>1, <2>1 DEF Located
    <3> QED BY SMTT(25), <1>0, <3>1
  <2>3. /\ msgs'[out[x].msg].from = msgs[out[x].msg].from
        /\ msgs'[out[x].msg].done = msgs[out[x].msg].done
        /\ msgs'[out[x].msg].status = msgs[out[x].msg].status
    BY <2>1, <2>2
  <2>4. /\ out'[x].step = "push" => Unanswered(out[x].msg)'
        /\ out'[x].step = "complete" => msgs'[out'[x].msg].status = "Pending"
    BY <2>1, <2>3 DEF MessagesInv, StatusOK, Unanswered
  <2>5. ASSUME out'[x].step = "push", ~msgs'[out'[x].msg].done
        PROVE  /\ msgs'[out'[x].msg].from = x
               /\ \A m \in 1 .. Len(msgs') :
                    msgs'[m].refs # 0 /\ msgs'[m].from = x => m <= out'[x].msg
    BY <2>1, <2>3, <2>5 DEF MessagesInv, OrderedOK
  <2> QED BY <2>4, <2>5
<1> QED BY <1>3, <1>4 DEF SendsOK

\* One message m goes to the place p, of the thread or the queue h.
Moves(m, p, h) ==
  /\ p \in {"out", "batch"} => h \in Agents
  /\ p = "queue" => h \in 1 .. Len(inbound)
  /\ (\E x \in Agents : out[x].msg = m) \/ (\E x \in Agents : IsIn(m, batch[x]))
  /\ Len(msgs') = Len(msgs) /\ Len(inbound') = Len(inbound) /\ req' = req
  /\ \A k \in 1 .. Len(msgs) :
       msgs'[k].refs = IF k = m /\ p = "gone" THEN msgs[k].refs - 1 ELSE msgs[k].refs
  /\ \A k \in 1 .. Len(msgs), x \in Agents :
       out'[x].msg = k <=> IF k = m THEN p = "out" /\ x = h ELSE out[x].msg = k
  /\ \A k \in 1 .. Len(msgs), x \in Agents :
       IsIn(k, batch'[x]) <=> IF k = m THEN p = "batch" /\ x = h ELSE IsIn(k, batch[x])
  /\ \A k \in 1 .. Len(msgs), q \in 1 .. Len(inbound) :
       IsIn(k, inbound'[q]) <=> IF k = m THEN p = "queue" /\ q = h ELSE IsIn(k, inbound[q])
  /\ \A k \in 1 .. Len(msgs) : k \in lost' <=> IF k = m THEN p = "lost" ELSE k \in lost

LEMMA Moved ==
  ASSUME MessagesInv, NEW m \in 1 .. Len(msgs), NEW p \in Places, NEW h \in Agents \cup Nat,
         Moves(m, p, h)
  PROVE  FlowOK'
<1> USE DEF Moves
<1>1. PICK place \in [Nat -> Places], holder \in [Nat -> Agents \cup Nat] :
        Located(place, holder) /\ Counted(place)
  BY DEF MessagesInv, FlowOK
<1> DEFINE newPlace == [place EXCEPT ![m] = p]
           newHolder == [holder EXCEPT ![m] = h]
<1>2. Len(msgs) \in Nat /\ \A k \in 1 .. Len(msgs) : k \in Nat
  BY MessageFacts
<1>3. /\ newPlace \in [Nat -> Places] /\ newHolder \in [Nat -> Agents \cup Nat]
      /\ \A k \in 1 .. Len(msgs) : newPlace[k] = IF k = m THEN p ELSE place[k]
      /\ \A k \in 1 .. Len(msgs) : newHolder[k] = IF k = m THEN h ELSE holder[k]
  BY <1>2
<1> HIDE DEF newPlace, newHolder
<1>4. \A k \in 1 .. Len(msgs'), x \in Agents :
        out'[x].msg = k <=> newPlace[k] = "out" /\ newHolder[k] = x
  BY <1>1, <1>3 DEF Located
<1>5. \A k \in 1 .. Len(msgs'), x \in Agents :
        IsIn(k, batch'[x]) <=> newPlace[k] = "batch" /\ newHolder[k] = x
  BY <1>1, <1>3 DEF Located
<1>6. \A k \in 1 .. Len(msgs'), q \in 1 .. Len(inbound') :
        IsIn(k, inbound'[q]) <=> newPlace[k] = "queue" /\ newHolder[k] = q
  BY <1>1, <1>3 DEF Located
<1>7. /\ \A k \in 1 .. Len(msgs') : k \in lost' <=> newPlace[k] = "lost"
      /\ \A k \in 1 .. Len(msgs') : newPlace[k] \in {"out", "batch"} => newHolder[k] \in Agents
      /\ \A k \in 1 .. Len(msgs') : newPlace[k] = "queue" => newHolder[k] \in 1 .. Len(inbound')
  BY <1>1, <1>3 DEF Located
<1>8. Located(newPlace, newHolder)'
  BY <1>4, <1>5, <1>6, <1>7 DEF Located, IsIn
<1>9. place[m] # "gone"
  BY <1>1 DEF Located
<1>10. \A k \in 1 .. Len(msgs') :
         msgs'[k].refs = (IF newPlace[k] = "gone" THEN 0 ELSE 1)
                         + (IF \E x \in Agents : req'[x] = k THEN 1 ELSE 0)
  <2> TAKE k \in 1 .. Len(msgs')
  <2>1. msgs[k].refs = (IF place[k] = "gone" THEN 0 ELSE 1)
                       + (IF \E x \in Agents : req[x] = k THEN 1 ELSE 0)
    BY <1>1 DEF Counted
  <2> QED BY <1>3, <1>9, <2>1
<1>11. Counted(newPlace)'
  BY <1>10 DEF Counted
<1> QED BY <1>3, <1>8, <1>11 DEF FlowOK

LEMMA RegisterTwiceInv ==
  ASSUME MessagesInv, NEW x \in Agents, Messages!RegisterTwice(x)
  PROVE  MessagesInv'
<1>0. PICK n \in Nat : n = Len(inbound)
  BY MessageFacts
<1>1. /\ free = <<>> /\ inbound' = Append(inbound, <<>>) /\ free' = <<n + 1>>
      /\ UNCHANGED <<route, msgs, agentPc, mine, batch, out, req, lost>>
  BY <1>0 DEF Messages!RegisterTwice, Messages!local
<1>2. /\ FlowOK' /\ PlacesOK' /\ StatusOK' /\ OrderedOK'
      /\ inbound' \in Seq(Seq(Nat)) /\ Len(inbound') = n + 1
  BY <1>0, <1>1, QueueAdded
<1>3. ThreadsOK'
  <2> SUFFICES ASSUME NEW y \in Agents
               PROVE  out[y].step = "push" => out[y].queue \in 1 .. n + 1
    BY <1>1, <1>2 DEF MessagesInv, ThreadsOK
  <2>1. out[y].step = "push" => out[y].queue \in 1 .. n
    BY <1>0 DEF MessagesInv, ThreadsOK
  <2> QED BY <2>1
<1>4. Len(free) = 0 /\ Len(free') = 1 /\ free'[1] = n + 1 /\ \A i \in 1 .. 0 : FALSE
  BY <1>1
<1>5. \A y \in Agents : mine[y] \in 0 .. n
  BY <1>0 DEF MessagesInv, QueuesOK
<1>6. ASSUME NEW q \in 1 .. n + 1, \A y \in Agents : mine[y] # q
      PROVE  q = n + 1
  <2>1. ASSUME q \in 1 .. n PROVE FALSE
    BY <1>0, <1>4, <1>6, <2>1 DEF MessagesInv, QueuesOK
  <2> QED BY <2>1
<1>7. QueuesOK'
  <2>1. \A y \in Agents : mine'[y] \in 0 .. Len(inbound') /\ route'[y] \in {0, mine'[y]}
    BY <1>1, <1>2, <1>5 DEF MessagesInv, QueuesOK
  <2>2. \A y, z \in Agents : mine'[y] # 0 /\ mine'[y] = mine'[z] => y = z
    BY <1>1 DEF MessagesInv, QueuesOK
  <2>3. \A i \in 1 .. Len(free') : i = 1 /\ free'[i] = n + 1
    BY <1>4
  <2>4. \A y \in Agents : mine'[y] # n + 1
    BY <1>1, <1>5
  <2>5. n + 1 \in 1 .. Len(inbound')
    BY <1>2
  <2>6. \A q \in 1 .. Len(inbound') :
          (\A y \in Agents : mine'[y] # q) => \E i \in 1 .. Len(free') : free'[i] = q
    <3> TAKE q \in 1 .. Len(inbound')
    <3> HAVE \A y \in Agents : mine'[y] # q
    <3>1. q = n + 1
      BY <1>1, <1>2, <1>6
    <3>2. 1 \in 1 .. Len(free')
      BY <1>4
    <3> QED BY <1>4, <3>1, <3>2
  <2> QED BY <2>1, <2>2, <2>3, <2>4, <2>5, <2>6 DEF QueuesOK
<1>8. MessageTypes'
  <2>1. free' \in Seq(Nat)
    BY <1>1
  <2> QED BY <1>1, <1>2, <2>1 DEF MessagesInv, MessageTypes
<1> QED BY <1>2, <1>3, <1>7, <1>8 DEF MessagesInv

LEMMA UnregisterInv ==
  ASSUME MessagesInv, NEW x \in Agents, Messages!Unregister(x)
  PROVE  MessagesInv'
<1>1. /\ agentPc[x] = "idle" /\ mine[x] # 0
      /\ route' = [route EXCEPT ![x] = 0] /\ agentPc' = [agentPc EXCEPT ![x] = "clear"]
      /\ UNCHANGED <<inbound, free, msgs, mine, batch, out, req, lost>>
  BY DEF Messages!Unregister, Messages!At, Messages!RemoveRoute, Messages!Goto
<1>2. /\ \A y \in Agents : route'[y] = IF y = x THEN 0 ELSE route[y]
      /\ \A y \in Agents : agentPc'[y] = IF y = x THEN "clear" ELSE agentPc[y]
  BY <1>1 DEF MessagesInv, MessageTypes
<1>3. MessageTypes'
  BY <1>1 DEF MessagesInv, MessageTypes, AgentPlaces
<1>4. batch[x] = <<>>
  BY <1>1 DEF MessagesInv, ThreadsOK
<1>5. ThreadsOK'
  <2> SUFFICES ASSUME NEW y \in Agents
               PROVE  /\ batch[y] # <<>> => agentPc'[y] = "poll"
                      /\ agentPc'[y] \in {"poll", "waitCheck", "waitSleep", "asleep", "clear", "free"}
                           => mine[y] # 0
                      /\ agentPc'[y] \in {"clear", "free"} => route'[y] = 0
                      /\ agentPc'[y] \in {"handleFlag", "handleSleep", "handleAsleep", "handleCheck"}
                           => req[y] # 0
                      /\ out[y].step = "push" => out[y].queue \in 1 .. Len(inbound)
    BY <1>1 DEF ThreadsOK
  <2> QED BY <1>1, <1>2, <1>4 DEF MessagesInv, ThreadsOK
<1>6. QueuesOK'
  <2>1. \A y \in Agents : mine'[y] \in 0 .. Len(inbound') /\ route'[y] \in {0, mine'[y]}
    BY <1>1, <1>2 DEF MessagesInv, QueuesOK
  <2>2. UNCHANGED <<mine, free, inbound>>
    BY <1>1
  <2> QED BY <2>1, <2>2 DEF MessagesInv, QueuesOK
<1>7. FlowOK' /\ PlacesOK' /\ StatusOK' /\ OrderedOK'
  BY <1>1, FlowKept
<1> QED BY <1>3, <1>5, <1>6, <1>7 DEF MessagesInv

\* A queue has a message once at most: clearing it takes one owner of each.
LEMMA ReleasedAllFacts ==
  ASSUME NEW ms \in Seq(Headers \cup {Messages!Freed}), NEW s \in Seq(Nat),
         \A i \in 1 .. Len(s) : s[i] \in 1 .. Len(ms) /\ ms[s[i]] \in Headers,
         \A i, j \in 1 .. Len(s) : s[i] = s[j] => i = j
  PROVE  LET rs == Messages!ReleasedAll(ms, s)
         IN  /\ rs \in Seq(Headers \cup {Messages!Freed}) /\ Len(rs) = Len(ms)
             /\ \A m \in 1 .. Len(ms) : ~ IsIn(m, s) => rs[m] = ms[m]
             /\ \A m \in 1 .. Len(ms) : IsIn(m, s) =>
                  /\ rs[m].refs = ms[m].refs - 1
                  /\ rs[m].refs # 0 => /\ rs[m].from = ms[m].from /\ rs[m].done = ms[m].done
                                       /\ rs[m].status = ms[m].status
<1> DEFINE places(m) == {i \in DOMAIN s : s[i] = m}
           rs == Messages!ReleasedAll(ms, s)
<1>1. DOMAIN s = 1 .. Len(s) /\ DOMAIN ms = 1 .. Len(ms) /\ Len(ms) \in Nat /\ Len(s) \in Nat
  BY LenProperties
<1>2. rs = [m \in DOMAIN ms |-> IF Messages!Cardinality(places(m)) = 0 THEN ms[m]
                                ELSE Messages!Without(ms[m], Messages!Cardinality(places(m)))]
  BY DEF Messages!ReleasedAll
<1>3. ASSUME NEW m \in 1 .. Len(ms), ~ IsIn(m, s)
      PROVE  Messages!Cardinality(places(m)) = 0
  <2>1. places(m) = {}
    BY <1>1, <1>3 DEF IsIn
  <2> QED BY <2>1, FS_EmptySet DEF Messages!Cardinality, Cardinality
<1>4. ASSUME NEW m \in 1 .. Len(ms), IsIn(m, s)
      PROVE  Messages!Cardinality(places(m)) = 1
  <2>1. PICK i \in 1 .. Len(s) : s[i] = m
    BY <1>4 DEF IsIn
  <2>2. places(m) = {i}
    BY <1>1, <2>1
  <2>3. Cardinality({i}) = 1
    BY FS_Singleton
  <2>4. Messages!Cardinality({i}) = 1
    BY <2>3 DEF Messages!Cardinality, Cardinality
  <2> QED BY <2>2, <2>4
<1> HIDE DEF places
<1>5. ASSUME NEW m \in 1 .. Len(ms)
      PROVE  rs[m] = IF IsIn(m, s) THEN Messages!Without(ms[m], 1) ELSE ms[m]
  BY <1>1, <1>2, <1>3, <1>4
<1>6. DOMAIN rs = 1 .. Len(ms)
  BY <1>1, <1>2
<1>7. ASSUME NEW m \in 1 .. Len(ms), IsIn(m, s)
      PROVE  LET h == Messages!Without(ms[m], 1)
             IN  /\ h \in Headers \cup {Messages!Freed} /\ h.refs = ms[m].refs - 1
                 /\ h.refs # 0 => /\ h.from = ms[m].from /\ h.done = ms[m].done
                                  /\ h.status = ms[m].status
  <2>0. ms[m] \in Headers
    BY <1>7 DEF IsIn
  <2>1. CASE ms[m].refs = 1
    BY <2>0, <2>1 DEF Headers, Messages!Freed, Messages!Without
  <2>2. CASE ms[m].refs = 2
    BY SMTT(25), <2>0, <2>2 DEF Headers, Messages!Without
  <2> QED BY <2>0, <2>1, <2>2 DEF Headers
<1> HIDE DEF rs
<1>8. \A m \in 1 .. Len(ms) : rs[m] \in Headers \cup {Messages!Freed}
  BY <1>5, <1>7, ElementOfSeq
<1>9. rs = [m \in 1 .. Len(ms) |-> rs[m]]
  BY <1>1, <1>2, <1>6 DEF rs
<1>10. rs \in [1 .. Len(ms) -> Headers \cup {Messages!Freed}]
  BY <1>8, <1>9
<1>11. rs \in Seq(Headers \cup {Messages!Freed}) /\ Len(rs) = Len(ms)
  <2>1. PICK n \in Nat : n = Len(ms)
    BY <1>1
  <2>2. rs \in [1 .. n -> Headers \cup {Messages!Freed}]
    BY <1>10, <2>1
  <2>3. rs \in Seq(Headers \cup {Messages!Freed})
    BY <2>2, SeqDef
  <2> QED BY <1>6, <2>1, <2>3, LenProperties
<1> QED BY <1>5, <1>7, <1>11 DEF rs

LEMMA ClearQueueInv ==
  ASSUME MessagesInv, NEW x \in Agents, Messages!ClearQueue(x)
  PROVE  MessagesInv'
<1>0. PICK q \in Nat : q = mine[x]
  BY ThreadFacts, MessageFacts
<1>1. /\ agentPc[x] = "clear" /\ msgs' = Messages!ReleasedAll(msgs, inbound[q])
      /\ inbound' = [inbound EXCEPT ![q] = <<>>]
      /\ agentPc' = [agentPc EXCEPT ![x] = "free"]
      /\ UNCHANGED <<route, free, mine, batch, out, req, lost>>
  BY <1>0 DEF Messages!ClearQueue, Messages!At, Messages!Goto
<1>2. q \in 1 .. Len(inbound) /\ route[x] = 0 /\ batch[x] = <<>>
  <2>1. q # 0 /\ route[x] = 0 /\ batch[x] = <<>>
    BY <1>0, <1>1 DEF MessagesInv, ThreadsOK
  <2> QED BY <1>0, <2>1, ThreadFacts, MessageFacts
<1>3. /\ msgs \in Seq(Headers \cup {Messages!Freed}) /\ inbound \in Seq(Seq(Nat))
      /\ inbound[q] \in Seq(Nat) /\ <<>> \in Seq(Nat)
  BY <1>2, MessageFacts DEF MessagesInv, MessageTypes
<1>4. /\ \A i \in 1 .. Len(inbound[q]) : inbound[q][i] \in 1 .. Len(msgs) /\ msgs[inbound[q][i]] \in Headers
      /\ \A i, j \in 1 .. Len(inbound[q]) : inbound[q][i] = inbound[q][j] => i = j
  <2>1. \A i \in 1 .. Len(inbound[q]) : inbound[q][i] \in 1 .. Len(msgs) /\ msgs[inbound[q][i]].refs # 0
    BY <1>2, MessageFacts, Apart
  <2>2. \A i, j \in 1 .. Len(inbound[q]) : inbound[q][i] = inbound[q][j] => i = j
    BY <1>2 DEF MessagesInv, PlacesOK
  <2> QED BY <2>1, <2>2, MessageFacts
<1>5. /\ msgs' \in Seq(Headers \cup {Messages!Freed}) /\ Len(msgs') = Len(msgs)
      /\ \A m \in 1 .. Len(msgs) : ~ IsIn(m, inbound[q]) => msgs'[m] = msgs[m]
      /\ \A m \in 1 .. Len(msgs) : IsIn(m, inbound[q]) =>
           /\ msgs'[m].refs = msgs[m].refs - 1
           /\ msgs'[m].refs # 0 => /\ msgs'[m].from = msgs[m].from /\ msgs'[m].done = msgs[m].done
                                   /\ msgs'[m].status = msgs[m].status
  BY ZenonT(40), <1>1, <1>3, <1>4, ReleasedAllFacts
<1>6. /\ inbound' \in Seq(Seq(Nat)) /\ Len(inbound') = Len(inbound)
      /\ \A r \in 1 .. Len(inbound) : inbound'[r] = IF r = q THEN <<>> ELSE inbound[r]
  BY <1>1, <1>2, <1>3, ExceptSeq
<1>7. \A y \in Agents : agentPc'[y] = IF y = x THEN "free" ELSE agentPc[y]
  BY <1>1 DEF MessagesInv, MessageTypes
<1>8. MessageTypes'
  <2>1. agentPc' \in [Agents -> AgentPlaces]
    BY <1>1 DEF MessagesInv, MessageTypes, AgentPlaces
  <2> QED BY <1>1, <1>5, <1>6, <2>1 DEF MessagesInv, MessageTypes
<1>9. ThreadsOK'
  <2> SUFFICES ASSUME NEW y \in Agents
               PROVE  /\ batch[y] # <<>> => agentPc'[y] = "poll"
                      /\ agentPc'[y] \in {"poll", "waitCheck", "waitSleep", "asleep", "clear", "free"}
                           => mine[y] # 0
                      /\ agentPc'[y] \in {"clear", "free"} => route[y] = 0
                      /\ agentPc'[y] \in {"handleFlag", "handleSleep", "handleAsleep", "handleCheck"}
                           => req[y] # 0
                      /\ out[y].step = "push" => out[y].queue \in 1 .. Len(inbound)
    BY <1>1, <1>6 DEF ThreadsOK
  <2> QED BY <1>0, <1>1, <1>2, <1>7 DEF MessagesInv, ThreadsOK
<1>10. QueuesOK'
  BY <1>1, <1>6, QueuesKept
<1>11. FlowOK'
  <2>1. PICK place \in [Nat -> Places], holder \in [Nat -> Agents \cup Nat] :
          Located(place, holder) /\ Counted(place)
    BY DEF MessagesInv, FlowOK
  <2> DEFINE newPlace == [k \in Nat |-> IF place[k] = "queue" /\ holder[k] = q THEN "gone" ELSE place[k]]
  <2>2. newPlace \in [Nat -> Places]
    BY DEF Places
  <2>3. /\ Len(msgs) \in Nat
        /\ \A k \in 1 .. Len(msgs) : k \in Nat
        /\ \A k \in 1 .. Len(msgs) :
             newPlace[k] = IF place[k] = "queue" /\ holder[k] = q THEN "gone" ELSE place[k]
    BY MessageFacts
  <2> HIDE DEF newPlace
  <2>4. \A k \in 1 .. Len(msgs) : IsIn(k, inbound[q]) <=> place[k] = "queue" /\ holder[k] = q
    BY <1>2, <2>1 DEF Located
  <2>5. \A k \in 1 .. Len(msgs), r \in 1 .. Len(inbound) :
          IsIn(k, inbound'[r]) <=> newPlace[k] = "queue" /\ holder[k] = r
    <3> TAKE k \in 1 .. Len(msgs), r \in 1 .. Len(inbound)
    <3>1. CASE r = q
      <4>0. inbound'[r] = <<>>
        BY <1>6, <3>1
      <4>1. Len(inbound'[r]) = 0 /\ \A i \in 1 .. 0 : FALSE
        BY <4>0
      <4>2. ~ IsIn(k, inbound'[r])
        BY <4>1 DEF IsIn
      <4> QED BY <2>3, <3>1, <4>2
    <3>2. CASE r # q
      BY <1>6, <2>1, <2>3, <3>2 DEF Located
    <3> QED BY <3>1, <3>2
  <2>6. /\ \A k \in 1 .. Len(msgs), y \in Agents :
             out[y].msg = k <=> newPlace[k] = "out" /\ holder[k] = y
        /\ \A k \in 1 .. Len(msgs), y \in Agents :
             IsIn(k, batch[y]) <=> newPlace[k] = "batch" /\ holder[k] = y
    BY <2>1, <2>3 DEF Located
  <2>7. /\ \A k \in 1 .. Len(msgs) : k \in lost <=> newPlace[k] = "lost"
        /\ \A k \in 1 .. Len(msgs) : newPlace[k] \in {"out", "batch"} => holder[k] \in Agents
        /\ \A k \in 1 .. Len(msgs) : newPlace[k] = "queue" => holder[k] \in 1 .. Len(inbound)
    BY <2>1, <2>3 DEF Located
  <2>8. Located(newPlace, holder)'
    BY SMTT(25), <1>1, <1>5, <1>6, <2>5, <2>6, <2>7 DEF Located, IsIn
  <2>9. \A k \in 1 .. Len(msgs') :
          msgs'[k].refs = (IF newPlace[k] = "gone" THEN 0 ELSE 1)
                          + (IF \E y \in Agents : req'[y] = k THEN 1 ELSE 0)
    <3> TAKE k \in 1 .. Len(msgs')
    <3>1. k \in 1 .. Len(msgs) /\ req' = req
      BY <1>1, <1>5
    <3>2. msgs[k].refs = (IF place[k] = "gone" THEN 0 ELSE 1)
                         + (IF \E y \in Agents : req[y] = k THEN 1 ELSE 0)
      BY <2>1, <3>1 DEF Counted
    <3>3. CASE IsIn(k, inbound[q])
      BY <1>5, <2>3, <2>4, <3>1, <3>2, <3>3
    <3>4. CASE ~ IsIn(k, inbound[q])
      BY <1>5, <2>3, <2>4, <3>1, <3>2, <3>4
    <3> QED BY <3>3, <3>4
  <2>10. Counted(newPlace)'
    BY <2>9 DEF Counted
  <2> QED BY <2>2, <2>8, <2>10 DEF FlowOK
<1>12. \A m \in 1 .. Len(msgs) : msgs'[m].refs # 0 =>
         /\ msgs[m].refs # 0
         /\ msgs'[m].from = msgs[m].from /\ msgs'[m].done = msgs[m].done
         /\ msgs'[m].status = msgs[m].status
  <2> TAKE m \in 1 .. Len(msgs)
  <2>1. CASE IsIn(m, inbound[q])
    <3>1. msgs[m].refs # 0
      BY <1>4, <2>1 DEF IsIn, Headers
    <3> QED BY <1>5, <2>1, <3>1
  <2>2. CASE ~ IsIn(m, inbound[q])
    BY <1>5, <2>2
  <2> QED BY <2>1, <2>2
<1>13. ContentsOK'
  BY <1>1, <1>5, <1>6, <1>11, <1>12, MessageFacts, ContentsKept
<1>14. SendsOK'
  BY <1>1, <1>5, <1>11, <1>12, SendsKept
<1> QED BY <1>8, <1>9, <1>10, <1>11, <1>13, <1>14, Halves DEF MessagesInv

LEMMA FreeQueueInv ==
  ASSUME MessagesInv, NEW x \in Agents, Messages!FreeQueue(x)
  PROVE  MessagesInv'
<1>0. PICK l \in Nat : l = Len(free)
  BY LenProperties DEF MessagesInv, MessageTypes
<1>1. /\ agentPc[x] = "free" /\ free' = Append(free, mine[x]) /\ mine' = [mine EXCEPT ![x] = 0]
      /\ agentPc' = [agentPc EXCEPT ![x] = "idle"]
      /\ UNCHANGED <<route, inbound, msgs, batch, out, req, lost>>
  BY DEF Messages!FreeQueue, Messages!At, Messages!Goto
<1>2. /\ mine[x] \in 1 .. Len(inbound) /\ mine[x] \in Nat /\ route[x] = 0 /\ batch[x] = <<>>
  <2>1. mine[x] # 0 /\ route[x] = 0 /\ batch[x] = <<>>
    BY <1>1 DEF MessagesInv, ThreadsOK
  <2> QED BY <2>1, ThreadFacts, MessageFacts
<1>3. /\ free' \in Seq(Nat) /\ Len(free') = l + 1 /\ free'[l + 1] = mine[x]
      /\ \A i \in 1 .. l : free'[i] = free[i]
  BY <1>0, <1>1, <1>2, AppendProperties DEF MessagesInv, MessageTypes
<1>4. /\ \A y \in Agents : agentPc'[y] = IF y = x THEN "idle" ELSE agentPc[y]
      /\ \A y \in Agents : mine'[y] = IF y = x THEN 0 ELSE mine[y]
  BY <1>1 DEF MessagesInv, MessageTypes
<1>5. MessageTypes'
  BY <1>1, <1>3 DEF MessagesInv, MessageTypes, AgentPlaces
<1>6. ThreadsOK'
  <2> SUFFICES ASSUME NEW y \in Agents
               PROVE  /\ batch[y] # <<>> => agentPc'[y] = "poll"
                      /\ agentPc'[y] \in {"poll", "waitCheck", "waitSleep", "asleep", "clear", "free"}
                           => mine'[y] # 0
                      /\ agentPc'[y] \in {"clear", "free"} => route[y] = 0
                      /\ agentPc'[y] \in {"handleFlag", "handleSleep", "handleAsleep", "handleCheck"}
                           => req[y] # 0
                      /\ out[y].step = "push" => out[y].queue \in 1 .. Len(inbound)
    BY <1>1 DEF ThreadsOK
  <2> QED BY <1>1, <1>2, <1>4 DEF MessagesInv, ThreadsOK
<1>7. QueuesOK'
  <2>1. \A y \in Agents : mine'[y] \in 0 .. Len(inbound') /\ route'[y] \in {0, mine'[y]}
    <3> TAKE y \in Agents
    <3>1. mine[y] \in 0 .. Len(inbound) /\ route[y] \in {0, mine[y]} /\ Len(inbound) \in Nat
      BY MessageFacts DEF MessagesInv, QueuesOK
    <3> QED BY <1>1, <1>2, <1>4, <3>1
  <2>2. \A y, z \in Agents : mine'[y] # 0 /\ mine'[y] = mine'[z] => y = z
    BY <1>4 DEF MessagesInv, QueuesOK
  <2>3. \A i \in 1 .. l : free[i] \in 1 .. Len(inbound) /\ \A y \in Agents : mine[y] # free[i]
    BY <1>0 DEF MessagesInv, QueuesOK
  <2>4. ASSUME NEW i \in 1 .. l + 1
        PROVE  free'[i] \in 1 .. Len(inbound) /\ \A y \in Agents : mine'[y] # free'[i]
    <3>1. CASE i \in 1 .. l
      <4>1. free'[i] = free[i] /\ free[i] \in 1 .. Len(inbound) /\ \A y \in Agents : mine[y] # free[i]
        BY <1>3, <2>3, <3>1
      <4>2. free[i] # 0
        BY <4>1, MessageFacts
      <4> QED BY <1>4, <4>1, <4>2
    <3>2. CASE i = l + 1
      <4>1. mine[x] # 0
        BY <1>2, MessageFacts
      <4>2. \A y \in Agents : mine'[y] # mine[x]
        BY <1>4, <4>1 DEF MessagesInv, QueuesOK
      <4> QED BY <1>2, <1>3, <3>2, <4>2
    <3> QED BY <3>1, <3>2
  <2>5. ASSUME NEW i \in 1 .. l + 1, NEW j \in 1 .. l + 1, free'[i] = free'[j]
        PROVE  i = j
    <3>1. CASE i \in 1 .. l /\ j \in 1 .. l
      BY <1>0, <1>3, <2>5, <3>1 DEF MessagesInv, QueuesOK
    <3>2. CASE i = l + 1 /\ j \in 1 .. l
      BY <1>3, <2>3, <2>5, <3>2
    <3>3. CASE i \in 1 .. l /\ j = l + 1
      BY <1>3, <2>3, <2>5, <3>3
    <3> QED BY <3>1, <3>2, <3>3
  <2>6. ASSUME NEW r \in 1 .. Len(inbound), \A y \in Agents : mine'[y] # r
        PROVE  \E i \in 1 .. l + 1 : free'[i] = r
    <3>1. CASE r = mine[x]
      <4>1. l + 1 \in 1 .. l + 1
        OBVIOUS
      <4> QED BY <1>3, <3>1, <4>1
    <3>2. CASE r # mine[x]
      <4>1. \A y \in Agents : mine[y] # r
        BY <1>4, <2>6, <3>2
      <4>2. PICK i \in 1 .. l : free[i] = r
        BY <1>0, <4>1 DEF MessagesInv, QueuesOK
      <4>3. i \in 1 .. l + 1
        OBVIOUS
      <4> QED BY <1>3, <4>2, <4>3
    <3> QED BY <3>1, <3>2
  <2> QED BY <1>1, <1>3, <2>1, <2>2, <2>4, <2>5, <2>6 DEF QueuesOK
<1>8. FlowOK' /\ PlacesOK' /\ StatusOK' /\ OrderedOK'
  BY <1>1, <1>2, <1>4, FlowKept
<1> QED BY <1>5, <1>6, <1>7, <1>8 DEF MessagesInv

\* A new message n + 1 is with its sender, or freed at once.
Added(n, x, p, kind) ==
  /\ n = Len(msgs) /\ Len(msgs') = n + 1 /\ \A k \in 1 .. n : msgs'[k] = msgs[k]
  /\ msgs'[n + 1].refs = (IF p = "gone" THEN 0 ELSE 1) + (IF kind = "handle" THEN 1 ELSE 0)
  /\ inbound' = inbound /\ batch' = batch /\ lost' = lost
  /\ out[x].msg = 0
  /\ \A y \in Agents : out'[y].msg = IF y = x /\ p = "out" THEN n + 1 ELSE out[y].msg
  /\ kind = "handle" => req[x] = 0
  /\ \A y \in Agents : req'[y] = IF y = x /\ kind = "handle" THEN n + 1 ELSE req[y]

LEMMA FlowAdded ==
  ASSUME MessagesInv, NEW n \in Nat, NEW x \in Agents, NEW p \in {"out", "gone"}, NEW kind,
         Added(n, x, p, kind)
  PROVE  FlowOK'
<1> USE DEF Added
<1>1. PICK place \in [Nat -> Places], holder \in [Nat -> Agents \cup Nat] :
        Located(place, holder) /\ Counted(place)
  BY DEF MessagesInv, FlowOK
<1> DEFINE newPlace == [place EXCEPT ![n + 1] = p]
           newHolder == [holder EXCEPT ![n + 1] = x]
<1>2. /\ newPlace \in [Nat -> Places] /\ newHolder \in [Nat -> Agents \cup Nat]
      /\ newPlace[n + 1] = p /\ newHolder[n + 1] = x
      /\ \A k \in 1 .. n : newPlace[k] = place[k] /\ newHolder[k] = holder[k]
  BY DEF Places
<1> HIDE DEF newPlace, newHolder
<1>3. \A k \in 1 .. n + 1 : k \in 1 .. n \/ k = n + 1
  OBVIOUS
<1>4. /\ \A y \in Agents : out[y].msg \in 0 .. n /\ req[y] \in 0 .. n
      /\ \A y \in Agents : ~ IsIn(n + 1, batch[y])
      /\ \A q \in 1 .. Len(inbound) : ~ IsIn(n + 1, inbound[q])
      /\ n + 1 \notin lost
  <2>1. \A y \in Agents : ~ IsIn(n + 1, batch[y])
    BY ThreadFacts DEF IsIn
  <2>2. \A q \in 1 .. Len(inbound) : ~ IsIn(n + 1, inbound[q])
    BY MessageFacts DEF IsIn
  <2>3. n + 1 \notin lost
    BY DEF MessagesInv, MessageTypes
  <2> QED BY <2>1, <2>2, <2>3, ThreadFacts
<1>5. \A k \in 1 .. n + 1, y \in Agents :
        out'[y].msg = k <=> newPlace[k] = "out" /\ newHolder[k] = y
  <2> TAKE k \in 1 .. n + 1, y \in Agents
  <2>1. CASE k \in 1 .. n
    <3>1. out'[y].msg = k <=> out[y].msg = k
      BY <2>1
    <3>2. out[y].msg = k <=> place[k] = "out" /\ holder[k] = y
      BY <1>1, <2>1 DEF Located
    <3> QED BY <1>2, <2>1, <3>1, <3>2
  <2>2. CASE k = n + 1
    BY <1>2, <1>4, <2>2
  <2> QED BY <1>3, <2>1, <2>2
<1>6. \A k \in 1 .. n + 1, y \in Agents :
        IsIn(k, batch[y]) <=> newPlace[k] = "batch" /\ newHolder[k] = y
  BY <1>1, <1>2, <1>3, <1>4 DEF Located
<1>7. \A k \in 1 .. n + 1, q \in 1 .. Len(inbound) :
        IsIn(k, inbound[q]) <=> newPlace[k] = "queue" /\ newHolder[k] = q
  <2> TAKE k \in 1 .. n + 1, q \in 1 .. Len(inbound)
  <2>1. CASE k \in 1 .. n
    BY <1>1, <1>2, <2>1 DEF Located
  <2>2. CASE k = n + 1
    BY <1>2, <1>4, <2>2
  <2> QED BY <1>3, <2>1, <2>2
<1>8. /\ \A k \in 1 .. n + 1 : k \in lost <=> newPlace[k] = "lost"
      /\ \A k \in 1 .. n + 1 : newPlace[k] \in {"out", "batch"} => newHolder[k] \in Agents
      /\ \A k \in 1 .. n + 1 : newPlace[k] = "queue" => newHolder[k] \in 1 .. Len(inbound)
  <2> SUFFICES ASSUME NEW k \in 1 .. n + 1
               PROVE  /\ k \in lost <=> newPlace[k] = "lost"
                      /\ newPlace[k] \in {"out", "batch"} => newHolder[k] \in Agents
                      /\ newPlace[k] = "queue" => newHolder[k] \in 1 .. Len(inbound)
    OBVIOUS
  <2>1. CASE k \in 1 .. n
    BY <1>1, <1>2, <2>1 DEF Located
  <2>2. CASE k = n + 1
    BY <1>2, <1>4, <2>2
  <2> QED BY <1>3, <2>1, <2>2
<1>9. Located(newPlace, newHolder)'
  BY <1>5, <1>6, <1>7, <1>8 DEF Located, IsIn
<1>10. \A k \in 1 .. n + 1 :
         msgs'[k].refs = (IF newPlace[k] = "gone" THEN 0 ELSE 1)
                         + (IF \E y \in Agents : req'[y] = k THEN 1 ELSE 0)
  <2> TAKE k \in 1 .. n + 1
  <2>1. CASE k \in 1 .. n
    <3>1. \A y \in Agents : req'[y] = k <=> req[y] = k
      BY <2>1
    <3>2. msgs[k].refs = (IF place[k] = "gone" THEN 0 ELSE 1)
                         + (IF \E y \in Agents : req[y] = k THEN 1 ELSE 0)
      BY <1>1, <2>1 DEF Counted
    <3> QED BY <1>2, <2>1, <3>1, <3>2
  <2>2. CASE k = n + 1
    <3>1. (\E y \in Agents : req'[y] = k) <=> kind = "handle"
      BY <1>4, <2>2
    <3> QED BY <1>2, <2>2, <3>1
  <2> QED BY <1>3, <2>1, <2>2
<1>11. Counted(newPlace)'
  BY <1>10 DEF Counted
<1> QED BY <1>2, <1>9, <1>11 DEF FlowOK

LEMMA SendInv ==
  ASSUME MessagesInv, NEW x \in Agents, NEW to \in Agents,
         NEW kind \in {"plain", "handle", "completion"}, Messages!Send(x, to, kind)
  PROVE  MessagesInv'
<1>0. PICK n \in Nat : n = Len(msgs)
  BY MessageFacts
<1> DEFINE h == Messages!Header(x, to, kind)
           longer == Append(msgs, h)
<1>1. /\ out[x] = Messages!Nothing
      /\ kind = "handle" => req[x] = 0
      /\ out[x].msg = 0
      /\ UNCHANGED <<route, inbound, free, agentPc, mine, batch, lost>>
  BY DEF Messages!Send, Messages!At, Messages!Nothing
<1>2. /\ h \in Headers /\ h.from = x /\ ~h.done /\ h.status = "Pending"
      /\ h.refs = 1 + (IF kind = "handle" THEN 1 ELSE 0)
  BY DEF Messages!Header, Headers, Statuses
<1> HIDE DEF h
<1>3. /\ longer \in Seq(Headers \cup {Messages!Freed}) /\ Len(longer) = n + 1 /\ longer[n + 1] = h
      /\ \A k \in 1 .. n : longer[k] = msgs[k]
  BY <1>0, <1>2, AppendProperties DEF MessagesInv, MessageTypes
<1>4. req' = IF kind = "handle" THEN [req EXCEPT ![x] = n + 1] ELSE req
  BY <1>0 DEF Messages!Send
<1>5. \A y \in Agents : req'[y] = IF y = x /\ kind = "handle" THEN n + 1 ELSE req[y]
  BY <1>4 DEF MessagesInv, MessageTypes
<1>6. req' \in [Agents -> Nat]
  BY <1>4 DEF MessagesInv, MessageTypes
<1>7. \/ /\ route[to] # 0 /\ msgs' = longer
         /\ out' = [out EXCEPT ![x] = [step |-> "push", msg |-> n + 1, queue |-> route[to]]]
      \/ /\ msgs' = longer
         /\ out' = [out EXCEPT ![x] = [step |-> "complete", msg |-> n + 1, status |-> "Dropped"]]
      \/ kind = "plain" /\ msgs' = Messages!Released(longer, n + 1) /\ out' = out
  <2>1. CASE route[to] # 0
    BY <1>0, <2>1 DEF Messages!Send, Messages!FindRoute, h
  <2>2. CASE route[to] = 0 /\ kind \in Messages!Requests
    BY <1>0, <2>2 DEF Messages!Send, Messages!FindRoute, h
  <2>3. CASE route[to] = 0 /\ kind \notin Messages!Requests
    <3>1. kind = "plain"
      BY <2>3 DEF Messages!Requests
    <3>2. msgs' = Messages!Released(longer, n + 1) /\ out' = out
      BY <1>0, <2>3 DEF Messages!Send, Messages!FindRoute, h
    <3> QED BY <3>1, <3>2
  <2> QED BY <2>1, <2>2, <2>3
<1> HIDE DEF longer
<1>8. QueuesOK'
  BY <1>1, QueuesKept
<1>9. \A k \in 1 .. n + 1 : k \in 1 .. n \/ k = n + 1
  OBVIOUS
\* What follows when the message n + 1 is there, or freed.
<1>10. ASSUME msgs' \in Seq(Headers \cup {Messages!Freed}), Len(msgs') = n + 1,
              \A k \in 1 .. n : msgs'[k] = msgs[k],
              msgs'[n + 1] = h \/ (msgs'[n + 1].refs = 0 /\ kind # "handle"), FlowOK',
              out' \in [Agents -> Outs \cup {Messages!Nothing}],
              \A y \in Agents : y # x => out'[y] = out[y],
              out'[x].msg \in {0, n + 1}, out'[x].msg = 0 => out'[x] = Messages!Nothing,
              out'[x].msg = n + 1 => msgs'[n + 1] = h,
              out'[x].step = "push" => out'[x].queue \in 1 .. Len(inbound)
       PROVE  MessagesInv'
  <2>1. MessageTypes'
    <3>1. lost' \subseteq 1 .. Len(msgs')
      BY <1>0, <1>1, <1>10 DEF MessagesInv, MessageTypes
    <3> QED BY <1>1, <1>6, <1>10, <3>1 DEF MessagesInv, MessageTypes
  <2>2. ThreadsOK'
    <3> SUFFICES ASSUME NEW y \in Agents
                 PROVE  /\ agentPc[y] \in {"handleFlag", "handleSleep", "handleAsleep", "handleCheck"}
                             => req'[y] # 0
                        /\ out'[y].step = "push" => out'[y].queue \in 1 .. Len(inbound)
      BY <1>1 DEF MessagesInv, ThreadsOK
    <3> QED BY <1>5, <1>10 DEF MessagesInv, ThreadsOK
  <2>3. ContentsOK'
    <3>1. /\ \A k \in 1 .. Len(msgs) : msgs'[k].from = msgs[k].from /\ msgs'[k].done = msgs[k].done
                                       /\ msgs'[k].status = msgs[k].status
          /\ Len(msgs') \in Nat /\ Len(msgs') >= Len(msgs)
      BY <1>0, <1>10
    <3> QED BY <1>1, <1>10, <3>1, ContentsKept
  <2>4. SendsOK'
    <3> SUFFICES ASSUME NEW y \in Agents
                 PROVE  /\ out'[y].msg \in 0 .. Len(msgs')
                        /\ req'[y] # 0 => req'[y] \in 1 .. Len(msgs') /\ msgs'[req'[y]].from = y
                        /\ out'[y].step = "push" => Unanswered(out[y].msg)'
                        /\ out'[y].step = "complete" => msgs'[out'[y].msg].status = "Pending"
                        /\ out'[y].step = "push" /\ ~msgs'[out'[y].msg].done =>
                             /\ msgs'[out'[y].msg].from = y
                             /\ \A m \in 1 .. Len(msgs') :
                                  msgs'[m].refs # 0 /\ msgs'[m].from = y => m <= out'[y].msg
      BY DEF SendsOK
    <3>1. req'[y] # 0 => req'[y] \in 1 .. Len(msgs') /\ msgs'[req'[y]].from = y
      <4>1. CASE y = x /\ kind = "handle"
        BY <1>2, <1>5, <1>10, <4>1
      <4>2. CASE ~ (y = x /\ kind = "handle")
        <5>1. req'[y] = req[y]
          BY <1>5, <4>2
        <5>2. req[y] # 0 => req[y] \in 1 .. n /\ msgs[req[y]].from = y
          BY <1>0 DEF MessagesInv, PlacesOK
        <5> QED BY <1>10, <5>1, <5>2
      <4> QED BY <4>1, <4>2
    <3>2. CASE y = x /\ out'[x].msg = n + 1
      <4>1. msgs'[n + 1] = h
        BY <1>10, <3>2
      <4>2. \A m \in 1 .. Len(msgs') : m <= n + 1
        BY <1>10
      <4> QED BY <1>2, <1>10, <3>1, <3>2, <4>1, <4>2 DEF Unanswered
    <3>3. CASE y = x /\ out'[x].msg = 0
      BY <1>10, <3>1, <3>3 DEF Messages!Nothing
    <3>4. CASE y # x
      <4>1. out'[y] = out[y] /\ out[y].msg \in 0 .. n
        BY <1>0, <1>10, <3>4, ThreadFacts
      <4>2. out[y].step \in {"push", "complete"} => out[y].msg \in 1 .. n
        BY <4>1, ThreadFacts
      <4>3. msgs'[n + 1].refs # 0 => msgs'[n + 1].from # y
        BY <1>2, <1>10, <3>4
      <4>4. ASSUME out[y].step = "push", ~msgs[out[y].msg].done
            PROVE  /\ msgs[out[y].msg].from = y
                   /\ \A m \in 1 .. n : msgs[m].refs # 0 /\ msgs[m].from = y => m <= out[y].msg
        BY <1>0, <4>4 DEF MessagesInv, OrderedOK
      <4>5. ASSUME out'[y].step = "push", ~msgs'[out'[y].msg].done
            PROVE  /\ msgs'[out'[y].msg].from = y
                   /\ \A m \in 1 .. n + 1 : msgs'[m].refs # 0 /\ msgs'[m].from = y => m <= out'[y].msg
        BY <1>9, <1>10, <4>1, <4>2, <4>3, <4>4, <4>5
      <4>6. /\ out'[y].step = "push" => Unanswered(out[y].msg)'
            /\ out'[y].step = "complete" => msgs'[out'[y].msg].status = "Pending"
        BY <1>0, <1>10, <4>1, <4>2 DEF MessagesInv, StatusOK, Unanswered
      <4> QED BY <1>10, <3>1, <4>1, <4>5, <4>6
    <3> QED BY <1>10, <3>2, <3>3, <3>4
  <2> QED BY <1>8, <1>10, <2>1, <2>2, <2>3, <2>4, Halves DEF MessagesInv
<1>11. out \in [Agents -> Outs \cup {Messages!Nothing}]
  BY DEF MessagesInv, MessageTypes
<1>12. CASE /\ route[to] # 0 /\ msgs' = longer
            /\ out' = [out EXCEPT ![x] = [step |-> "push", msg |-> n + 1, queue |-> route[to]]]
  <2> DEFINE o == [step |-> "push", msg |-> n + 1, queue |-> route[to]]
  <2>1. route[to] \in 1 .. Len(inbound) /\ route[to] \in Nat
    <3>1. route[to] = mine[to] /\ mine[to] \in 0 .. Len(inbound)
      BY <1>12 DEF MessagesInv, QueuesOK
    <3> QED BY <1>12, <3>1, MessageFacts
  <2>2. o \in Outs /\ o.msg = n + 1 /\ o.queue = route[to]
    BY <2>1 DEF Outs
  <2>3. \A y \in Agents : out'[y] = IF y = x THEN o ELSE out[y]
    BY <1>11, <1>12
  <2>4. out' \in [Agents -> Outs \cup {Messages!Nothing}]
    BY <1>11, <1>12, <2>2
  <2>5. \A y \in Agents : out'[y].msg = IF y = x THEN n + 1 ELSE out[y].msg
    BY <2>2, <2>3
  <2>6. msgs'[n + 1].refs = 1 + (IF kind = "handle" THEN 1 ELSE 0)
    BY <1>2, <1>3, <1>12
  <2>7. FlowOK'
    <3>1. /\ inbound' = inbound /\ batch' = batch /\ lost' = lost
          /\ Len(msgs') = n + 1 /\ \A k \in 1 .. n : msgs'[k] = msgs[k]
      BY <1>1, <1>3, <1>12
    <3>2. PICK p \in {"out", "gone"} : p = "out"
      OBVIOUS
    <3>4. /\ \A y \in Agents : out'[y].msg = IF y = x /\ p = "out" THEN n + 1 ELSE out[y].msg
          /\ \A y \in Agents : req'[y] = IF y = x /\ kind = "handle" THEN n + 1 ELSE req[y]
          /\ msgs'[n + 1].refs = (IF p = "gone" THEN 0 ELSE 1) + (IF kind = "handle" THEN 1 ELSE 0)
          /\ kind = "handle" => req[x] = 0
      BY <1>1, <1>5, <2>5, <2>6, <3>2
    <3>5. Added(n, x, p, kind)
      BY <1>0, <1>1, <3>1, <3>4 DEF Added
    <3> QED BY <3>5, FlowAdded
  <2> HIDE DEF o
  <2>8. /\ msgs' \in Seq(Headers \cup {Messages!Freed}) /\ Len(msgs') = n + 1
        /\ \A k \in 1 .. n : msgs'[k] = msgs[k]
        /\ msgs'[n + 1] = h
    BY <1>3, <1>12
  <2>9. /\ out'[x].msg = n + 1 /\ n + 1 # 0 /\ out'[x].queue \in 1 .. Len(inbound)
        /\ \A y \in Agents : y # x => out'[y] = out[y]
    BY <2>1, <2>2, <2>3
  <2> QED BY <1>10, <2>4, <2>7, <2>8, <2>9
<1>13. CASE /\ msgs' = longer
            /\ out' = [out EXCEPT ![x] = [step |-> "complete", msg |-> n + 1, status |-> "Dropped"]]
  <2> DEFINE o == [step |-> "complete", msg |-> n + 1, status |-> "Dropped"]
  <2>2. o \in Outs /\ o.msg = n + 1 /\ o.step = "complete"
    BY DEF Outs, Statuses
  <2>3. \A y \in Agents : out'[y] = IF y = x THEN o ELSE out[y]
    BY <1>11, <1>13
  <2>4. out' \in [Agents -> Outs \cup {Messages!Nothing}]
    BY <1>11, <1>13, <2>2
  <2>5. \A y \in Agents : out'[y].msg = IF y = x THEN n + 1 ELSE out[y].msg
    BY <2>2, <2>3
  <2>6. msgs'[n + 1].refs = 1 + (IF kind = "handle" THEN 1 ELSE 0)
    BY <1>2, <1>3, <1>13
  <2>7. FlowOK'
    <3>1. /\ inbound' = inbound /\ batch' = batch /\ lost' = lost
          /\ Len(msgs') = n + 1 /\ \A k \in 1 .. n : msgs'[k] = msgs[k]
      BY <1>1, <1>3, <1>13
    <3>2. PICK p \in {"out", "gone"} : p = "out"
      OBVIOUS
    <3>4. /\ \A y \in Agents : out'[y].msg = IF y = x /\ p = "out" THEN n + 1 ELSE out[y].msg
          /\ \A y \in Agents : req'[y] = IF y = x /\ kind = "handle" THEN n + 1 ELSE req[y]
          /\ msgs'[n + 1].refs = (IF p = "gone" THEN 0 ELSE 1) + (IF kind = "handle" THEN 1 ELSE 0)
          /\ kind = "handle" => req[x] = 0
      BY <1>1, <1>5, <2>5, <2>6, <3>2
    <3>5. Added(n, x, p, kind)
      BY <1>0, <1>1, <3>1, <3>4 DEF Added
    <3> QED BY <3>5, FlowAdded
  <2> HIDE DEF o
  <2>8. /\ msgs' \in Seq(Headers \cup {Messages!Freed}) /\ Len(msgs') = n + 1
        /\ \A k \in 1 .. n : msgs'[k] = msgs[k]
        /\ msgs'[n + 1] = h
    BY <1>3, <1>13
  <2>9. /\ out'[x].msg = n + 1 /\ n + 1 # 0 /\ out'[x].step = "complete"
        /\ \A y \in Agents : y # x => out'[y] = out[y]
    BY <2>2, <2>3
  <2> QED BY <1>10, <2>4, <2>7, <2>8, <2>9
<1>14. CASE kind = "plain" /\ msgs' = Messages!Released(longer, n + 1) /\ out' = out
  <2>1. n + 1 \in 1 .. Len(longer) /\ longer[n + 1] \in Headers
    BY <1>2, <1>3
  <2>2. /\ msgs' \in Seq(Headers \cup {Messages!Freed}) /\ Len(msgs') = n + 1
        /\ \A k \in 1 .. n + 1 : k # n + 1 => msgs'[k] = longer[k]
        /\ msgs'[n + 1].refs = longer[n + 1].refs - 1
    BY <1>3, <1>14, <2>1, ReleasedFacts
  <2>3. msgs'[n + 1].refs = 0 /\ \A k \in 1 .. n : msgs'[k] = msgs[k]
    <3>1. \A k \in 1 .. n : k \in 1 .. n + 1 /\ k # n + 1
      OBVIOUS
    <3> QED BY <1>2, <1>3, <1>14, <2>2, <3>1
  <2>4. FlowOK'
    <3>1. /\ inbound' = inbound /\ batch' = batch /\ lost' = lost
          /\ \A y \in Agents : out'[y].msg = out[y].msg
          /\ \A y \in Agents : req'[y] = req[y]
      BY <1>1, <1>4, <1>14
    <3>2. PICK p \in {"out", "gone"} : p = "gone"
      OBVIOUS
    <3>4. /\ \A y \in Agents : out'[y].msg = IF y = x /\ p = "out" THEN n + 1 ELSE out[y].msg
          /\ \A y \in Agents : req'[y] = IF y = x /\ kind = "handle" THEN n + 1 ELSE req[y]
          /\ msgs'[n + 1].refs = (IF p = "gone" THEN 0 ELSE 1) + (IF kind = "handle" THEN 1 ELSE 0)
          /\ kind = "handle" => req[x] = 0
      BY <1>14, <2>3, <3>1, <3>2
    <3>5. Added(n, x, p, kind)
      BY <1>0, <1>1, <2>2, <2>3, <3>1, <3>4 DEF Added
    <3> QED BY <3>5, FlowAdded
  <2>5. /\ out'[x].msg = 0 /\ out'[x] = Messages!Nothing /\ out'[x].step = "none"
        /\ kind # "handle"
    <3>1. out'[x] = Messages!Nothing /\ kind # "handle"
      BY <1>1, <1>14
    <3> QED BY <3>1 DEF Messages!Nothing
  <2> QED BY <1>10, <1>11, <1>14, <2>2, <2>3, <2>4, <2>5
<1> QED BY <1>7, <1>12, <1>13, <1>14

\* Where the message of a thread's send is not.
LEMMA InHand ==
  ASSUME MessagesInv, NEW x \in Agents, out[x].msg # 0
  PROVE  /\ out[x].msg \in 1 .. Len(msgs) /\ msgs[out[x].msg] \in Headers
         /\ \A y \in Agents : out[y].msg = out[x].msg => y = x
         /\ \A y \in Agents : ~ IsIn(out[x].msg, batch[y])
         /\ \A q \in 1 .. Len(inbound) : ~ IsIn(out[x].msg, inbound[q])
         /\ out[x].msg \notin lost
<1>1. out[x].msg \in 1 .. Len(msgs) /\ msgs[out[x].msg] \in Headers
  BY ThreadFacts, MessageFacts, Apart
<1>2. \A y \in Agents : ~ IsIn(out[x].msg, batch[y])
  BY Apart DEF IsIn
<1>3. \A q \in 1 .. Len(inbound) : ~ IsIn(out[x].msg, inbound[q])
  BY Apart DEF IsIn
<1> QED BY <1>1, <1>2, <1>3, Apart

LEMMA PushInv ==
  ASSUME MessagesInv, NEW x \in Agents, Messages!Push(x)
  PROVE  MessagesInv'
<1>0. PICK q \in Nat, m \in Nat : q = out[x].queue /\ m = out[x].msg
  <2>1. out[x] \in Outs /\ out[x].step = "push"
    BY ThreadFacts DEF Messages!Push, Messages!Nothing
  <2>2. out[x].queue \in Nat /\ out[x].msg \in Nat
    BY <2>1 DEF Outs
  <2> QED BY <2>2
<1>1. /\ out[x].step = "push" /\ inbound' = [inbound EXCEPT ![q] = Append(inbound[q], m)]
      /\ out' = [out EXCEPT ![x] = Messages!Nothing]
      /\ agentPc' = IF waitWord[q] = 1 THEN Messages!WokenQueue(q) ELSE agentPc
      /\ UNCHANGED <<route, free, msgs, mine, batch, req, lost>>
  BY <1>0 DEF Messages!Push, Messages!PushNewest
<1>2. m # 0 /\ m \in 1 .. Len(msgs) /\ q \in 1 .. Len(inbound)
  <2>1. m # 0
    BY <1>0, <1>1, ThreadFacts
  <2>2. q \in 1 .. Len(inbound)
    BY <1>0, <1>1 DEF MessagesInv, ThreadsOK
  <2> QED BY <1>0, <2>1, <2>2, InHand
<1>3. /\ inbound[q] \in Seq(Nat) /\ Append(inbound[q], m) \in Seq(Nat)
      /\ Len(Append(inbound[q], m)) = Len(inbound[q]) + 1
      /\ Append(inbound[q], m)[Len(inbound[q]) + 1] = m
      /\ \A i \in 1 .. Len(inbound[q]) : Append(inbound[q], m)[i] = inbound[q][i]
  BY <1>2, MessageFacts, AppendProperties
<1>4. PICK l \in Nat : l = Len(inbound[q])
  BY <1>2, MessageFacts
<1>5. /\ inbound' \in Seq(Seq(Nat)) /\ Len(inbound') = Len(inbound)
      /\ \A r \in 1 .. Len(inbound) : r # q => inbound'[r] = inbound[r]
      /\ Len(inbound'[q]) = l + 1 /\ inbound'[q][l + 1] = m
      /\ \A i \in 1 .. l : inbound'[q][i] = inbound[q][i]
  <2>1. /\ inbound' \in Seq(Seq(Nat)) /\ Len(inbound') = Len(inbound)
        /\ \A r \in 1 .. Len(inbound) : inbound'[r] = IF r = q THEN Append(inbound[q], m) ELSE inbound[r]
    BY SMTT(25), <1>1, <1>2, <1>3, ExceptSeq DEF MessagesInv, MessageTypes
  <2> QED BY <1>2, <1>3, <1>4, <2>1
<1>6. \A y \in Agents : out'[y] = IF y = x THEN Messages!Nothing ELSE out[y]
  BY <1>1 DEF MessagesInv, MessageTypes
<1>7. \A y \in Agents : \/ agentPc'[y] = agentPc[y]
                        \/ agentPc[y] = "asleep" /\ agentPc'[y] = "waitCheck"
  BY <1>1 DEF Messages!WokenQueue
<1>8. MessageTypes'
  <2>1. agentPc' \in [Agents -> AgentPlaces]
    BY <1>1 DEF Messages!WokenQueue, MessagesInv, MessageTypes, AgentPlaces
  <2> QED BY <1>1, <1>5, <2>1 DEF MessagesInv, MessageTypes
<1>9. Messages!Nothing.msg = 0 /\ Messages!Nothing.step = "none"
  BY DEF Messages!Nothing
<1>10. ThreadsOK'
  <2> SUFFICES ASSUME NEW y \in Agents
               PROVE  /\ batch[y] # <<>> => agentPc'[y] = "poll"
                      /\ agentPc'[y] \in {"poll", "waitCheck", "waitSleep", "asleep", "clear", "free"}
                           => mine[y] # 0
                      /\ agentPc'[y] \in {"clear", "free"} => route[y] = 0
                      /\ agentPc'[y] \in {"handleFlag", "handleSleep", "handleAsleep", "handleCheck"}
                           => req[y] # 0
                      /\ out'[y].step = "push" => out'[y].queue \in 1 .. Len(inbound)
    BY <1>1, <1>5 DEF ThreadsOK
  <2> QED BY <1>6, <1>7, <1>9 DEF MessagesInv, ThreadsOK
<1>11. QueuesOK'
  BY <1>1, <1>5, QueuesKept
<1>12. \A i \in 1 .. l + 1 : i \in 1 .. l \/ i = l + 1
  OBVIOUS
<1>13. FlowOK'
  <2>1. \A k \in 1 .. Len(msgs), y \in Agents :
          out'[y].msg = k <=> (k # m /\ out[y].msg = k)
    BY <1>0, <1>2, <1>6, <1>9, InHand
  <2>2. \A k \in 1 .. Len(msgs) : IsIn(k, inbound'[q]) <=> k = m \/ IsIn(k, inbound[q])
    <3> TAKE k \in 1 .. Len(msgs)
    <3>1. ASSUME k = m \/ IsIn(k, inbound[q]) PROVE IsIn(k, inbound'[q])
      <4>1. CASE k = m
        <5>1. l + 1 \in 1 .. Len(inbound'[q])
          BY <1>5
        <5> QED BY <1>5, <4>1, <5>1 DEF IsIn
      <4>2. CASE IsIn(k, inbound[q])
        <5>1. PICK i \in 1 .. l : inbound[q][i] = k
          BY <1>4, <4>2 DEF IsIn
        <5>2. i \in 1 .. Len(inbound'[q])
          BY <1>5
        <5> QED BY <1>5, <5>1, <5>2 DEF IsIn
      <4> QED BY <3>1, <4>1, <4>2
    <3>2. ASSUME IsIn(k, inbound'[q]) PROVE k = m \/ IsIn(k, inbound[q])
      BY <1>4, <1>5, <1>12, <3>2 DEF IsIn
    <3> QED BY <3>1, <3>2
  <2>3. \A k \in 1 .. Len(msgs), r \in 1 .. Len(inbound) :
          IsIn(k, inbound'[r]) <=> IF k = m THEN r = q ELSE IsIn(k, inbound[r])
    <3> TAKE k \in 1 .. Len(msgs), r \in 1 .. Len(inbound)
    <3>1. ~ IsIn(m, inbound[r])
      BY <1>0, <1>2, InHand
    <3> QED BY <1>2, <1>5, <2>2, <3>1
  <2>4. \A y \in Agents : ~ IsIn(m, batch[y])
    BY <1>0, <1>2, InHand
  <2>5. PICK p \in Places : p = "queue"
    BY DEF Places
  <2>6. m \notin lost
    BY <1>0, <1>2, InHand
  <2>7. Moves(m, p, q)
    <3>1. p \notin {"out", "batch", "gone", "lost"} /\ p = "queue"
      BY <2>5
    <3>2. \E y \in Agents : out[y].msg = m
      BY <1>0
    <3>3. \A k \in 1 .. Len(msgs), y \in Agents :
            out'[y].msg = k <=> IF k = m THEN p = "out" /\ y = q ELSE out[y].msg = k
      BY <2>1, <3>1
    <3>4. \A k \in 1 .. Len(msgs), y \in Agents :
            IsIn(k, batch'[y]) <=> IF k = m THEN p = "batch" /\ y = q ELSE IsIn(k, batch[y])
      BY <1>1, <2>4, <3>1
    <3>5. \A k \in 1 .. Len(msgs), r \in 1 .. Len(inbound) :
            IsIn(k, inbound'[r]) <=> IF k = m THEN p = "queue" /\ r = q ELSE IsIn(k, inbound[r])
      BY <2>3, <3>1
    <3>6. \A k \in 1 .. Len(msgs) : k \in lost' <=> IF k = m THEN p = "lost" ELSE k \in lost
      BY <1>1, <2>6, <3>1
    <3>7. /\ Len(msgs') = Len(msgs) /\ Len(inbound') = Len(inbound) /\ req' = req
          /\ \A k \in 1 .. Len(msgs) :
               msgs'[k].refs = IF k = m /\ p = "gone" THEN msgs[k].refs - 1 ELSE msgs[k].refs
      BY <1>1, <1>5, <3>1
    <3> QED BY <1>2, <3>1, <3>2, <3>3, <3>4, <3>5, <3>6, <3>7 DEF Moves
  <2> QED BY <1>2, <2>7, Moved
<1>14. \A i \in 1 .. l : Precedes(inbound[q][i], m) /\ inbound[q][i] # m
  <2> TAKE i \in 1 .. l
  <2> DEFINE k == inbound[q][i]
  <2>1. k \in 1 .. Len(msgs) /\ msgs[k].refs # 0 /\ k # m
    BY SMTT(25), <1>0, <1>2, <1>4, Apart, MessageFacts
  <2> HIDE DEF k
  <2>2. Precedes(k, m)
    <3> SUFFICES ASSUME msgs[k].from = msgs[m].from, ~msgs[k].done, ~msgs[m].done PROVE k < m
      BY DEF Precedes
    <3>1. msgs[m].from = x /\ k <= m
      BY <1>0, <1>1, <2>1 DEF MessagesInv, OrderedOK
    <3> QED BY <2>1, <3>1, MessageFacts
  <2> QED BY <2>1, <2>2 DEF k
<1>15. ContentsOK'
  <2>1. ASSUME NEW i \in 1 .. l + 1
        PROVE  inbound'[q][i] \in 1 .. Len(msgs) /\ Unanswered(inbound'[q][i])
    <3>1. CASE i \in 1 .. l
      BY <1>2, <1>4, <1>5, <3>1, MessageFacts DEF MessagesInv, StatusOK
    <3>2. CASE i = l + 1
      BY <1>0, <1>1, <1>2, <1>5, <3>2 DEF MessagesInv, StatusOK
    <3> QED BY <1>12, <3>1, <3>2
  <2>2. ASSUME NEW i \in 1 .. l + 1, NEW j \in 1 .. l + 1
        PROVE  /\ inbound'[q][i] = inbound'[q][j] => i = j
               /\ i < j => Precedes(inbound'[q][i], inbound'[q][j])
    <3>1. CASE i \in 1 .. l /\ j \in 1 .. l
      BY SMTT(25), <1>2, <1>4, <1>5, <3>1 DEF MessagesInv, PlacesOK, OrderedOK
    <3>2. CASE i \in 1 .. l /\ j = l + 1
      BY <1>5, <1>14, <3>2
    <3>3. CASE i = l + 1 /\ j \in 1 .. l
      <4>1. inbound'[q][i] = m /\ inbound'[q][j] = inbound[q][j] /\ ~ (i < j)
        BY <1>5, <3>3
      <4> QED BY <1>14, <3>3, <4>1
    <3>4. CASE i = l + 1 /\ j = l + 1
      BY <3>4
    <3> QED BY <1>12, <3>1, <3>2, <3>3, <3>4
  <2>3. ASSUME NEW r \in 1 .. Len(inbound)
        PROVE  /\ \A i \in 1 .. Len(inbound'[r]) :
                    inbound'[r][i] \in 1 .. Len(msgs) /\ Unanswered(inbound'[r][i])
               /\ \A i, j \in 1 .. Len(inbound'[r]) : inbound'[r][i] = inbound'[r][j] => i = j
               /\ \A i, j \in 1 .. Len(inbound'[r]) : i < j => Precedes(inbound'[r][i], inbound'[r][j])
    <3>1. CASE r = q
      BY <1>5, <2>1, <2>2, <3>1
    <3>2. CASE r # q
      BY <1>5, <3>2 DEF MessagesInv, PlacesOK, StatusOK, OrderedOK
    <3> QED BY <3>1, <3>2
  <2>4. ASSUME NEW y \in Agents, mine[y] # 0,
               NEW i \in 1 .. Len(batch[y]), NEW j \in 1 .. Len(inbound'[mine[y]])
        PROVE  Precedes(batch[y][i], inbound'[mine[y]][j])
    <3>1. mine[y] \in 1 .. Len(inbound)
      BY <2>4, ThreadFacts
    <3>2. CASE mine[y] # q \/ j \in 1 .. l
      <4>1. j \in 1 .. Len(inbound[mine[y]]) /\ inbound'[mine[y]][j] = inbound[mine[y]][j]
        BY <1>4, <1>5, <3>1, <3>2
      <4> QED BY <2>4, <4>1 DEF MessagesInv, OrderedOK
    <3>3. CASE mine[y] = q /\ j = l + 1
      <4> DEFINE k == batch[y][i]
      <4>1. k \in 1 .. Len(msgs) /\ msgs[k].refs # 0 /\ k # m
        BY SMTT(25), <1>0, <1>2, Apart, ThreadFacts
      <4> HIDE DEF k
      <4>2. Precedes(k, m)
        <5> SUFFICES ASSUME msgs[k].from = msgs[m].from, ~msgs[k].done, ~msgs[m].done PROVE k < m
          BY DEF Precedes
        <5>1. msgs[m].from = x /\ k <= m
          BY <1>0, <1>1, <4>1 DEF MessagesInv, OrderedOK
        <5> QED BY <4>1, <5>1, MessageFacts
      <4> QED BY <1>5, <3>3, <4>2 DEF k
    <3> QED BY <1>5, <1>12, <3>2, <3>3
  <2>5. \A y \in Agents :
          /\ \A i \in 1 .. Len(batch[y]) : batch[y][i] \in 1 .. Len(msgs) /\ Unanswered(batch[y][i])
          /\ \A i, j \in 1 .. Len(batch[y]) : batch[y][i] = batch[y][j] => i = j
          /\ \A i, j \in 1 .. Len(batch[y]) : i < j => Precedes(batch[y][i], batch[y][j])
    BY DEF MessagesInv, PlacesOK, StatusOK, OrderedOK
  <2>6. msgs' = msgs /\ batch' = batch /\ mine' = mine
    BY <1>1
  <2> QED BY SMTT(25), <1>5, <2>3, <2>4, <2>5, <2>6 DEF ContentsOK, Precedes, Unanswered
<1>16. SendsOK'
  <2>1. /\ \A y \in Agents : out'[y] = out[y] \/ out'[y] = Messages!Nothing
        /\ \A y \in Agents : req'[y] = req[y]
        /\ msgs' = msgs
    BY <1>1, <1>6
  <2>2. \A k \in 1 .. Len(msgs) : msgs'[k].refs # 0 => msgs[k].refs # 0
    BY <2>1
  <2> QED BY <1>13, <2>1, <2>2, SendsKept
<1> QED BY <1>8, <1>10, <1>11, <1>13, <1>15, <1>16, Halves DEF MessagesInv

\* A thread goes on with its message m, whose header changes.
LEMMA SendGoesOn ==
  ASSUME MessagesInv, NEW x \in Agents, NEW m \in Nat \ {0}, m = out[x].msg,
         NEW o \in Outs, o.msg = m, out' = [out EXCEPT ![x] = o],
         o.step # "complete", o.step = "push" => o.queue \in 1 .. Len(inbound) /\ msgs'[m].done,
         UNCHANGED <<route, inbound, free, mine, batch, req, lost>>,
         msgs' \in Seq(Headers \cup {Messages!Freed}), Len(msgs') = Len(msgs),
         \A k \in 1 .. Len(msgs) : k # m => msgs'[k] = msgs[k],
         msgs'[m].refs = msgs[m].refs, msgs'[m].from = msgs[m].from,
         agentPc' \in [Agents -> AgentPlaces],
         \A y \in Agents : \/ agentPc'[y] = agentPc[y]
                           \/ agentPc[y] = "handleAsleep" /\ agentPc'[y] = "handleCheck"
  PROVE  MessagesInv'
<1>1. /\ route' = route /\ inbound' = inbound /\ free' = free /\ mine' = mine
      /\ batch' = batch /\ req' = req /\ lost' = lost
  OBVIOUS
<1>2. m \in 1 .. Len(msgs) /\ Len(msgs) \in Nat
  BY InHand, MessageFacts
<1>3. /\ \A y \in Agents : ~ IsIn(m, batch[y])
      /\ \A q \in 1 .. Len(inbound) : ~ IsIn(m, inbound[q])
      /\ m \notin lost
      /\ \A y \in Agents : out[y].msg = m => y = x
  BY InHand
<1>4. out \in [Agents -> Outs \cup {Messages!Nothing}] /\ \A y \in Agents : out'[y] = IF y = x THEN o ELSE out[y]
  BY DEF MessagesInv, MessageTypes
<1>5. MessageTypes'
  <2>1. out' \in [Agents -> Outs \cup {Messages!Nothing}]
    BY <1>4
  <2> QED BY <1>1, <2>1 DEF MessagesInv, MessageTypes
<1>6. ThreadsOK'
  <2> SUFFICES ASSUME NEW y \in Agents
               PROVE  /\ batch[y] # <<>> => agentPc'[y] = "poll"
                      /\ agentPc'[y] \in {"poll", "waitCheck", "waitSleep", "asleep", "clear", "free"}
                           => mine[y] # 0
                      /\ agentPc'[y] \in {"clear", "free"} => route[y] = 0
                      /\ agentPc'[y] \in {"handleFlag", "handleSleep", "handleAsleep", "handleCheck"}
                           => req[y] # 0
                      /\ out'[y].step = "push" => out'[y].queue \in 1 .. Len(inbound)
    BY <1>1 DEF ThreadsOK
  <2> QED BY <1>4 DEF MessagesInv, ThreadsOK
<1>7. QueuesOK'
  BY <1>1, QueuesKept
<1>8. FlowOK'
  <2>1. PICK p \in Places : p = "out"
    BY DEF Places
  <2>2. \A k \in 1 .. Len(msgs), y \in Agents :
          out'[y].msg = k <=> IF k = m THEN p = "out" /\ y = x ELSE out[y].msg = k
    BY <1>3, <1>4, <2>1
  <2>3. \A k \in 1 .. Len(msgs), y \in Agents :
          IsIn(k, batch'[y]) <=> IF k = m THEN p = "batch" /\ y = x ELSE IsIn(k, batch[y])
    BY <1>1, <1>3, <2>1
  <2>4. \A k \in 1 .. Len(msgs), q \in 1 .. Len(inbound) :
          IsIn(k, inbound'[q]) <=> IF k = m THEN p = "queue" /\ q = x ELSE IsIn(k, inbound[q])
    BY <1>1, <1>3, <2>1
  <2>5. \A k \in 1 .. Len(msgs) : k \in lost' <=> IF k = m THEN p = "lost" ELSE k \in lost
    BY <1>1, <1>3, <2>1
  <2>6. \A k \in 1 .. Len(msgs) :
          msgs'[k].refs = IF k = m /\ p = "gone" THEN msgs[k].refs - 1 ELSE msgs[k].refs
    BY <2>1
  <2>7. p # "queue" /\ Len(inbound') = Len(inbound)
    BY <1>1, <2>1
  <2>8. Moves(m, p, x)
    BY <1>1, <2>2, <2>3, <2>4, <2>5, <2>6, <2>7 DEF Moves
  <2> QED BY <1>2, <2>8, Moved
<1>9. ContentsOK'
  <2>1. /\ \A y \in Agents : ~ IsIn(m, batch'[y])
        /\ \A q \in 1 .. Len(inbound) : ~ IsIn(m, inbound'[q])
    BY <1>1, <1>3
  <2>2. \A k \in 1 .. Len(msgs) : k # m => /\ msgs'[k].from = msgs[k].from /\ msgs'[k].done = msgs[k].done
                                           /\ msgs'[k].status = msgs[k].status
    OBVIOUS
  <2>3. Len(msgs') \in Nat /\ Len(msgs') >= Len(msgs) /\ Len(inbound') = Len(inbound)
    BY <1>1, <1>2
  <2> QED BY <1>1, <1>8, <2>1, <2>2, <2>3, ContentsKept
<1>10. SendsOK'
  <2> SUFFICES ASSUME NEW y \in Agents
               PROVE  /\ out'[y].msg \in 0 .. Len(msgs')
                      /\ req'[y] # 0 => req'[y] \in 1 .. Len(msgs') /\ msgs'[req'[y]].from = y
                      /\ out'[y].step = "push" => Unanswered(out[y].msg)'
                      /\ out'[y].step = "complete" => msgs'[out'[y].msg].status = "Pending"
                      /\ out'[y].step = "push" /\ ~msgs'[out'[y].msg].done =>
                           /\ msgs'[out'[y].msg].from = y
                           /\ \A k \in 1 .. Len(msgs') :
                                msgs'[k].refs # 0 /\ msgs'[k].from = y => k <= out'[y].msg
    BY DEF SendsOK
  <2>1. req'[y] # 0 => req'[y] \in 1 .. Len(msgs') /\ msgs'[req'[y]].from = y
    BY SMTT(25), <1>1 DEF MessagesInv, PlacesOK
  <2>2. CASE y = x
    BY <1>2, <1>4, <2>1, <2>2 DEF Unanswered
  <2>3. CASE y # x
    <3>1. out'[y] = out[y] /\ out[y].msg \in 0 .. Len(msgs) /\ out[y].msg # m
      BY <1>3, <1>4, <2>3, ThreadFacts
    <3>2. out[y].step \in {"push", "complete"} => out[y].msg \in 1 .. Len(msgs)
      BY <1>2, <3>1, ThreadFacts
    <3>3. \A k \in 1 .. Len(msgs) : msgs'[k].refs = msgs[k].refs /\ msgs'[k].from = msgs[k].from
      OBVIOUS
    <3>4. ASSUME out'[y].step = "push", ~msgs'[out'[y].msg].done
          PROVE  /\ msgs'[out'[y].msg].from = y
                 /\ \A k \in 1 .. Len(msgs') :
                      msgs'[k].refs # 0 /\ msgs'[k].from = y => k <= out'[y].msg
      <4>1. /\ msgs[out[y].msg].from = y
            /\ \A k \in 1 .. Len(msgs) : msgs[k].refs # 0 /\ msgs[k].from = y => k <= out[y].msg
        BY <3>1, <3>2, <3>4 DEF MessagesInv, OrderedOK
      <4> QED BY <3>1, <3>2, <3>3, <3>4, <4>1
    <3>5. /\ out'[y].step = "push" => Unanswered(out[y].msg)'
          /\ out'[y].step = "complete" => msgs'[out'[y].msg].status = "Pending"
      BY <3>1, <3>2 DEF MessagesInv, StatusOK, Unanswered
    <3> QED BY <2>1, <3>1, <3>4, <3>5
  <2> QED BY <2>2, <2>3
<1> QED BY <1>5, <1>6, <1>7, <1>8, <1>9, <1>10, Halves DEF MessagesInv

LEMMA SetStatusInv ==
  ASSUME MessagesInv, NEW x \in Agents, Messages!SetStatus(x)
  PROVE  MessagesInv'
<1>1. out[x] \in Outs /\ out[x].step = "complete" /\ out[x].msg # 0
  BY ThreadFacts DEF Messages!SetStatus, Messages!Nothing
<1>2. PICK m \in Nat \ {0}, status \in Statuses : m = out[x].msg /\ status = out[x].status
  BY <1>1 DEF Outs
<1>3. m \in 1 .. Len(msgs) /\ msgs[m] \in Headers
  BY <1>1, <1>2, InHand
<1> DEFINE h == [msgs[m] EXCEPT !.status = status]
           o == [step |-> IF msgs[m].waiting THEN "wake" ELSE "forward", msg |-> m]
<1>4. /\ msgs' = [msgs EXCEPT ![m] = h] /\ out' = [out EXCEPT ![x] = o]
      /\ UNCHANGED <<route, inbound, free, agentPc, mine, batch, req, lost>>
  BY <1>2 DEF Messages!SetStatus, Messages!local, Messages!queues
<1>5. h \in Headers /\ h.refs = msgs[m].refs /\ h.from = msgs[m].from
  BY <1>3 DEF Headers
<1>6. o \in Outs /\ o.msg = m /\ o.step \in {"wake", "forward"}
  BY DEF Outs
<1> HIDE DEF h, o
<1>7. /\ msgs' \in Seq(Headers \cup {Messages!Freed}) /\ Len(msgs') = Len(msgs) /\ msgs'[m] = h
      /\ \A k \in 1 .. Len(msgs) : k # m => msgs'[k] = msgs[k]
  BY <1>3, <1>4, <1>5, ExceptSeq DEF MessagesInv, MessageTypes
<1>8. agentPc' \in [Agents -> AgentPlaces]
  BY <1>4 DEF MessagesInv, MessageTypes
<1> QED BY <1>2, <1>4, <1>5, <1>6, <1>7, <1>8, SendGoesOn

LEMMA WakeRequesterInv ==
  ASSUME MessagesInv, NEW x \in Agents, Messages!WakeRequester(x)
  PROVE  MessagesInv'
<1>1. out[x] \in Outs /\ out[x].step = "wake" /\ out[x].msg # 0
  BY ThreadFacts DEF Messages!WakeRequester, Messages!Nothing
<1>2. PICK m \in Nat \ {0} : m = out[x].msg
  BY <1>1 DEF Outs
<1>3. out[x] = [step |-> "wake", msg |-> m]
  BY <1>1, <1>2 DEF Outs
<1> DEFINE o == [step |-> "forward", msg |-> m]
<1>4. o \in Outs /\ o.msg = m /\ o.step = "forward"
  BY DEF Outs
<1>5. out' = [out EXCEPT ![x] = o]
  <2>1. out' = [out EXCEPT ![x] = [out[x] EXCEPT !.step = "forward"]]
    BY DEF Messages!WakeRequester
  <2>2. [out[x] EXCEPT !.step = "forward"] = o
    BY <1>3
  <2> QED BY <2>1, <2>2
<1> HIDE DEF o
<1>6. /\ agentPc' = [y \in Agents |->
                       IF agentPc[y] = "handleAsleep" /\ req[y] = out[x].msg THEN "handleCheck" ELSE agentPc[y]]
      /\ UNCHANGED <<route, inbound, free, msgs, mine, batch, req, lost>>
  BY DEF Messages!WakeRequester, Messages!queues
<1>7. agentPc' \in [Agents -> AgentPlaces]
  BY <1>6 DEF MessagesInv, MessageTypes, AgentPlaces
<1>8. msgs' \in Seq(Headers \cup {Messages!Freed})
  BY <1>6 DEF MessagesInv, MessageTypes
<1> QED BY <1>2, <1>4, <1>5, <1>6, <1>7, <1>8, SendGoesOn

LEMMA ForwardInv ==
  ASSUME MessagesInv, NEW x \in Agents, Messages!Forward(x)
  PROVE  MessagesInv'
<1>1. out[x] \in Outs /\ out[x].step = "forward" /\ out[x].msg # 0
  BY ThreadFacts DEF Messages!Forward, Messages!Nothing
<1>2. PICK m \in Nat \ {0} : m = out[x].msg
  BY <1>1 DEF Outs
<1>3. m \in 1 .. Len(msgs) /\ msgs[m] \in Headers
  BY <1>1, <1>2, InHand
<1> DEFINE h == [msgs[m] EXCEPT !.done = @ \/ msgs[m].kind = "completion"]
           marked == [msgs EXCEPT ![m] = h]
           r == Messages!ForwardTo(m)
<1>4. h \in Headers /\ h.refs = msgs[m].refs /\ h.from = msgs[m].from
  BY <1>3 DEF Headers
<1>5. r # 0 => h.done
  BY <1>3 DEF Headers, Messages!ForwardTo
<1>6. /\ marked = [msgs EXCEPT ![m].done = @ \/ msgs[m].kind = "completion"]
      /\ UNCHANGED <<route, inbound, free, agentPc, mine, batch, req, lost>>
  BY DEF Messages!Forward, Messages!local, Messages!queues
<1>7. \/ /\ r # 0 /\ msgs' = marked
         /\ out' = [out EXCEPT ![x] = [step |-> "push", msg |-> m, queue |-> r]]
      \/ msgs' = Messages!Released(marked, m) /\ out' = [out EXCEPT ![x] = Messages!Nothing]
  BY <1>2, <1>6 DEF Messages!Forward
<1>8. r # 0 => r \in 1 .. Len(inbound) /\ r \in Nat
  <2> SUFFICES ASSUME r # 0 PROVE r \in 1 .. Len(inbound) /\ r \in Nat
    OBVIOUS
  <2>1. r = route[msgs[m].from] /\ msgs[m].from \in Agents
    BY <1>3 DEF Messages!ForwardTo, Messages!FindRoute, Headers
  <2>2. r = mine[msgs[m].from] /\ mine[msgs[m].from] \in 0 .. Len(inbound)
    BY <2>1 DEF MessagesInv, QueuesOK
  <2> QED BY <2>2, MessageFacts
<1> HIDE DEF h, r
<1>9. /\ marked \in Seq(Headers \cup {Messages!Freed}) /\ Len(marked) = Len(msgs) /\ marked[m] = h
      /\ \A k \in 1 .. Len(msgs) : k # m => marked[k] = msgs[k]
  BY <1>3, <1>4, ExceptSeq DEF MessagesInv, MessageTypes
<1> HIDE DEF marked
<1>10. agentPc' \in [Agents -> AgentPlaces]
  BY <1>6 DEF MessagesInv, MessageTypes
<1>11. CASE /\ r # 0 /\ msgs' = marked
            /\ out' = [out EXCEPT ![x] = [step |-> "push", msg |-> m, queue |-> r]]
  <2> DEFINE o == [step |-> "push", msg |-> m, queue |-> r]
  <2>1. o \in Outs /\ o.msg = m /\ o.step = "push" /\ o.queue = r
    BY <1>8, <1>11 DEF Outs
  <2>2. out' = [out EXCEPT ![x] = o]
    BY <1>11
  <2> HIDE DEF o
  <2>3. o.step = "push" => o.queue \in 1 .. Len(inbound) /\ msgs'[m].done
    BY <1>5, <1>8, <1>9, <1>11, <2>1
  <2>4. msgs' = marked
    BY <1>11
  <2> QED BY <1>2, <1>4, <1>6, <1>9, <1>10, <2>1, <2>2, <2>3, <2>4, SendGoesOn
<1>12. CASE msgs' = Messages!Released(marked, m) /\ out' = [out EXCEPT ![x] = Messages!Nothing]
  <2>1. /\ msgs' \in Seq(Headers \cup {Messages!Freed}) /\ Len(msgs') = Len(msgs)
        /\ \A k \in 1 .. Len(msgs) : k # m => msgs'[k] = msgs[k]
        /\ msgs'[m].refs = msgs[m].refs - 1
        /\ msgs'[m].refs # 0 => msgs'[m].from = msgs[m].from
    <3>1. m \in 1 .. Len(marked) /\ marked[m] \in Headers
      BY <1>3, <1>4, <1>9
    <3> QED BY <1>4, <1>9, <1>12, <3>1, ReleasedFacts
  <2>2. /\ out \in [Agents -> Outs \cup {Messages!Nothing}]
        /\ \A y \in Agents : out'[y] = IF y = x THEN Messages!Nothing ELSE out[y]
    BY <1>12 DEF MessagesInv, MessageTypes
  <2>3. Messages!Nothing.msg = 0 /\ Messages!Nothing.step = "none"
    BY DEF Messages!Nothing
  <2>4. MessageTypes'
    <3>1. out' \in [Agents -> Outs \cup {Messages!Nothing}]
      BY <1>12, <2>2
    <3> QED BY <1>6, <2>1, <3>1 DEF MessagesInv, MessageTypes
  <2>5. ThreadsOK'
    <3> SUFFICES ASSUME NEW y \in Agents
                 PROVE  out'[y].step = "push" => out'[y].queue \in 1 .. Len(inbound)
      BY <1>6 DEF MessagesInv, ThreadsOK
    <3> QED BY <2>2, <2>3 DEF MessagesInv, ThreadsOK
  <2>6. QueuesOK'
    BY <1>6, QueuesKept
  <2>7. FlowOK'
    <3>1. PICK p \in Places : p = "gone"
      BY DEF Places
    <3>2. \A k \in 1 .. Len(msgs), y \in Agents :
            out'[y].msg = k <=> IF k = m THEN p = "out" /\ y = x ELSE out[y].msg = k
      BY <1>1, <1>2, <2>2, <2>3, <3>1, InHand
    <3>3. \A k \in 1 .. Len(msgs), y \in Agents :
            IsIn(k, batch'[y]) <=> IF k = m THEN p = "batch" /\ y = x ELSE IsIn(k, batch[y])
      BY <1>1, <1>2, <1>6, <3>1, InHand
    <3>4. \A k \in 1 .. Len(msgs), q \in 1 .. Len(inbound) :
            IsIn(k, inbound'[q]) <=> IF k = m THEN p = "queue" /\ q = x ELSE IsIn(k, inbound[q])
      BY <1>1, <1>2, <1>6, <3>1, InHand
    <3>5. \A k \in 1 .. Len(msgs) : k \in lost' <=> IF k = m THEN p = "lost" ELSE k \in lost
      BY <1>1, <1>2, <1>6, <3>1, InHand
    <3>6. \A k \in 1 .. Len(msgs) :
            msgs'[k].refs = IF k = m /\ p = "gone" THEN msgs[k].refs - 1 ELSE msgs[k].refs
      BY <2>1, <3>1
    <3>7. p \notin {"queue", "out", "batch"} /\ Len(inbound') = Len(inbound)
      BY <1>6, <3>1
    <3>8. Moves(m, p, x)
      BY <1>2, <1>6, <2>1, <3>2, <3>3, <3>4, <3>5, <3>6, <3>7 DEF Moves
    <3> QED BY <1>3, <3>8, Moved
  <2>8. ContentsOK'
    <3>1. /\ \A y \in Agents : ~ IsIn(m, batch'[y])
          /\ \A q \in 1 .. Len(inbound) : ~ IsIn(m, inbound'[q])
      BY <1>1, <1>2, <1>6, InHand
    <3>2. \A k \in 1 .. Len(msgs) : k # m => /\ msgs'[k].from = msgs[k].from
                                             /\ msgs'[k].done = msgs[k].done
                                             /\ msgs'[k].status = msgs[k].status
      BY <2>1
    <3>3. Len(msgs') \in Nat /\ Len(msgs') >= Len(msgs) /\ Len(inbound') = Len(inbound)
      BY <1>6, <2>1, MessageFacts
    <3> QED BY <1>6, <2>7, <3>1, <3>2, <3>3, ContentsKept
  <2>9. SendsOK'
    <3>1. \A y \in Agents : out'[y].msg # m
      BY <1>1, <1>2, <2>2, <2>3, InHand
    <3>2. \A k \in 1 .. Len(msgs) : msgs'[k].refs # 0 =>
            /\ msgs[k].refs # 0 /\ msgs'[k].from = msgs[k].from
            /\ \/ msgs'[k].done = msgs[k].done /\ msgs'[k].status = msgs[k].status
               \/ \A y \in Agents : out'[y].msg # k
      BY <1>3, <2>1, <3>1 DEF Headers
    <3>3. /\ \A y \in Agents : out'[y] = out[y] \/ out'[y] = Messages!Nothing
          /\ \A y \in Agents : req'[y] = req[y]
      BY <1>6, <2>2
    <3> QED BY <2>1, <2>7, <3>2, <3>3, SendsKept
  <2> QED BY <2>4, <2>5, <2>6, <2>7, <2>8, <2>9, Halves DEF MessagesInv
<1> QED BY <1>7, <1>11, <1>12

LEMMA ResetHandleInv ==
  ASSUME MessagesInv, NEW x \in Agents, Messages!ResetHandle(x)
  PROVE  MessagesInv'
<1>0. PICK m \in Nat : m = req[x]
  BY ThreadFacts, MessageFacts
<1>1. /\ agentPc[x] = "idle" /\ m # 0 /\ msgs' = Messages!Released(msgs, m)
      /\ req' = [req EXCEPT ![x] = 0]
      /\ UNCHANGED <<route, inbound, free, agentPc, mine, batch, out, lost>>
  BY <1>0 DEF Messages!ResetHandle, Messages!At, Messages!queues
<1>2. m \in 1 .. Len(msgs) /\ msgs[m] \in Headers /\ msgs[m].from = x
  BY <1>0, <1>1, Apart, MessageFacts DEF MessagesInv, PlacesOK
<1>3. /\ msgs' \in Seq(Headers \cup {Messages!Freed}) /\ Len(msgs') = Len(msgs)
      /\ \A k \in 1 .. Len(msgs) : k # m => msgs'[k] = msgs[k]
      /\ msgs'[m].refs = msgs[m].refs - 1
      /\ msgs'[m].refs # 0 => /\ msgs'[m].from = msgs[m].from /\ msgs'[m].done = msgs[m].done
                              /\ msgs'[m].status = msgs[m].status
  BY <1>1, <1>2, ReleasedFacts DEF MessagesInv, MessageTypes
<1>4. \A y \in Agents : req'[y] = IF y = x THEN 0 ELSE req[y]
  BY <1>1 DEF MessagesInv, MessageTypes
<1>5. MessageTypes'
  BY <1>1, <1>3 DEF MessagesInv, MessageTypes
<1>6. ThreadsOK'
  <2> SUFFICES ASSUME NEW y \in Agents
               PROVE  agentPc[y] \in {"handleFlag", "handleSleep", "handleAsleep", "handleCheck"}
                        => req'[y] # 0
    BY <1>1 DEF MessagesInv, ThreadsOK
  <2> QED BY <1>1, <1>4 DEF MessagesInv, ThreadsOK
<1>7. QueuesOK'
  BY <1>1, QueuesKept
<1>8. FlowOK'
  <2>1. PICK place \in [Nat -> Places], holder \in [Nat -> Agents \cup Nat] :
          Located(place, holder) /\ Counted(place)
    BY DEF MessagesInv, FlowOK
  <2>2. Located(place, holder)'
    BY <1>1, <1>3, <2>1 DEF Located, IsIn
  <2>3. ASSUME NEW k \in 1 .. Len(msgs)
        PROVE  msgs'[k].refs = (IF place[k] = "gone" THEN 0 ELSE 1)
                               + (IF \E y \in Agents : req'[y] = k THEN 1 ELSE 0)
    <3>1. msgs[k].refs = (IF place[k] = "gone" THEN 0 ELSE 1)
                         + (IF \E y \in Agents : req[y] = k THEN 1 ELSE 0)
      BY <2>1 DEF Counted
    <3>2. CASE k = m
      <4>1. \A y \in Agents : req'[y] # m
        <5> TAKE y \in Agents
        <5>1. req[y] = m => y = x
          BY <1>2 DEF MessagesInv, PlacesOK
        <5> QED BY <1>1, <1>4, <5>1
      <4>2. \E y \in Agents : req[y] = m
        BY <1>0
      <4> QED BY <1>3, <3>1, <3>2, <4>1, <4>2
    <3>3. CASE k # m
      <4>1. \A y \in Agents : req'[y] = k <=> req[y] = k
        BY <1>0, <1>4, <3>3
      <4> QED BY <1>3, <3>1, <3>3, <4>1
    <3> QED BY <3>2, <3>3
  <2>4. Counted(place)'
    BY <1>3, <2>3 DEF Counted
  <2> QED BY <2>2, <2>4 DEF FlowOK
<1>9. \A k \in 1 .. Len(msgs) : msgs'[k].refs # 0 =>
        /\ msgs[k].refs # 0
        /\ msgs'[k].from = msgs[k].from /\ msgs'[k].done = msgs[k].done
        /\ msgs'[k].status = msgs[k].status
  BY <1>2, <1>3 DEF Headers
<1>10. ContentsOK'
  BY <1>1, <1>3, <1>8, <1>9, MessageFacts, ContentsKept
<1>11. SendsOK'
  <2>1. /\ \A y \in Agents : out'[y] = out[y]
        /\ \A y \in Agents : req'[y] = req[y] \/ req'[y] = 0
    BY <1>1, <1>4
  <2> QED BY <1>3, <1>8, <1>9, <2>1, SendsKept
<1> QED BY <1>5, <1>6, <1>7, <1>8, <1>10, <1>11, Halves DEF MessagesInv

LEMMA SetWaitFlagInv ==
  ASSUME MessagesInv, NEW x \in Agents, Messages!SetWaitFlag(x)
  PROVE  MessagesInv'
<1>0. PICK m \in Nat : m = req[x]
  BY ThreadFacts, MessageFacts
<1> DEFINE h == [msgs[m] EXCEPT !.waiting = TRUE]
<1>1. /\ agentPc[x] = "handleFlag" /\ msgs' = [msgs EXCEPT ![m] = h]
      /\ UNCHANGED <<route, inbound, free, mine, batch, out, req, lost>>
      /\ \E spot \in {"handleSleep", "idle"} : agentPc' = [agentPc EXCEPT ![x] = spot]
  BY <1>0 DEF Messages!SetWaitFlag, Messages!At, Messages!queues, Messages!Remember, Messages!Goto
<1>2. m # 0 /\ m \in 1 .. Len(msgs) /\ msgs[m] \in Headers
  <2>1. m # 0
    BY <1>0, <1>1 DEF MessagesInv, ThreadsOK
  <2> QED BY <1>0, <2>1, ThreadFacts, Apart, MessageFacts
<1>3. /\ h \in Headers /\ h.refs = msgs[m].refs /\ h.from = msgs[m].from
      /\ h.done = msgs[m].done /\ h.status = msgs[m].status
  BY <1>2 DEF Headers
<1> HIDE DEF h
<1>4. /\ msgs' \in Seq(Headers \cup {Messages!Freed}) /\ Len(msgs') = Len(msgs) /\ msgs'[m] = h
      /\ \A k \in 1 .. Len(msgs) : k # m => msgs'[k] = msgs[k]
  BY <1>1, <1>2, <1>3, ExceptSeq DEF MessagesInv, MessageTypes
<1>5. PICK spot \in {"handleSleep", "idle"} : agentPc' = [agentPc EXCEPT ![x] = spot]
  BY <1>1
<1>6. \A y \in Agents : agentPc'[y] = IF y = x THEN spot ELSE agentPc[y]
  BY <1>5 DEF MessagesInv, MessageTypes
<1>7. MessageTypes'
  <2>1. agentPc' \in [Agents -> AgentPlaces]
    BY <1>5 DEF MessagesInv, MessageTypes, AgentPlaces
  <2> QED BY <1>1, <1>4, <2>1 DEF MessagesInv, MessageTypes
<1>8. ThreadsOK'
  <2> SUFFICES ASSUME NEW y \in Agents
               PROVE  /\ batch[y] # <<>> => agentPc'[y] = "poll"
                      /\ agentPc'[y] \in {"poll", "waitCheck", "waitSleep", "asleep", "clear", "free"}
                           => mine[y] # 0
                      /\ agentPc'[y] \in {"clear", "free"} => route[y] = 0
                      /\ agentPc'[y] \in {"handleFlag", "handleSleep", "handleAsleep", "handleCheck"}
                           => req[y] # 0
                      /\ out[y].step = "push" => out[y].queue \in 1 .. Len(inbound)
    BY <1>1 DEF ThreadsOK
  <2> QED BY <1>0, <1>1, <1>2, <1>6 DEF MessagesInv, ThreadsOK
<1>9. \A k \in 1 .. Len(msgs) : /\ msgs'[k].refs = msgs[k].refs /\ msgs'[k].from = msgs[k].from
                                /\ msgs'[k].done = msgs[k].done /\ msgs'[k].status = msgs[k].status
  BY <1>3, <1>4
<1>10. FlowOK' /\ PlacesOK' /\ StatusOK' /\ OrderedOK'
  BY <1>1, <1>4, <1>9, FlowKept
<1> QED BY <1>1, <1>7, <1>8, <1>10, QueuesKept DEF MessagesInv

\* The steps of a thread that waits for a request or for messages.
LEMMA WaitingInv ==
  ASSUME MessagesInv, NEW x \in Agents,
         \/ Messages!AwaitRequest(x) \/ Messages!HandleSleep(x) \/ Messages!HandleCheck(x)
         \/ Messages!PollMessages(x) \/ Messages!WaitMessages(x) \/ Messages!WaitCheck(x)
         \/ Messages!WaitSleep(x) \/ Messages!WaitTimeout(x)
  PROVE  MessagesInv'
<1>0. /\ batch[x] # <<>> => agentPc[x] = "poll"
      /\ agentPc[x] \in {"waitCheck", "waitSleep", "asleep"} => mine[x] # 0
      /\ agentPc[x] \in {"handleFlag", "handleSleep", "handleAsleep", "handleCheck"} => req[x] # 0
  BY DEF MessagesInv, ThreadsOK
<1>1. CASE Messages!AwaitRequest(x)
  <2>1. /\ Messages!Goto(x, "handleFlag") /\ req[x] # 0 /\ batch[x] = <<>>
        /\ UNCHANGED <<route, inbound, free, msgs, mine, batch, out, req, lost>>
    BY <1>0, <1>1 DEF Messages!AwaitRequest, Messages!At, Messages!queues
  <2> QED BY <2>1, GoesOn DEF AgentPlaces
<1>2. CASE Messages!HandleSleep(x)
  <2>1. PICK spot \in {"handleAsleep", "handleCheck"} : Messages!Goto(x, spot)
    BY <1>2 DEF Messages!HandleSleep
  <2>2. /\ req[x] # 0 /\ batch[x] = <<>> /\ spot \in AgentPlaces
        /\ UNCHANGED <<route, inbound, free, msgs, mine, batch, out, req, lost>>
    BY <1>0, <1>2 DEF Messages!HandleSleep, Messages!At, Messages!queues, AgentPlaces
  <2> QED BY <2>1, <2>2, GoesOn
<1>3. CASE Messages!HandleCheck(x)
  <2>1. PICK spot \in {"handleSleep", "idle"} : Messages!Goto(x, spot)
    BY <1>3 DEF Messages!HandleCheck, Messages!Remember
  <2>2. /\ req[x] # 0 /\ batch[x] = <<>> /\ spot \in AgentPlaces
        /\ UNCHANGED <<route, inbound, free, msgs, mine, batch, out, req, lost>>
    BY <1>0, <1>3 DEF Messages!HandleCheck, Messages!At, Messages!queues, AgentPlaces
  <2> QED BY <2>1, <2>2, GoesOn
<1>4. CASE Messages!PollMessages(x) \/ Messages!WaitMessages(x)
  <2>1. PICK spot \in {"poll", "waitCheck"} : Messages!Goto(x, spot)
    BY <1>4 DEF Messages!PollMessages, Messages!WaitMessages
  <2>2. /\ mine[x] # 0 /\ batch[x] = <<>> /\ spot \in AgentPlaces
        /\ UNCHANGED <<route, inbound, free, msgs, mine, batch, out, req, lost>>
    BY <1>0, <1>4
       DEF Messages!PollMessages, Messages!WaitMessages, Messages!At, Messages!queues, AgentPlaces
  <2> QED BY <2>1, <2>2, GoesOn
<1>5. CASE Messages!WaitCheck(x)
  <2>1. PICK spot \in {"poll", "waitSleep"} : Messages!Goto(x, spot)
    BY <1>5 DEF Messages!WaitCheck
  <2>2. /\ mine[x] # 0 /\ batch[x] = <<>> /\ spot \in AgentPlaces
        /\ UNCHANGED <<route, inbound, free, msgs, mine, batch, out, req, lost>>
    BY <1>0, <1>5 DEF Messages!WaitCheck, Messages!At, AgentPlaces
  <2> QED BY <2>1, <2>2, GoesOn
<1>6. CASE Messages!WaitSleep(x)
  <2>1. PICK spot \in {"asleep", "waitCheck"} : Messages!Goto(x, spot)
    BY <1>6 DEF Messages!WaitSleep
  <2>2. /\ mine[x] # 0 /\ batch[x] = <<>> /\ spot \in AgentPlaces
        /\ UNCHANGED <<route, inbound, free, msgs, mine, batch, out, req, lost>>
    BY <1>0, <1>6 DEF Messages!WaitSleep, Messages!At, Messages!queues, AgentPlaces
  <2> QED BY <2>1, <2>2, GoesOn
<1>7. CASE Messages!WaitTimeout(x)
  <2>1. /\ Messages!Goto(x, "waitCheck") /\ mine[x] # 0 /\ batch[x] = <<>>
        /\ UNCHANGED <<route, inbound, free, msgs, mine, batch, out, req, lost>>
    BY <1>0, <1>7 DEF Messages!WaitTimeout, Messages!queues
  <2> QED BY <2>1, GoesOn DEF AgentPlaces
<1> QED BY <1>1, <1>2, <1>3, <1>4, <1>5, <1>6, <1>7

\* The first n messages of the queue q become a batch.
LEMMA PopBatchInv ==
  ASSUME MessagesInv, NEW x \in Agents, Messages!PopBatch(x)
  PROVE  MessagesInv'
<1>0. PICK q \in Nat, l \in Nat : q = mine[x] /\ l = Len(inbound[q]) /\ q \in 1 .. Len(inbound)
  <2>1. mine[x] # 0 /\ mine[x] \in 0 .. Len(inbound) /\ Len(inbound) \in Nat
    BY ThreadFacts, MessageFacts DEF Messages!PopBatch, Messages!At, MessagesInv, ThreadsOK
  <2>2. mine[x] \in Nat /\ mine[x] \in 1 .. Len(inbound)
    BY <2>1
  <2>3. Len(inbound[mine[x]]) \in Nat
    BY <2>2, MessageFacts
  <2> QED BY <2>2, <2>3
<1> DEFINE s == inbound[q]
<1>1. PICK n \in 0 .. l : /\ batch' = [batch EXCEPT ![x] = SubSeq(s, 1, n)]
                          /\ inbound' = [inbound EXCEPT ![q] = SubSeq(s, n + 1, Len(s))]
                          /\ Messages!Goto(x, IF n = 0 THEN "idle" ELSE "poll")
  <2>1. BatchSize \in Nat
    BY MessagingAssumption DEF Messages!MessagingAssumption
  <2>2. (IF Len(s) < BatchSize THEN Len(s) ELSE BatchSize) \in 0 .. l
    BY <1>0, <2>1
  <2> QED BY <1>0, <2>2 DEF Messages!PopBatch
<1>2. /\ agentPc[x] = "poll" /\ batch[x] = <<>> /\ out[x] = Messages!Nothing
      /\ UNCHANGED <<route, free, msgs, mine, out, req, lost>>
  BY DEF Messages!PopBatch, Messages!At
<1>3. inbound[q] \in Seq(Nat) /\ inbound \in Seq(Seq(Nat))
  BY <1>0, MessageFacts DEF MessagesInv, MessageTypes
<1>4. /\ SubSeq(s, 1, n) \in Seq(Nat) /\ Len(SubSeq(s, 1, n)) = n
      /\ \A i \in 1 .. n : SubSeq(s, 1, n)[i] = s[i]
      /\ SubSeq(s, n + 1, Len(s)) \in Seq(Nat) /\ Len(SubSeq(s, n + 1, Len(s))) = l - n
      /\ \A i \in 1 .. l - n : SubSeq(s, n + 1, Len(s))[i] = s[n + i]
  <2>1. s \in Seq(Nat) /\ Len(s) = l /\ n \in 0 .. Len(s)
    BY <1>0, <1>3
  <2> HIDE DEF s
  <2>2. /\ SubSeq(s, 1, n) \in Seq(Nat) /\ Len(SubSeq(s, 1, n)) = n
        /\ \A i \in 1 .. n : SubSeq(s, 1, n)[i] = s[i]
    BY <2>1, PrefixElements
  <2>3. /\ SubSeq(s, n + 1, Len(s)) \in Seq(Nat) /\ Len(SubSeq(s, n + 1, Len(s))) = Len(s) - n
        /\ \A i \in 1 .. Len(s) - n : SubSeq(s, n + 1, Len(s))[i] = s[n + i]
    BY <2>1, RestElements
  <2> QED BY <2>1, <2>2, <2>3
<1>5. /\ inbound' \in Seq(Seq(Nat)) /\ Len(inbound') = Len(inbound)
      /\ \A r \in 1 .. Len(inbound) : r # q => inbound'[r] = inbound[r]
      /\ Len(inbound'[q]) = l - n /\ \A i \in 1 .. l - n : inbound'[q][i] = inbound[q][n + i]
  <2>1. /\ inbound' \in Seq(Seq(Nat)) /\ Len(inbound') = Len(inbound)
        /\ \A r \in 1 .. Len(inbound) :
             inbound'[r] = IF r = q THEN SubSeq(s, n + 1, Len(s)) ELSE inbound[r]
    BY SMTT(25), <1>0, <1>1, <1>3, <1>4, ExceptSeq
  <2> QED BY <1>0, <1>4, <2>1
<1>6. /\ \A y \in Agents : y # x => batch'[y] = batch[y]
      /\ Len(batch'[x]) = n /\ \A i \in 1 .. n : batch'[x][i] = inbound[q][i]
      /\ batch' \in [Agents -> Seq(Nat)]
  <2>1. \A y \in Agents : batch'[y] = IF y = x THEN SubSeq(s, 1, n) ELSE batch[y]
    BY <1>1 DEF MessagesInv, MessageTypes
  <2>2. batch' \in [Agents -> Seq(Nat)]
    BY <1>1, <1>4 DEF MessagesInv, MessageTypes
  <2> QED BY <1>4, <2>1, <2>2
<1> HIDE DEF s
<1>7. PICK spot \in {"idle", "poll"} :
        /\ \A y \in Agents : agentPc'[y] = IF y = x THEN spot ELSE agentPc[y]
        /\ spot = "poll" \/ (n = 0 /\ agentPc' \in [Agents -> AgentPlaces])
        /\ agentPc' \in [Agents -> AgentPlaces]
  <2>1. agentPc' = [agentPc EXCEPT ![x] = IF n = 0 THEN "idle" ELSE "poll"]
    BY <1>1 DEF Messages!Goto
  <2>2. CASE n = 0
    BY <2>1, <2>2 DEF MessagesInv, MessageTypes, AgentPlaces
  <2>3. CASE n # 0
    BY <2>1, <2>3 DEF MessagesInv, MessageTypes, AgentPlaces
  <2> QED BY <2>2, <2>3
<1>8. /\ \A i \in 1 .. l : inbound[q][i] \in 1 .. Len(msgs) /\ Unanswered(inbound[q][i])
      /\ \A i, j \in 1 .. l : inbound[q][i] = inbound[q][j] => i = j
      /\ \A i, j \in 1 .. l : i < j => Precedes(inbound[q][i], inbound[q][j])
  BY <1>0 DEF MessagesInv, PlacesOK, StatusOK, OrderedOK
<1>9. /\ \A i \in 1 .. n : i \in 1 .. l
      /\ \A i \in 1 .. l - n : n + i \in 1 .. l /\ n + i > n
  OBVIOUS
<1>10. MessageTypes'
  BY <1>2, <1>5, <1>6, <1>7 DEF MessagesInv, MessageTypes
<1>11. ThreadsOK'
  <2> SUFFICES ASSUME NEW y \in Agents
               PROVE  /\ batch'[y] # <<>> => agentPc'[y] = "poll"
                      /\ agentPc'[y] \in {"poll", "waitCheck", "waitSleep", "asleep", "clear", "free"}
                           => mine[y] # 0
                      /\ agentPc'[y] \in {"clear", "free"} => route[y] = 0
                      /\ agentPc'[y] \in {"handleFlag", "handleSleep", "handleAsleep", "handleCheck"}
                           => req[y] # 0
                      /\ out[y].step = "push" => out[y].queue \in 1 .. Len(inbound)
    BY <1>2, <1>5 DEF ThreadsOK
  <2>1. CASE y = x
    <3>1. batch'[x] # <<>> => Len(batch'[x]) # 0
      BY <1>6, EmptySeq
    <3>2. mine[x] # 0
      BY <1>0
    <3>3. out[y].step = "push" => out[y].queue \in 1 .. Len(inbound)
      BY DEF MessagesInv, ThreadsOK
    <3> QED BY <1>6, <1>7, <2>1, <3>1, <3>2, <3>3
  <2>2. CASE y # x
    BY <1>6, <1>7, <2>2 DEF MessagesInv, ThreadsOK
  <2> QED BY <2>1, <2>2
<1>12. QueuesOK'
  BY <1>2, <1>5, QueuesKept
<1>13. FlowOK'
  <2>1. PICK place \in [Nat -> Places], holder \in [Nat -> Agents \cup Nat] :
          Located(place, holder) /\ Counted(place)
    BY DEF MessagesInv, FlowOK
  <2>2. PICK moved \in SUBSET Nat :
          \A k \in Nat : k \in moved <=> \E i \in 1 .. n : inbound[q][i] = k
    <3> WITNESS {k \in Nat : \E i \in 1 .. n : inbound[q][i] = k} \in SUBSET Nat
    <3> QED OBVIOUS
  <2> DEFINE newPlace == [k \in Nat |-> IF k \in moved THEN "batch" ELSE place[k]]
             newHolder == [k \in Nat |-> IF k \in moved THEN x ELSE holder[k]]
  <2>3. /\ newPlace \in [Nat -> Places] /\ newHolder \in [Nat -> Agents \cup Nat]
        /\ \A k \in 1 .. Len(msgs) : k \in Nat
        /\ \A k \in 1 .. Len(msgs) : newPlace[k] = IF k \in moved THEN "batch" ELSE place[k]
        /\ \A k \in 1 .. Len(msgs) : newHolder[k] = IF k \in moved THEN x ELSE holder[k]
    BY MessageFacts DEF Places
  <2> HIDE DEF newPlace, newHolder
  <2>4. \A k \in 1 .. Len(msgs) : k \in moved => place[k] = "queue" /\ holder[k] = q
    <3> TAKE k \in 1 .. Len(msgs)
    <3> HAVE k \in moved
    <3>1. IsIn(k, inbound[q])
      BY <1>0, <1>9, <2>2 DEF IsIn
    <3> QED BY <1>0, <2>1, <3>1 DEF Located
  <2>5. \A k \in 1 .. Len(msgs) : IsIn(k, batch'[x]) <=> k \in moved
    <3> TAKE k \in 1 .. Len(msgs)
    <3>1. IsIn(k, batch'[x]) <=> \E i \in 1 .. n : batch'[x][i] = k
      BY <1>6 DEF IsIn
    <3>2. (\E i \in 1 .. n : batch'[x][i] = k) <=> \E i \in 1 .. n : inbound[q][i] = k
      BY <1>6
    <3> QED BY <2>2, <2>3, <3>1, <3>2
  <2>6. \A k \in 1 .. Len(msgs) : IsIn(k, inbound'[q]) <=> IsIn(k, inbound[q]) /\ k \notin moved
    <3> TAKE k \in 1 .. Len(msgs)
    <3>1. ASSUME IsIn(k, inbound'[q]) PROVE IsIn(k, inbound[q]) /\ k \notin moved
      <4>1. PICK i \in 1 .. l - n : inbound[q][n + i] = k
        BY <1>5, <3>1 DEF IsIn
      <4>2. n + i \in 1 .. l /\ \A j \in 1 .. n : j \in 1 .. l /\ j # n + i
        OBVIOUS
      <4>3. \A j \in 1 .. n : inbound[q][j] # k
        BY <1>8, <4>1, <4>2
      <4>4. IsIn(k, inbound[q])
        BY <1>0, <4>1, <4>2 DEF IsIn
      <4> QED BY <2>2, <2>3, <4>3, <4>4
    <3>2. ASSUME IsIn(k, inbound[q]), k \notin moved PROVE IsIn(k, inbound'[q])
      <4>1. PICK i \in 1 .. l : inbound[q][i] = k
        BY <1>0, <3>2 DEF IsIn
      <4>2. i \notin 1 .. n
        BY <2>2, <2>3, <3>2, <4>1
      <4>3. i - n \in 1 .. l - n /\ n + (i - n) = i
        BY <4>2
      <4>4. inbound'[q][i - n] = k /\ i - n \in 1 .. Len(inbound'[q])
        BY <1>5, <4>1, <4>3
      <4> QED BY <4>4 DEF IsIn
    <3> QED BY <3>1, <3>2
  <2>7. \A k \in 1 .. Len(msgs), y \in Agents :
          IsIn(k, batch'[y]) <=> newPlace[k] = "batch" /\ newHolder[k] = y
    <3> TAKE k \in 1 .. Len(msgs), y \in Agents
    <3>1. IsIn(k, batch[y]) <=> place[k] = "batch" /\ holder[k] = y
      BY <2>1 DEF Located
    <3>2. ~ IsIn(k, batch[x])
      <4>1. Len(batch[x]) = 0 /\ \A i \in 1 .. 0 : FALSE
        BY <1>2
      <4> QED BY <4>1 DEF IsIn
    <3>3. CASE y = x
      <4>1. ~ (place[k] = "batch" /\ holder[k] = x)
        BY <3>1, <3>2, <3>3
      <4> QED BY <2>3, <2>5, <3>3, <4>1
    <3>4. CASE y # x
      BY <1>6, <2>3, <2>4, <3>1, <3>4
    <3> QED BY <3>3, <3>4
  <2>8. \A k \in 1 .. Len(msgs), r \in 1 .. Len(inbound) :
          IsIn(k, inbound'[r]) <=> newPlace[k] = "queue" /\ newHolder[k] = r
    <3> TAKE k \in 1 .. Len(msgs), r \in 1 .. Len(inbound)
    <3>1. IsIn(k, inbound[r]) <=> place[k] = "queue" /\ holder[k] = r
      BY <2>1 DEF Located
    <3>2. CASE r = q
      BY <2>3, <2>6, <3>1, <3>2
    <3>3. CASE r # q
      <4>1. IsIn(k, inbound'[r]) <=> IsIn(k, inbound[r])
        BY <1>5, <3>3
      <4> QED BY <2>3, <2>4, <3>1, <3>3, <4>1
    <3> QED BY <3>2, <3>3
  <2>9. /\ \A k \in 1 .. Len(msgs), y \in Agents :
             out[y].msg = k <=> newPlace[k] = "out" /\ newHolder[k] = y
        /\ \A k \in 1 .. Len(msgs) : k \in lost <=> newPlace[k] = "lost"
        /\ \A k \in 1 .. Len(msgs) : newPlace[k] \in {"out", "batch"} => newHolder[k] \in Agents
        /\ \A k \in 1 .. Len(msgs) : newPlace[k] = "queue" => newHolder[k] \in 1 .. Len(inbound)
        /\ \A k \in 1 .. Len(msgs) : newPlace[k] = "gone" <=> place[k] = "gone"
    <3> SUFFICES ASSUME NEW k \in 1 .. Len(msgs)
                 PROVE  /\ \A y \in Agents : out[y].msg = k <=> newPlace[k] = "out" /\ newHolder[k] = y
                        /\ k \in lost <=> newPlace[k] = "lost"
                        /\ newPlace[k] \in {"out", "batch"} => newHolder[k] \in Agents
                        /\ newPlace[k] = "queue" => newHolder[k] \in 1 .. Len(inbound)
                        /\ newPlace[k] = "gone" <=> place[k] = "gone"
      OBVIOUS
    <3>1. /\ \A y \in Agents : out[y].msg = k <=> place[k] = "out" /\ holder[k] = y
          /\ k \in lost <=> place[k] = "lost"
          /\ place[k] \in {"out", "batch"} => holder[k] \in Agents
          /\ place[k] = "queue" => holder[k] \in 1 .. Len(inbound)
      BY <2>1 DEF Located
    <3>2. CASE k \in moved
      BY <2>3, <2>4, <3>1, <3>2
    <3>3. CASE k \notin moved
      BY <2>3, <3>1, <3>3
    <3> QED BY <3>2, <3>3
  <2>10. Located(newPlace, newHolder)'
    <3>1. msgs' = msgs /\ out' = out /\ lost' = lost /\ Len(inbound') = Len(inbound)
      BY <1>2, <1>5
    <3> QED BY <2>7, <2>8, <2>9, <3>1 DEF Located, IsIn
  <2>11. Counted(newPlace)'
    <3>1. msgs' = msgs /\ req' = req
      BY <1>2
    <3>2. \A k \in 1 .. Len(msgs) :
            msgs[k].refs = (IF place[k] = "gone" THEN 0 ELSE 1)
                           + (IF \E y \in Agents : req[y] = k THEN 1 ELSE 0)
      BY <2>1 DEF Counted
    <3> QED BY <2>9, <3>1, <3>2 DEF Counted
  <2> QED BY <2>3, <2>10, <2>11 DEF FlowOK
<1>14. ContentsOK'
  <2>1. ASSUME NEW r \in 1 .. Len(inbound)
        PROVE  /\ \A i \in 1 .. Len(inbound'[r]) :
                    inbound'[r][i] \in 1 .. Len(msgs) /\ Unanswered(inbound'[r][i])
               /\ \A i, j \in 1 .. Len(inbound'[r]) : inbound'[r][i] = inbound'[r][j] => i = j
               /\ \A i, j \in 1 .. Len(inbound'[r]) : i < j => Precedes(inbound'[r][i], inbound'[r][j])
    <3>1. CASE r = q
      <4>1. \A i \in 1 .. l - n : inbound'[q][i] \in 1 .. Len(msgs) /\ Unanswered(inbound'[q][i])
        BY <1>5, <1>8, <1>9
      <4>2. ASSUME NEW i \in 1 .. l - n, NEW j \in 1 .. l - n
            PROVE  /\ inbound'[q][i] = inbound'[q][j] => i = j
                   /\ i < j => Precedes(inbound'[q][i], inbound'[q][j])
        <5>1. /\ inbound[q][n + i] = inbound[q][n + j] => n + i = n + j
              /\ n + i < n + j => Precedes(inbound[q][n + i], inbound[q][n + j])
          BY <1>8, <1>9
        <5> QED BY SMTT(25), <1>5, <5>1
      <4> QED BY <1>5, <3>1, <4>1, <4>2
    <3>2. CASE r # q
      BY <1>5, <3>2 DEF MessagesInv, PlacesOK, StatusOK, OrderedOK
    <3> QED BY <3>1, <3>2
  <2>2. ASSUME NEW y \in Agents
        PROVE  /\ \A i \in 1 .. Len(batch'[y]) :
                    batch'[y][i] \in 1 .. Len(msgs) /\ Unanswered(batch'[y][i])
               /\ \A i, j \in 1 .. Len(batch'[y]) : batch'[y][i] = batch'[y][j] => i = j
               /\ \A i, j \in 1 .. Len(batch'[y]) : i < j => Precedes(batch'[y][i], batch'[y][j])
    <3>1. CASE y = x
      BY ZenonT(40), <1>6, <1>8, <1>9, <3>1
    <3>2. CASE y # x
      BY SMTT(25), <1>6, <3>2 DEF MessagesInv, PlacesOK, StatusOK, OrderedOK
    <3> QED BY <3>1, <3>2
  <2>3. ASSUME NEW y \in Agents, mine[y] # 0,
               NEW i \in 1 .. Len(batch'[y]), NEW j \in 1 .. Len(inbound'[mine[y]])
        PROVE  Precedes(batch'[y][i], inbound'[mine[y]][j])
    <3>1. CASE y = x
      <4>1. i \in 1 .. l /\ batch'[x][i] = inbound[q][i] /\ i \in 1 .. n
        BY <1>6, <1>9, <3>1
      <4>2. n + j \in 1 .. l /\ inbound'[q][j] = inbound[q][n + j] /\ i < n + j
        <5>1. j \in 1 .. l - n
          BY <1>0, <1>5, <2>3, <3>1
        <5> QED BY <1>5, <4>1, <5>1
      <4> QED BY <1>0, <1>8, <3>1, <4>1, <4>2
    <3>2. CASE y # x
      <4>1. mine[y] # q /\ mine[y] \in 1 .. Len(inbound)
        BY <1>0, <2>3, <3>2, ThreadFacts DEF MessagesInv, QueuesOK
      <4>2. inbound'[mine[y]] = inbound[mine[y]] /\ batch'[y] = batch[y]
        BY <1>5, <1>6, <3>2, <4>1
      <4> QED BY <2>3, <4>2 DEF MessagesInv, OrderedOK
    <3> QED BY <3>1, <3>2
  <2>4. msgs' = msgs /\ mine' = mine
    BY <1>2
  <2> QED BY <1>5, <2>1, <2>2, <2>3, <2>4 DEF ContentsOK, Precedes, Unanswered
<1>15. SendsOK'
  <2>1. /\ \A y \in Agents : out'[y] = out[y]
        /\ \A y \in Agents : req'[y] = req[y]
        /\ msgs' = msgs
    BY <1>2
  <2>2. \A k \in 1 .. Len(msgs) : msgs'[k].refs # 0 => msgs[k].refs # 0
    BY <2>1
  <2> QED BY <1>13, <2>1, <2>2, SendsKept
<1> QED BY <1>10, <1>11, <1>12, <1>13, <1>14, <1>15, Halves DEF MessagesInv

\* The first message of a thread's batch, and the rest.
LEMMA FirstOfBatch ==
  ASSUME MessagesInv, NEW x \in Agents, Messages!Handling(x)
  PROVE  LET m == Head(batch[x]) IN
         /\ agentPc[x] = "poll" /\ out[x] = Messages!Nothing /\ out[x].msg = 0
         /\ m \in 1 .. Len(msgs) /\ msgs[m] \in Headers /\ Unanswered(m)
         /\ Tail(batch[x]) \in Seq(Nat)
         /\ \A k \in 1 .. Len(msgs) : IsIn(k, Tail(batch[x])) <=> k # m /\ IsIn(k, batch[x])
         /\ IsIn(m, batch[x])
         /\ \A y \in Agents : y # x => ~ IsIn(m, batch[y])
         /\ \A q \in 1 .. Len(inbound) : ~ IsIn(m, inbound[q])
         /\ \A y \in Agents : out[y].msg # m
         /\ m \notin lost
<1> DEFINE m == Head(batch[x])
<1>1. agentPc[x] = "poll" /\ out[x] = Messages!Nothing /\ out[x].msg = 0 /\ batch[x] # <<>>
  BY DEF Messages!Handling, Messages!At, Messages!Nothing
<1>2. PICK l \in Nat : l = Len(batch[x])
  BY ThreadFacts
<1>3. /\ l # 0 /\ m = batch[x][1] /\ 1 \in 1 .. l /\ Tail(batch[x]) \in Seq(Nat)
      /\ Len(Tail(batch[x])) = l - 1 /\ \A i \in 1 .. l - 1 : Tail(batch[x])[i] = batch[x][i + 1]
  <2>1. batch[x] \in Seq(Nat)
    BY ThreadFacts
  <2> QED BY <1>1, <1>2, <2>1, HeadTailProperties, EmptySeq
<1> HIDE DEF m
<1>4. m \in 1 .. Len(msgs) /\ msgs[m] \in Headers /\ Unanswered(m) /\ m # 0
  <2>1. m \in 1 .. Len(msgs)
    BY <1>2, <1>3, ThreadFacts
  <2>2. msgs[m].refs # 0 /\ Unanswered(m)
    BY <1>2, <1>3, Apart DEF MessagesInv, StatusOK
  <2> QED BY <2>1, <2>2, MessageFacts
<1>5. \A i, j \in 1 .. l : batch[x][i] = batch[x][j] => i = j
  BY <1>2 DEF MessagesInv, PlacesOK
<1>6. ASSUME NEW k \in 1 .. Len(msgs)
      PROVE  IsIn(k, Tail(batch[x])) <=> k # m /\ IsIn(k, batch[x])
  <2>1. ASSUME IsIn(k, Tail(batch[x])) PROVE k # m /\ IsIn(k, batch[x])
    <3>1. PICK i \in 1 .. l - 1 : batch[x][i + 1] = k
      BY <1>3, <2>1 DEF IsIn
    <3>2. i + 1 \in 1 .. l /\ i + 1 # 1
      OBVIOUS
    <3> QED BY <1>2, <1>3, <1>5, <3>1, <3>2 DEF IsIn
  <2>2. ASSUME k # m, IsIn(k, batch[x]) PROVE IsIn(k, Tail(batch[x]))
    <3>1. PICK i \in 1 .. l : batch[x][i] = k
      BY <1>2, <2>2 DEF IsIn
    <3>2. i - 1 \in 1 .. l - 1 /\ (i - 1) + 1 = i
      BY <1>3, <2>2, <3>1
    <3>3. Tail(batch[x])[i - 1] = k
      BY <1>3, <3>1, <3>2
    <3> QED BY <1>3, <3>2, <3>3 DEF IsIn
  <2> QED BY <2>1, <2>2
<1>7. IsIn(m, batch[x])
  BY <1>2, <1>3 DEF IsIn
<1>8. \A y \in Agents : y # x => ~ IsIn(m, batch[y])
  BY <1>2, <1>3, Apart DEF IsIn
<1>9. \A q \in 1 .. Len(inbound) : ~ IsIn(m, inbound[q])
  BY <1>2, <1>3, Apart DEF IsIn
<1>10. (\A y \in Agents : out[y].msg # m) /\ m \notin lost
  BY <1>2, <1>3, <1>4, Apart
<1> QED BY <1>1, <1>3, <1>4, <1>6, <1>7, <1>8, <1>9, <1>10 DEF m

LEMMA HandleMessageInv ==
  ASSUME MessagesInv, NEW x \in Agents, Messages!HandleMessage(x)
  PROVE  MessagesInv'
<1>0. PICK m \in Nat : m = Head(batch[x]) /\ m \in 1 .. Len(msgs)
  BY FirstOfBatch, MessageFacts DEF Messages!HandleMessage
<1>1. /\ Messages!Handling(x) /\ msgs' = Messages!Released(msgs, m)
      /\ batch' = [batch EXCEPT ![x] = Tail(batch[x])]
      /\ UNCHANGED <<route, inbound, free, agentPc, mine, out, req, lost>>
  BY <1>0 DEF Messages!HandleMessage, Messages!queues
<1>2. /\ agentPc[x] = "poll" /\ msgs[m] \in Headers
      /\ Tail(batch[x]) \in Seq(Nat)
      /\ \A k \in 1 .. Len(msgs) : IsIn(k, Tail(batch[x])) <=> k # m /\ IsIn(k, batch[x])
      /\ IsIn(m, batch[x])
      /\ \A y \in Agents : y # x => ~ IsIn(m, batch[y])
      /\ \A q \in 1 .. Len(inbound) : ~ IsIn(m, inbound[q])
      /\ \A y \in Agents : out[y].msg # m
      /\ m \notin lost
  BY <1>0, <1>1, FirstOfBatch
<1>3. /\ msgs' \in Seq(Headers \cup {Messages!Freed}) /\ Len(msgs') = Len(msgs)
      /\ \A k \in 1 .. Len(msgs) : k # m => msgs'[k] = msgs[k]
      /\ msgs'[m].refs = msgs[m].refs - 1
      /\ msgs'[m].refs # 0 => /\ msgs'[m].from = msgs[m].from /\ msgs'[m].done = msgs[m].done
                              /\ msgs'[m].status = msgs[m].status
  BY <1>0, <1>1, <1>2, ReleasedFacts DEF MessagesInv, MessageTypes
<1>4. \A y \in Agents : batch'[y] = IF y = x THEN Tail(batch[x]) ELSE batch[y]
  BY <1>1 DEF MessagesInv, MessageTypes
<1>5. MessageTypes'
  <2>1. batch' \in [Agents -> Seq(Nat)]
    BY <1>1, <1>2 DEF MessagesInv, MessageTypes
  <2> QED BY <1>1, <1>3, <2>1 DEF MessagesInv, MessageTypes
<1>6. ThreadsOK'
  <2> SUFFICES ASSUME NEW y \in Agents PROVE batch'[y] # <<>> => agentPc[y] = "poll"
    BY <1>1 DEF MessagesInv, ThreadsOK
  <2> QED BY <1>2, <1>4 DEF MessagesInv, ThreadsOK
<1>7. QueuesOK'
  BY <1>1, QueuesKept
<1>8. FlowOK'
  <2>1. PICK p \in Places : p = "gone"
    BY DEF Places
  <2>2. \A k \in 1 .. Len(msgs), y \in Agents :
          out'[y].msg = k <=> IF k = m THEN p = "out" /\ y = x ELSE out[y].msg = k
    BY <1>1, <1>2, <2>1
  <2>3. \A k \in 1 .. Len(msgs), y \in Agents :
          IsIn(k, batch'[y]) <=> IF k = m THEN p = "batch" /\ y = x ELSE IsIn(k, batch[y])
    BY <1>2, <1>4, <2>1
  <2>4. \A k \in 1 .. Len(msgs), q \in 1 .. Len(inbound) :
          IsIn(k, inbound'[q]) <=> IF k = m THEN p = "queue" /\ q = x ELSE IsIn(k, inbound[q])
    BY <1>1, <1>2, <2>1
  <2>5. \A k \in 1 .. Len(msgs) : k \in lost' <=> IF k = m THEN p = "lost" ELSE k \in lost
    BY <1>1, <1>2, <2>1
  <2>6. \A k \in 1 .. Len(msgs) :
          msgs'[k].refs = IF k = m /\ p = "gone" THEN msgs[k].refs - 1 ELSE msgs[k].refs
    BY <1>3, <2>1
  <2>7. p \notin {"queue", "out", "batch"} /\ Len(inbound') = Len(inbound)
    BY <1>1, <2>1
  <2>8. \E y \in Agents : IsIn(m, batch[y])
    BY <1>2
  <2>9. Moves(m, p, x)
    BY <1>1, <1>3, <2>2, <2>3, <2>4, <2>5, <2>6, <2>7, <2>8 DEF Moves
  <2> QED BY <1>0, <2>9, Moved
<1>9. \A k \in 1 .. Len(msgs) : msgs'[k].refs # 0 =>
        /\ msgs[k].refs # 0
        /\ msgs'[k].from = msgs[k].from /\ msgs'[k].done = msgs[k].done
        /\ msgs'[k].status = msgs[k].status
  BY <1>2, <1>3 DEF Headers
<1>10. batch[x] # <<>>
  BY <1>1 DEF Messages!Handling
<1>11. ContentsOK'
  BY <1>1, <1>3, <1>4, <1>8, <1>9, <1>10, MessageFacts, ContentsKept
<1>12. SendsOK'
  BY <1>1, <1>3, <1>8, <1>9, SendsKept
<1> QED BY <1>5, <1>6, <1>7, <1>8, <1>11, <1>12, Halves DEF MessagesInv

LEMMA MessageHandlerThrowsInv ==
  ASSUME MessagesInv, NEW x \in Agents, Messages!MessageHandlerThrows(x)
  PROVE  MessagesInv'
<1>0. PICK m \in Nat : m = Head(batch[x]) /\ m \in 1 .. Len(msgs)
  BY FirstOfBatch, MessageFacts DEF Messages!MessageHandlerThrows
<1>1. /\ Messages!Handling(x) /\ msgs' = Messages!Released(msgs, m)
      /\ batch' = [batch EXCEPT ![x] = <<>>]
      /\ lost' = lost \cup Messages!ToSet(Tail(batch[x]))
      /\ agentPc' = [agentPc EXCEPT ![x] = "idle"]
      /\ UNCHANGED <<route, inbound, free, mine, out, req>>
  BY <1>0 DEF Messages!MessageHandlerThrows, Messages!Goto, Messages!queues
<1>2. /\ msgs[m] \in Headers
      /\ Tail(batch[x]) \in Seq(Nat)
      /\ \A k \in 1 .. Len(msgs) : IsIn(k, Tail(batch[x])) <=> k # m /\ IsIn(k, batch[x])
      /\ IsIn(m, batch[x])
      /\ \A y \in Agents : y # x => ~ IsIn(m, batch[y])
      /\ \A q \in 1 .. Len(inbound) : ~ IsIn(m, inbound[q])
      /\ \A y \in Agents : out[y].msg # m
      /\ m \notin lost
  BY <1>0, <1>1, FirstOfBatch
<1>3. /\ msgs' \in Seq(Headers \cup {Messages!Freed}) /\ Len(msgs') = Len(msgs)
      /\ \A k \in 1 .. Len(msgs) : k # m => msgs'[k] = msgs[k]
      /\ msgs'[m].refs = msgs[m].refs - 1
      /\ msgs'[m].refs # 0 => /\ msgs'[m].from = msgs[m].from /\ msgs'[m].done = msgs[m].done
                              /\ msgs'[m].status = msgs[m].status
  BY ZenonT(40), <1>0, <1>1, <1>2, ReleasedFacts DEF MessagesInv, MessageTypes
<1>4. /\ \A y \in Agents : batch'[y] = IF y = x THEN <<>> ELSE batch[y]
      /\ \A y \in Agents : agentPc'[y] = IF y = x THEN "idle" ELSE agentPc[y]
  BY <1>1 DEF MessagesInv, MessageTypes
<1>5. \A k \in 1 .. Len(msgs) : k \in lost' <=> k \in lost \/ IsIn(k, Tail(batch[x]))
  <2>1. Messages!ToSet(Tail(batch[x])) = {Tail(batch[x])[i] : i \in DOMAIN Tail(batch[x])}
    BY DEF Messages!ToSet
  <2>2. DOMAIN Tail(batch[x]) = 1 .. Len(Tail(batch[x]))
    BY <1>2, LenProperties
  <2>3. \A k \in 1 .. Len(msgs) : k \in Messages!ToSet(Tail(batch[x])) <=> IsIn(k, Tail(batch[x]))
    BY <2>1, <2>2 DEF IsIn
  <2> QED BY <1>1, <2>3
<1>6. lost' \subseteq 1 .. Len(msgs)
  <2>1. \A i \in 1 .. Len(batch[x]) : batch[x][i] \in 1 .. Len(msgs)
    BY ThreadFacts
  <2>2. batch[x] # <<>> /\ batch[x] \in Seq(Nat) /\ Len(batch[x]) \in Nat
    BY <1>1, ThreadFacts DEF Messages!Handling
  <2>3. /\ Len(Tail(batch[x])) = Len(batch[x]) - 1
        /\ \A i \in 1 .. Len(batch[x]) - 1 : Tail(batch[x])[i] = batch[x][i + 1]
    BY <2>2, HeadTailProperties
  <2>4. \A i \in 1 .. Len(batch[x]) - 1 : i + 1 \in 1 .. Len(batch[x])
    BY <2>2
  <2>5. \A i \in 1 .. Len(Tail(batch[x])) : Tail(batch[x])[i] \in 1 .. Len(msgs)
    BY <2>1, <2>3, <2>4
  <2>6. DOMAIN Tail(batch[x]) = 1 .. Len(Tail(batch[x]))
    BY <1>2, LenProperties
  <2>7. Messages!ToSet(Tail(batch[x])) \subseteq 1 .. Len(msgs)
    BY <2>5, <2>6 DEF Messages!ToSet
  <2> QED BY <1>1, <2>7 DEF MessagesInv, MessageTypes
<1>7. MessageTypes'
  <2>1. batch' \in [Agents -> Seq(Nat)] /\ agentPc' \in [Agents -> AgentPlaces]
    BY <1>1 DEF MessagesInv, MessageTypes, AgentPlaces
  <2> QED BY <1>1, <1>3, <1>6, <2>1 DEF MessagesInv, MessageTypes
<1>8. ThreadsOK'
  <2> SUFFICES ASSUME NEW y \in Agents
               PROVE  /\ batch'[y] # <<>> => agentPc'[y] = "poll"
                      /\ agentPc'[y] \in {"poll", "waitCheck", "waitSleep", "asleep", "clear", "free"}
                           => mine[y] # 0
                      /\ agentPc'[y] \in {"clear", "free"} => route[y] = 0
                      /\ agentPc'[y] \in {"handleFlag", "handleSleep", "handleAsleep", "handleCheck"}
                           => req[y] # 0
                      /\ out[y].step = "push" => out[y].queue \in 1 .. Len(inbound)
    BY <1>1 DEF ThreadsOK
  <2> QED BY <1>4 DEF MessagesInv, ThreadsOK
<1>9. QueuesOK'
  BY <1>1, QueuesKept
<1>10. \A k \in 1 .. Len(msgs) : ~ IsIn(k, batch'[x])
  <2>1. Len(batch'[x]) = 0 /\ \A i \in 1 .. 0 : FALSE
    BY <1>4
  <2> QED BY <2>1 DEF IsIn
<1>11. FlowOK'
  <2>1. PICK place \in [Nat -> Places], holder \in [Nat -> Agents \cup Nat] :
          Located(place, holder) /\ Counted(place)
    BY DEF MessagesInv, FlowOK
  <2> DEFINE newPlace == [k \in Nat |-> IF k = m THEN "gone"
                                        ELSE IF place[k] = "batch" /\ holder[k] = x THEN "lost"
                                        ELSE place[k]]
  <2>2. /\ newPlace \in [Nat -> Places]
        /\ \A k \in 1 .. Len(msgs) :
             newPlace[k] = IF k = m THEN "gone"
                           ELSE IF place[k] = "batch" /\ holder[k] = x THEN "lost" ELSE place[k]
    BY MessageFacts DEF Places
  <2> HIDE DEF newPlace
  <2>3. place[m] = "batch" /\ holder[m] = x
    BY <1>0, <1>2, <2>1 DEF Located
  <2>4. ASSUME NEW k \in 1 .. Len(msgs)
        PROVE  /\ \A y \in Agents : out[y].msg = k <=> newPlace[k] = "out" /\ holder[k] = y
               /\ \A y \in Agents : IsIn(k, batch'[y]) <=> newPlace[k] = "batch" /\ holder[k] = y
               /\ \A q \in 1 .. Len(inbound) :
                    IsIn(k, inbound[q]) <=> newPlace[k] = "queue" /\ holder[k] = q
               /\ k \in lost' <=> newPlace[k] = "lost"
               /\ newPlace[k] \in {"out", "batch"} => holder[k] \in Agents
               /\ newPlace[k] = "queue" => holder[k] \in 1 .. Len(inbound)
    <3>1. /\ \A y \in Agents : out[y].msg = k <=> place[k] = "out" /\ holder[k] = y
          /\ \A y \in Agents : IsIn(k, batch[y]) <=> place[k] = "batch" /\ holder[k] = y
          /\ \A q \in 1 .. Len(inbound) : IsIn(k, inbound[q]) <=> place[k] = "queue" /\ holder[k] = q
          /\ k \in lost <=> place[k] = "lost"
          /\ place[k] \in {"out", "batch"} => holder[k] \in Agents
          /\ place[k] = "queue" => holder[k] \in 1 .. Len(inbound)
      BY <2>1 DEF Located
    <3>2. \A y \in Agents : IsIn(k, batch'[y]) <=> y # x /\ IsIn(k, batch[y])
      BY <1>4, <1>10
    <3>3. k \in lost' <=> k \in lost \/ (k # m /\ IsIn(k, batch[x]))
      BY <1>2, <1>5
    <3> QED BY <2>2, <2>3, <3>1, <3>2, <3>3
  <2>5. Located(newPlace, holder)'
    <3>1. out' = out /\ inbound' = inbound
      BY <1>1
    <3> QED BY <1>3, <2>4, <3>1 DEF Located, IsIn
  <2>6. ASSUME NEW k \in 1 .. Len(msgs)
        PROVE  msgs'[k].refs = (IF newPlace[k] = "gone" THEN 0 ELSE 1)
                               + (IF \E y \in Agents : req'[y] = k THEN 1 ELSE 0)
    <3>1. /\ msgs[k].refs = (IF place[k] = "gone" THEN 0 ELSE 1)
                            + (IF \E y \in Agents : req[y] = k THEN 1 ELSE 0)
          /\ req' = req
      BY <1>1, <2>1 DEF Counted
    <3>2. CASE k = m
      BY <1>3, <2>2, <2>3, <3>1, <3>2
    <3>3. CASE k # m
      BY <1>3, <2>2, <3>1, <3>3
    <3> QED BY <3>2, <3>3
  <2>7. Counted(newPlace)'
    BY <1>3, <2>6 DEF Counted
  <2> QED BY <2>2, <2>5, <2>7 DEF FlowOK
<1>12. \A k \in 1 .. Len(msgs) : msgs'[k].refs # 0 =>
         /\ msgs[k].refs # 0
         /\ msgs'[k].from = msgs[k].from /\ msgs'[k].done = msgs[k].done
         /\ msgs'[k].status = msgs[k].status
  BY <1>2, <1>3 DEF Headers
<1>13. ContentsOK'
  BY <1>1, <1>3, <1>4, <1>11, <1>12, MessageFacts, ContentsKept
<1>14. SendsOK'
  BY <1>1, <1>3, <1>11, <1>12, SendsKept
<1> QED BY <1>7, <1>8, <1>9, <1>11, <1>13, <1>14, Halves DEF MessagesInv

LEMMA HandleRequestInv ==
  ASSUME MessagesInv, NEW x \in Agents, NEW status \in {"Complete", "Failed", "Dropped"},
         Messages!HandleRequest(x, status)
  PROVE  MessagesInv'
<1>0. PICK m \in Nat : m = Head(batch[x]) /\ m \in 1 .. Len(msgs)
  BY FirstOfBatch, MessageFacts DEF Messages!HandleRequest
<1> DEFINE o == [step |-> "complete", msg |-> m, status |-> status]
<1>1. /\ Messages!Handling(x) /\ ~msgs[m].done
      /\ out' = [out EXCEPT ![x] = o]
      /\ batch' = [batch EXCEPT ![x] = Tail(batch[x])]
      /\ UNCHANGED <<route, inbound, free, msgs, agentPc, mine, req, lost>>
  BY <1>0 DEF Messages!HandleRequest, Messages!IsRequest, Messages!queues
<1>2. /\ agentPc[x] = "poll" /\ msgs[m] \in Headers /\ Unanswered(m)
      /\ Tail(batch[x]) \in Seq(Nat)
      /\ \A k \in 1 .. Len(msgs) : IsIn(k, Tail(batch[x])) <=> k # m /\ IsIn(k, batch[x])
      /\ IsIn(m, batch[x])
      /\ \A y \in Agents : y # x => ~ IsIn(m, batch[y])
      /\ \A q \in 1 .. Len(inbound) : ~ IsIn(m, inbound[q])
      /\ \A y \in Agents : out[y].msg # m
      /\ m \notin lost
      /\ out[x].msg = 0
  BY <1>0, <1>1, FirstOfBatch
<1>3. o \in Outs /\ o.msg = m /\ o.step = "complete"
  BY <1>0, MessageFacts DEF Outs, Statuses
<1> HIDE DEF o
<1>4. /\ \A y \in Agents : batch'[y] = IF y = x THEN Tail(batch[x]) ELSE batch[y]
      /\ \A y \in Agents : out'[y] = IF y = x THEN o ELSE out[y]
  BY <1>1 DEF MessagesInv, MessageTypes
<1>5. msgs' = msgs /\ req' = req /\ mine' = mine /\ inbound' = inbound /\ lost' = lost
  BY <1>1
<1>6. MessageTypes'
  <2>1. batch' \in [Agents -> Seq(Nat)] /\ out' \in [Agents -> Outs \cup {Messages!Nothing}]
    BY <1>1, <1>2, <1>3 DEF MessagesInv, MessageTypes
  <2> QED BY <1>1, <2>1 DEF MessagesInv, MessageTypes
<1>7. ThreadsOK'
  <2> SUFFICES ASSUME NEW y \in Agents
               PROVE  /\ batch'[y] # <<>> => agentPc[y] = "poll"
                      /\ out'[y].step = "push" => out'[y].queue \in 1 .. Len(inbound)
    BY <1>1 DEF MessagesInv, ThreadsOK
  <2> QED BY <1>2, <1>3, <1>4 DEF MessagesInv, ThreadsOK
<1>8. QueuesOK'
  BY <1>1, QueuesKept
<1>9. FlowOK'
  <2>1. PICK p \in Places : p = "out"
    BY DEF Places
  <2>2. \A k \in 1 .. Len(msgs), y \in Agents :
          out'[y].msg = k <=> IF k = m THEN p = "out" /\ y = x ELSE out[y].msg = k
    <3> TAKE k \in 1 .. Len(msgs), y \in Agents
    <3>1. k # 0
      BY MessageFacts
    <3> QED BY <1>2, <1>3, <1>4, <2>1, <3>1
  <2>3. \A k \in 1 .. Len(msgs), y \in Agents :
          IsIn(k, batch'[y]) <=> IF k = m THEN p = "batch" /\ y = x ELSE IsIn(k, batch[y])
    BY <1>2, <1>4, <2>1
  <2>4. \A k \in 1 .. Len(msgs), q \in 1 .. Len(inbound) :
          IsIn(k, inbound'[q]) <=> IF k = m THEN p = "queue" /\ q = x ELSE IsIn(k, inbound[q])
    BY <1>2, <1>5, <2>1
  <2>5. \A k \in 1 .. Len(msgs) : k \in lost' <=> IF k = m THEN p = "lost" ELSE k \in lost
    BY <1>2, <1>5, <2>1
  <2>6. \A k \in 1 .. Len(msgs) :
          msgs'[k].refs = IF k = m /\ p = "gone" THEN msgs[k].refs - 1 ELSE msgs[k].refs
    BY <1>5, <2>1
  <2>7. p # "queue" /\ Len(inbound') = Len(inbound) /\ Len(msgs') = Len(msgs)
    BY <1>5, <2>1
  <2>8. \E y \in Agents : IsIn(m, batch[y])
    BY <1>2
  <2>9. Moves(m, p, x)
    BY <1>5, <2>2, <2>3, <2>4, <2>5, <2>6, <2>7, <2>8 DEF Moves
  <2> QED BY <1>0, <2>9, Moved
<1>10. ContentsOK'
  <2>1. batch[x] # <<>>
    BY <1>1 DEF Messages!Handling
  <2> QED BY <1>4, <1>5, <1>9, <2>1, MessageFacts, ContentsKept
<1>11. SendsOK'
  <2> SUFFICES ASSUME NEW y \in Agents
               PROVE  /\ out'[y].msg \in 0 .. Len(msgs)
                      /\ req[y] # 0 => req[y] \in 1 .. Len(msgs) /\ msgs[req[y]].from = y
                      /\ out'[y].step = "push" => Unanswered(out'[y].msg)
                      /\ out'[y].step = "complete" => msgs[out'[y].msg].status = "Pending"
                      /\ out'[y].step = "push" /\ ~msgs[out'[y].msg].done =>
                           /\ msgs[out'[y].msg].from = y
                           /\ \A k \in 1 .. Len(msgs) :
                                msgs[k].refs # 0 /\ msgs[k].from = y => k <= out'[y].msg
    BY <1>5 DEF SendsOK, Unanswered
  <2>1. req[y] # 0 => req[y] \in 1 .. Len(msgs) /\ msgs[req[y]].from = y
    BY DEF MessagesInv, PlacesOK
  <2>2. CASE y = x
    BY <1>0, <1>1, <1>2, <1>3, <1>4, <2>1, <2>2, MessageFacts DEF Unanswered
  <2>3. CASE y # x
    BY <1>4, <2>1, <2>3 DEF MessagesInv, PlacesOK, StatusOK, OrderedOK
  <2> QED BY <2>2, <2>3
<1> QED BY <1>6, <1>7, <1>8, <1>9, <1>10, <1>11, Halves DEF MessagesInv

LEMMA UnchangedInv ==
  ASSUME MessagesInv, UNCHANGED messageVars
  PROVE  MessagesInv'
<1>1. /\ route' = route /\ inbound' = inbound /\ free' = free /\ msgs' = msgs /\ agentPc' = agentPc
      /\ mine' = mine /\ batch' = batch /\ out' = out /\ req' = req /\ lost' = lost
  BY DEF messageVars, Messages!vars
<1>2. FlowOK' /\ PlacesOK' /\ StatusOK' /\ OrderedOK'
  BY <1>1, FlowKept
<1>3. MessageTypes' /\ ThreadsOK' /\ QueuesOK'
  BY <1>1 DEF MessagesInv, MessageTypes, ThreadsOK, QueuesOK
<1> QED BY <1>2, <1>3 DEF MessagesInv

LEMMA MessagesStep ==
  ASSUME MessagesInv, Messages!Next \/ UNCHANGED messageVars
  PROVE  MessagesInv'
<1>1. CASE UNCHANGED messageVars
  BY <1>1, UnchangedInv
<1>2. CASE Messages!Next
  <2>1. PICK x \in Agents : \/ Messages!Begin(x) \/ Messages!Continue(x)
                            \/ Messages!RegisterTwice(x) \/ Messages!WaitTimeout(x)
    BY <1>2 DEF Messages!Next
  <2>2. CASE Messages!Begin(x)
    <3>1. CASE Messages!Register(x)
      BY <3>1, RegisterAgentInv
    <3>2. CASE Messages!Unregister(x)
      BY <3>2, UnregisterInv
    <3>3. ASSUME NEW to \in Agents, NEW kind \in {"plain"} \cup Messages!Requests,
                 Messages!Send(x, to, kind)
          PROVE  MessagesInv'
      <4>1. kind \in {"plain", "handle", "completion"}
        BY DEF Messages!Requests
      <4> QED BY <3>3, <4>1, SendInv
    <3>4. CASE Messages!ResetHandle(x)
      BY <3>4, ResetHandleInv
    <3>5. CASE Messages!AwaitRequest(x) \/ Messages!PollMessages(x) \/ Messages!WaitMessages(x)
      BY <3>5, WaitingInv
    <3> QED BY <2>2, <3>1, <3>2, <3>3, <3>4, <3>5 DEF Messages!Begin
  <2>3. CASE Messages!Continue(x)
    <3>1. CASE Messages!FinishSend(x)
      BY <3>1, PushInv, SetStatusInv, WakeRequesterInv, ForwardInv DEF Messages!FinishSend
    <3>2. CASE Messages!ClearQueue(x) \/ Messages!FreeQueue(x)
      BY <3>2, ClearQueueInv, FreeQueueInv
    <3>3. CASE Messages!SetWaitFlag(x)
      BY <3>3, SetWaitFlagInv
    <3>4. CASE Messages!HandleSleep(x) \/ Messages!HandleCheck(x) \/ Messages!WaitCheck(x) \/ Messages!WaitSleep(x)
      BY <3>4, WaitingInv
    <3>5. CASE Messages!PopBatch(x)
      BY <3>5, PopBatchInv
    <3>6. CASE Messages!Handle(x)
      BY <3>6, HandleMessageInv, MessageHandlerThrowsInv, HandleRequestInv DEF Messages!Handle
    <3> QED BY <2>3, <3>1, <3>2, <3>3, <3>4, <3>5, <3>6 DEF Messages!Continue
  <2>4. CASE Messages!RegisterTwice(x)
    BY <2>4, RegisterTwiceInv
  <2>5. CASE Messages!WaitTimeout(x)
    BY <2>5, WaitingInv
  <2> QED BY <2>1, <2>2, <2>3, <2>4, <2>5
<1> QED BY <1>1, <1>2

\* The counts of the places are zero or one each.
AtMostOne(S) == \E e : \A y \in S : y = e

LEMMA OneOrNone ==
  ASSUME NEW S, AtMostOne(S)
  PROVE  Messages!Cardinality(S) = IF S = {} THEN 0 ELSE 1
<1> PICK e : \A y \in S : y = e
  BY DEF AtMostOne
<1>1. CASE S = {}
  <2>1. Cardinality({}) = 0
    BY FS_EmptySet
  <2>2. Messages!Cardinality({}) = 0
    BY <2>1 DEF Messages!Cardinality, Cardinality
  <2> QED BY <1>1, <2>2
<1>2. CASE S # {}
  <2>1. S = {e}
    BY <1>2
  <2>2. Cardinality({e}) = 1
    BY FS_Singleton
  <2>3. Messages!Cardinality({e}) = 1
    BY <2>2 DEF Messages!Cardinality, Cardinality
  <2> QED BY <1>2, <2>1, <2>3
<1> QED BY <1>1, <1>2

LEMMA CountsFollow ==
  ASSUME MessagesInv, NEW m \in 1 .. Len(msgs)
  PROVE  msgs[m].refs = Messages!Places(m)
<1>1. PICK place \in [Nat -> Places], holder \in [Nat -> Agents \cup Nat] :
        Located(place, holder) /\ Counted(place)
  BY DEF MessagesInv, FlowOK
<1> DEFINE Sending == {x \in Agents : out[x].msg = m}
           Queueing == {q \in Messages!Queues : m \in Messages!ToSet(inbound[q])}
           Batching == {x \in Agents : m \in Messages!ToSet(batch[x])}
           Tracking == {x \in Agents : req[x] = m}
           Losing == {m} \cap lost
<1>2. Messages!Cardinality(Sending) = IF place[m] = "out" THEN 1 ELSE 0
  <2>1. \A x \in Agents : out[x].msg = m <=> place[m] = "out" /\ holder[m] = x
    BY <1>1 DEF Located
  <2>2. place[m] = "out" => holder[m] \in Agents
    BY <1>1 DEF Located
  <2>3. Sending # {} <=> place[m] = "out"
    BY <2>1, <2>2
  <2>4. \A y \in Sending : y = holder[m]
    BY <2>1
  <2> HIDE DEF Sending
  <2>5. AtMostOne(Sending)
    BY <2>4 DEF AtMostOne
  <2> QED BY <2>3, <2>5, OneOrNone
<1>3. Messages!Cardinality(Queueing) = IF place[m] = "queue" THEN 1 ELSE 0
  <2>1. \A q \in 1 .. Len(inbound) : m \in Messages!ToSet(inbound[q]) <=> IsIn(m, inbound[q])
    <3> TAKE q \in 1 .. Len(inbound)
    <3>1. DOMAIN inbound[q] = 1 .. Len(inbound[q])
      BY MessageFacts, LenProperties
    <3> QED BY <3>1 DEF Messages!ToSet, IsIn
  <2>2. \A q \in 1 .. Len(inbound) : IsIn(m, inbound[q]) <=> place[m] = "queue" /\ holder[m] = q
    BY <1>1 DEF Located
  <2>3. place[m] = "queue" => holder[m] \in 1 .. Len(inbound)
    BY <1>1 DEF Located
  <2>4. Queueing # {} <=> place[m] = "queue"
    BY <2>1, <2>2, <2>3 DEF Messages!Queues
  <2>5. \A y \in Queueing : y = holder[m]
    BY <2>1, <2>2 DEF Messages!Queues
  <2>6. AtMostOne(Queueing)
    BY <2>5 DEF AtMostOne
  <2> HIDE DEF Queueing
  <2> QED BY <2>4, <2>6, OneOrNone
<1>4. Messages!Cardinality(Batching) = IF place[m] = "batch" THEN 1 ELSE 0
  <2>1. \A x \in Agents : m \in Messages!ToSet(batch[x]) <=> IsIn(m, batch[x])
    <3> TAKE x \in Agents
    <3>1. DOMAIN batch[x] = 1 .. Len(batch[x])
      BY ThreadFacts, LenProperties
    <3> QED BY <3>1 DEF Messages!ToSet, IsIn
  <2>2. \A x \in Agents : IsIn(m, batch[x]) <=> place[m] = "batch" /\ holder[m] = x
    BY <1>1 DEF Located
  <2>3. place[m] = "batch" => holder[m] \in Agents
    BY <1>1 DEF Located
  <2>4. Batching # {} <=> place[m] = "batch"
    BY <2>1, <2>2, <2>3
  <2>5. \A y \in Batching : y = holder[m]
    BY <2>1, <2>2
  <2>6. AtMostOne(Batching)
    BY <2>5 DEF AtMostOne
  <2> HIDE DEF Batching
  <2> QED BY <2>4, <2>6, OneOrNone
<1>5. Messages!Cardinality(Tracking) = IF \E x \in Agents : req[x] = m THEN 1 ELSE 0
  <2>1. \A y \in Tracking : y = msgs[m].from
    BY MessageFacts DEF MessagesInv, PlacesOK
  <2>2. Tracking # {} <=> \E x \in Agents : req[x] = m
    OBVIOUS
  <2>3. AtMostOne(Tracking)
    BY <2>1 DEF AtMostOne
  <2> HIDE DEF Tracking
  <2> QED BY <2>2, <2>3, OneOrNone
<1>6. Messages!Cardinality(Losing) = IF place[m] = "lost" THEN 1 ELSE 0
  <2>1. Losing # {} <=> place[m] = "lost"
    BY <1>1 DEF Located
  <2>2. \A y \in Losing : y = m
    OBVIOUS
  <2>3. AtMostOne(Losing)
    BY <2>2 DEF AtMostOne
  <2> HIDE DEF Losing
  <2> QED BY <2>1, <2>3, OneOrNone
<1>7. Messages!Places(m) = Messages!Cardinality(Sending) + Messages!Cardinality(Queueing)
                           + Messages!Cardinality(Batching) + Messages!Cardinality(Tracking)
                           + Messages!Cardinality(Losing)
  BY DEF Messages!Places
<1> HIDE DEF Sending, Queueing, Batching, Tracking, Losing
<1>8. msgs[m].refs = (IF place[m] = "gone" THEN 0 ELSE 1) + (IF \E x \in Agents : req[x] = m THEN 1 ELSE 0)
  BY <1>1 DEF Counted
<1>9. place[m] \in Places
  BY MessageFacts
<1> QED BY <1>2, <1>3, <1>4, <1>5, <1>6, <1>7, <1>8, <1>9 DEF Places

LEMMA QueuesFollow ==
  ASSUME MessagesInv
  PROVE  Messages!QueuesOwned
<1>1. DOMAIN free = 1 .. Len(free)
  BY LenProperties DEF MessagesInv, MessageTypes
<1>2. Messages!IsInjective(free)
  BY <1>1 DEF Messages!IsInjective, MessagesInv, QueuesOK
<1>3. \A q \in 1 .. Len(inbound) : q \in Messages!ToSet(free) <=> \A x \in Agents : mine[x] # q
  <2> TAKE q \in 1 .. Len(inbound)
  <2>1. q \in Messages!ToSet(free) <=> \E i \in 1 .. Len(free) : free[i] = q
    BY <1>1 DEF Messages!ToSet
  <2> QED BY <2>1 DEF MessagesInv, QueuesOK
<1>4. /\ \A x \in Agents : route[x] \in {0, mine[x]}
      /\ \A x, y \in Agents : mine[x] # 0 /\ mine[x] = mine[y] => x = y
  BY DEF MessagesInv, QueuesOK
<1> QED BY <1>2, <1>3, <1>4 DEF Messages!QueuesOwned, Messages!Queues

LEMMA OrderFollows ==
  ASSUME MessagesInv
  PROVE  Messages!InOrder
<1> SUFFICES ASSUME NEW x \in Agents, mine[x] # 0,
                    NEW i \in DOMAIN Messages!Waiting(x), NEW j \in DOMAIN Messages!Waiting(x),
                    i < j
             PROVE  Precedes(Messages!Waiting(x)[i], Messages!Waiting(x)[j])
  BY DEF Messages!InOrder, Precedes
<1> DEFINE s == batch[x]
           t == inbound[mine[x]]
<1>1. mine[x] \in 1 .. Len(inbound)
  BY ThreadFacts
<1>2. s \in Seq(Nat) /\ t \in Seq(Nat) /\ Len(s) \in Nat /\ Len(t) \in Nat
  BY <1>1, ThreadFacts, MessageFacts
<1>3. Messages!Waiting(x) = s \o t
  BY DEF Messages!Waiting
<1>4. /\ \A k, l \in 1 .. Len(s) : k < l => Precedes(s[k], s[l])
      /\ \A k, l \in 1 .. Len(t) : k < l => Precedes(t[k], t[l])
      /\ \A k \in 1 .. Len(s), l \in 1 .. Len(t) : Precedes(s[k], t[l])
  BY <1>1 DEF MessagesInv, OrderedOK
<1> HIDE DEF s, t
<1>5. /\ DOMAIN (s \o t) = 1 .. Len(s) + Len(t)
      /\ \A k \in 1 .. Len(s) + Len(t) : (s \o t)[k] = IF k <= Len(s) THEN s[k] ELSE t[k - Len(s)]
  BY <1>2, ConcatProperties, LenProperties
<1>6. i \in 1 .. Len(s) + Len(t) /\ j \in 1 .. Len(s) + Len(t)
  BY <1>3, <1>5
<1>7. CASE j <= Len(s)
  BY <1>2, <1>3, <1>4, <1>5, <1>6, <1>7
<1>8. CASE i > Len(s)
  <2>1. i - Len(s) \in 1 .. Len(t) /\ j - Len(s) \in 1 .. Len(t) /\ i - Len(s) < j - Len(s)
    BY <1>2, <1>6, <1>8
  <2>2. Precedes(t[i - Len(s)], t[j - Len(s)])
    BY <1>4, <2>1
  <2> QED BY <1>2, <1>3, <1>5, <1>6, <1>8, <2>2
<1>9. CASE i <= Len(s) /\ j > Len(s)
  <2>1. i \in 1 .. Len(s) /\ j - Len(s) \in 1 .. Len(t)
    BY <1>2, <1>6, <1>9
  <2>2. Precedes(s[i], t[j - Len(s)])
    BY <1>4, <2>1
  <2> QED BY <1>2, <1>3, <1>5, <1>6, <1>9, <2>2
<1> QED BY <1>2, <1>6, <1>7, <1>8, <1>9

\* A step keeps the status of a message that has one, unless it frees the message.
StatusesKept ==
  \A m \in 1 .. Len(msgs) :
    msgs[m] # Messages!Freed /\ msgs'[m] # Messages!Freed /\ msgs[m].status # "Pending"
      => msgs'[m].status = msgs[m].status

LEMMA StatusReleased ==
  ASSUME MessagesInv, NEW m \in 1 .. Len(msgs), msgs[m] \in Headers, msgs' = Messages!Released(msgs, m)
  PROVE  StatusesKept
<1>1. /\ msgs' \in Seq(Headers \cup {Messages!Freed}) /\ Len(msgs') = Len(msgs)
      /\ \A k \in 1 .. Len(msgs) : k # m => msgs'[k] = msgs[k]
      /\ msgs'[m].refs # 0 => msgs'[m].status = msgs[m].status
  BY ReleasedFacts DEF MessagesInv, MessageTypes
<1>2. msgs'[m] \in Headers \cup {Messages!Freed}
  BY <1>1, ElementOfSeq
<1>3. msgs'[m] # Messages!Freed => msgs'[m].refs # 0
  BY <1>2 DEF Headers
<1> QED BY <1>1, <1>3 DEF StatusesKept

LEMMA StatusStep ==
  ASSUME MessagesInv, Messages!Next \/ UNCHANGED messageVars
  PROVE  StatusesKept
<1>1. ASSUME \A k \in 1 .. Len(msgs) : msgs'[k] = msgs[k] \/ msgs'[k].status = msgs[k].status
      PROVE  StatusesKept
  BY <1>1 DEF StatusesKept
<1>2. ASSUME msgs' = msgs PROVE StatusesKept
  BY <1>2 DEF StatusesKept
<1>3. CASE UNCHANGED messageVars
  BY <1>2, <1>3 DEF messageVars
<1>4. CASE Messages!Next
  <2>1. PICK x \in Agents : \/ Messages!Begin(x) \/ Messages!Continue(x)
                            \/ Messages!RegisterTwice(x) \/ Messages!WaitTimeout(x)
    BY <1>4 DEF Messages!Next
  <2>2. CASE \/ Messages!Register(x) \/ Messages!Unregister(x) \/ Messages!RegisterTwice(x)
             \/ Messages!FreeQueue(x)
    BY <1>2, <2>2
       DEF Messages!Register, Messages!Unregister, Messages!RegisterTwice, Messages!FreeQueue
  <2>3. CASE \/ Messages!AwaitRequest(x) \/ Messages!PollMessages(x) \/ Messages!WaitMessages(x)
             \/ Messages!HandleSleep(x) \/ Messages!HandleCheck(x) \/ Messages!WaitCheck(x)
             \/ Messages!WaitSleep(x) \/ Messages!WaitTimeout(x)
    BY <1>2, <2>3
       DEF Messages!AwaitRequest, Messages!PollMessages, Messages!WaitMessages, Messages!HandleSleep,
           Messages!HandleCheck, Messages!WaitCheck, Messages!WaitSleep, Messages!WaitTimeout
  <2>4. CASE Messages!Push(x) \/ Messages!WakeRequester(x) \/ Messages!PopBatch(x)
    BY <1>2, <2>4 DEF Messages!Push, Messages!WakeRequester, Messages!PopBatch
  <2>5. ASSUME NEW status \in {"Complete", "Failed", "Dropped"}, Messages!HandleRequest(x, status)
        PROVE  StatusesKept
    BY <1>2, <2>5 DEF Messages!HandleRequest
  <2>6. CASE Messages!SetStatus(x)
    <3>1. PICK m \in 1 .. Len(msgs) : m = out[x].msg /\ \E h : msgs' = [msgs EXCEPT ![m] = h]
      <4>1. out[x].step = "complete" /\ out[x].msg # 0
        BY <2>6, ThreadFacts DEF Messages!SetStatus
      <4>2. out[x].msg \in 1 .. Len(msgs)
        BY <4>1, InHand
      <4> QED BY <2>6, <4>2 DEF Messages!SetStatus
    <3>2. msgs[m].status = "Pending"
      BY <2>6, <3>1 DEF Messages!SetStatus, MessagesInv, StatusOK
    <3>3. \A k \in 1 .. Len(msgs) : k # m => msgs'[k] = msgs[k]
      BY <3>1, MessageFacts
    <3> QED BY <3>2, <3>3 DEF StatusesKept
  <2>7. CASE Messages!SetWaitFlag(x)
    <3>1. msgs' = [msgs EXCEPT ![req[x]] = [msgs[req[x]] EXCEPT !.waiting = TRUE]]
      BY <2>7 DEF Messages!SetWaitFlag
    <3>2. req[x] \in 1 .. Len(msgs) /\ msgs[req[x]] \in Headers
      <4>1. req[x] # 0
        BY <2>7 DEF Messages!SetWaitFlag, Messages!At, MessagesInv, ThreadsOK
      <4> QED BY <4>1, ThreadFacts, Apart, MessageFacts
    <3>3. [msgs[req[x]] EXCEPT !.waiting = TRUE].status = msgs[req[x]].status
      BY <3>2 DEF Headers
    <3>4. \A k \in 1 .. Len(msgs) : msgs'[k].status = msgs[k].status
      BY <3>1, <3>2, <3>3, MessageFacts
    <3> QED BY <1>1, <3>4
  <2>8. CASE Messages!ResetHandle(x)
    <3>1. req[x] \in 1 .. Len(msgs) /\ msgs[req[x]] \in Headers
      BY <2>8, ThreadFacts, Apart, MessageFacts DEF Messages!ResetHandle
    <3> QED BY <2>8, <3>1, StatusReleased DEF Messages!ResetHandle
  <2>9. CASE Messages!HandleMessage(x) \/ Messages!MessageHandlerThrows(x)
    <3>1. Head(batch[x]) \in 1 .. Len(msgs) /\ msgs[Head(batch[x])] \in Headers
      BY <2>9, FirstOfBatch DEF Messages!HandleMessage, Messages!MessageHandlerThrows
    <3> QED BY <2>9, <3>1, StatusReleased DEF Messages!HandleMessage, Messages!MessageHandlerThrows
  <2>10. CASE Messages!ClearQueue(x)
    <3>1. PICK q \in Nat : q = mine[x] /\ q \in 1 .. Len(inbound)
      <4>1. mine[x] # 0
        BY <2>10 DEF Messages!ClearQueue, Messages!At, MessagesInv, ThreadsOK
      <4> QED BY <4>1, ThreadFacts, MessageFacts
    <3>2. /\ inbound[q] \in Seq(Nat) /\ msgs \in Seq(Headers \cup {Messages!Freed})
          /\ \A i \in 1 .. Len(inbound[q]) :
               inbound[q][i] \in 1 .. Len(msgs) /\ msgs[inbound[q][i]] \in Headers
          /\ \A i, j \in 1 .. Len(inbound[q]) : inbound[q][i] = inbound[q][j] => i = j
      <4>1. \A i \in 1 .. Len(inbound[q]) :
              inbound[q][i] \in 1 .. Len(msgs) /\ msgs[inbound[q][i]].refs # 0
        BY <3>1, MessageFacts, Apart
      <4>2. \A i, j \in 1 .. Len(inbound[q]) : inbound[q][i] = inbound[q][j] => i = j
        BY <3>1 DEF MessagesInv, PlacesOK
      <4> QED BY <3>1, <4>1, <4>2, MessageFacts DEF MessagesInv, MessageTypes
    <3>3. msgs' = Messages!ReleasedAll(msgs, inbound[q])
      BY <2>10, <3>1 DEF Messages!ClearQueue
    <3>4. /\ msgs' \in Seq(Headers \cup {Messages!Freed}) /\ Len(msgs') = Len(msgs)
          /\ \A m \in 1 .. Len(msgs) : ~ IsIn(m, inbound[q]) => msgs'[m] = msgs[m]
          /\ \A m \in 1 .. Len(msgs) : IsIn(m, inbound[q]) =>
               (msgs'[m].refs # 0 => msgs'[m].status = msgs[m].status)
      BY <3>2, <3>3, ReleasedAllFacts
    <3>5. \A m \in 1 .. Len(msgs) : msgs'[m] # Messages!Freed => msgs'[m].refs # 0
      <4> TAKE m \in 1 .. Len(msgs)
      <4>1. msgs'[m] \in Headers \cup {Messages!Freed}
        BY <3>4, ElementOfSeq
      <4> QED BY <4>1 DEF Headers
    <3> QED BY <3>4, <3>5 DEF StatusesKept
  <2>11. ASSUME NEW to \in Agents, NEW kind, Messages!Send(x, to, kind)
         PROVE  StatusesKept
    <3> DEFINE h == Messages!Header(x, to, kind)
               n == Len(msgs)
    <3>1. \/ msgs' = Append(msgs, h)
          \/ msgs' = [Append(msgs, h) EXCEPT ![n + 1] = Messages!Without(Append(msgs, h)[n + 1], 1)]
      <4>1. \/ route[to] # 0 \/ (route[to] = 0 /\ kind \in Messages!Requests)
            \/ (route[to] = 0 /\ kind \notin Messages!Requests)
        OBVIOUS
      <4> QED BY <2>11, <4>1 DEF Messages!Send, Messages!FindRoute, Messages!Released
    <3> HIDE DEF h
    <3>2. msgs \in Seq(Headers \cup {Messages!Freed}) /\ n \in Nat
      BY MessageFacts DEF MessagesInv, MessageTypes
    <3>3. \A k \in 1 .. n : Append(msgs, h)[k] = msgs[k] /\ k # n + 1 /\ k \in DOMAIN Append(msgs, h)
      <4>1. msgs \in Seq(Headers \cup {Messages!Freed, h}) /\ h \in Headers \cup {Messages!Freed, h}
        BY <3>2, SeqMonotonic
      <4> QED BY <3>2, <4>1, AppendProperties, LenProperties
    <3>4. \A k \in 1 .. n : msgs'[k] = msgs[k]
      BY <3>1, <3>3
    <3> QED BY <1>1, <3>4
  <2>12. CASE Messages!Forward(x)
    <3>1. PICK m \in 1 .. Len(msgs) : m = out[x].msg /\ msgs[m] \in Headers
      <4>1. out[x].msg # 0
        BY <2>12, ThreadFacts DEF Messages!Forward
      <4> QED BY <4>1, InHand
    <3> DEFINE h == [msgs[m] EXCEPT !.done = @ \/ msgs[m].kind = "completion"]
               marked == [msgs EXCEPT ![m] = h]
    <3>2. h \in Headers /\ h.status = msgs[m].status
      BY <3>1 DEF Headers
    <3>3. msgs' = marked \/ msgs' = Messages!Released(marked, m)
      BY <2>12, <3>1 DEF Messages!Forward
    <3> HIDE DEF h
    <3>4. /\ marked \in Seq(Headers \cup {Messages!Freed}) /\ Len(marked) = Len(msgs) /\ marked[m] = h
          /\ \A k \in 1 .. Len(msgs) : k # m => marked[k] = msgs[k]
      BY <3>1, <3>2, ExceptSeq DEF MessagesInv, MessageTypes
    <3> HIDE DEF marked
    <3>5. CASE msgs' = marked
      BY <3>2, <3>4, <3>5 DEF StatusesKept
    <3>6. CASE msgs' = Messages!Released(marked, m)
      <4>1. m \in 1 .. Len(marked) /\ marked[m] \in Headers
        BY <3>2, <3>4
      <4>2. /\ msgs' \in Seq(Headers \cup {Messages!Freed}) /\ Len(msgs') = Len(msgs)
            /\ \A k \in 1 .. Len(msgs) : k # m => msgs'[k] = msgs[k]
            /\ msgs'[m].refs # 0 => msgs'[m].status = msgs[m].status
        BY <3>2, <3>4, <3>6, <4>1, ReleasedFacts
      <4>3. msgs'[m] \in Headers \cup {Messages!Freed}
        BY <3>1, <4>2, ElementOfSeq
      <4>4. msgs'[m] # Messages!Freed => msgs'[m].refs # 0
        BY <4>3 DEF Headers
      <4> QED BY <4>2, <4>4 DEF StatusesKept
    <3> QED BY <3>3, <3>5, <3>6
  <2>13. CASE Messages!Begin(x)
    BY <2>2, <2>3, <2>8, <2>11, <2>13 DEF Messages!Begin
  <2>14. CASE Messages!Continue(x)
    BY <2>2, <2>3, <2>4, <2>5, <2>6, <2>7, <2>9, <2>10, <2>12, <2>14
       DEF Messages!Continue, Messages!FinishSend, Messages!Handle
  <2> QED BY <2>1, <2>2, <2>3, <2>13, <2>14
<1> QED BY <1>3, <1>4

LEMMA AnyMessagesStep ==
  ASSUME [AnyNext]_allVars
  PROVE  Messages!Next \/ UNCHANGED messageVars
BY DEF AnyNext, InLock, InFiles, InLocator, InMessaging, InRing, InWork, allVars

\* However agents come and go, however their threads interleave between the critical
\* sections, and whichever handlers throw (messaging_private.cpp, message_queue.cpp): a
\* message has as many owners as its count says, no queue is shared or lost, and each link
\* delivers in the order of sending.
THEOREM MessagesStayExact == AnySpec => []MessagesExact
<1>1. AnyInit => MessagesInv
  BY MessagesInit DEF AnyInit
<1>2. MessagesInv /\ [AnyNext]_allVars => MessagesInv'
  BY AnyMessagesStep, MessagesStep
<1>3. MessagesInv => MessagesExact
  BY CountsFollow, QueuesFollow, OrderFollows DEF MessagesExact, Messages!RefsExact, Messages!Msgs
<1> QED BY <1>1, <1>2, <1>3, PTL DEF AnySpec

\* The status of a request (message_handling.hpp) is set once, whoever completes it.
THEOREM StatusIsSetOnce == AnySpec => StatusOnce
<1>1. AnyInit => MessagesInv
  BY MessagesInit DEF AnyInit
<1>2. MessagesInv /\ [AnyNext]_allVars => MessagesInv'
  BY AnyMessagesStep, MessagesStep
<1>3. MessagesInv /\ [AnyNext]_allVars =>
        [\A m \in Messages!Msgs :
           msgs[m] # Messages!Freed /\ msgs'[m] # Messages!Freed /\ msgs[m].status # "Pending"
             => msgs'[m].status = msgs[m].status]_Messages!vars
  BY AnyMessagesStep, StatusStep DEF StatusesKept, Messages!Msgs
<1> QED BY <1>1, <1>2, <1>3, PTL DEF AnySpec, StatusOnce, Messages!StatusOnce
===============================================================================
