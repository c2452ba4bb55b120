---------------------------- MODULE BoundedQueue ----------------------------
(***************************************************************************)
(* What a task queue promises: tasks come out in the order they went in,   *)
(* each once, and no more than Capacity of them are inside until the stop  *)
(* is requested.                                                           *)
(***************************************************************************)
EXTENDS Naturals, Sequences

CONSTANTS Values, Capacity

VARIABLES queue, stopped

Init == queue = <<>> /\ stopped = FALSE

Enqueue(v) ==
  /\ Len(queue) < Capacity \/ stopped
  /\ queue' = Append(queue, v)
  /\ UNCHANGED stopped

Dequeue ==
  /\ queue # <<>>
  /\ queue' = Tail(queue)
  /\ UNCHANGED stopped

Stop == stopped' = TRUE /\ UNCHANGED queue

Next == (\E v \in Values : Enqueue(v)) \/ Dequeue \/ Stop

Spec == Init /\ [][Next]_<<queue, stopped>>
=============================================================================
