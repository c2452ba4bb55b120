---------------------------- MODULE AsyncCounters ----------------------------
(***************************************************************************)
(* What AsyncCounterTracker promises its clients (the comments of          *)
(* async_counter_tracker.hpp): every counter is handed out once, a counter *)
(* is completed at most once and only after it was handed out, and a       *)
(* complete counter never becomes incomplete again.  How completions are   *)
(* stored (lists, segments, locks) is the business of AsyncCounterTracker, *)
(* which is shown to implement this specification.                         *)
(***************************************************************************)
EXTENDS Naturals

VARIABLES allocated,   \* the set of counters handed out so far
          completed    \* those that are marked complete

avars == <<allocated, completed>>

AInit == allocated = {} /\ completed = {}

\* A new counter is larger than every counter handed out before.
AAllocate ==
  /\ \E c \in allocated' \ allocated :
       /\ c \in Nat /\ \A d \in allocated : d < c
       /\ allocated' = allocated \cup {c}
  /\ UNCHANGED completed

\* Exactly one outstanding counter becomes complete in a step.
AComplete ==
  /\ \E c \in allocated \ completed : completed' = completed \cup {c}
  /\ UNCHANGED allocated

ASpec == AInit /\ [][AAllocate \/ AComplete]_avars
=============================================================================
