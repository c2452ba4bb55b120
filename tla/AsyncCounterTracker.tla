------------------------- MODULE AsyncCounterTracker -------------------------
(***************************************************************************)
(* The completion counters of src/voxen/svc/async_counter_tracker.cpp.     *)
(*                                                                         *)
(* A counter c belongs to the completion list c % NUM_COMPLETION_LISTS and *)
(* has the value c / NUM_COMPLETION_LISTS there.  A list keeps the largest *)
(* value below which everything is complete in an atomic word that is read *)
(* and updated WITHOUT the list's lock, and the values completed with a    *)
(* gap in a vector of segments that is accessed under the lock only.       *)
(*                                                                         *)
(* Every access to the atomic word is a step of its own, so is every       *)
(* critical section; a critical section that accesses the atomic word is   *)
(* split at each access.                                                   *)
(***************************************************************************)
EXTENDS Integers, Sequences, FiniteSets, SequencesExt

CONSTANTS Threads,              \* threads that allocate, complete and check
          NUM_COMPLETION_LISTS,
          MaxCounter,           \* bound: no counter above it is allocated
          MaxSpan               \* bound: length of the spans given to trim

ASSUME ListsAssumption == NUM_COMPLETION_LISTS \in Nat \ {0}
ASSUME BoundsAssumption == MaxCounter \in Nat /\ MaxSpan \in Nat

VARIABLES
  nextCounter,   \* m_next_allocated_counter
  fully,         \* list -> fully_completed_value
  segments,      \* list -> out_of_order_segments
  lock,          \* list -> TRUE while its lock is held across steps
  pc,            \* thread -> the step it takes next
  arg,           \* thread -> the counter it works on
  expected,      \* thread -> local `expected` of completeCounter
  span,          \* thread -> local `counters` of trimCompleteCounters
  cursor,        \* thread -> local `i` of trimCompleteCounters (1-based)
  remaining,     \* thread -> local `remaining` of trimCompleteCounters
  claimed,       \* history: counters completeCounter was called with
  marked,        \* history: counters whose completion took effect
  returned,      \* history: counters whose completeCounter call returned
  late,          \* history: thread -> its check began after arg returned
  stale,         \* history: counters a late check has denied
  original       \* history: thread -> `counters` as passed to trim

listVars    == <<nextCounter, fully, segments, lock>>
spanVars    == <<span, cursor, remaining, original>>
historyVars == <<claimed, marked, returned>>
vars == <<nextCounter, fully, segments, lock, pc, arg, expected, span, cursor,
          remaining, claimed, marked, returned, late, stale, original>>
-----------------------------------------------------------------------------
Lists      == 0 .. NUM_COMPLETION_LISTS - 1
ListOf(c)  == c % NUM_COMPLETION_LISTS
ValueOf(c) == c \div NUM_COMPLETION_LISTS

Segment   == [first : Nat, last : Nat]
Allocated == NUM_COMPLETION_LISTS .. nextCounter - 1

InSegments(segs, v) ==
  \E i \in DOMAIN segs : segs[i].first <= v /\ v <= segs[i].last

\* What a reader that could look at both words at once would be told.
Covers(l, v) == fully[l] >= v \/ InSegments(segments[l], v)
Completed(c) == Covers(ListOf(c), ValueOf(c))
-----------------------------------------------------------------------------
(* Keeping the segments sorted and maximal (in descending order).          *)

Extends(seg, v) == v + 1 = seg.first \/ v = seg.last + 1

\* (mutant) The touched neighbour is erased but its values are not taken over.
ExtendLeftLoses(segs, i, v) ==
  IF i + 1 <= Len(segs) /\ segs[i + 1].last + 1 = v
  THEN RemoveAt([segs EXCEPT ![i].first = v], i + 1)
  ELSE [segs EXCEPT ![i].first = v]

\* v is put in front of segment i, which may close the gap to segment i+1.
ExtendLeft(segs, i, v) ==
  IF i + 1 <= Len(segs) /\ segs[i + 1].last + 1 = v
  THEN RemoveAt([segs EXCEPT ![i].first = segs[i + 1].first], i + 1)
  ELSE [segs EXCEPT ![i].first = v]

\* v is put behind segment i, which may close the gap to segment i-1.
ExtendRight(segs, i, v) ==
  IF i > 1 /\ segs[i - 1].first = v + 1
  THEN RemoveAt([segs EXCEPT ![i - 1].first = segs[i].first], i)
  ELSE [segs EXCEPT ![i].last = v]

\* (mutant) New segments are appended instead of sorted in.
StartSegmentAtEnd(segs, v) == Append(segs, [first |-> v, last |-> v])

\* A segment of its own, before the first segment that ends below v.
StartSegment(segs, v) ==
  LET below == {i \in 1 .. Len(segs) : segs[i].last <= v}
      pos   == IF below = {} THEN Len(segs) + 1 ELSE Min(below)
  IN  InsertAt(segs, pos, [first |-> v, last |-> v])

AddToSegments(segs, v) ==
  LET fit == {i \in 1 .. Len(segs) : Extends(segs[i], v)}
      i   == Min(fit)
  IN  IF fit = {} THEN StartSegment(segs, v)
      ELSE IF v + 1 = segs[i].first THEN ExtendLeft(segs, i, v)
      ELSE ExtendRight(segs, i, v)
-----------------------------------------------------------------------------
Init ==
  /\ nextCounter = NUM_COMPLETION_LISTS
  /\ fully = [l \in Lists |-> 0]
  /\ segments = [l \in Lists |-> <<>>]
  /\ lock = [l \in Lists |-> FALSE]
  /\ pc = [t \in Threads |-> "idle"]
  /\ arg = [t \in Threads |-> 0]
  /\ expected = [t \in Threads |-> 0]
  /\ span = [t \in Threads |-> <<>>]
  /\ cursor = [t \in Threads |-> 1]
  /\ remaining = [t \in Threads |-> 0]
  /\ claimed = {} /\ marked = {} /\ returned = {}
  /\ late = [t \in Threads |-> FALSE]
  /\ stale = {}
  /\ original = [t \in Threads |-> <<>>]

Goto(t, label) == pc' = [pc EXCEPT ![t] = label]

\* allocateCounter(): one relaxed fetch_add.
Allocate(t) ==
  /\ pc[t] = "idle"
  /\ nextCounter <= MaxCounter
  /\ nextCounter' = nextCounter + 1
  /\ UNCHANGED <<fully, segments, lock, pc, arg, expected, late, stale>>
  /\ UNCHANGED <<spanVars, historyVars>>

\* (mutant) The prefix jumps to any larger value.
InOrderOrLarger(c) == fully[ListOf(c)] < ValueOf(c)

\* The compare-exchange of the fast path succeeds.
InOrder(c) == fully[ListOf(c)] = ValueOf(c) - 1

\* completeCounter(c) up to and including its first compare-exchange.  Any
\* thread may complete c, once ("exactly once", async_counter_tracker.hpp).
CompleteInOrder(t, c) ==
  /\ pc[t] = "idle"
  /\ c \in Allocated \ claimed
  /\ claimed' = claimed \cup {c}
  /\ IF InOrder(c)
     THEN /\ fully' = [fully EXCEPT ![ListOf(c)] = ValueOf(c)]
          /\ marked' = marked \cup {c}
          /\ returned' = returned \cup {c}
          /\ UNCHANGED <<pc, arg, expected>>
     ELSE /\ expected' = [expected EXCEPT ![t] = fully[ListOf(c)]]
          /\ arg' = [arg EXCEPT ![t] = c]
          /\ Goto(t, "insert")
          /\ UNCHANGED <<fully, marked, returned>>
  /\ UNCHANGED <<nextCounter, segments, lock, spanVars, late, stale>>

\* Takes the lock and puts the value into a segment.
CompleteInsert(t) ==
  /\ pc[t] = "insert"
  /\ LET l == ListOf(arg[t])
     IN  /\ ~lock[l]
         /\ lock' = [lock EXCEPT ![l] = TRUE]
         /\ segments' = [segments EXCEPT ![l] = AddToSegments(@, ValueOf(arg[t]))]
  /\ marked' = marked \cup {arg[t]}
  /\ Goto(t, "collapse")
  /\ UNCHANGED <<nextCounter, fully, arg, expected, claimed, returned>>
  /\ UNCHANGED <<spanVars, late, stale>>

\* (mutant) Any segment is collapsed, with or without a gap below it.
ContinuesAlways(segs, v) == segs # <<>>

\* The lowest segment continues the completed prefix this thread last saw.
Continues(segs, v) == segs # <<>> /\ Last(segs).first = v + 1

\* The prefix after the lowest segment has become part of it.
NewPrefix(segs) == Last(segs).last

\* One turn of the collapsing loop, lock held: a compare-exchange that
\* either advances the prefix over the lowest segment or reloads `expected`.
CompleteCollapse(t) ==
  /\ pc[t] = "collapse"
  /\ LET l == ListOf(arg[t])
     IN  /\ Continues(segments[l], expected[t])
         /\ IF fully[l] = expected[t]
            THEN /\ fully' = [fully EXCEPT ![l] = NewPrefix(segments[l])]
                 /\ expected' = [expected EXCEPT ![t] = NewPrefix(segments[l])]
                 /\ segments' = [segments EXCEPT ![l] = Front(@)]
            ELSE /\ expected' = [expected EXCEPT ![t] = fully[l]]
                 /\ UNCHANGED <<fully, segments>>
  /\ UNCHANGED <<nextCounter, lock, pc, arg, spanVars, historyVars, late, stale>>

\* The loop ends, the lock is released and completeCounter returns; the locals
\* die, reset to keep the states few (as everywhere below).
CompleteReturn(t) ==
  /\ pc[t] = "collapse"
  /\ LET l == ListOf(arg[t])
     IN  /\ ~Continues(segments[l], expected[t])
         /\ lock' = [lock EXCEPT ![l] = FALSE]
  /\ returned' = returned \cup {arg[t]}
  /\ arg' = [arg EXCEPT ![t] = 0]
  /\ expected' = [expected EXCEPT ![t] = 0]
  /\ Goto(t, "idle")
  /\ UNCHANGED <<nextCounter, fully, segments, spanVars>>
  /\ UNCHANGED <<claimed, marked, late, stale>>
-----------------------------------------------------------------------------
(* isCounterComplete: an unlocked load, then a scan under the lock.        *)

\* The load shows that the counter is below the completed prefix.
Passed(c) == fully[ListOf(c)] >= ValueOf(c)

CheckPrefix(t, c) ==
  /\ pc[t] = "idle"
  /\ c \in Allocated
  /\ ~Passed(c)               \* otherwise returns true, no state changes
  /\ arg' = [arg EXCEPT ![t] = c]
  /\ late' = [late EXCEPT ![t] = c \in returned]
  /\ Goto(t, "scan")
  /\ UNCHANGED <<listVars, expected, spanVars, historyVars, stale>>

CheckSegments(t) ==
  /\ pc[t] = "scan"
  /\ LET l == ListOf(arg[t])
     IN  /\ ~lock[l]
         /\ stale' = IF late[t] /\ ~InSegments(segments[l], ValueOf(arg[t]))
                     THEN stale \cup {arg[t]} ELSE stale
  /\ late' = [late EXCEPT ![t] = FALSE]
  /\ arg' = [arg EXCEPT ![t] = 0]
  /\ Goto(t, "idle")
  /\ UNCHANGED <<listVars, expected, spanVars, historyVars>>
-----------------------------------------------------------------------------
(* trimCompleteCounters: the same two-step check for each counter of a     *)
(* span; complete ones are swapped behind `remaining`.                     *)

TrimCall(t, cs) ==
  /\ pc[t] = "idle"
  /\ span' = [span EXCEPT ![t] = cs]
  /\ original' = [original EXCEPT ![t] = cs]
  /\ cursor' = [cursor EXCEPT ![t] = 1]
  /\ remaining' = [remaining EXCEPT ![t] = Len(cs)]
  /\ Goto(t, "trim")
  /\ UNCHANGED <<listVars, arg, expected, historyVars, late, stale>>

Swap(s, i, j) == [s EXCEPT ![i] = s[j], ![j] = s[i]]

Drop(t) ==
  /\ span' = [span EXCEPT ![t] = Swap(@, cursor[t], remaining[t])]
  /\ remaining' = [remaining EXCEPT ![t] = @ - 1]
  /\ UNCHANGED cursor

Keep(t) ==
  /\ cursor' = [cursor EXCEPT ![t] = @ + 1]
  /\ UNCHANGED <<span, remaining>>

TrimPrefix(t) ==
  /\ pc[t] = "trim"
  /\ cursor[t] <= remaining[t]
  /\ IF Passed(span[t][cursor[t]])
     THEN Drop(t) /\ UNCHANGED pc
     ELSE Goto(t, "trimScan") /\ UNCHANGED <<span, cursor, remaining>>
  /\ UNCHANGED <<listVars, arg, expected, original, historyVars, late, stale>>

TrimSegments(t) ==
  /\ pc[t] = "trimScan"
  /\ LET c == span[t][cursor[t]]
     IN  /\ ~lock[ListOf(c)]
         /\ IF InSegments(segments[ListOf(c)], ValueOf(c)) THEN Drop(t) ELSE Keep(t)
  /\ Goto(t, "trim")
  /\ UNCHANGED <<listVars, arg, expected, original, historyVars, late, stale>>

TrimReturn(t) ==
  /\ pc[t] = "trim"
  /\ cursor[t] > remaining[t]
  /\ span' = [span EXCEPT ![t] = <<>>]
  /\ original' = [original EXCEPT ![t] = <<>>]
  /\ cursor' = [cursor EXCEPT ![t] = 1]
  /\ remaining' = [remaining EXCEPT ![t] = 0]
  /\ Goto(t, "idle")
  /\ UNCHANGED <<listVars, arg, expected, historyVars, late, stale>>
-----------------------------------------------------------------------------
Complete(t) == \/ \E c \in Allocated : CompleteInOrder(t, c)
               \/ CompleteInsert(t) \/ CompleteCollapse(t) \/ CompleteReturn(t)
Check(t)    == (\E c \in Allocated : CheckPrefix(t, c)) \/ CheckSegments(t)
Trim(t)     == \/ \E cs \in BoundedSeq(Allocated, MaxSpan) : TrimCall(t, cs)
               \/ TrimPrefix(t) \/ TrimSegments(t) \/ TrimReturn(t)

Next == \E t \in Threads : Allocate(t) \/ Complete(t) \/ Check(t) \/ Trim(t)

Spec == Init /\ [][Next]_vars
-----------------------------------------------------------------------------
Labels == {"idle", "insert", "collapse", "scan", "trim", "trimScan"}

\* Every variable has its type.
TypeOK ==
  /\ nextCounter \in Nat /\ nextCounter >= NUM_COMPLETION_LISTS
  /\ fully \in [Lists -> Nat]
  /\ segments \in [Lists -> Seq(Segment)]
  /\ lock \in [Lists -> BOOLEAN]
  /\ pc \in [Threads -> Labels]
  /\ arg \in [Threads -> Nat]
  /\ expected \in [Threads -> Nat]
  /\ span \in [Threads -> Seq(Nat)]
  /\ cursor \in [Threads -> Nat \ {0}]
  /\ remaining \in [Threads -> Nat]
  /\ claimed \subseteq Allocated /\ marked \subseteq claimed
  /\ returned \subseteq marked
  /\ late \in [Threads -> BOOLEAN]
  /\ stale \subseteq Allocated
  /\ original \in [Threads -> Seq(Nat)]

\* The prefix and the segments together hold exactly the counters whose
\* completion took effect: whatever the order of completions and the races of
\* the unlocked compare-exchange with a collapse under the lock, no completion
\* is lost and no counter passes for complete early (completeCounter).
Exact == \A c \in Allocated : Completed(c) <=> c \in marked

\* Segments do not overlap, are sorted in descending order (the comment of
\* out_of_order_segments) and have been merged wherever they touch; none is
\* below the completed prefix, where nothing would ever remove it.  "Completed
\* counters don't consume any memory": a list has at most one segment more than
\* it has counters that are allocated and incomplete, however often the unlocked
\* path of completeCounter skipped a collapse.
SegmentsCanonical ==
  \A l \in Lists :
    /\ \A i \in DOMAIN segments[l] :
         /\ fully[l] < segments[l][i].first
         /\ segments[l][i].first <= segments[l][i].last
         /\ i > 1 => segments[l][i].last + 1 < segments[l][i - 1].first
    /\ Len(segments[l]) <= 1 + Cardinality({c \in Allocated \ marked : ListOf(c) = l})

\* isCounterComplete may deny a counter whose completeCounter has returned only
\* because the counter moved from a segment into the prefix between its load
\* and its scan: the next check of the counter answers true.
StaleOnce == \A c \in stale : Passed(c)

Occurrences(c, cs) == Cardinality({i \in DOMAIN cs : cs[i] = c})

\* trimCompleteCounters keeps, in the first `remaining` elements, every counter
\* that is incomplete (duplicates included) and invents none, although counters
\* are completed and segments are merged while it swaps elements around.
TrimKeepsIncomplete ==
  \A t \in Threads : pc[t] \in {"trim", "trimScan"} =>
    LET kept == SubSeq(span[t], 1, remaining[t])
    IN  \A c \in ToSet(original[t]) \cup ToSet(kept) :
          /\ Occurrences(c, kept) <= Occurrences(c, original[t])
          /\ ~Completed(c) => Occurrences(c, kept) = Occurrences(c, original[t])

\* Segments never overlap nor take more memory than incomplete counters justify, and
\* trimCompleteCounters keeps every incomplete counter while other threads complete and
\* merge what it scans.
SegmentsSound == SegmentsCanonical /\ TrimKeepsIncomplete

\* A counter that was complete once stays complete: moving a segment into the
\* prefix never uncovers a value.
StaysComplete == [][\A c \in Allocated : Completed(c) => Completed(c)']_vars

\* Every step of the tracker is a step of AsyncCounters or leaves the set of
\* complete counters alone.
Promise == INSTANCE AsyncCounters WITH
  allocated <- Allocated, completed <- {c \in Allocated : Completed(c)}
Promised == Promise!ASpec

=============================================================================
