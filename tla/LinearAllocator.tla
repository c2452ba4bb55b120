--------------------------- MODULE LinearAllocator ---------------------------
(***************************************************************************)
(* linear_allocator (extras/linear_allocator.hpp): suballocation of one    *)
(* block of memory by an ordered list of its free ranges.  A range is      *)
(* <<begin, end>>, with end excluded.                                      *)
(***************************************************************************)
EXTENDS Integers, Sequences, FiniteSets, SequencesExt

CONSTANTS ArenaWidth,    \* bits of the size type S
          FullSize,      \* m_full_size
          Granularity,   \* G, a power of two
          Sizes, Aligns  \* bound: what is asked for

\* Checked by the modules that instantiate this one.
ArenaAssumption == 2 * FullSize < 2 ^ ArenaWidth

VARIABLES
  freeRanges,   \* m_free_ranges
  used,         \* history: ranges that were given out and have not come back
  notified      \* history: the last call made on_allocator_freed

arenaVars == <<freeRanges, used, notified>>

ArenaInit == freeRanges = << <<0, FullSize>> >> /\ used = {} /\ notified = FALSE

Wrapped(n) == n % 2 ^ ArenaWidth
align_up(n, align) == (Wrapped(n + align - 1) \div align) * align
Larger(a, b) == IF a > b THEN a ELSE b
is_free(ranges) == ranges = << <<0, FullSize>> >>

NotEmpty(ranges) == SelectSeq(ranges, LAMBDA r : r[1] < r[2])
Replaced(ranges, i, by) == SubSeq(ranges, 1, i - 1) \o by \o SubSeq(ranges, i + 1, Len(ranges))

\* What a request takes of a free range.
Taken(range, size, align) ==
  LET begin == align_up(range[1], align) IN <<begin, Wrapped(begin + size)>>
Fits(range, size, align) == Taken(range, size, align)[2] <= range[2]

\* The first range with room for it is split.
Allocate(request, alignment) ==
  LET size == align_up(request, Granularity)
      align == Larger(alignment, Granularity)
      fitting == {i \in DOMAIN freeRanges : Fits(freeRanges[i], size, align)}
  IN /\ size <= FullSize
     /\ fitting # {}
     /\ LET i == CHOOSE j \in fitting : \A other \in fitting : j <= other
            range == freeRanges[i]
            taken == Taken(range, size, align)
        IN /\ freeRanges' = Replaced(freeRanges, i,
                              NotEmpty(<< <<range[1], taken[1]>>, <<taken[2], range[2]>> >>))
           /\ used' = used \cup {taken}
     /\ notified' = FALSE

allocate_all ==
  /\ is_free(freeRanges)
  /\ freeRanges' = <<>> /\ used' = {<<0, FullSize>>} /\ notified' = FALSE

\* The end of a range moves into the free range right behind it.
grow(range, addendum) ==
  LET end == Wrapped(range[2] + align_up(addendum, Granularity))
  IN \E i \in DOMAIN freeRanges :
       /\ freeRanges[i][1] = range[2] /\ end <= freeRanges[i][2]
       /\ freeRanges' = Replaced(freeRanges, i, NotEmpty(<< <<end, freeRanges[i][2]>> >>))
       /\ used' = (used \ {range}) \cup {<<range[1], end>>}
       /\ notified' = FALSE

\* (mutant) A range that is freed is made one with the next range only.
MergedForward(before, range, after) ==
  IF after # <<>> /\ Head(after)[1] = range[2]
    THEN before \o << <<range[1], Head(after)[2]>> >> \o Tail(after)
    ELSE before \o <<range>> \o after

\* The ranges around a place of the list are made one where they touch.
Merged(before, range, after) ==
  LET left == before # <<>> /\ Last(before)[2] = range[1]
      right == after # <<>> /\ Head(after)[1] = range[2]
      whole == <<IF left THEN Last(before)[1] ELSE range[1], IF right THEN Head(after)[2] ELSE range[2]>>
  IN (IF left THEN Front(before) ELSE before) \o <<whole>> \o (IF right THEN Tail(after) ELSE after)

Free(range) ==
  /\ freeRanges' = Merged(SelectSeq(freeRanges, LAMBDA r : r[1] < range[1]), range,
                          SelectSeq(freeRanges, LAMBDA r : r[1] > range[1]))
  /\ used' = used \ {range}
  /\ notified' = is_free(freeRanges')

reset ==
  /\ freeRanges' = << <<0, FullSize>> >> /\ used' = {}
  /\ notified' = ~ is_free(freeRanges)

ArenaNext ==
  \/ \E size \in Sizes, align \in Aligns : Allocate(size, align)
  \/ allocate_all
  \/ \E range \in used : Free(range) \/ \E addendum \in Sizes : grow(range, addendum)
  \/ reset

-----------------------------------------------------------------------------
Ranges == used \cup {freeRanges[i] : i \in DOMAIN freeRanges}

\* Free and used ranges divide the memory among them: none overlap, none is empty and
\* nothing is lost; free ones are in order and none touch, whatever was split and merged,
\* so that the owner hears that all came back exactly when it did.
ArenaExact ==
  /\ \A i, j \in DOMAIN freeRanges : i < j => freeRanges[i][2] < freeRanges[j][1]
  /\ \A x \in 0 .. FullSize - 1 : Cardinality({r \in Ranges : r[1] <= x /\ x < r[2]}) = 1
  /\ \A r \in Ranges : r[1] < r[2]
  /\ used = {} <=> is_free(freeRanges)
  /\ notified => used = {}
=============================================================================
