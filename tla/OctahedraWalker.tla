--------------------------- MODULE OctahedraWalker ---------------------------
(***************************************************************************)
(* ConcentricOctahedraWalker (src/voxen/util/                              *)
(* concentric_octahedra_walker.cpp): the offsets in which a ticket's keys  *)
(* are visited, octahedron by octahedron.                                  *)
(***************************************************************************)
EXTENDS Integers

CONSTANT MaxRadius   \* m_max_radius of the walkers, less than 128

ASSUME RadiusAssumption == MaxRadius \in Nat

VARIABLES
  walker,   \* the fields of the object; wrapped: m_wrapped_around
  visited   \* history: what step() returned since it last wrapped around

walkerVars == <<walker, visited>>

Magnitude(n) == IF n < 0 THEN -n ELSE n

WalkerInit ==
  /\ walker \in [max : 0 .. MaxRadius, radius : {0}, dx : {0}, dz : {0}, negative : {FALSE},
                 wrapped : {FALSE}]
  /\ visited = {}

Dy(w) == w.radius - Magnitude(w.dx) - Magnitude(w.dz)
Offset(w) == <<w.dx, IF w.negative THEN - Dy(w) ELSE Dy(w), w.dz>>

\* The next edge of the octahedron's base, then the next octahedron.
NextRadius(w) == IF w.radius + 1 > w.max THEN 0 ELSE w.radius + 1
NextRow(w) ==
  IF w.dx + 1 <= w.radius
    THEN [w EXCEPT !.dx = w.dx + 1, !.dz = Magnitude(w.dx + 1) - w.radius]
    ELSE [w EXCEPT !.radius = NextRadius(w), !.dx = - NextRadius(w), !.dz = 0,
                   !.wrapped = w.wrapped \/ NextRadius(w) = 0]

\* (mutant) The border of the base is visited from both sides.
NextPointTwice(w) ==
  IF ~ w.negative THEN [w EXCEPT !.negative = TRUE]
  ELSE LET upper == [w EXCEPT !.negative = FALSE]
       IN IF w.dz + 1 < w.radius - Magnitude(w.dx) THEN [upper EXCEPT !.dz = w.dz + 1] ELSE NextRow(upper)

\* Both sides of the base but for its border.
NextPoint(w) ==
  IF ~ w.negative /\ Dy(w) # 0
    THEN [w EXCEPT !.negative = TRUE]
    ELSE LET upper == [w EXCEPT !.negative = FALSE]
         IN IF w.dz + 1 <= w.radius - Magnitude(w.dx) THEN [upper EXCEPT !.dz = w.dz + 1] ELSE NextRow(upper)

step ==
  /\ walker' = NextPoint(walker)
  /\ visited' = IF visited # {} /\ Offset(walker) = <<0, 0, 0>> THEN {<<0, 0, 0>>}
                ELSE visited \cup {Offset(walker)}

WalkerSpec == WalkerInit /\ [][step]_walkerVars
-----------------------------------------------------------------------------
Points(r) == {p \in (-r .. r) \X (-r .. r) \X (-r .. r) : Magnitude(p[1]) + Magnitude(p[2]) + Magnitude(p[3]) <= r}

\* The keys in reach are visited from the nearest on, none is left out before the
\* walker says that it has wrapped around, and it says so once all are visited: until
\* then, what has been visited is some octahedra and a part of the next one.
WalkExact ==
  /\ visited # {} /\ Offset(walker) # <<0, 0, 0>> =>
       /\ Points(walker.radius - 1) \subseteq visited
       /\ visited \subseteq Points(walker.radius)
       /\ Offset(walker) \notin visited
  /\ visited # {} /\ Offset(walker) = <<0, 0, 0>> => visited = Points(walker.max) /\ walker.wrapped
=============================================================================
