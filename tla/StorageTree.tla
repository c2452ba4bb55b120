----------------------------- MODULE StorageTree -----------------------------
(***************************************************************************)
(* The land storage tree (src/voxen/land/land_storage_tree*.cpp, a tree of  *)
(* its nodes): versioned data of chunk keys in reference counted nodes     *)
(* that copies of a tree share until one of them writes.                   *)
(*                                                                         *)
(* The data of a node is the tick it was last written at.  A tree is       *)
(* copied at the end of a tick.                                            *)
(***************************************************************************)
EXTENDS Integers, Sequences, FiniteSets, FiniteSetsExt, SequencesExt

CONSTANTS DuoLevels, TriBits, RootItems,  \* 4, 3 and 24 (4 along Z) in the code
          TreePaths,  \* the paths used, by key
          Capacity,   \* items a node has room for, 64 in the code
          Trees,
          Failing,    \* bound: levels where the construction of a node may throw
          MaxCalls    \* bound: calls and ticks

-----------------------------------------------------------------------------
(* The tree paths of keys.  Nodes are numbered by level: 0 a chunk,        *)
(* 1..DuoLevels the duoctree levels of two LODs each, then the bridge and  *)
(* the root.  X stands for both horizontal axes.                           *)

Bridge == DuoLevels + 1
Root == DuoLevels + 2
Size(level) == IF level <= DuoLevels THEN 4^level ELSE 2^(2 * DuoLevels + TriBits * (level - DuoLevels))
World == RootItems * Size(Root)
Bits(v, from, n) == (v \div 2^from) % 2^n
Remainder(a, b) == IF a < 0 THEN -((-a) % b) ELSE a % b
RootMin(root) == root * Size(Root) - World \div 2

RootIndex(x) ==
  LET wrapped == Remainder(x + World \div 2, World)
  IN (IF wrapped < 0 THEN wrapped + World ELSE wrapped) \div Size(Root)

HasPath(key) ==
  /\ key.y \in -Size(DuoLevels) .. Size(DuoLevels) - 1
  /\ key.lod <= 2 * DuoLevels
  /\ key.x % 2^key.lod = 0 /\ key.y % 2^key.lod = 0

\* The bits of the child a path takes in a node of some level.
ChildBits(key, level) ==
  IF level <= DuoLevels
  THEN [y |-> Bits(key.y, 2 * level - 2, 2), x |-> Bits(key.x, 2 * level - 2, 2)]
  ELSE [y |-> IF level = Bridge THEN Bits(key.y, 2 * DuoLevels, 1) ELSE 0,
        x |-> Bits(key.x, 2 * DuoLevels + TriBits * (level - Bridge), TriBits)]

PathOf(key) ==
  [root |-> RootIndex(key.x),
   stop |-> (key.lod + 1) \div 2,
   subnode |-> key.lod % 2 = 1,
   selector |-> <<Bits(key.y, key.lod, 1), Bits(key.x, key.lod, 1)>>,
   child |-> [level \in 1..Root |-> ChildBits(key, level)]]

KeyOf(path) ==
  LET Part(level) == path.child[level].x * Size(level - 1)
      Height(level) == path.child[level].y * Size(level - 1)
  IN [x |-> RootMin(path.root) + MapThenSumSet(Part, 1..Root),
      y |-> MapThenSumSet(Height, 1..DuoLevels) - path.child[Bridge].y * Size(DuoLevels),
      lod |-> IF path.subnode THEN 2 * path.stop - 1 ELSE 2 * path.stop]

\* Within the world keys and paths correspond, keys outside of it go to the place they
\* wrap around to, and the path of a key goes through the node that encloses it
\* (the comment of keyToTreePath: "This decomposition is invertible up to wraparound").
PathsSound(keys) ==
  \A key \in keys : HasPath(key) =>
    LET back == KeyOf(PathOf(key))
    IN /\ back.y = key.y /\ back.lod = key.lod
       /\ (back.x - key.x) % World = 0
       /\ back.x \in RootMin(0) .. RootMin(RootItems) - 1
       /\ PathOf(back) = PathOf(key)
-----------------------------------------------------------------------------
Keys == DOMAIN TreePaths
NoLevel == Root + 1

VARIABLES
  nodes,  \* the nodes that exist, by place, tick and number
  roots,  \* m_root_items of each tree
  tick,   \* the tick changes are made at
  calls,  \* bound: calls and ticks so far
  stored  \* history: the keys each tree should have, and the data of their nodes

vars == <<nodes, roots, tick, calls, stored>>
-----------------------------------------------------------------------------
LiveBit(path) == IF path.subnode THEN path.selector ELSE <<>>

ChildMin(node, child) ==
  LET size == Size(node.level - 1)
  IN [x |-> node.min.x + size * child.x,
      y |-> IF node.level <= DuoLevels THEN node.min.y + size * child.y ELSE -size * child.y]
-----------------------------------------------------------------------------
\* Nodes.  A child's place among the items is the number of children before it.

None == <<>>
NullItem == [tick |-> 0, node |-> None]
Torn == -1  \* data that other memory operations have overwritten

Order(child) == child.y * 2^(TriBits + 2) + child.x
Index(node, child) == 1 + Cardinality({c \in node.mask : Order(c) < Order(child)})
Has(node, child) == child \in node.mask
IsEmpty(node) == node.level = 0 \/ (node.live = {} /\ node.mask = {})

New(min, level) ==
  [refs |-> 1, level |-> level, min |-> min, live |-> {}, mask |-> {}, items |-> <<>>, data |-> 0]

Fresh(h, min, level) ==
  LET Id(i) == <<level, min.x, min.y, tick, i>>
  IN Id(CHOOSE i \in 1 .. Cardinality(DOMAIN h) + 1 : Id(i) \notin DOMAIN h)
FreshAs(h, item) == Fresh(h, h[item.node].min, h[item.node].level)
Put(h, n, node) == [m \in DOMAIN h \cup {n} |-> IF m = n THEN node ELSE h[m]]
AddRefs(h, items) ==
  [n \in DOMAIN h |-> [h[n] EXCEPT !.refs = @ + Cardinality({i \in DOMAIN items : items[i].node = n})]]

RECURSIVE Release(_, _)

\* clear, and the end of a node that has no references.
Cleared(h, n) == FoldLeft(LAMBDA g, i : Release(g, i), [m \in DOMAIN h \ {n} |-> h[m]], h[n].items)

\* StorageTreeNodePtr::reset
Release(h, item) ==
  IF item.node = None THEN h
  ELSE IF h[item.node].refs > 1 THEN [h EXCEPT ![item.node].refs = @ - 1]
  ELSE Cleared(h, item.node)

\* The copy constructor of a node: the items are copied, the base class, which has the
\* live keys, is left to the default constructor.
CopyOf(node) == [node EXCEPT !.refs = 1, !.live = {}]
Copied(h, item) ==
  LET n == FreshAs(h, item)
  IN [h |-> AddRefs(Put(h, n, CopyOf(h[item.node])), h[item.node].items), n |-> n]

\* (mutant) A node that is there is written in place.
ConstructsOnce(item) == item.node = None

\* A node has to be constructed before its item can be written at the tick.
Constructs(item) == item.node = None \/ item.tick < tick

\* init of an item without a node, else moo.
Writable(h, item, min, level) ==
  IF ~Constructs(item) THEN [h |-> h, item |-> item]
  ELSE IF item.node = None
       THEN LET n == Fresh(h, min, level)
            IN [h |-> Put(h, n, New(min, level)), item |-> [tick |-> tick, node |-> n]]
       ELSE LET c == Copied(h, item)
            IN [h |-> Release(c.h, item), item |-> [tick |-> tick, node |-> c.n]]

\* The items behind a place make room for one, or close the gap that one leaves; the last
\* of "after" items may be behind the last place, where the user data is.
constructItem(node, at, item) == [node EXCEPT !.items = InsertAt(@, at, item)]
removeItem(node, at, after) ==
  [node EXCEPT !.items = RemoveAt(@, at), !.data = IF at + after > Capacity THEN Torn ELSE @]

WithItem(node, child, item) ==
  IF Has(node, child) THEN [node EXCEPT !.items[Index(node, child)] = item]
  ELSE [constructItem(node, Index(node, child), item) EXCEPT !.mask = @ \cup {child}]

\* removeItem is told of one more item behind the removed one than there is.
after_count(node, child) == Cardinality({c \in node.mask : Order(c) >= Order(child)})
WithoutItem(node, child) ==
  [removeItem(node, Index(node, child), after_count(node, child)) EXCEPT !.mask = @ \ {child}]

\* The levels of a path are those of the chunk, of duoctree and of triquadtree nodes; the
\* last always have a child on it.  A construction on level "fault" throws.
RECURSIVE Accessed(_, _, _, _, _, _)

\* TriquadtreeNodeBase::access
AccessedChild(h, n, level, path, fault) ==
  LET node == h[n]
      child == path.child[level]
      old == IF Has(node, child) THEN node.items[Index(node, child)] ELSE NullItem
      below == Accessed(h, old, ChildMin(node, child), level - 1, path, fault)
  IN [below EXCEPT !.h = IF below.item.node = None THEN @
                         ELSE [@ EXCEPT ![n] = WithItem(@, child, below.item)]]

\* DuoctreeNodeBase::access
AccessedDuo(h, n, level, path, fault) ==
  IF level > path.stop THEN AccessedChild(h, n, level, path, fault)
  ELSE [h |-> [h EXCEPT ![n].live = @ \cup {LiveBit(path)}], item |-> NullItem, ok |-> TRUE, target |-> n]

\* init or moo of an item, and access of its node.
Accessed(h, item, min, level, path, fault) ==
  IF fault = level /\ Constructs(item) THEN [h |-> h, item |-> item, ok |-> FALSE, target |-> None]
  ELSE LET w == Writable(h, item, min, level)
           n == w.item.node
           done == IF level > DuoLevels THEN AccessedChild(w.h, n, level, path, fault)
                   ELSE IF level > 0 THEN AccessedDuo(w.h, n, level, path, fault)
                   ELSE [h |-> w.h, item |-> NullItem, ok |-> TRUE, target |-> n]
       IN [done EXCEPT !.item = w.item]

RECURSIVE Removed(_, _, _, _, _)

\* TriquadtreeNodeBase::remove
RemovedChild(h, n, level, path, fault) ==
  LET node == h[n]
      child == path.child[level]
      below == Removed(h, node.items[Index(node, child)], level - 1, path, fault)
  IN IF ~Has(node, child) THEN [h |-> h, item |-> NullItem, ok |-> TRUE]
     ELSE [below EXCEPT !.h = IF below.ok /\ IsEmpty(@[below.item.node])
                              THEN [Release(@, below.item) EXCEPT ![n] = WithoutItem(@, child)]
                              ELSE [@ EXCEPT ![n] = WithItem(@, child, below.item)]]

\* DuoctreeNodeBase::remove
RemovedDuo(h, n, level, path, fault) ==
  IF level > path.stop THEN RemovedChild(h, n, level, path, fault)
  ELSE [h |-> [h EXCEPT ![n].live = @ \ {LiveBit(path)}], item |-> NullItem, ok |-> TRUE]

\* moo of an item, and remove from its node; chunks have nothing in them to remove.
Removed(h, item, level, path, fault) ==
  IF fault = level /\ Constructs(item) THEN [h |-> h, item |-> item, ok |-> FALSE]
  ELSE LET w == Writable(h, item, 0, level)
           n == w.item.node
           done == IF level > DuoLevels THEN RemovedChild(w.h, n, level, path, fault)
                   ELSE IF level > 0 THEN RemovedDuo(w.h, n, level, path, fault)
                   ELSE [h |-> w.h, item |-> NullItem, ok |-> TRUE]
       IN [done EXCEPT !.item = w.item]

\* lookup: the node, None for null.
RECURSIVE LookedUp(_, _, _)

\* TriquadtreeNodeBase::lookup
LookedUpChild(node, level, path) ==
  LET child == path.child[level]
  IN IF Has(node, child) THEN LookedUp(node.items[Index(node, child)], level - 1, path) ELSE None

\* DuoctreeNodeBase::lookup
LookedUpDuo(n, level, path) ==
  IF level > path.stop THEN LookedUpChild(nodes[n], level, path)
  ELSE IF LiveBit(path) \in nodes[n].live THEN n ELSE None

LookedUp(item, level, path) ==
  IF item.node = None \/ level = 0 THEN item.node
  ELSE IF level > DuoLevels THEN LookedUpChild(nodes[item.node], level, path)
  ELSE LookedUpDuo(item.node, level, path)
-----------------------------------------------------------------------------
\* Trees.

Lookup(tree, key) == LookedUp(roots[tree][TreePaths[key].root], Root, TreePaths[key])

\* The keys that lead to one node have its data in common.
SameNode(p, q) ==
  /\ p.root = q.root /\ p.stop = q.stop
  /\ \A level \in p.stop + 1 .. Root : p.child[level] = q.child[level]
Nothing == [live |-> {}, data |-> [k \in Keys |-> 0]]

Init ==
  /\ nodes = <<>> /\ tick = 1 /\ calls = 0
  /\ roots = [t \in Trees |-> [r \in 0 .. RootItems - 1 |-> NullItem]]
  /\ stored = [t \in Trees |-> Nothing]

\* access, and the caller's write to the data it returns.
Access(tree, key, fault) ==
  LET path == TreePaths[key]
      min == [x |-> RootMin(path.root), y |-> 0]
  IN \E r \in {Accessed(nodes, roots[tree][path.root], min, Root, path, fault)} :
     /\ fault # NoLevel <=> ~r.ok
     /\ roots' = [roots EXCEPT ![tree][path.root] = r.item]
     /\ nodes' = IF r.ok THEN [r.h EXCEPT ![r.target].data = tick] ELSE r.h
     /\ stored' = IF ~r.ok THEN stored
                  ELSE [stored EXCEPT ![tree] =
                          [live |-> @.live \cup {key},
                           data |-> [k \in Keys |-> IF SameNode(path, TreePaths[k]) THEN tick ELSE @.data[k]]]]
     /\ UNCHANGED tick

RemoveKey(tree, key, fault) ==
  LET path == TreePaths[key]
  IN /\ roots[tree][path.root].node # None
     /\ \E r \in {Removed(nodes, roots[tree][path.root], Root, path, fault)} :
          LET empty == r.ok /\ IsEmpty(r.h[r.item.node])
          IN /\ fault # NoLevel <=> ~r.ok
             /\ roots' = [roots EXCEPT ![tree][path.root] =
                            IF empty THEN [r.item EXCEPT !.node = None] ELSE r.item]
             /\ nodes' = IF empty THEN Release(r.h, r.item) ELSE r.h
             /\ stored' = IF r.ok THEN [stored EXCEPT ![tree].live = @ \ {key}] ELSE stored
     /\ UNCHANGED tick

Items(f) == [i \in 1..RootItems |-> f[i - 1]]

\* operator=(const StorageTree &).
CopyTree(to, from) ==
  /\ to # from
  /\ nodes' = AddRefs(FoldLeft(LAMBDA h, i : Release(h, i), nodes, Items(roots[to])), roots[from])
  /\ roots' = [roots EXCEPT ![to] = roots[from]]
  /\ stored' = [stored EXCEPT ![to] = stored[from]]
  /\ tick' = tick + 1

\* operator=(StorageTree &&).
SwapTrees(a, b) ==
  /\ a # b
  /\ roots' = [roots EXCEPT ![a] = roots[b], ![b] = roots[a]]
  /\ stored' = [stored EXCEPT ![a] = stored[b], ![b] = stored[a]]
  /\ UNCHANGED <<nodes, tick>>

\* The destructor, then a new tree.
Renew(tree) ==
  /\ nodes' = FoldLeft(LAMBDA h, i : Release(h, i), nodes, Items(roots[tree]))
  /\ roots' = [roots EXCEPT ![tree] = [r \in 0 .. RootItems - 1 |-> NullItem]]
  /\ stored' = [stored EXCEPT ![tree] = Nothing]
  /\ UNCHANGED tick

NextTick == tick' = tick + 1 /\ UNCHANGED <<nodes, roots, stored>>

AnyCall ==
  \/ NextTick
  \/ \E t \in Trees : Renew(t)
  \/ \E t \in Trees, k \in Keys, fault \in Failing \cup {NoLevel} : Access(t, k, fault) \/ RemoveKey(t, k, fault)
  \/ \E t, u \in Trees : CopyTree(t, u) \/ SwapTrees(t, u)
Next == calls < MaxCalls /\ calls' = calls + 1 /\ AnyCall
Spec == Init /\ [][Next]_vars
-----------------------------------------------------------------------------
\* Places that refer to a node.
References(n) ==
  SumFunction([t \in Trees |-> Cardinality({r \in 0 .. RootItems - 1 : roots[t][r].node = n})]) +
  SumFunction([m \in DOMAIN nodes |-> Cardinality({i \in DOMAIN nodes[m].items : nodes[m].items[i].node = n})])

Encloses(node, key) ==
  /\ key.x \in node.min.x .. node.min.x + Size(node.level) - 1
  /\ key.y \in node.min.y .. node.min.y + Size(node.level) - 1

\* Nodes of copied trees are counted exactly, so that every node is destroyed with its
\* last item and none before; a chunk can be looked up just as long as it has been
\* accessed and not removed since; and a lookup never returns a node of a key that is not
\* there, or data that another tree or key has written (the mooing of paths, reset, the
\* items of a node).
TreeSound ==
  /\ \A n \in DOMAIN nodes :
       /\ nodes[n].refs = References(n) /\ nodes[n].refs > 0
       /\ Len(nodes[n].items) = Cardinality(nodes[n].mask)
  /\ \A t \in Trees, k \in Keys :
       LET n == Lookup(t, k)
           key == KeyOf(TreePaths[k])
       IN IF n = None THEN key.lod = 0 => k \notin stored[t].live
          ELSE /\ k \in stored[t].live
               /\ nodes[n].data = stored[t].data[k]
               /\ Encloses(nodes[n], key)

\* Null is returned only if the key was not accessed before and not removed after that
\* (include/voxen/land/land_storage_tree.hpp:47).
NullOnlyIfAbsent == \A t \in Trees, k \in Keys :
  Lookup(t, k) = None => k \notin stored[t].live
=============================================================================
