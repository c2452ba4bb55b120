------------------------------- MODULE HashTrie -------------------------------
(***************************************************************************)
(* V8gHashTrie (include/voxen/common/v8g_hash_trie_impl.hpp): a map sorted  *)
(* by hash whose copies share nodes.  A node is copied before a change when *)
(* its version is not that of the current timeline, and two tries are      *)
(* compared by the versions of their nodes and items.                      *)
(*                                                                         *)
(* A key is its hash.  The value of an item is represented by its version, *)
(* the timeline of its insertion.  Nodes live in a heap, so that copies    *)
(* really share them; nodes that nobody points to are freed.               *)
(***************************************************************************)
EXTENDS Integers, Sequences, FiniteSets, SequencesExt, FiniteSetsExt, TLC

CONSTANTS KeySets,          \* bounds: <<hashes of the keys used, timelines used>>
          HashBits,         \* length of a hash, 64
          ROOT_NODES_LOG2,  \* bits of it that select the root node, 4
          NodeBits,         \* bits that select the slot in a node, 6
          ItemSize, NodeItemSize,
          MaxCopies         \* bound: copies kept

INITIAL_CAPACITY == 2 * ItemSize
MAX_CAPACITY == 2 ^ NodeBits * ItemSize
Slots == 0 .. 2 ^ NodeBits - 1
Roots == 0 .. 2 ^ ROOT_NODES_LOG2 - 1
Nothing == [kind |-> "none"]
Null == [kind |-> "node", version |-> 0, node |-> 0]

VARIABLES
  bound,      \* the bounds of this behaviour
  heap,       \* node -> [capacity, consumed, entries]
  trie,       \* the container that is modified: [roots, size]
  copies,     \* copies of it, oldest first: [trie, contents, timeline]
  timeline,   \* the version of the changes made now
  contents    \* history: key -> version, the map it stands for

vars == <<bound, heap, trie, copies, timeline, contents>>

Keys == bound[1]
MaxTimeline == bound[2]
-----------------------------------------------------------------------------
RootOf(key) == key \div 2 ^ (HashBits - ROOT_NODES_LOG2)

\* The slot of a key in a node that is reached with `consumed` bits.
Slot(key, consumed) == (key \div 2 ^ (HashBits - consumed - NodeBits)) % 2 ^ NodeBits

\* The hash without the bits consumed so far.
Below(key, consumed) == key % 2 ^ (HashBits - consumed)

Item(version, key) == [kind |-> "item", version |-> version, key |-> key]
NodeItem(version, node) == [kind |-> "node", version |-> version, node |-> node]

Kind(n, slot) == IF slot \in DOMAIN n.entries THEN n.entries[slot].kind ELSE "none"
Items(n) == {s \in DOMAIN n.entries : n.entries[s].kind = "item"}
Nodes(n) == {s \in DOMAIN n.entries : n.entries[s].kind = "node"}
Used(n) == Cardinality(Items(n)) * ItemSize + Cardinality(Nodes(n)) * NodeItemSize

Put(n, slot, entry) ==
  [n EXCEPT !.entries = [s \in DOMAIN @ \cup {slot} |-> IF s = slot THEN entry ELSE @[s]]]
EraseSlot(n, slot) == [n EXCEPT !.entries = [s \in DOMAIN @ \ {slot} |-> @[s]]]

\* Heaps.
FreeNode(h) == CHOOSE i \in 1 .. Cardinality(DOMAIN h) + 1 : i \notin DOMAIN h
Store(h, i, n) == [j \in DOMAIN h \cup {i} |-> IF j = i THEN n ELSE h[j]]

AllocateNode(consumed) ==
  [capacity |-> INITIAL_CAPACITY, consumed |-> consumed, entries |-> <<>>]

ExpandedCapacity(n) == Min({n.capacity + n.capacity \div 2, MAX_CAPACITY})

\* (mutant) Changes nodes in place.
OwnedInPlace(h, item) == [heap |-> h, item |-> [item EXCEPT !.version = timeline]]

\* The node of a node item, private to the current timeline: [heap, item].
Owned(h, item) ==
  IF item.version = timeline THEN [heap |-> h, item |-> item]
  ELSE [heap |-> Store(h, FreeNode(h), h[item.node]),
        item |-> NodeItem(timeline, FreeNode(h))]
-----------------------------------------------------------------------------
(* insert                                                                  *)

\* promoteItemToNode, the node pointed to by the new node item holding the old item.
Promoted(h, n, slot) ==
  LET old == n.entries[slot]
      child == AllocateNode(n.consumed + NodeBits)
  IN  [heap |-> Store(h, FreeNode(h), Put(child, Slot(old.key, child.consumed), old)),
       item |-> NodeItem(old.version, FreeNode(h))]

\* One turn of the loop of insert, and those below it: [heap, item, added].
RECURSIVE InsertInto(_, _, _)
InsertInto(h0, item0, key) ==
  LET own == Owned(h0, item0)
      i == own.item.node
      n == own.heap[i]
      slot == Slot(key, n.consumed)
      down(h, item) ==
        LET r == InsertInto(h, item, key)
        IN  [heap |-> Store(r.heap, i, Put(n, slot, r.item)),
             item |-> own.item, added |-> r.added]
  IN  CASE Kind(n, slot) = "node" -> down(own.heap, n.entries[slot])
        [] Kind(n, slot) = "item" /\ n.entries[slot].key = key ->
             [heap |-> Store(own.heap, i, Put(n, slot, Item(timeline, key))),
              item |-> own.item, added |-> 0]
        [] Kind(n, slot) = "item" /\ n.entries[slot].key # key ->
             LET p == Promoted(own.heap, n, slot) IN down(p.heap, p.item)
        [] OTHER ->
             LET room == IF Used(n) + ItemSize > n.capacity
                         THEN [n EXCEPT !.capacity = ExpandedCapacity(n)] ELSE n
             IN  [heap |-> Store(own.heap, i, Put(room, slot, Item(timeline, key))),
                  item |-> own.item, added |-> 1]
-----------------------------------------------------------------------------
(* erase                                                                   *)

\* tryShrinkChildNode: an empty child goes, a child of one item becomes that item if
\* there is room for it.
Shrunk(h, n, slot) ==
  LET child == h[n.entries[slot].node]
  IN  IF Nodes(child) # {} THEN n
      ELSE IF Items(child) = {} THEN EraseSlot(n, slot)
      ELSE IF n.capacity - Used(n) + NodeItemSize < ItemSize THEN n
      ELSE IF Cardinality(Items(child)) = 1
           THEN Put(n, slot, child.entries[CHOOSE s \in Items(child) : TRUE])
           ELSE n

RECURSIVE EraseFrom(_, _, _)
EraseFrom(h, item, key) ==
  LET n0 == h[item.node]
      slot == Slot(key, n0.consumed)
      own == Owned(h, item)
      i == own.item.node
      unchanged == [heap |-> h, item |-> item, erased |-> 0]
  IN  CASE Kind(n0, slot) = "none" -> unchanged
        [] Kind(n0, slot) = "item" ->
             IF n0.entries[slot].key # key THEN unchanged
             ELSE [heap |-> Store(own.heap, i, EraseSlot(n0, slot)),
                   item |-> own.item, erased |-> 1]
        [] OTHER ->
             LET r == EraseFrom(own.heap, n0.entries[slot], key)
                 n == Put(n0, slot, r.item)
             IN  [heap |-> Store(r.heap, i,
                             IF r.erased = 1 THEN Shrunk(r.heap, n, slot) ELSE n),
                  item |-> own.item, erased |-> r.erased]
-----------------------------------------------------------------------------
(* Lookup and iteration                                                    *)

Entry(h, item, slot) ==
  IF slot \in DOMAIN h[item.node].entries THEN h[item.node].entries[slot] ELSE Nothing

\* What f gives for every slot, in their order.
InOrder(f) == FlattenSeq([i \in 1 .. Cardinality(DOMAIN f) |-> f[SetToSortSeq(DOMAIN f, <)[i]]])

\* visitUnary: the items of a subtree in the order of their hashes; the first one is
\* findFirstItem's.
RECURSIVE AllItems(_, _)
AllItems(h, e) ==
  CASE e.kind = "none" -> <<>>
    [] e.kind = "item" -> <<e>>
    [] OTHER -> InOrder([s \in DOMAIN h[e.node].entries |-> AllItems(h, Entry(h, e, s))])

\* The items after a key; the first one is findNextItem's.
RECURSIVE ItemsAfter(_, _, _)
ItemsAfter(h, e, key) ==
  LET n == h[e.node]
      slot == Slot(key, n.consumed)
      at == Entry(h, e, slot)
  IN  (CASE at.kind = "node" -> ItemsAfter(h, at, key)
         [] at.kind = "item" ->
              IF Below(key, n.consumed) < Below(at.key, n.consumed) THEN <<at>> ELSE <<>>
         [] OTHER -> <<>>)
      \o InOrder([s \in {u \in DOMAIN n.entries : u > slot} |-> AllItems(h, Entry(h, e, s))])

Root(t, r) == IF t.roots[r].node = 0 THEN Nothing ELSE t.roots[r]

FindNext(h, t, key) ==
  (IF Root(t, RootOf(key)) = Nothing THEN <<>> ELSE ItemsAfter(h, Root(t, RootOf(key)), key))
    \o InOrder([r \in {u \in Roots : u > RootOf(key)} |-> AllItems(h, Root(t, r))])

RECURSIVE FindIn(_, _, _)
FindIn(h, e, key) ==
  LET at == Entry(h, e, Slot(key, h[e.node].consumed))
  IN  CASE at.kind = "node" -> FindIn(h, at, key)
        [] at.kind = "item" -> IF at.key = key THEN at ELSE Nothing
        [] OTHER -> Nothing

Find(h, t, key) ==
  IF Root(t, RootOf(key)) = Nothing THEN Nothing ELSE FindIn(h, Root(t, RootOf(key)), key)
-----------------------------------------------------------------------------
(* visitDiff: the pairs <<new item, old item>> given to the visitor, which  *)
(* may stop after any of them.                                             *)

DiffItems(a, b) ==
  IF a = Nothing \/ b = Nothing THEN (IF a = b THEN <<>> ELSE <<<<a, b>>>>)
  ELSE IF a.key = b.key THEN (IF a.version = b.version THEN <<>> ELSE <<<<a, b>>>>)
  ELSE IF a.key < b.key THEN <<<<a, Nothing>>, <<Nothing, b>>>>
  ELSE <<<<Nothing, b>>, <<a, Nothing>>>>

\* The entry of an item or of a node in a slot of a node that it is compared with.
Side(h, e, slot, consumed) ==
  CASE e.kind = "node" -> Entry(h, e, slot)
    [] e.kind = "item" -> IF Slot(e.key, consumed) = slot THEN e ELSE Nothing
    [] OTHER -> Nothing

\* visitDiff, visitDiffItem and visitUnary by the kinds of the two entries.
RECURSIVE Diff(_, _, _)
Diff(h, a, b) ==
  CASE a.kind # "node" /\ b.kind # "node" -> DiffItems(a, b)
    [] a.kind = "node" /\ b.kind = "node" /\ a.version = b.version -> <<>>
    [] OTHER ->
         LET consumed == h[IF a.kind = "node" THEN a.node ELSE b.node].consumed
         IN  InOrder([s \in Slots |-> Diff(h, Side(h, a, s, consumed), Side(h, b, s, consumed))])

VisitDiff(h, new, old) ==
  InOrder([r \in Roots |-> IF new.roots[r].version = old.roots[r].version THEN <<>>
                           ELSE Diff(h, Root(new, r), Root(old, r))])
-----------------------------------------------------------------------------
(* The container and its copies                                            *)

\* Nodes that a set of tries points to, directly or not.
RECURSIVE Reachable(_, _)
Reachable(h, S) ==
  LET T == S \cup {e.node : e \in UNION {{h[i].entries[s] : s \in Nodes(h[i])} : i \in S}}
  IN  IF T = S THEN S ELSE Reachable(h, T)

\* shared_ptr: the nodes of the container and of its copies remain.
Kept(h, t, cs) ==
  LET used == Reachable(h, UNION {{u.roots[r].node : r \in Roots} :
                                    u \in {t} \cup {cs[i].trie : i \in DOMAIN cs}} \ {0})
  IN  [i \in used |-> h[i]]

Init ==
  /\ bound \in KeySets
  /\ heap = <<>> /\ copies = <<>> /\ timeline = 1 /\ contents = <<>>
  /\ trie = [roots |-> [r \in Roots |-> Null], size |-> 0]

Change(h, r, item, delta) ==
  /\ trie' = [roots |-> [trie.roots EXCEPT ![r] = item], size |-> trie.size + delta]
  /\ heap' = Kept(h, trie', copies)
  /\ UNCHANGED <<bound, copies, timeline>>

Insert(key) ==
  /\ LET root == trie.roots[RootOf(key)]
         start == IF root.node # 0 THEN [heap |-> heap, item |-> root]
                  ELSE [heap |-> Store(heap, FreeNode(heap), AllocateNode(ROOT_NODES_LOG2)),
                        item |-> NodeItem(timeline, FreeNode(heap))]
         r == InsertInto(start.heap, start.item, key)
     IN  Change(r.heap, RootOf(key), r.item, r.added)
  /\ contents' = [k \in DOMAIN contents \cup {key} |-> IF k = key THEN timeline ELSE contents[k]]

Erase(key) ==
  /\ Root(trie, RootOf(key)) # Nothing
  /\ LET r == EraseFrom(heap, trie.roots[RootOf(key)], key)
     IN  Change(r.heap, RootOf(key), r.item, 0 - r.erased)
  /\ contents' = [k \in DOMAIN contents \ {key} |-> contents[k]]

\* A copy is taken, the oldest one may go; later changes have a higher timeline.
Copy ==
  /\ timeline < MaxTimeline /\ timeline' = timeline + 1
  /\ LET all == Append(copies, [trie |-> trie, contents |-> contents])
     IN  copies' = IF Len(all) > MaxCopies THEN Tail(all) ELSE all
  /\ heap' = Kept(heap, trie, copies')
  /\ UNCHANGED <<bound, trie, contents>>

\* The container is assigned from a copy.
Assign ==
  /\ \E i \in DOMAIN copies : trie' = copies[i].trie /\ contents' = copies[i].contents
  /\ heap' = Kept(heap, trie', copies)
  /\ UNCHANGED <<bound, copies, timeline>>

Next == (\E key \in Keys : Insert(key) \/ Erase(key)) \/ Copy \/ Assign
-----------------------------------------------------------------------------
(* Properties                                                              *)

MapItem(map, key) == IF key \in DOMAIN map THEN Item(map[key], key) ELSE Nothing
Sorted(map, S) == [i \in 1 .. Cardinality(S) |-> MapItem(map, SetToSortSeq(S, <)[i])]

\* A trie stands for a map: its size, what it finds under every key, and what follows
\* every key in the order of the hashes.
StandsFor(t, map) ==
  /\ t.size = Cardinality(DOMAIN map)
  /\ \A key \in Keys :
       /\ Find(heap, t, key) = MapItem(map, key)
       /\ FindNext(heap, t, key) = Sorted(map, {k \in DOMAIN map : k > key})
  /\ InOrder([r \in Roots |-> AllItems(heap, Root(t, r))]) = Sorted(map, DOMAIN map)

Changes(new, old) ==
  LET changed == {k \in Keys : MapItem(new, k) # MapItem(old, k)}
  IN  [i \in 1 .. Cardinality(changed) |->
         LET k == SetToSortSeq(changed, <)[i] IN <<MapItem(new, k), MapItem(old, k)>>]

\* The container and every copy of it stand for their maps, whatever was changed since
\* in nodes they share; the visitor of visitDiff sees exactly the changed items in the
\* order of the hashes; and no node holds more than its bytes ("Free space
\* precondition" of insertNode and insertItem).
TrieExact ==
  /\ StandsFor(trie, contents)
  /\ \A i \in DOMAIN copies :
       /\ StandsFor(copies[i].trie, copies[i].contents)
       /\ VisitDiff(heap, trie, copies[i].trie) = Changes(contents, copies[i].contents)
       /\ VisitDiff(heap, copies[i].trie, trie) = Changes(copies[i].contents, contents)
  /\ \A i \in DOMAIN heap : Used(heap[i]) <= heap[i].capacity
=============================================================================
