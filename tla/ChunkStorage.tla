---------------------------- MODULE ChunkStorage ----------------------------
(***************************************************************************)
(* CompressedChunkStorage (src/voxen/land/compressed_chunk_storage.cpp),   *)
(* which holds the blocks of a chunk: nodes of one value are kept as that  *)
(* value or not at all, and in the other nodes so are leaves.  What is     *)
(* compressed is a function: node -> leaf -> element -> value.             *)
(***************************************************************************)
EXTENDS Integers, Sequences, FiniteSets, SequencesExt

CONSTANTS Storages,
          Values, NODES, LEAVES, ELEMENTS,
          Contents,    \* bound: chunks that are compressed
          Lossy,       \* bound: may storages be asked for what they mix up
          MaxCalls     \* bound: calls of all storages

VARIABLES
  storages,    \* storage -> [nodes, mask, value]: m_nodes (a sequence or Null), m_nonzero_node_mask,
               \*            m_uniform_value; the last two are one union
  stored,      \* storage -> the chunk put into it
  calls

storageVars == <<storages, stored, calls>>

Nodes == 0 .. NODES - 1
Leaves == 0 .. LEAVES - 1
Elements == 0 .. ELEMENTS - 1
Null == <<>>

\* The bits of a mask below one, and their number.
Tail_(mask, i) == {x \in mask : x < i}
CountOf(S) == Cardinality(S)
-----------------------------------------------------------------------------
(* Positions; x, y and z of a block and the indices of its node and leaf   *)

nodeBaseOffset(i) == <<((i \div 4) % 4) * 8, (i \div 16) * 8, (i % 4) * 8>>

leafBaseOffset(base, j) ==
  <<base[1] + ((j \div 4) % 4) * 2, base[2] + (j \div 16) * 2, base[3] + (j % 4) * 2>>

NodeId(x, y, z) == (z \div 8) + (x \div 8) * 4 + (y \div 8) * 16
LeafId(x, y, z) == ((z % 8) \div 2) + ((x % 8) \div 2) * 4 + ((y % 8) \div 2) * 16
ElementId(x, y, z) == (z % 2) + (x % 2) * 2 + (y % 2) * 4

\* load finds a block where the constructor has put it.
\* Checked by the modules that instantiate this one.
PositionsExact ==
  \A x, y, z \in 0 .. 31 :
    leafBaseOffset(nodeBaseOffset(NodeId(x, y, z)), LeafId(x, y, z))
      = <<x - (x % 2), y - (y % 2), z - (z % 2)>>
-----------------------------------------------------------------------------
(* Compression                                                             *)

IsUniform(f) == \A i, j \in DOMAIN f : f[i] = f[j]

\* The values of some leaves, one after the other.
Packed(node, S) == FlattenSeq([i \in 1 .. LEAVES |->
  IF i - 1 \notin S THEN <<>> ELSE [e \in 1 .. ELEMENTS |-> node[i - 1][e - 1]]])
FirstOf(node, S) == FlattenSeq([i \in 1 .. LEAVES |-> IF i - 1 \in S THEN <<node[i - 1][0]>> ELSE <<>>])

\* Whole leaves are allocated for the values of uniform ones.
Padding(n) == [i \in 1 .. (ELEMENTS - (n % ELEMENTS)) % ELEMENTS |-> 0]

Zero(node) == \A j \in Leaves, e \in Elements : node[j][e] = 0

\* construct_node
Node(node) ==
  LET mask == {j \in Leaves : ~ IsUniform(node[j])}
      data == Packed(node, mask) \o FirstOf(node, Leaves \ mask)
  IN  IF mask = {} /\ \A j \in Leaves : node[j][0] = node[0][0]
      THEN [value |-> node[0][0], mask |-> {}, leaves |-> Null]
      ELSE [value |-> 0, mask |-> mask, leaves |-> data \o Padding(CountOf(Leaves \ mask))]

\* The loop over the nodes; it never learns that it has met a uniform node unless the
\* node is zero.
Meet(chunk, w, i) ==
  IF Zero(chunk[i])
  THEN [w EXCEPT !.met = TRUE, !.whole = @ /\ w.value = 0]
  ELSE LET n == Node(chunk[i])
           next == [w EXCEPT !.nodes = Append(@, n), !.mask = @ \cup {i}]
       IN  IF n.leaves # Null THEN [next EXCEPT !.whole = FALSE]
           ELSE IF ~ w.met THEN [next EXCEPT !.value = n.value]
           ELSE [next EXCEPT !.whole = @ /\ w.value = n.value]

UniformOf(v) == [nodes |-> Null, mask |-> {}, value |-> v]

Compressed(chunk) ==
  LET w == FoldLeft(LAMBDA x, i : Meet(chunk, x, i - 1),
                    [nodes |-> <<>>, mask |-> {}, value |-> 0, met |-> FALSE, whole |-> TRUE],
                    [i \in 1 .. NODES |-> i])
  IN  IF w.whole THEN UniformOf(w.value) ELSE [nodes |-> w.nodes, mask |-> w.mask, value |-> 0]
-----------------------------------------------------------------------------
(* Access                                                                  *)

\* (mutant) The leaves that are not uniform are not skipped.
loadUnskipped(s, i, j, e) ==
  IF s.nodes = Null THEN s.value
  ELSE IF i \notin s.mask THEN 0
  ELSE LET n == s.nodes[CountOf(Tail_(s.mask, i)) + 1]
       IN  IF n.leaves = Null THEN n.value
           ELSE IF j \in n.mask THEN n.leaves[CountOf(Tail_(n.mask, j)) * ELEMENTS + e + 1]
           ELSE n.leaves[CountOf(Tail_(Leaves \ n.mask, j)) + 1]

load(s, i, j, e) ==
  IF s.nodes = Null THEN s.value
  ELSE IF i \notin s.mask THEN 0
  ELSE LET n == s.nodes[CountOf(Tail_(s.mask, i)) + 1]
       IN  IF n.leaves = Null THEN n.value
           ELSE IF j \in n.mask THEN n.leaves[CountOf(Tail_(n.mask, j)) * ELEMENTS + e + 1]
           ELSE n.leaves[CountOf(n.mask) * ELEMENTS + CountOf(Tail_(Leaves \ n.mask, j)) + 1]

\* expand walks the nodes, the leaves that are not uniform and the uniform ones with a
\* pointer each.
expandedNode(n) ==
  IF n.leaves = Null THEN [j \in Leaves |-> [e \in Elements |-> n.value]]
  ELSE LET start == CountOf(n.mask) * ELEMENTS
           at[j \in 0 .. LEAVES] ==
             IF j = 0 THEN [full |-> 0, single |-> start]
             ELSE IF j - 1 \in n.mask THEN [at[j - 1] EXCEPT !.full = @ + ELEMENTS]
             ELSE [at[j - 1] EXCEPT !.single = @ + 1]
       IN  [j \in Leaves |-> [e \in Elements |->
              IF j \in n.mask THEN n.leaves[at[j].full + e + 1] ELSE n.leaves[at[j].single + 1]]]

expand(s) ==
  LET used[i \in 0 .. NODES] == IF i = 0 THEN 0 ELSE used[i - 1] + (IF i - 1 \in s.mask THEN 1 ELSE 0)
  IN  [i \in Nodes |->
         IF s.nodes = Null THEN [j \in Leaves |-> [e \in Elements |-> s.value]]
         ELSE IF i \in s.mask THEN expandedNode(s.nodes[used[i] + 1])
         ELSE [j \in Leaves |-> [e \in Elements |-> 0]]]
-----------------------------------------------------------------------------
Called == calls < MaxCalls /\ calls' = calls + 1

\* Chunks the storage takes for one of their values.
MixedUp(chunk) ==
  /\ \A i \in Nodes : ~ Zero(chunk[i]) /\ Node(chunk[i]).leaves = Null
  /\ \E i \in Nodes : chunk[i] # chunk[0]

\* Chunk::setAllBlocks: construction and move assignment, which swaps.
Store(s, chunk) ==
  /\ Lossy \/ ~ MixedUp(chunk)
  /\ storages' = [storages EXCEPT ![s] = Compressed(chunk)]
  /\ stored' = [stored EXCEPT ![s] = chunk]

Compress(s) == Called /\ \E chunk \in Contents : Store(s, chunk)

\* editBlock: the whole chunk is expanded, changed and compressed again.
Edit(s) ==
  /\ Called
  /\ \E i \in Nodes, j \in Leaves, e \in Elements, v \in Values :
       /\ expand(storages[s])[i][j][e] # v
       /\ Store(s, [expand(storages[s]) EXCEPT ![i][j][e] = v])

\* The value is the union's; its node mask is not read again.
SetUniform(s) ==
  /\ Called
  /\ \E v \in Values : /\ storages' = [storages EXCEPT ![s] = UniformOf(v)]
                       /\ stored' = [stored EXCEPT ![s] =
                            [i \in Nodes |-> [j \in Leaves |-> [e \in Elements |-> v]]]]

\* The leaves of a copy are filled with zeros and then copied to the original.
Blank(n) == IF n.leaves = Null THEN n ELSE [n EXCEPT !.leaves = [i \in DOMAIN @ |-> 0]]
Blanked(s) == [s EXCEPT !.nodes = [i \in DOMAIN @ |-> Blank(@[i])]]

\* Copy assignment
Copy(s, t) ==
  /\ Called /\ s # t
  /\ Lossy \/ Blanked(storages[t]) = storages[t]
  /\ storages' = [storages EXCEPT ![s] = Blanked(storages[t]), ![t] = Blanked(@)]
  /\ stored' = [stored EXCEPT ![s] = stored[t]]

\* Move assignment
Move(s, t) ==
  /\ Called /\ s # t
  /\ storages' = [storages EXCEPT ![s] = storages[t], ![t] = storages[s]]
  /\ stored' = [stored EXCEPT ![s] = stored[t], ![t] = stored[s]]

StorageInit ==
  /\ storages = [s \in Storages |-> UniformOf(0)]
  /\ stored = [s \in Storages |-> [i \in Nodes |-> [j \in Leaves |-> [e \in Elements |-> 0]]]]
  /\ calls = 0

StorageNext ==
  \/ \E s \in Storages : Compress(s) \/ Edit(s) \/ SetUniform(s)
  \/ \E s, t \in Storages : Copy(s, t) \/ Move(s, t)

StorageSpec == StorageInit /\ [][StorageNext]_storageVars
-----------------------------------------------------------------------------
(* Properties                                                              *)

\* What was put into a storage comes out of it, block by block and as a whole
\* ("random values round-trip", tests/voxen/land/compressed_chunk_storage.test.cpp).
RoundTrip ==
  \A s \in Storages :
    /\ expand(storages[s]) = stored[s]
    /\ \A i \in Nodes, j \in Leaves, e \in Elements : load(storages[s], i, j, e) = stored[s][i][j][e]
=============================================================================
