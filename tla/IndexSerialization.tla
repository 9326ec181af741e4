-------------------------- MODULE IndexSerialization --------------------------
(***************************************************************************)
(* AhoCorasickSerializationHelper: a trie as two lists of descriptors, one *)
(* of its leaves and one of its nodes, and the trie that is built from     *)
(* them again.                                                             *)
(***************************************************************************)
EXTENDS InvertedIndex

\* id_type_traits::NonExistValue(), the maximum of the type of node ids
NonExistId == -1

\* what Deserialize throws for
CorruptTrie == <<>>

Parent(path) == SubSeq(path, 1, Len(path) - 1)

(***************************************************************************)
(* The children of a node are visited in the order of its unordered_map,   *)
(* which may be any: place gives every node its place among its siblings.  *)
(***************************************************************************)
Places(trie) ==
  LET nodes == DOMAIN trie \ {<<>>}
      Siblings(p) == {q \in nodes : Len(q) = Len(p) /\ Parent(q) = Parent(p)}
      most == {Cardinality(Siblings(p)) : p \in nodes}
  IN  {place \in [nodes -> UNION {1 .. n : n \in most}] :
         \A p \in nodes : \A q \in Siblings(p) \ {p} : place[p] # place[q]}

\* the numbers that the breadth-first search gives to the nodes: level by level,
\* on one level in the order of the nodes of the level above
NodeIds(trie, place) ==
  LET Before(p, q) ==
        \/ Len(p) < Len(q)
        \/ /\ Len(p) = Len(q)
           /\ \E n \in 1 .. Len(p) :
                /\ SubSeq(p, 1, n - 1) = SubSeq(q, 1, n - 1)
                /\ place[SubSeq(p, 1, n)] < place[SubSeq(q, 1, n)]
  IN  [p \in DOMAIN trie |-> Cardinality({q \in DOMAIN trie : Before(q, p)})]

\* serialized_leafs: the leaves in the order of their nodes
SerializedLeafs(trie, id) ==
  LET leafed == {p \in DOMAIN trie : trie[p] # NonExistLeaf}
      Nth(n) == CHOOSE p \in leafed : Cardinality({q \in leafed : id[q] <= id[p]}) = n
  IN  [n \in 1 .. Cardinality(leafed) |-> [node_id |-> id[Nth(n)], leaf |-> trie[Nth(n)]]]

\* serialized_nodes: the nodes in the order of their numbers, the root first
SerializedNodes(trie, id) ==
  LET leafed == {p \in DOMAIN trie : trie[p] # NonExistLeaf}
      LeafId(p) == IF p \in leafed THEN Cardinality({q \in leafed : id[q] < id[p]})
                   ELSE NonExistId
      Nth(n) == CHOOSE p \in DOMAIN trie : id[p] = n - 1
      Descriptor(p) ==
        [node_id |-> id[p], parent |-> IF p = <<>> THEN 0 ELSE id[Parent(p)],
         depth |-> Len(p), leaf_id |-> LeafId(p),
         ch |-> IF p = <<>> THEN "/" ELSE p[Len(p)]]
  IN  [n \in 1 .. Cardinality(DOMAIN trie) |-> Descriptor(Nth(n))]

Serialize(trie, place) ==
  LET id == NodeIds(trie, place)
  IN  [leafs |-> SerializedLeafs(trie, id), nodes |-> SerializedNodes(trie, id)]

-----------------------------------------------------------------------------
\* mutant: the nodes of the level before are kept one level too long
LevelKept(builder, node) == builder.depth + 1 < node.depth

\* the first node of a level moves the nodes of the one before to previous_level_nodes
StartsLevel(builder, node) == builder.depth < node.depth

\* the state in which the root alone is extracted; a leaf of the root is not looked at
RootExtracted(root) ==
  [trie |-> EmptyTrie, previous |-> [n \in {root.node_id} |-> <<>>], current |-> <<>>,
   depth |-> 1, valid |-> root.node_id = root.parent]

\* the leaf of a node: the descriptor that names the node, if it has a leaf at all
LeafOf(leafs, node) ==
  IF node.leaf_id = NonExistId THEN {NonExistLeaf}
  ELSE {leafs[i].leaf : i \in {j \in DOMAIN leafs : leafs[j].node_id = node.node_id}}

\* one turn of the loop over the other nodes
NodeExtracted(builder, leafs, node) ==
  LET previous == IF StartsLevel(builder, node) THEN builder.current ELSE builder.previous
      current  == IF StartsLevel(builder, node) THEN <<>> ELSE builder.current
      path     == Append(previous[node.parent], node.ch)
  IN  IF ~builder.valid \/ node.parent \notin DOMAIN previous \/ LeafOf(leafs, node) = {}
      THEN [builder EXCEPT !.valid = FALSE]
      ELSE [trie |-> [p \in DOMAIN builder.trie \cup {path} |->
                        IF p = path THEN CHOOSE l \in LeafOf(leafs, node) : TRUE
                        ELSE builder.trie[p]],
            previous |-> previous,
            current |-> [n \in DOMAIN current \cup {node.node_id} |->
                           IF n = node.node_id THEN path ELSE current[n]],
            depth |-> IF StartsLevel(builder, node) THEN builder.depth + 1 ELSE builder.depth,
            valid |-> TRUE]

Deserialize(buffer) ==
  LET count == Len(buffer.nodes)
      built[n \in 1 .. count] ==
        IF n = 1 THEN RootExtracted(buffer.nodes[1])
        ELSE NodeExtracted(built[n - 1], buffer.leafs, buffer.nodes[n])
  IN  IF count = 0 THEN EmptyTrie
      ELSE IF built[count].valid THEN built[count].trie ELSE CorruptTrie
=============================================================================
