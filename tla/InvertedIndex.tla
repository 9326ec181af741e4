---------------------------- MODULE InvertedIndex ----------------------------
(***************************************************************************)
(* InvertedIndexHelper over AhoCorasickEngine: a trie from keys to leaves  *)
(* and the flag that says whether it was changed since it was built.       *)
(*                                                                         *)
(* A key is a sequence of characters, a node of the trie the path that     *)
(* leads to it: the trie is a function from the paths of its nodes to      *)
(* their leaves.  An operation that changes an index returns the new one.  *)
(***************************************************************************)
EXTENDS Integers, Sequences, FiniteSets

\* leaf_type_traits::NonExistValue(), numeric_limits<LeafType>::max() in the code
CONSTANT NonExistLeaf

\* SubSeq(key, 1, n) for every n: the paths of the nodes on the way to a key
PathsTo(key) == {SubSeq(key, 1, n) : n \in 0 .. Len(key)}

\* the root alone
EmptyTrie == [path \in {<<>>} |-> NonExistLeaf]

NewIndex == [trie |-> EmptyTrie, changed |-> FALSE]

\* mutant: the nodes on the way to a new key are taken over without their leaves
InsertDropsLeaves(index, key, leaf) ==
  IF key = <<>> THEN index
  ELSE [trie |-> [p \in DOMAIN index.trie \cup PathsTo(key) |->
                    IF p = key THEN leaf
                    ELSE IF p \in DOMAIN index.trie \ PathsTo(key) THEN index.trie[p]
                    ELSE NonExistLeaf],
        changed |-> TRUE]

\* Insert: missing nodes are created without a leaf; the empty key is ignored
Insert(index, key, leaf) ==
  IF key = <<>> THEN index
  ELSE [trie |-> [p \in DOMAIN index.trie \cup PathsTo(key) |->
                    IF p = key THEN leaf
                    ELSE IF p \in DOMAIN index.trie THEN index.trie[p]
                    ELSE NonExistLeaf],
        changed |-> TRUE]

Get(index, key) ==
  IF key # <<>> /\ key \in DOMAIN index.trie THEN index.trie[key] ELSE NonExistLeaf

HasKey(index, key) == Get(index, key) # NonExistLeaf

\* mutant: a deleted key takes the keys behind it along
DeleteSubtree(index, key) ==
  IF key = <<>> THEN index
  ELSE [trie |-> [p \in {q \in DOMAIN index.trie : key \notin PathsTo(q)} |-> index.trie[p]],
        changed |-> TRUE]

\* mutant: a deletion does not count as a change
DeleteUnflagged(index, key) ==
  [index EXCEPT !.trie = [p \in DOMAIN index.trie |-> IF p = key THEN NonExistLeaf
                                                     ELSE index.trie[p]]]

\* Delete: the leaf goes, the nodes stay; the flag is set even if no node is there
Delete(index, key) ==
  IF key = <<>> THEN index
  ELSE [trie |-> [p \in DOMAIN index.trie |-> IF p = key THEN NonExistLeaf ELSE index.trie[p]],
        changed |-> TRUE]

\* FindMaxSubKey: how many characters of the key the trie has nodes for
FindMaxSubKey(index, key) ==
  CHOOSE n \in 0 .. Len(key) :
    /\ SubSeq(key, 1, n) \in DOMAIN index.trie
    /\ \A m \in 0 .. Len(key) : SubSeq(key, 1, m) \in DOMAIN index.trie => m <= n

\* the keys that have a leaf
KeysOf(index) == {p \in DOMAIN index.trie : index.trie[p] # NonExistLeaf}
=============================================================================
