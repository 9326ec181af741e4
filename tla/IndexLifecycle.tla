---------------------------- MODULE IndexLifecycle ----------------------------
(***************************************************************************)
(* An index as PVManager uses it: keys come and go, and between two        *)
(* sessions it is serialized and built again.  stored is what its caller   *)
(* asked it to remember.                                                   *)
(***************************************************************************)
EXTENDS IndexSerialization

CONSTANTS
  Keys,      \* keys of the caller
  Leaves     \* leaves of the caller

ASSUME KeysAssumption ==
  /\ Keys \subseteq Seq(STRING) /\ <<>> \notin Keys
  /\ NonExistLeaf \notin Leaves

VARIABLES index, stored

Init == index = NewIndex /\ stored = [k \in {} |-> NonExistLeaf]

InsertKey(key, leaf) ==
  /\ index' = Insert(index, key, leaf)
  /\ stored' = [k \in DOMAIN stored \cup {key} |-> IF k = key THEN leaf ELSE stored[k]]

DeleteKey(key) ==
  /\ index' = Delete(index, key)
  /\ stored' = [k \in DOMAIN stored \ {key} |-> stored[k]]

\* close and load: the nodes are visited in whatever order their maps have them
Reload ==
  /\ \E place \in Places(index.trie) :
       index' = [trie |-> Deserialize(Serialize(index.trie, place)), changed |-> FALSE]
  /\ UNCHANGED stored

Next ==
  \/ \E key \in Keys :
       \/ \E leaf \in Leaves : InsertKey(key, leaf)
       \/ DeleteKey(key)
  \/ Reload

vars == <<index, stored>>

Spec == Init /\ [][Next]_vars

-----------------------------------------------------------------------------
\* The index has a leaf for the keys that were inserted and not deleted since,
\* the one inserted last, and for no other path: not for the catalogs on the way.
RemembersKeys ==
  /\ KeysOf(index) = DOMAIN stored
  /\ \A k \in DOMAIN stored : Get(index, k) = stored[k]

\* Whatever the order of the children in memory, the trie that is built from the
\* descriptors is the one they were taken from, with the nodes that lost their leaf.
RoundTrip == [][index.changed /\ ~index'.changed => index'.trie = index.trie]_vars

\* A session that ends without is_changed() leaves the serialized index of the
\* last one in use: a step that changes what the index remembers sets the flag.
ChangesAreFlagged ==
  [][KeysOf(index') # KeysOf(index) \/ (\E k \in KeysOf(index) : Get(index', k) # Get(index, k))
       => index'.changed]_vars

\* The part of a key that FindMaxSubKey finds only grows, as nodes are never
\* removed: HasCatalog and Storage keep finding the catalogs of deleted keys.
CatalogsStay == [][\A k \in Keys : FindMaxSubKey(index, k) <= FindMaxSubKey(index', k)]_vars
=============================================================================
