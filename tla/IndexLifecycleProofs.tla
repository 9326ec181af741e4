------------------------- MODULE IndexLifecycleProofs -------------------------
(***************************************************************************)
(* An index remembers its keys, whatever the keys, the leaves and the      *)
(* number of sessions.                                                     *)
(***************************************************************************)
EXTENDS IndexLifecycle, IndexSerializationProofs

\* Nodes make a trie, leaves what the caller stored.
IndexInv ==
  /\ IsTrie(index.trie)
  /\ DOMAIN stored \subseteq Keys
  /\ RemembersKeys

LEMMA KeysArePaths == \A key \in Keys : key \in Path /\ key # <<>>
BY KeysAssumption DEF KeysAssumption, Path

LEMMA InitialIndex == Init => IndexInv
<1> SUFFICES ASSUME Init PROVE IndexInv
  OBVIOUS
<1>1. index = [trie |-> EmptyTrie, changed |-> FALSE] /\ DOMAIN stored = {}
  BY DEF Init, NewIndex
<1> QED BY <1>1, EmptyIsTrie DEF IndexInv, RemembersKeys

\* What the actions do to the index and to what is stored.
LEMMA InsertStep ==
  ASSUME IndexInv, NEW key \in Keys, NEW leaf \in Leaves, InsertKey(key, leaf)
  PROVE  /\ IndexInv' /\ index'.changed = TRUE
         /\ DOMAIN index.trie \subseteq DOMAIN index'.trie
<1>1. key \in Path /\ key # <<>> /\ leaf # NonExistLeaf
  BY KeysArePaths, KeysAssumption DEF KeysAssumption
<1>2. /\ IsTrie(index'.trie) /\ index'.changed = TRUE
      /\ DOMAIN index'.trie = DOMAIN index.trie \cup PathsTo(key)
      /\ \A k : Get(index', k) = IF k = key THEN leaf ELSE Get(index, k)
      /\ KeysOf(index') = KeysOf(index) \cup {key}
  <2> DEFINE new == Insert(index, key, leaf)
  <2>1. IsTrie(index.trie)
    BY DEF IndexInv
  <2>3. /\ IsTrie(new.trie) /\ new.changed = TRUE
        /\ DOMAIN new.trie = DOMAIN index.trie \cup PathsTo(key)
        /\ \A k : Get(new, k) = IF k = key THEN leaf ELSE Get(index, k)
        /\ leaf # NonExistLeaf => KeysOf(new) = KeysOf(index) \cup {key}
    BY ONLY <1>1, <2>1, InsertAddsKey
  <2>2. index' = new
    BY DEF InsertKey
  <2> HIDE DEF new
  <2> QED BY <1>1, <2>2, <2>3
<1>3. /\ DOMAIN stored' = DOMAIN stored \cup {key}
      /\ \A k \in DOMAIN stored' : stored'[k] = IF k = key THEN leaf ELSE stored[k]
  BY DEF InsertKey
<1>4. RemembersKeys'
  BY <1>2, <1>3 DEF IndexInv, RemembersKeys
<1> QED BY <1>2, <1>3, <1>4 DEF IndexInv

LEMMA DeleteStep ==
  ASSUME IndexInv, NEW key \in Keys, DeleteKey(key)
  PROVE  /\ IndexInv' /\ index'.changed = TRUE
         /\ DOMAIN index.trie \subseteq DOMAIN index'.trie
<1>1. key \in Path /\ key # <<>>
  BY KeysArePaths
<1>2. /\ IsTrie(index'.trie) /\ index'.changed = TRUE
      /\ DOMAIN index'.trie = DOMAIN index.trie
      /\ \A k : Get(index', k) = IF k = key THEN NonExistLeaf ELSE Get(index, k)
      /\ KeysOf(index') = KeysOf(index) \ {key}
  BY <1>1, DeleteRemovesKey DEF DeleteKey, IndexInv
<1>3. /\ DOMAIN stored' = DOMAIN stored \ {key}
      /\ \A k \in DOMAIN stored' : stored'[k] = stored[k]
  BY DEF DeleteKey
<1>4. RemembersKeys'
  BY <1>2, <1>3 DEF IndexInv, RemembersKeys
<1> QED BY <1>2, <1>3, <1>4 DEF IndexInv

LEMMA ReloadStep ==
  ASSUME IndexInv, Reload
  PROVE  IndexInv' /\ index'.trie = index.trie
<1>1. index'.trie = index.trie /\ stored' = stored
  BY TriesComeBack DEF Reload, IndexInv
<1>2. \A k : Get(index', k) = Get(index, k)
  BY <1>1 DEF Get
<1>3. KeysOf(index') = KeysOf(index)
  BY <1>1 DEF KeysOf
<1> QED BY <1>1, <1>2, <1>3 DEF IndexInv, RemembersKeys

LEMMA UnchangedStep ==
  ASSUME IndexInv, UNCHANGED vars
  PROVE  IndexInv'
BY DEF vars, IndexInv, RemembersKeys

LEMMA IndexStep == IndexInv /\ [Next]_vars => IndexInv'
<1> SUFFICES ASSUME IndexInv, [Next]_vars PROVE IndexInv'
  OBVIOUS
<1>1. ASSUME NEW key \in Keys, NEW leaf \in Leaves, InsertKey(key, leaf) PROVE IndexInv'
  BY <1>1, InsertStep
<1>2. ASSUME NEW key \in Keys, DeleteKey(key) PROVE IndexInv'
  BY <1>2, DeleteStep
<1>3. CASE Reload
  BY <1>3, ReloadStep
<1>4. CASE UNCHANGED vars
  BY <1>4, UnchangedStep
<1> QED BY <1>1, <1>2, <1>3, <1>4 DEF Next

LEMMA IndexInvariant == Spec => []IndexInv
<1> QED BY InitialIndex, IndexStep, PTL DEF Spec

\* After any sequence of insertions, deletions and sessions the index has the keys that
\* were inserted and not deleted since, with the leaf inserted last, and no others.
THEOREM KeysAreRemembered == Spec => []RemembersKeys
<1>1. IndexInv => RemembersKeys
  BY DEF IndexInv
<1> QED BY <1>1, IndexInvariant, PTL

\* What Deserialize builds of the descriptors of a changed index is that index, in
\* whatever order the maps of its nodes have their children.
THEOREM IndexComesBack == Spec => RoundTrip
<1>1. IndexInv /\ [Next]_vars => [index.changed /\ ~index'.changed => index'.trie = index.trie]_vars
  <2> SUFFICES ASSUME IndexInv, Next, index.changed, ~index'.changed
               PROVE  index'.trie = index.trie
    OBVIOUS
  <2>1. ASSUME NEW key \in Keys, NEW leaf \in Leaves, InsertKey(key, leaf) PROVE FALSE
    BY <2>1, InsertStep
  <2>2. ASSUME NEW key \in Keys, DeleteKey(key) PROVE FALSE
    BY <2>2, DeleteStep
  <2>3. Reload
    BY <2>1, <2>2 DEF Next
  <2> QED BY <2>3, ReloadStep
<1> QED BY <1>1, IndexInvariant, PTL DEF Spec, RoundTrip

\* The flag that makes close() write the index is set by every step that changes what
\* the index remembers.
THEOREM EveryChangeIsFlagged == Spec => ChangesAreFlagged
<1> DEFINE Flagged ==
      KeysOf(index') # KeysOf(index) \/ (\E k \in KeysOf(index) : Get(index', k) # Get(index, k))
        => index'.changed
<1>1. IndexInv /\ [Next]_vars => [Flagged]_vars
  <2> SUFFICES ASSUME IndexInv, Next PROVE Flagged
    OBVIOUS
  <2>1. ASSUME NEW key \in Keys, NEW leaf \in Leaves, InsertKey(key, leaf) PROVE Flagged
    BY <2>1, InsertStep
  <2>2. ASSUME NEW key \in Keys, DeleteKey(key) PROVE Flagged
    BY <2>2, DeleteStep
  <2>3. CASE Reload
    BY <2>3, ReloadStep DEF KeysOf, Get
  <2> QED BY <2>1, <2>2, <2>3 DEF Next
<1> QED BY <1>1, IndexInvariant, PTL DEF Spec, ChangesAreFlagged

\* What HasCatalog and Storage find of a key they find for ever: no operation, and no
\* session, removes a node.
THEOREM CatalogsAreKept == Spec => CatalogsStay
<1> DEFINE Kept == \A k \in Keys : FindMaxSubKey(index, k) <= FindMaxSubKey(index', k)
<1>1. IndexInv /\ [Next]_vars => [Kept]_vars
  <2> SUFFICES ASSUME IndexInv, Next PROVE Kept
    OBVIOUS
  <2>1. IndexInv'
    BY IndexStep
  <2>2. DOMAIN index.trie \subseteq DOMAIN index'.trie
    <3>1. ASSUME NEW key \in Keys, NEW leaf \in Leaves, InsertKey(key, leaf)
          PROVE  DOMAIN index.trie \subseteq DOMAIN index'.trie
      BY <3>1, InsertStep
    <3>2. ASSUME NEW key \in Keys, DeleteKey(key) PROVE DOMAIN index.trie \subseteq DOMAIN index'.trie
      BY <3>2, DeleteStep
    <3>3. CASE Reload
      BY <3>3, ReloadStep
    <3> QED BY <3>1, <3>2, <3>3 DEF Next
  <2>3. ASSUME NEW k \in Keys PROVE FindMaxSubKey(index, k) <= FindMaxSubKey(index', k)
    <3>1. k \in Path /\ IsTrie(index.trie) /\ IsTrie(index'.trie)
      BY <2>1, KeysArePaths DEF IndexInv
    <3>2. FindMaxSubKey(index, k) \in 0 .. Len(k) /\ Prefix(k, FindMaxSubKey(index, k)) \in DOMAIN index'.trie
      BY <2>2, <3>1, MaxSubKey
    <3> QED BY <3>1, <3>2, MaxSubKey
  <2> QED BY <2>3
<1> QED BY <1>1, IndexInvariant, PTL DEF Spec, CatalogsStay
=============================================================================
