------------------------------ MODULE MCStorage ------------------------------
(***************************************************************************)
(* Storage with paths behind one another: the key is one of the catalog    *)
(* that is mounted at the first, until something is mounted at the second  *)
(* or the third; the third is not a path of the key, only its way is.      *)
(***************************************************************************)
EXTENDS Storage

ThreePaths == {<<"a">>, <<"a", "b">>, <<"a", "b", "b">>}
OnePath == {<<"a">>}
OneKey == {<<"a", "b", "x">>}
OneCatalog == {<<"c">>}

\* a priority that is negative and one that is not
SignedPriorities ==
  LET first == CHOOSE v \in Volumes : TRUE
  IN  [v \in Volumes |-> IF v = first THEN 1 ELSE -1]

\* volumes that have a value whose date passes
DatedStore == [k \in {<<"c", "b", "x">>} |-> [value |-> "old", expires |-> 0]]
Dated == {DatedStore}

Same(date) == date
=============================================================================
