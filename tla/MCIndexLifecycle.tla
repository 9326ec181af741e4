--------------------------- MODULE MCIndexLifecycle ---------------------------
(***************************************************************************)
(* An index over two characters: keys that are catalogs of one another,    *)
(* keys that share a catalog and keys that share nothing.                  *)
(***************************************************************************)
EXTENDS IndexLifecycle

SomeKeys == {<<"a">>, <<"a", "a">>, <<"a", "b">>, <<"b", "a", "b">>}
=============================================================================
