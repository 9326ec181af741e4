-------------------------- MODULE MCPVManagerFactory --------------------------
(***************************************************************************)
(* PVManagerFactory with a file of one path, and one that a symbolic link  *)
(* leads to as well.                                                       *)
(***************************************************************************)
EXTENDS PVManagerFactory

\* fs::canonical gives the path of a file, and of a link the file's path
LinkToFile == [path \in Paths |-> IF path = "link" THEN "file" ELSE path]
=============================================================================
