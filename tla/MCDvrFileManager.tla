-------------------------- MODULE MCDvrFileManager --------------------------
(* The file manager on small instances. *)
EXTENDS DvrFileManager
=============================================================================
