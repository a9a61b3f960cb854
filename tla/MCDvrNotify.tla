---------------------------- MODULE MCDvrNotify ----------------------------
(* CNX_DvrNotify on small instances. *)
EXTENDS DvrNotify
=============================================================================
