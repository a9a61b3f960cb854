------------------------- MODULE MCBufferingFilter -------------------------
(* Instances of BufferingFilter for TLC; the values are in the .cfg files. *)
EXTENDS BufferingFilter
=============================================================================
