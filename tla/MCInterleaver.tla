--------------------------- MODULE MCInterleaver ---------------------------
(* Instances of Interleaver for TLC; the values are in the .cfg file. *)
EXTENDS Interleaver
=============================================================================
