---------------------------- MODULE MCVideoPath ----------------------------
(* The instance of VideoPath for TLC; the values are in the .cfg file. *)
EXTENDS VideoPath
=============================================================================
