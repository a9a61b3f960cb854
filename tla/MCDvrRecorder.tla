--------------------------- MODULE MCDvrRecorder ---------------------------
(* Instances of DvrRecorder for TLC; the values are in the .cfg files. *)
EXTENDS DvrRecorder

(* Durations are tens of seconds (NX_DvrMain.c), a group of pictures is half *)
(* a second.                                                                 *)
ASSUME SlowTimersAssumption == SlowTimers
=============================================================================
