---------------------------- MODULE MCFileWriter ----------------------------
(* Instances of FileWriter for TLC; the values are in the .cfg files. *)
EXTENDS FileWriter

NormalThenEvent == <<"NORMAL", "EVENT">>
NormalOnly == <<"NORMAL">>
=============================================================================
