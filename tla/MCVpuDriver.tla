---------------------------- MODULE MCVpuDriver ----------------------------
(* One instance of each kind at most; a second decoder finds the limit.    *)
EXTENDS VpuDriver
=============================================================================
