----------------------------- MODULE MCMp4Muxer -----------------------------
(***************************************************************************)
(* One picture track and one sound track.  What a file makes of the stream *)
(* depends on the sample it starts with: the sound, which leaves the older *)
(* picture out and lets the next one start late; that older picture, which *)
(* has two successors; a picture that cannot start.                        *)
(***************************************************************************)
EXTENDS Mp4Muxer

V(time, key) == [track |-> "video", key |-> key, time |-> time]
A(time) == [track |-> "audio", key |-> TRUE, time |-> time]

MCStreams == { <<A(1), V(0, TRUE), V(2, TRUE), V(3, FALSE)>> }

MCKinds == <<"NORMAL", "EVENT">>
=============================================================================
