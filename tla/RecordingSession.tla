-------------------------- MODULE RecordingSession --------------------------
(***************************************************************************)
(* What the recorder promises about its output file: files are opened and  *)
(* closed one after the other, never two at a time, a file is announced as *)
(* what it was opened for when it is closed, and, where names are promised, *)
(* it got its name from the callback registered for files of that kind.     *)
(***************************************************************************)
EXTENDS Naturals

Kind == {"NORMAL", "EVENT"}
NoFile == [kind |-> "NONE", name |-> "NONE"]
OpenFile == [kind : Kind, name : Kind]

VARIABLES
    named,      \* TRUE in a behaviour that promises right names
    file,       \* the file being recorded, or NoFile
    handles,    \* file handles that are open
    notes       \* the file announced last

svars == <<named, file, handles, notes>>

Init == named \in BOOLEAN /\ file = NoFile /\ handles = 0 /\ notes = NoFile

Open ==
    /\ file = NoFile /\ handles = 0
    /\ file' \in OpenFile
    /\ named => file'.name = file'.kind
    /\ handles' = 1
    /\ UNCHANGED <<named, notes>>

Close ==
    /\ file # NoFile /\ handles = 1
    /\ file' = NoFile /\ handles' = 0 /\ notes' = file
    /\ UNCHANGED named

Next == Open \/ Close
Spec == Init /\ [][Next]_svars
=============================================================================
