---------------------------- MODULE WritingFlags ----------------------------
(***************************************************************************)
(* How CNX_BufferingFilter::PushStream turns the requests that the manager *)
(* left in the filter's fields into the start and stop flags it delivers   *)
(* to the writer when a key frame closes a unit of about one second.       *)
(*                                                                         *)
(* Requests are booleans, not a queue: what is asked between two key       *)
(* frames is seen as a set and answered in the fixed order stop, start,    *)
(* change, event.  A control record holds                                  *)
(*    mode    m_BufferingMode   "OTHER" is the uninitialised value         *)
(*    status  m_Status                                                     *)
(*    start, stop, change, pop  m_bStartFile, m_bStopFile, m_bChangeFile,  *)
(*                              m_bPopBufferdData                          *)
(***************************************************************************)
EXTENDS Sequences

Modes == {"BOTH", "EVENT_ONLY"}
Statuses == {"NORMAL", "EVENT"}
FileFlags == {"NORMAL_START", "NORMAL_STOP", "EVENT_START", "EVENT_STOP"}

Control == [mode : Modes \cup {"OTHER"}, status : Statuses,
            start : BOOLEAN, stop : BOOLEAN, change : BOOLEAN, pop : BOOLEAN]

(* The constructor's values; m_BufferingMode is not in its initialiser list. *)
ControlInit == [mode : Modes \cup {"OTHER"}, status : {"NORMAL"},
                start : {FALSE}, stop : {FALSE}, change : {FALSE}, pop : {FALSE}]

(* m_Status when the start, change and event requests are looked at. *)
StatusAfterStop(c) == IF c.stop THEN "NORMAL" ELSE c.status

StopFlags(c) ==
    IF ~c.stop THEN <<>>
    ELSE IF c.status = "EVENT" THEN <<"EVENT_STOP">> ELSE <<"NORMAL_STOP">>

StartFlags(c) == IF c.start THEN <<"NORMAL_START">> ELSE <<>>

ChangeFlags(c) ==
    IF ~c.change \/ c.mode \notin Modes THEN <<>>
    ELSE IF c.mode = "EVENT_ONLY" THEN <<"EVENT_STOP">>
    ELSE IF StatusAfterStop(c) = "EVENT" THEN <<"EVENT_STOP", "NORMAL_START">>
    ELSE <<"NORMAL_STOP", "NORMAL_START">>

EventFlagsWithoutStop(c) == IF c.pop THEN <<"EVENT_START">> ELSE <<>>
EventFlags(c) ==
    IF ~c.pop THEN <<>>
    ELSE IF c.mode = "BOTH" THEN <<"NORMAL_STOP", "EVENT_START">>
    ELSE <<"EVENT_START">>

(* Everything one key frame sends ahead of the samples. *)
FlagsOf(c) == StopFlags(c) \o StartFlags(c) \o ChangeFlags(c) \o EventFlags(c)

(* The control fields once the key frame has been handled. *)
Answered(c) ==
    [c EXCEPT !.status = IF c.pop THEN "EVENT"
                         ELSE IF c.change /\ c.mode \in Modes THEN "NORMAL"
                         ELSE StatusAfterStop(c),
              !.start = FALSE, !.stop = FALSE, !.change = FALSE, !.pop = FALSE]

(* Whether a closed unit is delivered as it enters the event buffer. *)
DeliversUnitInBothOnly(c) == c.mode = "BOTH"
DeliversUnit(c) ==
    \/ c.mode = "BOTH"
    \/ c.mode = "EVENT_ONLY" /\ c.status = "EVENT"
=============================================================================
