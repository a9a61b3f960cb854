----------------------------- MODULE VpuDriver -----------------------------
(***************************************************************************)
(* The kernel driver of the video codec (coda960): the pool of instances,  *)
(* the power of the unit, and the commands the processes run on the one    *)
(* unit, with its interrupt, the time limits and the signals that break a  *)
(* wait off.                                                               *)
(*                                                                         *)
(* A call holds gstDrvMutex from end to end, so one is inside the driver   *)
(* at a time; the clock of the unit is on just as long.  The unit and its  *)
(* interrupt handler run beside it.                                        *)
(***************************************************************************)
EXTENDS Integers, FiniteSets

CONSTANTS
    Encoders, Decoders, \* files opened for an encoder, for a decoder
    NumSlots,           \* NX_MAX_VPU_INST_SPACE
    MaxInstance,        \* NX_MAX_VPU_INSTANCE
    MaxEnc,             \* NX_MAX_VPU_ENC_INST
    MaxDec,             \* NX_MAX_VPU_DEC_INST
    MaxOpen,            \* bound: times a file is opened
    MaxCommand,         \* bound: commands issued
    MaxFault            \* bound: copies to the user that fail

File == Encoders \cup Decoders
Slot == 1..NumSlots
ASSUME FileAssumption == Encoders \cap Decoders = {} /\ "none" \notin File
ASSUME LimitAssumption ==
    /\ {NumSlots, MaxInstance, MaxEnc, MaxDec} \subseteq Nat \ {0}
    /\ NumSlots = MaxEnc + MaxDec
ASSUME BoundAssumption == {MaxOpen, MaxCommand, MaxFault} \subseteq Nat

(* What a command does in the unit.  POLLED stands for SET_FRAME_BUF,      *)
(* ENCODE_HEADER, RC_CHANGE_PARAMETER and DEC_BUF_FLUSH, whose end is      *)
(* polled like that of SEQ_END and raises no interrupt.                    *)
Op == {"SEQ_INIT", "PIC_RUN", "POLLED", "SEQ_END"}
Waited == {"SEQ_INIT", "PIC_RUN"}

VARIABLES
    opened,             \* files that are open
    private_data,       \* per file: its slot, 0 if none
    slots,              \* gstVpuInstance; needMoreFrame is 0 or a command to go on with
    gstCurNumInstance, gstCruEncInstance, gstCruDecInstance,
    gstIsInitialized, gstIsVPUOn,
    user,               \* the file whose call holds gstDrvMutex, "none"
    upc,                \* where that call is
    cmd,                \* [n, op, slot]: the command it waits for; those that
                        \* raise an interrupt are numbered
    closing,            \* TRUE in the close of a file, FALSE in an ioctl
    unit,               \* [state, n, op, slot]: what the unit works on
    reason,             \* BIT_INT_REASON: whose it is, and the bit
    irq,                \* TRUE while the interrupt line is raised
    gVpuEventPresent,
    \* for the properties only:
    adrift,             \* TRUE from when a wait is given up with its interrupt on
                        \* the way, or a call returns from a unit it could not
                        \* stop, to the next SEQ_END that leaves nothing
    dropped,            \* the paused commands the driver will not go on with
    issued, opens, faults

pool == <<opened, private_data, slots, gstCurNumInstance, gstCruEncInstance,
          gstCruDecInstance>>
power == <<gstIsInitialized, gstIsVPUOn>>
caller == <<user, upc, cmd, closing>>
interrupt == <<reason, irq, gVpuEventPresent>>
history == <<adrift, dropped>>
counts == <<issued, opens, faults>>
vars == <<pool, power, caller, unit, interrupt, history, counts>>

FreeSlot == [inUse |-> FALSE, codec |-> "dec", isInitialized |-> FALSE, needMoreFrame |-> 0]
NoCommand == [n |-> 0, op |-> "POLLED", slot |-> 1]
NoReason == [n |-> 0, bit |-> "none"]
Idle == [state |-> "idle", n |-> 0, op |-> "POLLED", slot |-> 1]

Init ==
    /\ opened = {} /\ private_data = [f \in File |-> 0]
    /\ slots = [i \in Slot |-> FreeSlot]
    /\ gstCurNumInstance = 0 /\ gstCruEncInstance = 0 /\ gstCruDecInstance = 0
    \* nx_vpu_init has switched the unit on and loaded it
    /\ gstIsInitialized = TRUE /\ gstIsVPUOn = TRUE
    /\ user = "none" /\ upc = "none" /\ closing = FALSE
    /\ cmd = NoCommand
    /\ unit = Idle /\ reason = NoReason /\ irq = FALSE
    /\ gVpuEventPresent = FALSE
    /\ adrift = FALSE /\ dropped = {}
    /\ issued = 0 /\ opens = 0 /\ faults = 0

(***************************************************************************)
(* nx_vpu_open                                                             *)
(***************************************************************************)
OpenRefused == gstCurNumInstance >= MaxInstance

(* NX_VpuInit for the first file: the unit is switched on and loaded, and  *)
(* the slots are all free once it answers.  It is not done twice, and that *)
(* it does not answer in time is reported as success.                      *)
VpuInit ==
    IF gstCurNumInstance = 0 /\ ~gstIsInitialized
      THEN /\ gstIsVPUOn' = TRUE
           /\ unit' = Idle /\ reason' = NoReason /\ irq' = FALSE
           /\ \/ /\ gstIsInitialized' = TRUE
                 /\ slots' = [i \in Slot |-> [slots[i] EXCEPT !.inUse = FALSE]]
              \/ UNCHANGED <<gstIsInitialized, slots>>
      ELSE UNCHANGED <<power, slots, unit, reason, irq>>

Open(f) ==
    /\ user = "none" /\ f \notin opened /\ opens < MaxOpen
    /\ opens' = opens + 1
    /\ IF OpenRefused
         THEN UNCHANGED <<opened, private_data, slots, gstCurNumInstance, power, unit, reason,
                          irq>>
         ELSE /\ VpuInit
              /\ opened' = opened \cup {f}
              /\ private_data' = [private_data EXCEPT ![f] = 0]
              /\ gstCurNumInstance' = gstCurNumInstance + 1
    /\ UNCHANGED <<gstCruEncInstance, gstCruDecInstance, caller, gVpuEventPresent, history,
                   issued, faults>>

(***************************************************************************)
(* IOCTL_VPU_OPEN_INSTANCE: NX_VpuEncOpen, NX_VpuDecOpen.                  *)
(***************************************************************************)
LimitReached(f) ==
    IF f \in Encoders THEN gstCruEncInstance >= MaxEnc ELSE gstCruDecInstance >= MaxDec

FoundLast(i) == i = NumSlots \/ (~slots[i].inUse /\ \A j \in 1..(i - 1) : slots[j].inUse)
Found(i) == ~slots[i].inUse /\ \A j \in 1..(i - 1) : slots[j].inUse

(* The library opens one instance per file.  If its answer cannot be       *)
(* copied to the user the slot stays in use, and belongs to nobody.        *)
OpenInstance(f) ==
    /\ user = "none" /\ f \in opened /\ private_data[f] = 0
    /\ gstIsInitialized /\ ~LimitReached(f)
    /\ \E i \in Slot :
        /\ Found(i)
        /\ slots' = [slots EXCEPT ![i].inUse = TRUE,
                                  ![i].codec = IF f \in Encoders THEN "enc" ELSE "dec",
                                  ![i].needMoreFrame = 0]
        /\ \/ /\ private_data' = [private_data EXCEPT ![f] = i]
              /\ gstCruEncInstance' = gstCruEncInstance + (IF f \in Encoders THEN 1 ELSE 0)
              /\ gstCruDecInstance' = gstCruDecInstance + (IF f \in Decoders THEN 1 ELSE 0)
              /\ UNCHANGED faults
           \/ /\ faults < MaxFault /\ faults' = faults + 1
              /\ UNCHANGED <<private_data, gstCruEncInstance, gstCruDecInstance>>
    /\ UNCHANGED <<opened, gstCurNumInstance, power, caller, unit, interrupt, history,
                   issued, opens>>

(***************************************************************************)
(* Commands: VpuBitIssueCommand.                                           *)
(***************************************************************************)
(* The unit is not looked at before.  One that is still at work either     *)
(* takes up the new command and drops the old one, or misses the new one.  *)
Issue(f, op, slot) ==
    LET n == IF op \in Waited THEN issued + 1 ELSE 0
    IN  /\ op \in Waited => issued < MaxCommand
        /\ issued' = IF op \in Waited THEN n ELSE issued
        /\ user' = f /\ cmd' = [n |-> n, op |-> op, slot |-> slot]
        /\ upc' = IF op \in Waited THEN "wait" ELSE "busy"
        /\ \/ unit' = [state |-> "run", n |-> n, op |-> op, slot |-> slot]
           \/ unit.state # "idle" /\ UNCHANGED unit

Calls(f) == user = "none" /\ f \in opened /\ private_data[f] # 0
SlotOf(f) == slots[private_data[f]]

(* The commands in the order of the library: the sequence first.  A decoder *)
(* that ran out of data goes on (MoreData), but for its polled commands:    *)
(* DEC_BUF_FLUSH is issued all the same, and needMoreFrame stays.           *)
Command(f) ==
    /\ Calls(f)
    /\ \E op \in IF SlotOf(f).isInitialized THEN {"PIC_RUN", "POLLED"} ELSE {"SEQ_INIT"} :
          /\ SlotOf(f).needMoreFrame = 0 \/ op = "POLLED"
          /\ Issue(f, op, private_data[f])
    /\ UNCHANGED <<pool, power, closing, interrupt, history, opens, faults>>

(* A decoder that ran out of data: the command is not issued again, the    *)
(* unit is told of the new data and goes on with it.                       *)
MoreData(f) ==
    /\ Calls(f) /\ SlotOf(f).needMoreFrame # 0
    /\ LET n == SlotOf(f).needMoreFrame
       IN  /\ cmd' = [n |-> n, slot |-> private_data[f],
                      op |-> IF SlotOf(f).isInitialized THEN "PIC_RUN" ELSE "SEQ_INIT"]
           /\ unit' = IF unit.state = "paused" /\ unit.n = n
                        THEN [unit EXCEPT !.state = "run"] ELSE unit
    /\ slots' = [slots EXCEPT ![private_data[f]].needMoreFrame = 0]
    /\ user' = f /\ upc' = "wait"
    /\ UNCHANGED <<opened, private_data, gstCurNumInstance, gstCruEncInstance,
                   gstCruDecInstance, power, closing, interrupt, history, counts>>

(***************************************************************************)
(* The unit and VPU_InterruptHandler.  The unit stands still without its   *)
(* clock, that is, while no call is in the driver.                         *)
(***************************************************************************)
UnitDone ==
    /\ unit.state = "run" /\ user # "none"
    /\ unit' = Idle
    /\ IF unit.op \in Waited
         THEN reason' = [n |-> unit.n, bit |-> unit.op] /\ irq' = TRUE
         ELSE UNCHANGED <<reason, irq>>
    /\ UNCHANGED <<pool, power, caller, gVpuEventPresent, history, counts>>

(* A decoder is out of data, an encoder out of space for the stream.       *)
UnitPauses ==
    /\ unit.state = "run" /\ user # "none"
    /\ \/ unit.op \in Waited /\ slots[unit.slot].codec = "dec"
       \/ unit.op = "PIC_RUN" /\ slots[unit.slot].codec = "enc"
    /\ unit' = [unit EXCEPT !.state = "paused"]
    /\ reason' = [n |-> unit.n,
                  bit |-> IF slots[unit.slot].codec = "dec" THEN "BUF_EMPTY" ELSE "BUF_FULL"]
    /\ irq' = TRUE
    /\ UNCHANGED <<pool, power, caller, gVpuEventPresent, history, counts>>

Handler ==
    /\ irq /\ irq' = FALSE
    /\ gVpuEventPresent' = TRUE
    /\ UNCHANGED <<pool, power, caller, unit, reason, history, counts>>

(***************************************************************************)
(* VPU_WaitVpuInterrupt and VPU_WaitBitInterrupt.                          *)
(***************************************************************************)
Woken ==
    /\ upc = "wait" /\ gVpuEventPresent
    /\ gVpuEventPresent' = FALSE /\ upc' = "read"
    /\ UNCHANGED <<pool, power, user, cmd, closing, unit, reason, irq, history, counts>>

(* The time is up, or a signal comes first: then the register is polled.   *)
TimeNeverUp == FALSE
TimeIsUp == upc = "wait" /\ ~gVpuEventPresent
BreaksOff ==
    /\ TimeIsUp
    /\ upc' \in {"reset", "poll"}
    /\ UNCHANGED <<pool, power, user, cmd, closing, unit, interrupt, history, counts>>

Poll ==
    /\ upc = "poll"
    /\ IF reason # NoReason
         THEN upc' = "read" /\ gVpuEventPresent' = FALSE /\ adrift' = (adrift \/ irq)
         ELSE upc' = "reset" /\ UNCHANGED <<gVpuEventPresent, adrift>>
    /\ UNCHANGED <<pool, power, user, cmd, closing, unit, reason, irq, dropped, counts>>

(* VPU_SWReset gives up if the bus or the unit does not answer.            *)
SWReset == unit' \in {unit, Idle}

(* VpuWriteReg( BIT_INT_REASON, 0 ) after a wait that was given up *)
GivenUpReasonKept == reason
GivenUpReason == NoReason

Reset ==
    /\ upc = "reset"
    /\ SWReset
    /\ gVpuEventPresent' = FALSE /\ reason' = GivenUpReason
    /\ user' = "none" /\ upc' = "none" /\ cmd' = NoCommand
    /\ adrift' = (adrift \/ irq \/ unit'.state # "idle")
    /\ UNCHANGED <<pool, power, closing, irq, dropped, counts>>

(* What the caller makes of the reason it reads.                           *)
Codec == slots[cmd.slot].codec
Succeeded == IF Codec = "enc" /\ cmd.op = "SEQ_INIT" THEN reason # NoReason
                                                     ELSE reason.bit = cmd.op
WaitsAgain ==
    Codec = "enc" /\ cmd.op = "PIC_RUN" /\ reason.bit \notin {"none", "PIC_RUN", "BUF_FULL"}
OutOfData == Codec = "dec" /\ reason.bit = "BUF_EMPTY"
RememberedNot == 0
Remembered == cmd.n

Read ==
    /\ upc = "read"
    /\ irq' = FALSE /\ reason' = NoReason
    /\ IF WaitsAgain THEN upc' = "wait" /\ UNCHANGED <<user, cmd>>
                     ELSE upc' = "none" /\ user' = "none" /\ cmd' = NoCommand
    /\ \/ Succeeded /\ cmd.op = "SEQ_INIT"
          /\ slots' = [slots EXCEPT ![cmd.slot].isInitialized = TRUE]
       \/ OutOfData /\ slots' = [slots EXCEPT ![cmd.slot].needMoreFrame = Remembered]
       \* the stream is not to the unit's liking, or nothing to note
       \/ ~OutOfData /\ UNCHANGED slots
    /\ dropped' = IF Codec = "enc" /\ reason.bit = "BUF_FULL" THEN dropped \cup {cmd.n}
                                                             ELSE dropped
    /\ UNCHANGED <<opened, private_data, gstCurNumInstance, gstCruEncInstance,
                   gstCruDecInstance, power, closing, unit, gVpuEventPresent, adrift, counts>>

(***************************************************************************)
(* VPU_WaitVpuBusy after the commands that are polled, and the close of a  *)
(* sequence: NX_VpuEncClose, NX_VpuDecClose.                               *)
(***************************************************************************)
SequenceEnded(s) ==
    /\ irq' = FALSE /\ gVpuEventPresent' = FALSE
    /\ slots' = [slots EXCEPT ![s].isInitialized = FALSE]

Returned ==
    /\ cmd' = NoCommand
    /\ IF closing THEN user' = user /\ upc' = "rest" ELSE user' = "none" /\ upc' = "none"

Polled ==
    /\ upc = "busy"
    /\ IF cmd.op = "SEQ_END" /\ unit.state # "idle" THEN SWReset ELSE UNCHANGED unit
    /\ adrift' = \/ adrift /\ (cmd.op # "SEQ_END" \/ reason # NoReason)
                 \/ unit'.state # "idle"
    /\ IF cmd.op = "SEQ_END" THEN SequenceEnded(cmd.slot)
                             ELSE UNCHANGED <<irq, gVpuEventPresent, slots>>
    /\ Returned
    /\ UNCHANGED <<opened, private_data, gstCurNumInstance, gstCruEncInstance,
                   gstCruDecInstance, power, closing, reason, dropped, counts>>

(* IOCTL_VPU_CLOSE_INSTANCE: the slot stays in use until the file closes.  *)
(* A sequence that is not complete is left as it is in the unit.           *)
CloseInstance(f) ==
    /\ Calls(f)
    /\ IF SlotOf(f).isInitialized
         THEN Issue(f, "SEQ_END", private_data[f]) /\ UNCHANGED <<slots, irq, gVpuEventPresent>>
         ELSE /\ SequenceEnded(private_data[f])
              /\ UNCHANGED <<user, upc, cmd, unit, issued>>
    /\ UNCHANGED <<opened, private_data, gstCurNumInstance, gstCruEncInstance,
                   gstCruDecInstance, power, closing, reason, history, opens, faults>>

(***************************************************************************)
(* nx_vpu_close, also of a process that dies without closing its instance. *)
(***************************************************************************)
Close(f) ==
    /\ user = "none" /\ f \in opened
    /\ closing' = TRUE
    /\ LET s == private_data[f]
       IN  IF s = 0
             THEN /\ user' = f /\ upc' = "rest"
                  /\ UNCHANGED <<slots, gstCruEncInstance, gstCruDecInstance, cmd, unit, dropped,
                                 issued>>
             ELSE /\ slots' = [slots EXCEPT ![s].inUse = FALSE, ![s].needMoreFrame = 0]
                  /\ dropped' = dropped \cup ({slots[s].needMoreFrame} \ {0})
                  /\ gstCruEncInstance' = gstCruEncInstance - (IF f \in Encoders THEN 1 ELSE 0)
                  /\ gstCruDecInstance' = gstCruDecInstance - (IF f \in Decoders THEN 1 ELSE 0)
                  /\ IF slots[s].isInitialized
                       THEN Issue(f, "SEQ_END", s)
                       ELSE /\ user' = f /\ upc' = "rest"
                            /\ UNCHANGED <<cmd, unit, issued>>
    /\ UNCHANGED <<opened, private_data, gstCurNumInstance, power, interrupt, adrift, opens,
                   faults>>

(* The last one switches the unit off, unless it is still at work or was   *)
(* never initialized: NX_VpuDeInit.                                        *)
LastButOneFile == gstCurNumInstance <= 2
LastFile == gstCurNumInstance = 1

CloseRest ==
    /\ upc = "rest"
    /\ opened' = opened \ {user} /\ private_data' = [private_data EXCEPT ![user] = 0]
    /\ gstCurNumInstance' = gstCurNumInstance - 1
    /\ IF LastFile /\ gstIsInitialized /\ unit.state = "idle"
         THEN gstIsInitialized' = FALSE /\ gstIsVPUOn' = FALSE /\ irq' = FALSE
         ELSE UNCHANGED <<power, irq>>
    /\ user' = "none" /\ upc' = "none" /\ closing' = FALSE
    /\ UNCHANGED <<slots, gstCruEncInstance, gstCruDecInstance, cmd, unit, reason,
                   gVpuEventPresent, history, counts>>

-----------------------------------------------------------------------------
Driver == Woken \/ BreaksOff \/ Poll \/ Reset \/ Read \/ Polled \/ CloseRest
Unit == UnitDone \/ UnitPauses \/ Handler
Call(f) ==
    \/ Open(f) \/ OpenInstance(f) \/ Command(f) \/ MoreData(f) \/ CloseInstance(f)
    \/ Close(f)
Next == Driver \/ Unit \/ \E f \in File : Call(f)

(* A call that is in the driver goes on: each of its waits has a limit.    *)
(* Nothing is assumed of the unit.                                         *)
Spec == Init /\ [][Next]_vars
FairSpec == Spec /\ WF_vars(Driver)

-----------------------------------------------------------------------------
(***************************************************************************)
(* Properties.                                                             *)
(***************************************************************************)
TypeOK ==
    /\ opened \subseteq File /\ private_data \in [File -> 0..NumSlots]
    /\ slots \in [Slot -> [inUse : BOOLEAN, codec : {"enc", "dec"}, isInitialized : BOOLEAN,
                           needMoreFrame : 0..MaxCommand]]
    /\ gstCurNumInstance \in 0..MaxInstance
    /\ gstCruEncInstance \in 0..MaxEnc /\ gstCruDecInstance \in 0..MaxDec
    /\ {gstIsInitialized, gstIsVPUOn, closing, irq, gVpuEventPresent, adrift} \subseteq BOOLEAN
    /\ user \in File \cup {"none"}
    /\ upc \in {"none", "wait", "read", "poll", "reset", "busy", "rest"}
    /\ (user = "none") <=> (upc = "none")
    /\ cmd \in [n : 0..MaxCommand, op : Op, slot : Slot]
    /\ unit \in [state : {"idle", "run", "paused"}, n : 0..MaxCommand, op : Op, slot : Slot]
    /\ reason \in [n : 0..MaxCommand, bit : Waited \cup {"none", "BUF_EMPTY", "BUF_FULL"}]
    /\ dropped \subseteq 0..MaxCommand

(* Each file with an instance has a slot of its own, of its codec, and is  *)
(* counted; a slot that is in use without a file is one whose opening      *)
(* failed late, so that unless that happened a file within the limits      *)
(* always finds one.                                                       *)
Holders == {f \in opened : private_data[f] # 0 /\ ~(closing /\ user = f)}
InUse == {i \in Slot : slots[i].inUse}
SlotsAgree ==
    /\ \A f, g \in Holders : private_data[f] = private_data[g] => f = g
    /\ \A f \in Holders : /\ private_data[f] \in InUse
                          /\ SlotOf(f).codec = IF f \in Encoders THEN "enc" ELSE "dec"
    /\ gstCruEncInstance = Cardinality(Holders \cap Encoders)
    /\ gstCruDecInstance = Cardinality(Holders \cap Decoders)
    /\ gstCurNumInstance = Cardinality(opened)
    /\ Cardinality(InUse) <= Cardinality(Holders) + faults

(* While a file holds an instance the unit is on and loaded, whoever else  *)
(* opens and closes.                                                       *)
PoweredWhileUsed == Holders # {} => gstIsVPUOn /\ gstIsInitialized

(* A command that is reported as done was answered by its own interrupt,   *)
(* not by what an earlier one left in the event or in the register: also   *)
(* after waits that ran out or were broken off by a signal, and where      *)
(* others use the unit while a decoder waits for data.  What can spoil     *)
(* this, to the next SEQ_END, is adrift: that the interrupt came after its *)
(* wait was given up, or that a unit that did not answer was not stopped.  *)
OwnAnswer ==
    upc = "read" /\ Succeeded /\ ~adrift => reason.n = cmd.n

(* Between two calls nothing is left of them, unless adrift: no event, no  *)
(* interrupt, no reason, and the unit at rest, or in the middle of what a  *)
(* decoder knows it must go on with.  Only a command that is dropped stays *)
(* in the unit unknown: an encoder without space for its stream, and a     *)
(* decoder whose file was closed.                                          *)
LeftClean ==
    /\ TypeOK
    /\ user = "none" /\ ~adrift =>
        /\ ~gVpuEventPresent /\ ~irq /\ reason = NoReason
        /\ unit.state # "run"
        /\ unit.state = "paused" /\ unit.n \notin dropped =>
              /\ slots[unit.slot].inUse /\ slots[unit.slot].needMoreFrame = unit.n

(* Every call returns, whatever the unit does.                             *)
CallReturns == (user # "none") ~> (user = "none")
=============================================================================
