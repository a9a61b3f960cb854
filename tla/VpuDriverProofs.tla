--------------------------- MODULE VpuDriverProofs ---------------------------
(***************************************************************************)
(* Theorems about the driver of the codec, for any files, limits, commands *)
(* and failed copies: types and the counts of instances, who owns which    *)
(* slot, that the unit stays on while somebody holds an instance, and that *)
(* nobody is answered by the interrupt of another's command.               *)
(*                                                                         *)
(* The counts are only in their types because they count the files and the *)
(* instances, and the unit is only on because what counts the files is     *)
(* right: the three are one inductive invariant.  Whose answer it is rests  *)
(* on them and on two more, Numbered and Tied.                             *)
(***************************************************************************)
EXTENDS VpuDriver, FiniteSetTheorems, TLAPS

(* Where the call in the driver is, and the bounds of the counters. *)
Phase ==
    /\ issued \in 0..MaxCommand /\ faults \in Nat
    /\ IsFiniteSet(opened)
    /\ user # "none" => user \in opened
    /\ closing => upc \in {"busy", "rest"}
    /\ upc = "rest" => closing
    /\ gstIsInitialized => gstIsVPUOn

Inv == TypeOK /\ Phase /\ SlotsAgree /\ PoweredWhileUsed

SlotState == [inUse : BOOLEAN, codec : {"enc", "dec"}, isInitialized : BOOLEAN,
              needMoreFrame : 0..MaxCommand]
UnitState == [state : {"idle", "run", "paused"}, n : 0..MaxCommand, op : Op, slot : Slot]
CmdState == [n : 0..MaxCommand, op : Op, slot : Slot]
ReasonState == [n : 0..MaxCommand, bit : Waited \cup {"none", "BUF_EMPTY", "BUF_FULL"}]

LEMMA Limits ==
    /\ NumSlots \in Nat \ {0} /\ MaxInstance \in Nat \ {0}
    /\ MaxEnc \in Nat \ {0} /\ MaxDec \in Nat \ {0}
    /\ MaxOpen \in Nat /\ MaxCommand \in Nat /\ MaxFault \in Nat
    /\ 1 \in Slot /\ 0 \in 0..MaxCommand
    /\ Slot = 1..NumSlots /\ \A i \in Slot : i # 0 /\ i \in 0..NumSlots
  BY LimitAssumption, BoundAssumption DEF Slot

(* The parts of the type, for the steps that touch few of them. *)
CallerTyped ==
    /\ {closing, adrift} \subseteq BOOLEAN /\ dropped \subseteq 0..MaxCommand
    /\ user \in File \cup {"none"}
    /\ upc \in {"none", "wait", "read", "poll", "reset", "busy", "rest"}
    /\ (user = "none") <=> (upc = "none")
    /\ cmd \in CmdState
UnitTyped ==
    /\ {irq, gVpuEventPresent} \subseteq BOOLEAN
    /\ unit \in UnitState /\ reason \in ReasonState
PoolTyped ==
    /\ opened \subseteq File /\ private_data \in [File -> 0..NumSlots]
    /\ slots \in [Slot -> SlotState]
    /\ gstCurNumInstance \in 0..MaxInstance
    /\ gstCruEncInstance \in 0..MaxEnc /\ gstCruDecInstance \in 0..MaxDec
    /\ {gstIsInitialized, gstIsVPUOn} \subseteq BOOLEAN

LEMMA TypeParts == TypeOK <=> PoolTyped /\ CallerTyped /\ UnitTyped
  BY DEF TypeOK, PoolTyped, CallerTyped, UnitTyped, SlotState, UnitState, CmdState, ReasonState

LEMMA TypePartsNext == TypeOK' <=> PoolTyped' /\ CallerTyped' /\ UnitTyped'
  BY DEF TypeOK, PoolTyped, CallerTyped, UnitTyped, SlotState, UnitState, CmdState, ReasonState

-----------------------------------------------------------------------------
(***************************************************************************)
(* Initially.                                                              *)
(***************************************************************************)
LEMMA InitInv == Init => Inv
<1> SUFFICES ASSUME Init PROVE Inv
  OBVIOUS
<1>1. PoolTyped /\ CallerTyped /\ UnitTyped
  <2>1. FreeSlot \in SlotState /\ NoCommand \in CmdState /\ Idle \in UnitState
        /\ NoReason \in ReasonState
    BY Limits DEF FreeSlot, NoCommand, Idle, NoReason, SlotState, CmdState, UnitState,
                  ReasonState, Op
  <2>2. PoolTyped
    BY <2>1, Limits DEF Init, PoolTyped
  <2>3. CallerTyped
    BY <2>1, FileAssumption DEF Init, CallerTyped
  <2>4. UnitTyped
    BY <2>1 DEF Init, UnitTyped
  <2> QED BY <2>2, <2>3, <2>4
<1>2. Phase
  BY FS_EmptySet, Limits DEF Init, Phase
<1>3. SlotsAgree
  <2>1. Holders = {} /\ InUse = {} /\ Holders \cap Encoders = {} /\ Holders \cap Decoders = {}
    BY DEF Init, Holders, InUse, FreeSlot
  <2> QED BY <2>1, FS_EmptySet DEF Init, SlotsAgree
<1>4. PoweredWhileUsed
  BY DEF Init, PoweredWhileUsed
<1> QED BY <1>1, <1>2, <1>3, <1>4, TypeParts DEF Inv

-----------------------------------------------------------------------------
(***************************************************************************)
(* The pool is left alone by all but the opening and the closing.          *)
(***************************************************************************)
LEMMA PoolKept ==
    ASSUME Inv, UNCHANGED <<opened, private_data, gstCurNumInstance, gstCruEncInstance,
                            gstCruDecInstance, power, closing, faults>>,
           closing => user' = user,
           \A i \in Slot : slots'[i].inUse = slots[i].inUse /\ slots'[i].codec = slots[i].codec
    PROVE  SlotsAgree' /\ PoweredWhileUsed'
<1>1. Holders' = Holders
  BY DEF Holders
<1>2. InUse' = InUse
  BY DEF InUse
<1>3. \A f \in Holders : private_data[f] \in Slot
  BY Limits DEF Holders, Inv, TypeOK, SlotsAgree, InUse
<1>4. SlotsAgree'
  <2>1. \A f \in Holders : SlotOf(f)'.codec = SlotOf(f).codec
    BY <1>3 DEF SlotOf
  <2> QED BY <1>1, <1>2, <2>1 DEF Inv, SlotsAgree
<1>5. PoweredWhileUsed'
  BY <1>1 DEF Inv, PoweredWhileUsed, power
<1> QED BY <1>4, <1>5

(* An issued command: types, and where the call is then. *)
LEMMA IssueTyped ==
    ASSUME TypeOK, Phase, NEW f \in File, NEW op \in Op, NEW s \in Slot, Issue(f, op, s)
    PROVE  /\ issued' \in 0..MaxCommand /\ user' = f /\ f # "none"
           /\ upc' \in {"wait", "busy"} /\ (op \notin Waited => upc' = "busy")
           /\ cmd' \in CmdState /\ unit' \in UnitState
<1>1. f # "none" /\ issued \in 0..MaxCommand
  BY FileAssumption DEF Phase
<1> DEFINE n == IF op \in Waited THEN issued + 1 ELSE 0
<1>2. n \in 0..MaxCommand /\ issued' \in 0..MaxCommand
  BY <1>1, Limits DEF Issue
<1>3. cmd' \in CmdState
  BY <1>2 DEF Issue, CmdState
<1>4. [state |-> "run", n |-> n, op |-> op, slot |-> s] \in UnitState
  BY <1>2 DEF UnitState
<1>5. unit' \in UnitState
  BY <1>4, TypeParts DEF Issue, UnitTyped
<1>6. user' = f /\ upc' \in {"wait", "busy"} /\ (op \notin Waited => upc' = "busy")
  BY DEF Issue
<1> QED BY <1>1, <1>2, <1>3, <1>5, <1>6

(* The file that calls, and its slot. *)
LEMMA CallsTyped ==
    ASSUME TypeOK, Phase, NEW f \in File, Calls(f)
    PROVE  f \in opened /\ private_data[f] \in Slot /\ user = "none" /\ upc = "none" /\ ~closing
  BY Limits DEF Calls, TypeOK, Phase

(* A slot that is given back, by a close or by the loading of the unit. *)
LEMMA SlotFreed ==
    ASSUME NEW x \in SlotState
    PROVE  /\ [x EXCEPT !.inUse = FALSE] \in SlotState
           /\ [x EXCEPT !.inUse = FALSE, !.needMoreFrame = 0] \in SlotState
           /\ ~[x EXCEPT !.inUse = FALSE].inUse
           /\ ~[x EXCEPT !.inUse = FALSE, !.needMoreFrame = 0].inUse
<1>1. 0 \in 0..MaxCommand
  BY Limits
<1> QED BY <1>1 DEF SlotState

(* Writing a field of a slot that is no part of who owns it. *)
LEMMA SlotNoted ==
    ASSUME TypeOK, NEW s \in Slot, NEW b \in BOOLEAN, NEW n \in 0..MaxCommand,
           \/ slots' = slots
           \/ slots' = [slots EXCEPT ![s].isInitialized = b]
           \/ slots' = [slots EXCEPT ![s].needMoreFrame = n]
    PROVE  /\ slots' \in [Slot -> SlotState]
           /\ \A i \in Slot : slots'[i].inUse = slots[i].inUse
                              /\ slots'[i].codec = slots[i].codec
<1>1. slots \in [Slot -> SlotState]
  BY TypeParts DEF PoolTyped
<1> QED BY <1>1 DEF SlotState

LEMMA CommandInv == ASSUME Inv, NEW f \in File, Command(f) PROVE Inv'
<1> USE DEF Inv
<1>1. PICK op \in Op : Issue(f, op, private_data[f])
  BY DEF Command, Op
<1>2. /\ f \in opened /\ private_data[f] \in Slot /\ ~closing
  BY CallsTyped DEF Command
<1>3. /\ issued' \in 0..MaxCommand /\ user' = f /\ f # "none" /\ upc' \in {"wait", "busy"}
      /\ cmd' \in CmdState /\ unit' \in UnitState
  BY <1>1, <1>2, IssueTyped
<1>4. UNCHANGED <<pool, power, closing, interrupt, history, opens, faults>>
  BY DEF Command
<1>5. TypeOK'
  BY <1>3, <1>4, TypeParts, TypePartsNext
     DEF PoolTyped, CallerTyped, UnitTyped, pool, power, interrupt, history
<1>6. Phase'
  BY <1>2, <1>3, <1>4 DEF Phase, pool, power
<1>7. SlotsAgree' /\ PoweredWhileUsed'
  BY <1>2, <1>4, PoolKept DEF pool
<1> QED BY <1>5, <1>6, <1>7

LEMMA MoreDataInv == ASSUME Inv, NEW f \in File, MoreData(f) PROVE Inv'
<1> USE DEF Inv
<1>1. /\ f \in opened /\ private_data[f] \in Slot /\ ~closing /\ f # "none"
  BY CallsTyped, FileAssumption DEF MoreData
<1>2. slots' \in [Slot -> SlotState]
      /\ \A i \in Slot : slots'[i].inUse = slots[i].inUse /\ slots'[i].codec = slots[i].codec
  BY <1>1, SlotNoted, Limits DEF MoreData
<1>3. SlotOf(f).needMoreFrame \in 0..MaxCommand
  BY <1>1, TypeParts DEF PoolTyped, SlotOf, SlotState
<1>4. cmd' \in CmdState
  BY <1>1, <1>3 DEF MoreData, CmdState, Op
<1>5. unit' \in UnitState
  <2>1. unit \in UnitState
    BY TypeParts DEF UnitTyped
  <2>2. unit' \in {unit, [unit EXCEPT !.state = "run"]}
    BY DEF MoreData
  <2> QED BY <2>1, <2>2 DEF UnitState
<1>6. /\ user' = f /\ upc' = "wait"
      /\ UNCHANGED <<opened, private_data, gstCurNumInstance, gstCruEncInstance,
                     gstCruDecInstance, power, closing, interrupt, history, counts>>
  BY DEF MoreData
<1>7. TypeOK'
  BY <1>1, <1>2, <1>4, <1>5, <1>6, TypeParts, TypePartsNext
     DEF PoolTyped, CallerTyped, UnitTyped, power, interrupt, history
<1>8. Phase'
  BY <1>1, <1>6 DEF Phase, power, counts
<1>9. SlotsAgree' /\ PoweredWhileUsed'
  BY <1>1, <1>2, <1>6, PoolKept DEF counts
<1> QED BY <1>7, <1>8, <1>9

LEMMA CloseInstanceInv == ASSUME Inv, NEW f \in File, CloseInstance(f) PROVE Inv'
<1> USE DEF Inv
<1>1. /\ f \in opened /\ private_data[f] \in Slot /\ ~closing /\ f # "none"
      /\ user = "none" /\ upc = "none"
  BY CallsTyped, FileAssumption DEF CloseInstance
<1>2. UNCHANGED <<opened, private_data, gstCurNumInstance, gstCruEncInstance,
                  gstCruDecInstance, power, closing, reason, history, opens, faults>>
  BY DEF CloseInstance
<1>3. /\ slots' \in [Slot -> SlotState]
      /\ \A i \in Slot : slots'[i].inUse = slots[i].inUse /\ slots'[i].codec = slots[i].codec
  BY <1>1, SlotNoted, Limits DEF CloseInstance, SequenceEnded
<1>4. /\ issued' \in 0..MaxCommand
      /\ \/ user' = f /\ upc' \in {"wait", "busy"}
         \/ user' = "none" /\ upc' = "none"
      /\ cmd' \in CmdState /\ unit' \in UnitState
      /\ irq' \in BOOLEAN /\ gVpuEventPresent' \in BOOLEAN
  <2>1. "SEQ_END" \in Op
    BY DEF Op
  <2>2. CASE SlotOf(f).isInitialized
    <3>1. Issue(f, "SEQ_END", private_data[f]) /\ UNCHANGED <<irq, gVpuEventPresent>>
      BY <2>2 DEF CloseInstance
    <3>2. irq' \in BOOLEAN /\ gVpuEventPresent' \in BOOLEAN
      BY <3>1, TypeParts DEF UnitTyped
    <3>3. /\ issued' \in 0..MaxCommand /\ user' = f /\ upc' \in {"wait", "busy"}
          /\ cmd' \in CmdState /\ unit' \in UnitState
      BY <1>1, <2>1, <3>1, IssueTyped
    <3> QED BY <3>2, <3>3
  <2>3. CASE ~SlotOf(f).isInitialized
    BY <1>1, <2>3, TypeParts
       DEF CloseInstance, SequenceEnded, UnitTyped, CallerTyped, Phase
  <2> QED BY <2>2, <2>3
<1>5. TypeOK'
  BY <1>1, <1>2, <1>3, <1>4, TypeParts, TypePartsNext
     DEF PoolTyped, CallerTyped, UnitTyped, power, history
<1>6. Phase'
  BY <1>1, <1>2, <1>4 DEF Phase, power
<1>7. SlotsAgree' /\ PoweredWhileUsed'
  BY <1>1, <1>2, <1>3, PoolKept
<1> QED BY <1>5, <1>6, <1>7

-----------------------------------------------------------------------------
(***************************************************************************)
(* The driver's own steps and the unit's.                                  *)
(***************************************************************************)
LEMMA WaitInv == ASSUME Inv, Woken \/ BreaksOff \/ Poll PROVE Inv'
<1> USE DEF Inv
<1>1. /\ UNCHANGED <<pool, power, user, cmd, closing, unit, reason, irq, counts>>
      /\ upc \in {"wait", "poll"} /\ upc' \in {"read", "reset", "poll"}
      /\ adrift' \in BOOLEAN /\ gVpuEventPresent' \in BOOLEAN /\ dropped' = dropped
  BY TypeParts DEF Woken, BreaksOff, Poll, TimeIsUp, interrupt, history, CallerTyped, UnitTyped
<1>2. TypeOK'
  BY <1>1, TypeParts, TypePartsNext DEF PoolTyped, CallerTyped, UnitTyped, pool, power
<1>3. Phase'
  BY <1>1 DEF Phase, pool, power, counts
<1>4. SlotsAgree' /\ PoweredWhileUsed'
  BY <1>1, PoolKept DEF pool, counts
<1> QED BY <1>2, <1>3, <1>4

LEMMA ResetInv == ASSUME Inv, Reset PROVE Inv'
<1> USE DEF Inv
<1>1. /\ UNCHANGED <<pool, power, closing, irq, dropped, counts>> /\ ~closing
      /\ user' = "none" /\ upc' = "none" /\ cmd' = NoCommand
      /\ gVpuEventPresent' = FALSE /\ reason' = NoReason /\ unit' \in {unit, Idle}
      /\ adrift' \in BOOLEAN
  BY DEF Reset, SWReset, GivenUpReason, Phase
<1>2. NoCommand \in CmdState /\ Idle \in UnitState /\ NoReason \in ReasonState
  BY Limits DEF NoCommand, Idle, NoReason, CmdState, UnitState, ReasonState, Op
<1>3. TypeOK'
  BY <1>1, <1>2, TypeParts, TypePartsNext DEF PoolTyped, CallerTyped, UnitTyped, pool, power
<1>4. Phase'
  BY <1>1 DEF Phase, pool, power, counts
<1>5. SlotsAgree' /\ PoweredWhileUsed'
  BY <1>1, PoolKept DEF pool, counts
<1> QED BY <1>3, <1>4, <1>5

LEMMA ReadInv == ASSUME Inv, Read PROVE Inv'
<1> USE DEF Inv
<1>1. /\ UNCHANGED <<opened, private_data, gstCurNumInstance, gstCruEncInstance,
                     gstCruDecInstance, power, closing, unit, gVpuEventPresent, adrift, counts>>
      /\ ~closing /\ user \in opened /\ irq' = FALSE /\ reason' = NoReason
      /\ dropped' = dropped \/ dropped' = dropped \cup {cmd.n}
  BY DEF Read, Phase, TypeOK
<1>2. \/ upc' = "wait" /\ user' = user /\ cmd' = cmd
      \/ upc' = "none" /\ user' = "none" /\ cmd' = NoCommand
  BY DEF Read
<1>3. cmd.slot \in Slot /\ cmd.n \in 0..MaxCommand /\ user # "none"
  BY TypeParts DEF CallerTyped, CmdState, Read
<1>4. \/ slots' = slots
      \/ slots' = [slots EXCEPT ![cmd.slot].isInitialized = TRUE]
      \/ slots' = [slots EXCEPT ![cmd.slot].needMoreFrame = cmd.n]
  BY DEF Read, Remembered
<1>5. /\ slots' \in [Slot -> SlotState]
      /\ \A i \in Slot : slots'[i].inUse = slots[i].inUse /\ slots'[i].codec = slots[i].codec
  BY <1>3, <1>4, SlotNoted
<1>6. NoCommand \in CmdState /\ NoReason \in ReasonState
  BY Limits DEF NoCommand, NoReason, CmdState, ReasonState, Op
<1>7. TypeOK'
  BY <1>1, <1>2, <1>3, <1>5, <1>6, TypeParts, TypePartsNext
     DEF PoolTyped, CallerTyped, UnitTyped, power
<1>8. Phase'
  BY <1>1, <1>2 DEF Phase, power, counts
<1>9. SlotsAgree' /\ PoweredWhileUsed'
  BY <1>1, <1>5, PoolKept DEF counts
<1> QED BY <1>7, <1>8, <1>9

LEMMA PolledInv == ASSUME Inv, Polled PROVE Inv'
<1> USE DEF Inv
<1>1. /\ UNCHANGED <<opened, private_data, gstCurNumInstance, gstCruEncInstance,
                     gstCruDecInstance, power, closing, reason, dropped, counts>>
      /\ upc = "busy" /\ cmd' = NoCommand
      /\ adrift' \in BOOLEAN /\ irq' \in BOOLEAN /\ gVpuEventPresent' \in BOOLEAN
      /\ unit' \in {unit, Idle}
  BY TypeParts DEF Polled, Returned, SequenceEnded, SWReset, UnitTyped
<1>2. IF closing THEN user' = user /\ upc' = "rest" ELSE user' = "none" /\ upc' = "none"
  BY DEF Polled, Returned
<1>3. cmd.slot \in Slot /\ user # "none"
  BY <1>1, TypeParts DEF CallerTyped, CmdState
<1>4. /\ slots' \in [Slot -> SlotState]
      /\ \A i \in Slot : slots'[i].inUse = slots[i].inUse /\ slots'[i].codec = slots[i].codec
  BY <1>3, SlotNoted, Limits DEF Polled, SequenceEnded
<1>5. NoCommand \in CmdState /\ Idle \in UnitState
  BY Limits DEF NoCommand, Idle, CmdState, UnitState, Op
<1>6. TypeOK'
  BY <1>1, <1>2, <1>3, <1>4, <1>5, TypeParts, TypePartsNext
     DEF PoolTyped, CallerTyped, UnitTyped, power
<1>7. Phase'
  BY <1>1, <1>2, <1>3 DEF Phase, power, counts
<1>8. SlotsAgree' /\ PoweredWhileUsed'
  BY <1>1, <1>2, <1>4, PoolKept DEF counts
<1> QED BY <1>6, <1>7, <1>8

LEMMA UnitInv == ASSUME Inv, Unit PROVE Inv'
<1> USE DEF Inv
<1>1. UNCHANGED <<pool, power, caller, history, counts>>
  BY DEF Unit, UnitDone, UnitPauses, Handler
<1>2. UnitTyped'
  <2>1. unit \in UnitState /\ reason \in ReasonState /\ {irq, gVpuEventPresent} \subseteq BOOLEAN
    BY TypeParts DEF UnitTyped
  <2>2. CASE UnitDone
    <3>1. unit' = Idle /\ Idle \in UnitState /\ gVpuEventPresent' = gVpuEventPresent
      BY <2>2, Limits DEF UnitDone, Idle, UnitState, Op
    <3>2. reason' \in ReasonState /\ irq' \in BOOLEAN
      <4>1. unit.n \in 0..MaxCommand
        BY <2>1 DEF UnitState
      <4>2. CASE unit.op \in Waited
        <5>1. reason' = [n |-> unit.n, bit |-> unit.op] /\ irq' = TRUE
          BY <2>2, <4>2 DEF UnitDone
        <5>2. unit.op \in Waited \cup {"none", "BUF_EMPTY", "BUF_FULL"}
          BY <4>2
        <5> QED BY <4>1, <5>1, <5>2 DEF ReasonState
      <4>3. CASE unit.op \notin Waited
        BY <2>1, <2>2, <4>3 DEF UnitDone
      <4> QED BY <4>2, <4>3
    <3> QED BY <2>1, <3>1, <3>2 DEF UnitTyped
  <2>3. CASE UnitPauses
    <3>1. /\ unit' = [unit EXCEPT !.state = "paused"] /\ irq' = TRUE
          /\ gVpuEventPresent' = gVpuEventPresent
          /\ \E b \in {"BUF_EMPTY", "BUF_FULL"} : reason' = [n |-> unit.n, bit |-> b]
      BY <2>3 DEF UnitPauses
    <3>2. unit' \in UnitState /\ unit.n \in 0..MaxCommand
      BY <2>1, <3>1 DEF UnitState
    <3>3. reason' \in ReasonState
      BY <3>1, <3>2 DEF ReasonState
    <3> QED BY <2>1, <3>1, <3>2, <3>3 DEF UnitTyped
  <2>4. CASE Handler
    BY <2>1, <2>4 DEF Handler, UnitTyped
  <2> QED BY <2>2, <2>3, <2>4 DEF Unit
<1>3. TypeOK'
  BY <1>1, <1>2, TypeParts, TypePartsNext
     DEF PoolTyped, CallerTyped, pool, power, caller, history
<1>4. Phase'
  BY <1>1 DEF Phase, pool, power, caller, counts
<1>5. SlotsAgree' /\ PoweredWhileUsed'
  BY <1>1, PoolKept DEF pool, caller, counts
<1> QED BY <1>3, <1>4, <1>5

-----------------------------------------------------------------------------
(***************************************************************************)
(* Opening and closing.                                                    *)
(***************************************************************************)
(* The sets that are counted are finite, and a slot of a file is a slot. *)
LEMMA PoolFinite ==
    ASSUME Inv
    PROVE  /\ IsFiniteSet(opened) /\ IsFiniteSet(Holders) /\ IsFiniteSet(InUse)
           /\ IsFiniteSet(Holders \cap Encoders) /\ IsFiniteSet(Holders \cap Decoders)
           /\ Cardinality(opened) \in Nat
           /\ Cardinality(Holders) \in Nat /\ Cardinality(InUse) \in Nat
           /\ Cardinality(Holders \cap Encoders) \in Nat
           /\ Cardinality(Holders \cap Decoders) \in Nat
           /\ Holders \subseteq opened /\ opened \subseteq File
           /\ \A g \in Holders : private_data[g] \in InUse /\ private_data[g] \in Slot
<1>1. IsFiniteSet(opened) /\ opened \subseteq File
  BY DEF Inv, Phase, TypeOK
<1>2. Holders \subseteq opened /\ Holders \cap Encoders \subseteq opened
      /\ Holders \cap Decoders \subseteq opened
  BY DEF Holders
<1>3. IsFiniteSet(Holders) /\ IsFiniteSet(Holders \cap Encoders)
      /\ IsFiniteSet(Holders \cap Decoders)
  BY <1>1, <1>2, FS_Subset
<1>4. IsFiniteSet(InUse)
  <2>1. InUse \subseteq Slot /\ IsFiniteSet(1..NumSlots) /\ Slot = 1..NumSlots
    BY Limits, FS_Interval DEF InUse
  <2> QED BY <2>1, FS_Subset
<1>5. \A g \in Holders : private_data[g] \in InUse /\ private_data[g] \in Slot
  BY DEF Inv, SlotsAgree, InUse
<1> QED BY <1>1, <1>2, <1>3, <1>4, <1>5, FS_CardinalityType

LEMMA OpenInv == ASSUME Inv, NEW f \in File, Open(f) PROVE Inv'
<1> USE DEF Inv
<1>1. user = "none" /\ upc = "none" /\ ~closing /\ f \notin opened
  BY TypeParts DEF Open, Phase, CallerTyped
<1>2. UNCHANGED <<gstCruEncInstance, gstCruDecInstance, caller, gVpuEventPresent, history,
                  issued, faults>>
  BY DEF Open
<1>3. CASE OpenRefused
  <2>1. UNCHANGED <<opened, private_data, slots, gstCurNumInstance, power, unit, reason, irq>>
    BY <1>3 DEF Open
  <2>2. TypeOK'
    BY <1>2, <2>1, TypeParts, TypePartsNext
       DEF PoolTyped, CallerTyped, UnitTyped, power, caller, history
  <2>3. Phase'
    BY <1>2, <2>1 DEF Phase, power, caller
  <2>4. SlotsAgree' /\ PoweredWhileUsed'
    BY <1>2, <2>1, PoolKept DEF caller
  <2> QED BY <2>2, <2>3, <2>4
<1>4. CASE ~OpenRefused
  <2>1. /\ VpuInit /\ opened' = opened \cup {f}
        /\ private_data' = [private_data EXCEPT ![f] = 0]
        /\ gstCurNumInstance' = gstCurNumInstance + 1
    BY <1>4 DEF Open
  <2>2. gstCurNumInstance' \in 0..MaxInstance
    BY <1>4, <2>1, Limits, TypeParts DEF PoolTyped, OpenRefused
  <2>3. Holders' = Holders
    BY <1>1, <1>2, <2>1, TypeParts DEF Holders, PoolTyped, caller
  <2>4. IsFiniteSet(opened') /\ gstCurNumInstance' = Cardinality(opened')
    BY <1>1, <2>1, PoolFinite, FS_AddElement DEF SlotsAgree
  <2>5. \A g \in Holders : private_data'[g] = private_data[g]
    BY <1>1, <2>1, PoolFinite, TypeParts DEF PoolTyped
  <2>6. /\ slots' \in [Slot -> SlotState]
        /\ unit' \in UnitState /\ reason' \in ReasonState /\ irq' \in BOOLEAN
        /\ gstIsInitialized' \in BOOLEAN /\ gstIsVPUOn' \in BOOLEAN
        /\ gstIsInitialized' => gstIsVPUOn'
        /\ \/ UNCHANGED <<slots, power>>
           \/ Holders = {} /\ InUse' \subseteq InUse
    <3>0. /\ slots \in [Slot -> SlotState] /\ unit \in UnitState /\ reason \in ReasonState
          /\ irq \in BOOLEAN /\ gstIsInitialized \in BOOLEAN /\ gstIsVPUOn \in BOOLEAN
      BY TypeParts DEF PoolTyped, UnitTyped
    <3>1. CASE gstCurNumInstance = 0 /\ ~gstIsInitialized
      <4>1. Holders = {}
        BY <3>1, PoolFinite, FS_EmptySet DEF SlotsAgree
      <4>2. /\ gstIsVPUOn' = TRUE /\ unit' = Idle /\ reason' = NoReason /\ irq' = FALSE
            /\ \/ /\ gstIsInitialized' = TRUE
                  /\ slots' = [i \in Slot |-> [slots[i] EXCEPT !.inUse = FALSE]]
               \/ UNCHANGED <<gstIsInitialized, slots>>
        BY <2>1, <3>1 DEF VpuInit
      <4>3. Idle \in UnitState /\ NoReason \in ReasonState
        BY Limits DEF Idle, NoReason, UnitState, ReasonState, Op
      <4>4. slots' \in [Slot -> SlotState]
        BY <3>0, <4>2, SlotFreed
      <4>5. InUse' \subseteq InUse
        <5>1. \A i \in Slot : slots'[i].inUse => slots[i].inUse
          BY <3>0, <4>2, SlotFreed
        <5> QED BY <5>1 DEF InUse
      <4> QED BY <3>0, <4>1, <4>2, <4>3, <4>4, <4>5
    <3>2. CASE ~(gstCurNumInstance = 0 /\ ~gstIsInitialized)
      <4>1. UNCHANGED <<power, slots, unit, reason, irq>>
        BY <2>1, <3>2 DEF VpuInit
      <4> QED BY <3>0, <4>1 DEF power, Phase
    <3> QED BY <3>1, <3>2
  <2>7. TypeOK'
    <3>1. opened' \subseteq File /\ private_data' \in [File -> 0..NumSlots]
      BY <2>1, Limits, TypeParts DEF PoolTyped
    <3> QED BY <1>2, <2>2, <2>6, <3>1, TypeParts, TypePartsNext
            DEF PoolTyped, CallerTyped, UnitTyped, caller, history
  <2>8. Phase'
    BY <1>1, <1>2, <2>4, <2>6 DEF Phase, caller
  <2>9. SlotsAgree'
    <3>1. CASE UNCHANGED <<slots, power>>
      <4>1. InUse' = InUse /\ \A g \in Holders : SlotOf(g)' = SlotOf(g)
        BY <2>5, <3>1 DEF InUse, SlotOf
      <4> QED BY <1>2, <2>3, <2>4, <2>5, <4>1 DEF SlotsAgree
    <3>2. CASE Holders = {} /\ InUse' \subseteq InUse
      <4>1. Cardinality(InUse') <= Cardinality(InUse) /\ Cardinality(InUse') \in Nat
        BY <3>2, PoolFinite, FS_Subset, FS_CardinalityType
      <4>2. Cardinality(InUse') <= Cardinality(Holders') + faults'
        BY <1>2, <2>3, <4>1, PoolFinite DEF SlotsAgree, Phase
      <4> QED BY <1>2, <2>3, <2>4, <3>2, <4>2 DEF SlotsAgree
    <3> QED BY <2>6, <3>1, <3>2
  <2>10. PoweredWhileUsed'
    BY <2>3, <2>6 DEF PoweredWhileUsed, power
  <2> QED BY <2>7, <2>8, <2>9, <2>10
<1> QED BY <1>3, <1>4

LEMMA OpenInstanceInv == ASSUME Inv, NEW f \in File, OpenInstance(f) PROVE Inv'
<1> USE DEF Inv
<1>1. /\ user = "none" /\ upc = "none" /\ ~closing /\ f \in opened /\ private_data[f] = 0
      /\ f \notin Holders /\ gstIsInitialized /\ gstIsVPUOn /\ ~LimitReached(f)
  BY TypeParts DEF OpenInstance, Phase, CallerTyped, Holders
<1>2. UNCHANGED <<opened, gstCurNumInstance, power, caller, unit, interrupt, history,
                  issued, opens>>
  BY DEF OpenInstance
<1> DEFINE new == IF f \in Encoders THEN "enc" ELSE "dec"
           enc == IF f \in Encoders THEN 1 ELSE 0
           dec == IF f \in Decoders THEN 1 ELSE 0
<1>3. PICK i \in Slot :
        /\ ~slots[i].inUse
        /\ slots' = [slots EXCEPT ![i].inUse = TRUE, ![i].codec = new, ![i].needMoreFrame = 0]
        /\ \/ /\ private_data' = [private_data EXCEPT ![f] = i]
              /\ gstCruEncInstance' = gstCruEncInstance + enc
              /\ gstCruDecInstance' = gstCruDecInstance + dec
              /\ faults' = faults
           \/ /\ faults' = faults + 1
              /\ UNCHANGED <<private_data, gstCruEncInstance, gstCruDecInstance>>
  BY DEF OpenInstance, Found
<1>4. slots \in [Slot -> SlotState] /\ private_data \in [File -> 0..NumSlots]
      /\ gstCruEncInstance \in 0..MaxEnc /\ gstCruDecInstance \in 0..MaxDec
      /\ faults \in Nat
  BY TypeParts DEF PoolTyped, Phase
<1>5. /\ slots' \in [Slot -> SlotState]
      /\ slots'[i].inUse /\ slots'[i].codec = new
      /\ \A j \in Slot : j # i => slots'[j] = slots[j]
  <2>1. new \in {"enc", "dec"}
    OBVIOUS
  <2> HIDE DEF new
  <2>2. slots'[i] = [slots[i] EXCEPT !.inUse = TRUE, !.codec = new, !.needMoreFrame = 0]
        /\ DOMAIN slots' = Slot /\ slots' = [j \in Slot |-> slots'[j]]
        /\ \A j \in Slot : j # i => slots'[j] = slots[j]
    BY <1>3, <1>4
  <2>3. slots'[i] \in SlotState /\ slots'[i].inUse /\ slots'[i].codec = new
    <3>1. slots[i] \in SlotState
      BY <1>4
    <3>2. slots'[i] = [inUse |-> TRUE, codec |-> new, isInitialized |-> slots[i].isInitialized,
                       needMoreFrame |-> 0]
      BY <2>2, <3>1 DEF SlotState
    <3>3. slots[i].isInitialized \in BOOLEAN
      BY <3>1 DEF SlotState
    <3> QED BY <2>1, <3>2, <3>3, Limits DEF SlotState
  <2>4. \A j \in Slot : slots'[j] \in SlotState
    BY <1>4, <2>2, <2>3
  <2> QED BY <2>2, <2>3, <2>4
<1>6. /\ InUse' = InUse \cup {i} /\ i \notin InUse
      /\ Cardinality(InUse') = Cardinality(InUse) + 1
  <2>1. InUse' = InUse \cup {i} /\ i \notin InUse
    BY <1>3, <1>5 DEF InUse
  <2> QED BY <2>1, PoolFinite, FS_AddElement
<1>7. gstCruEncInstance' \in 0..MaxEnc /\ gstCruDecInstance' \in 0..MaxDec
      /\ private_data' \in [File -> 0..NumSlots] /\ faults' \in Nat
  <2>1. private_data' \in [File -> 0..NumSlots]
    BY <1>3, <1>4, Limits
  <2>3. CASE f \in Encoders
    <3>1. f \notin Decoders /\ gstCruEncInstance < MaxEnc
      BY <1>1, <1>4, <2>3, Limits, FileAssumption DEF LimitReached
    <3>2. enc = 1 /\ dec = 0
      BY <2>3, <3>1
    <3> HIDE DEF enc, dec, new
    <3>3. faults' \in Nat
      BY <1>3, <1>4
    <3>4. gstCruEncInstance' \in 0..MaxEnc /\ gstCruDecInstance' \in 0..MaxDec
      BY <1>3, <1>4, <3>1, <3>2, Limits
    <3> QED BY <2>1, <3>3, <3>4
  <2>4. CASE f \notin Encoders
    <3>1. f \in Decoders /\ gstCruDecInstance < MaxDec
      BY <1>1, <1>4, <2>4, Limits DEF LimitReached, File
    <3>2. enc = 0 /\ dec = 1
      BY <2>4, <3>1
    <3> HIDE DEF enc, dec, new
    <3>3. faults' \in Nat
      BY <1>3, <1>4
    <3>4. gstCruEncInstance' \in 0..MaxEnc /\ gstCruDecInstance' \in 0..MaxDec
      BY <1>3, <1>4, <3>1, <3>2, Limits
    <3> QED BY <2>1, <3>3, <3>4
  <2> QED BY <2>3, <2>4
<1>8. TypeOK'
  BY <1>2, <1>5, <1>7, TypeParts, TypePartsNext
     DEF PoolTyped, CallerTyped, UnitTyped, power, caller, interrupt, history
<1>9. Phase'
  BY <1>2, <1>7 DEF Phase, power, caller
<1>10. \A g \in Holders : /\ g # f /\ private_data'[g] = private_data[g]
                          /\ private_data[g] \in InUse /\ private_data[g] # i
                          /\ SlotOf(g)' = SlotOf(g)
  <2>1. \A g \in Holders : g # f /\ private_data[g] \in InUse /\ private_data[g] \in Slot
                           /\ private_data[g] # i /\ g \in File
    BY <1>1, <1>6, PoolFinite
  <2>2. \A g \in Holders : private_data'[g] = private_data[g]
    BY <1>3, <1>4, <2>1
  <2> QED BY <1>5, <2>1, <2>2 DEF SlotOf
<1>11. SlotsAgree'
  <2>1. CASE /\ private_data' = [private_data EXCEPT ![f] = i]
             /\ gstCruEncInstance' = gstCruEncInstance + enc
             /\ gstCruDecInstance' = gstCruDecInstance + dec
             /\ faults' = faults
    <3>1. private_data'[f] = i /\ SlotOf(f)'.codec = new
      BY <1>4, <1>5, <2>1 DEF SlotOf
    <3>2. Holders' = Holders \cup {f}
      BY <1>1, <1>2, <1>4, <2>1, <3>1, Limits, TypeParts DEF Holders, caller, PoolTyped
    <3>3. Cardinality(Holders') = Cardinality(Holders) + 1
      BY <1>1, <3>2, PoolFinite, FS_AddElement
    <3>4. Cardinality(Holders' \cap Encoders) = Cardinality(Holders \cap Encoders) + enc
      <4>1. CASE f \in Encoders
        <5>1. Holders' \cap Encoders = (Holders \cap Encoders) \cup {f}
              /\ f \notin Holders \cap Encoders
          BY <1>1, <3>2, <4>1
        <5> QED BY <4>1, <5>1, PoolFinite, FS_AddElement
      <4>2. CASE f \notin Encoders
        <5>1. Holders' \cap Encoders = Holders \cap Encoders
          BY <3>2, <4>2
        <5> QED BY <4>2, <5>1, PoolFinite
      <4> QED BY <4>1, <4>2
    <3>5. Cardinality(Holders' \cap Decoders) = Cardinality(Holders \cap Decoders) + dec
      <4>1. CASE f \in Decoders
        <5>1. Holders' \cap Decoders = (Holders \cap Decoders) \cup {f}
              /\ f \notin Holders \cap Decoders
          BY <1>1, <3>2, <4>1
        <5> QED BY <4>1, <5>1, PoolFinite, FS_AddElement
      <4>2. CASE f \notin Decoders
        <5>1. Holders' \cap Decoders = Holders \cap Decoders
          BY <3>2, <4>2
        <5> QED BY <4>2, <5>1, PoolFinite
      <4> QED BY <4>1, <4>2
    <3>6. gstCruEncInstance' = Cardinality(Holders' \cap Encoders)
          /\ gstCruDecInstance' = Cardinality(Holders' \cap Decoders)
      BY <2>1, <3>4, <3>5 DEF SlotsAgree
    <3>7. Cardinality(InUse') <= Cardinality(Holders') + faults'
      BY <1>4, <1>6, <2>1, <3>3, PoolFinite DEF SlotsAgree
    <3>8. \A g, h \in Holders' : private_data'[g] = private_data'[h] => g = h
      BY <1>10, <3>1, <3>2 DEF SlotsAgree
    <3>9. \A g \in Holders' : /\ private_data'[g] \in InUse'
                              /\ SlotOf(g)'.codec = IF g \in Encoders THEN "enc" ELSE "dec"
      BY <1>6, <1>10, <3>1, <3>2 DEF SlotsAgree
    <3> HIDE DEF enc, dec, new
    <3> QED BY <1>2, <3>6, <3>7, <3>8, <3>9 DEF SlotsAgree
  <2>2. CASE /\ faults' = faults + 1
             /\ UNCHANGED <<private_data, gstCruEncInstance, gstCruDecInstance>>
    <3>1. Holders' = Holders
      BY <1>2, <2>2 DEF Holders, caller
    <3>2. Cardinality(InUse') <= Cardinality(Holders') + faults'
      BY <1>4, <1>6, <2>2, <3>1, PoolFinite DEF SlotsAgree
    <3> QED BY <1>2, <1>6, <1>10, <2>2, <3>1, <3>2 DEF SlotsAgree
  <2> QED BY <1>3, <2>1, <2>2
<1>12. PoweredWhileUsed'
  BY <1>1, <1>2 DEF PoweredWhileUsed, power
<1> QED BY <1>8, <1>9, <1>11, <1>12

LEMMA CloseInv == ASSUME Inv, NEW f \in File, Close(f) PROVE Inv'
<1> USE DEF Inv
<1> DEFINE s == private_data[f]
           enc == IF f \in Encoders THEN 1 ELSE 0
           dec == IF f \in Decoders THEN 1 ELSE 0
<1>1. /\ user = "none" /\ upc = "none" /\ ~closing /\ f \in opened /\ f # "none"
      /\ closing' = TRUE
      /\ UNCHANGED <<opened, private_data, gstCurNumInstance, power, interrupt, adrift, opens,
                     faults>>
  BY TypeParts, FileAssumption DEF Close, Phase, CallerTyped
<1>2. slots \in [Slot -> SlotState] /\ private_data \in [File -> 0..NumSlots]
      /\ gstCruEncInstance \in 0..MaxEnc /\ gstCruDecInstance \in 0..MaxDec
      /\ faults \in Nat
  BY TypeParts DEF PoolTyped, Phase
<1>3. /\ user' = f /\ upc' \in {"busy", "rest"} /\ issued' \in 0..MaxCommand
      /\ cmd' \in CmdState /\ unit' \in UnitState
  <2>1. cmd \in CmdState /\ unit \in UnitState /\ issued \in 0..MaxCommand
    BY TypeParts DEF CallerTyped, UnitTyped, Phase
  <2>2. CASE s # 0 /\ slots[s].isInitialized
    <3>1. Issue(f, "SEQ_END", s) /\ "SEQ_END" \in Op /\ "SEQ_END" \notin Waited /\ s \in Slot
      BY <1>2, <2>2, Limits DEF Close, Op, Waited
    <3> QED BY <3>1, IssueTyped
  <2>3. CASE ~(s # 0 /\ slots[s].isInitialized)
    BY <2>1, <2>3 DEF Close
  <2> QED BY <2>2, <2>3
<1>4. Phase'
  BY <1>1, <1>3 DEF Phase, power
<1>5. Holders' = Holders \ {f}
  BY <1>1, <1>3 DEF Holders
<1>6. PoweredWhileUsed'
  BY <1>1, <1>5 DEF PoweredWhileUsed, power
<1>7. CASE s = 0
  <2>1. UNCHANGED <<slots, gstCruEncInstance, gstCruDecInstance, dropped>>
    BY <1>7 DEF Close
  <2>2. Holders' = Holders
    BY <1>5, <1>7 DEF Holders
  <2>3. InUse' = InUse /\ \A g \in Holders : SlotOf(g)' = SlotOf(g)
    BY <1>1, <2>1 DEF InUse, SlotOf
  <2>4. SlotsAgree'
    BY <1>1, <2>1, <2>2, <2>3 DEF SlotsAgree
  <2>5. TypeOK'
    BY <1>1, <1>3, <2>1, TypeParts, TypePartsNext
       DEF PoolTyped, CallerTyped, UnitTyped, power, interrupt
  <2> QED BY <1>4, <1>6, <2>4, <2>5
<1>8. CASE s # 0
  <2>1. /\ slots' = [slots EXCEPT ![s].inUse = FALSE, ![s].needMoreFrame = 0]
        /\ gstCruEncInstance' = gstCruEncInstance - enc
        /\ gstCruDecInstance' = gstCruDecInstance - dec
        /\ dropped' = dropped \cup ({slots[s].needMoreFrame} \ {0})
    BY <1>8 DEF Close
  <2>2. f \in Holders /\ s \in InUse /\ s \in Slot
    BY <1>1, <1>8, PoolFinite DEF Holders
  <2>3. /\ slots' \in [Slot -> SlotState] /\ ~slots'[s].inUse
        /\ \A j \in Slot : j # s => slots'[j] = slots[j]
    <3>1. \A j \in Slot : j # s => slots'[j] = slots[j]
      BY <1>2, <2>1, <2>2
    <3>2. slots'[s] = [slots[s] EXCEPT !.inUse = FALSE, !.needMoreFrame = 0]
      BY <1>2, <2>1, <2>2
    <3>3. slots'[s] \in SlotState /\ ~slots'[s].inUse
      BY <1>2, <2>2, <3>2, SlotFreed
    <3>4. slots' \in [Slot -> SlotState]
      BY <1>2, <2>1, <2>2, <3>1, <3>3
    <3> QED BY <3>1, <3>3, <3>4
  <2>4. InUse' = InUse \ {s} /\ Cardinality(InUse') = Cardinality(InUse) - 1
    <3>1. InUse' = InUse \ {s}
      BY <2>2, <2>3 DEF InUse
    <3> QED BY <2>2, <3>1, PoolFinite, FS_RemoveElement
  <2>5. Cardinality(Holders') = Cardinality(Holders) - 1
    BY <1>5, <2>2, PoolFinite, FS_RemoveElement
  <2>6. /\ Cardinality(Holders' \cap Encoders) = Cardinality(Holders \cap Encoders) - enc
        /\ Cardinality(Holders' \cap Encoders) \in Nat
    <3>1. Holders' \cap Encoders = (Holders \cap Encoders) \ {f}
      BY <1>5
    <3>2. f \in Holders \cap Encoders <=> f \in Encoders
      BY <2>2
    <3>a. IsFiniteSet(Holders \cap Encoders)
      BY PoolFinite
    <3>b. /\ IsFiniteSet((Holders \cap Encoders) \ {f})
          /\ Cardinality((Holders \cap Encoders) \ {f}) =
                IF f \in Holders \cap Encoders THEN Cardinality(Holders \cap Encoders) - 1
                                            ELSE Cardinality(Holders \cap Encoders)
      BY <3>a, FS_RemoveElement
    <3>3. /\ IsFiniteSet(Holders' \cap Encoders)
          /\ Cardinality(Holders' \cap Encoders) =
                IF f \in Holders \cap Encoders THEN Cardinality(Holders \cap Encoders) - 1
                                            ELSE Cardinality(Holders \cap Encoders)
      BY <3>1, <3>b, Zenon
    <3>4. Cardinality(Holders' \cap Encoders) \in Nat
      BY <3>3, FS_CardinalityType
    <3> QED BY <3>2, <3>3, <3>4, PoolFinite
  <2>7. /\ Cardinality(Holders' \cap Decoders) = Cardinality(Holders \cap Decoders) - dec
        /\ Cardinality(Holders' \cap Decoders) \in Nat
    <3>1. Holders' \cap Decoders = (Holders \cap Decoders) \ {f}
      BY <1>5
    <3>2. f \in Holders \cap Decoders <=> f \in Decoders
      BY <2>2
    <3>a. IsFiniteSet(Holders \cap Decoders)
      BY PoolFinite
    <3>b. /\ IsFiniteSet((Holders \cap Decoders) \ {f})
          /\ Cardinality((Holders \cap Decoders) \ {f}) =
                IF f \in Holders \cap Decoders THEN Cardinality(Holders \cap Decoders) - 1
                                            ELSE Cardinality(Holders \cap Decoders)
      BY <3>a, FS_RemoveElement
    <3>3. /\ IsFiniteSet(Holders' \cap Decoders)
          /\ Cardinality(Holders' \cap Decoders) =
                IF f \in Holders \cap Decoders THEN Cardinality(Holders \cap Decoders) - 1
                                            ELSE Cardinality(Holders \cap Decoders)
      BY <3>1, <3>b, Zenon
    <3>4. Cardinality(Holders' \cap Decoders) \in Nat
      BY <3>3, FS_CardinalityType
    <3> QED BY <3>2, <3>3, <3>4, PoolFinite
  <2>8. gstCruEncInstance' = Cardinality(Holders' \cap Encoders)
        /\ gstCruDecInstance' = Cardinality(Holders' \cap Decoders)
    BY <2>1, <2>6, <2>7 DEF SlotsAgree
  <2>9. gstCruEncInstance' \in 0..MaxEnc /\ gstCruDecInstance' \in 0..MaxDec
    BY <1>2, <2>1, <2>6, <2>7, <2>8, Limits
  <2>10. TypeOK'
    <3>1. slots[s].needMoreFrame \in 0..MaxCommand
      BY <1>2, <2>2 DEF SlotState
    <3>2. dropped' \subseteq 0..MaxCommand
      BY <2>1, <3>1, TypeParts DEF CallerTyped
    <3> QED BY <1>1, <1>3, <2>3, <2>9, <3>2, TypeParts, TypePartsNext
            DEF PoolTyped, CallerTyped, UnitTyped, power, interrupt
  <2>11. \A g \in Holders' : /\ g \in Holders /\ private_data[g] \in InUse'
                             /\ SlotOf(g)' = SlotOf(g)
    <3>1. \A g \in Holders' : /\ g \in Holders /\ private_data[g] \in InUse
                              /\ private_data[g] \in Slot /\ private_data[g] # s
      BY <1>5, <2>2, PoolFinite DEF SlotsAgree
    <3> QED BY <1>1, <2>3, <2>4, <3>1 DEF SlotOf
  <2>12. SlotsAgree'
    <3>1. Cardinality(InUse') <= Cardinality(Holders') + faults'
      BY <1>1, <1>2, <2>4, <2>5, PoolFinite DEF SlotsAgree
    <3>2. \A g, h \in Holders' : private_data'[g] = private_data'[h] => g = h
      BY <1>1, <2>11 DEF SlotsAgree
    <3>3. \A g \in Holders' : /\ private_data'[g] \in InUse'
                              /\ SlotOf(g)'.codec = IF g \in Encoders THEN "enc" ELSE "dec"
      BY <1>1, <2>11 DEF SlotsAgree
    <3>4. gstCurNumInstance' = Cardinality(opened')
      BY <1>1 DEF SlotsAgree
    <3> QED BY <2>8, <3>1, <3>2, <3>3, <3>4 DEF SlotsAgree
  <2> QED BY <1>4, <1>6, <2>10, <2>12
<1> QED BY <1>7, <1>8

LEMMA CloseRestInv == ASSUME Inv, CloseRest PROVE Inv'
<1> USE DEF Inv
<1>1. /\ upc = "rest" /\ closing /\ user \in opened /\ user # "none" /\ user \in File
      /\ opened' = opened \ {user} /\ private_data' = [private_data EXCEPT ![user] = 0]
      /\ gstCurNumInstance' = gstCurNumInstance - 1
      /\ user' = "none" /\ upc' = "none" /\ closing' = FALSE
      /\ UNCHANGED <<slots, gstCruEncInstance, gstCruDecInstance, cmd, unit, reason,
                     gVpuEventPresent, history, counts>>
  BY TypeParts DEF CloseRest, Phase, CallerTyped, PoolTyped
<1>2. /\ Cardinality(opened') = Cardinality(opened) - 1 /\ IsFiniteSet(opened')
      /\ Cardinality(opened') \in Nat /\ gstCurNumInstance' = Cardinality(opened')
  <2>1. IsFiniteSet(opened') /\ Cardinality(opened') = Cardinality(opened) - 1
    BY <1>1, PoolFinite, FS_RemoveElement
  <2> QED BY <1>1, <2>1, FS_CardinalityType DEF SlotsAgree
<1>3. gstCurNumInstance' \in 0..MaxInstance
  BY <1>1, <1>2, Limits, TypeParts DEF PoolTyped
<1>4. \/ /\ gstCurNumInstance = 1
         /\ gstIsInitialized' = FALSE /\ gstIsVPUOn' = FALSE /\ irq' = FALSE
      \/ UNCHANGED <<power, irq>>
  BY DEF CloseRest, LastFile
<1>5. TypeOK'
  <2>1. opened' \subseteq File /\ private_data' \in [File -> 0..NumSlots]
    BY <1>1, Limits, TypeParts DEF PoolTyped
  <2> QED BY <1>1, <1>3, <1>4, <2>1, TypeParts, TypePartsNext
          DEF PoolTyped, CallerTyped, UnitTyped, power, history
<1>6. Phase'
  BY <1>1, <1>2, <1>4 DEF Phase, power, counts
<1>7. Holders' = Holders
  BY <1>1, TypeParts DEF Holders, PoolTyped
<1>8. \A g \in Holders : private_data'[g] = private_data[g] /\ SlotOf(g)' = SlotOf(g)
  <2>1. \A g \in Holders : g # user /\ g \in File
    BY <1>1, PoolFinite DEF Holders
  <2>2. \A g \in Holders : private_data'[g] = private_data[g]
    BY <1>1, <2>1, TypeParts DEF PoolTyped
  <2> QED BY <1>1, <2>2 DEF SlotOf
<1>9. SlotsAgree'
  <2>1. InUse' = InUse
    BY <1>1 DEF InUse
  <2> QED BY <1>1, <1>2, <1>7, <1>8, <2>1 DEF SlotsAgree, counts
<1>10. PoweredWhileUsed'
  <2>1. CASE gstCurNumInstance = 1
    <3>1. Cardinality(opened') = 0
      BY <1>2, <2>1, PoolFinite DEF SlotsAgree
    <3>2. opened' = {}
      BY <1>2, <3>1, FS_EmptySet
    <3>3. Holders' = {}
      BY <3>2 DEF Holders
    <3> QED BY <3>3 DEF PoweredWhileUsed
  <2>2. CASE gstCurNumInstance # 1
    BY <1>4, <1>7, <2>2 DEF PoweredWhileUsed, power
  <2> QED BY <2>1, <2>2
<1> QED BY <1>5, <1>6, <1>9, <1>10

-----------------------------------------------------------------------------
LEMMA StutterInv == ASSUME Inv, UNCHANGED vars PROVE Inv'
<1> USE DEF Inv
<1>1. /\ UNCHANGED <<opened, private_data, slots, gstCurNumInstance, gstCruEncInstance,
                     gstCruDecInstance, power, user, upc, cmd, closing, unit, interrupt,
                     history, issued, faults>>
  BY DEF vars, pool, caller, counts
<1>2. TypeOK'
  BY <1>1, TypeParts, TypePartsNext
     DEF PoolTyped, CallerTyped, UnitTyped, power, interrupt, history
<1>3. Phase'
  BY <1>1 DEF Phase, power
<1>4. SlotsAgree' /\ PoweredWhileUsed'
  BY <1>1, PoolKept
<1> QED BY <1>2, <1>3, <1>4

LEMMA StepInv == Inv /\ [Next]_vars => Inv'
<1> SUFFICES ASSUME Inv, [Next]_vars PROVE Inv'
  OBVIOUS
<1>1. ASSUME NEW f \in File, Call(f) PROVE Inv'
  BY <1>1, OpenInv, OpenInstanceInv, CommandInv, MoreDataInv, CloseInstanceInv, CloseInv
     DEF Call
<1>2. CASE Driver
  BY <1>2, WaitInv, ResetInv, ReadInv, PolledInv, CloseRestInv DEF Driver
<1>3. CASE Unit
  BY <1>3, UnitInv
<1>4. CASE UNCHANGED vars
  BY <1>4, StutterInv
<1> QED BY <1>1, <1>2, <1>3, <1>4 DEF Next

LEMMA Invariance == Spec => []Inv
  BY InitInv, StepInv, PTL DEF Spec

(* The counts of instances stay within the limits of the unit, and never    *)
(* fall below nothing, whatever is opened, closed or fails.                 *)
THEOREM Typed == Spec => []TypeOK
<1>1. Inv => TypeOK
  BY DEF Inv
<1> QED BY <1>1, Invariance, PTL

(* Two files never share a slot, and what is counted is what is there: for  *)
(* any number of files and slots, through every failed copy and every close *)
(* of a process that died in the middle.                                    *)
THEOREM SlotsOwned == Spec => []SlotsAgree
<1>1. Inv => SlotsAgree
  BY DEF Inv
<1> QED BY <1>1, Invariance, PTL

(* The unit is not switched off under a file that holds an instance. *)
THEOREM Powered == Spec => []PoweredWhileUsed
<1>1. Inv => PoweredWhileUsed
  BY DEF Inv
<1> QED BY <1>1, Invariance, PTL

-----------------------------------------------------------------------------
(***************************************************************************)
(* Whose answer it is.  A command is known by its number: what a slot      *)
(* remembers, what the call waits for and what the unit works on agree     *)
(* about the slot where they agree about the number.                       *)
(***************************************************************************)
Numbered ==
    /\ unit.n <= issued /\ cmd.n <= issued
    /\ unit.n # 0 /\ unit.n = cmd.n => unit.slot = cmd.slot
    /\ \A i \in Slot : slots[i].needMoreFrame # 0 =>
          /\ slots[i].needMoreFrame <= issued
          /\ unit.n = slots[i].needMoreFrame => unit.slot = i
          /\ cmd.n = slots[i].needMoreFrame => cmd.slot = i
          /\ \A j \in Slot : slots[j].needMoreFrame = slots[i].needMoreFrame => j = i

(* Nothing pending and nothing unread, and a unit that works on nothing or *)
(* is in the middle of what a slot remembers, or of what was dropped.      *)
Quiet == ~irq /\ ~gVpuEventPresent /\ reason = NoReason
AtRest ==
    unit.state # "idle" =>
        /\ unit.state = "paused"
        /\ \/ unit.n \in dropped
           \/ /\ unit.n # 0 /\ slots[unit.slot].inUse
              /\ slots[unit.slot].needMoreFrame = unit.n

(* The unit works on what the call waits for; it has answered the call.    *)
Working == unit.n = cmd.n /\ unit.slot = cmd.slot
Answered ==
    /\ reason.n = cmd.n
    /\ unit.state # "idle" =>
          /\ unit.state = "paused" /\ unit.n = cmd.n /\ unit.slot = cmd.slot
          /\ reason.bit = IF Codec = "dec" THEN "BUF_EMPTY" ELSE "BUF_FULL"

(* The unit may also not have taken the command up, and rest.              *)
Waiting ==
    \/ Quiet /\ (unit.state = "run" => Working)
    \/ ~(irq /\ gVpuEventPresent) /\ Answered
Tied ==
    ~adrift =>
        /\ upc \in {"none", "rest"} => Quiet /\ AtRest
        /\ upc = "busy" => Quiet /\ (unit.state = "run" => unit.op \notin Waited)
        /\ upc \in {"wait", "poll", "read"} => slots[cmd.slot].inUse /\ cmd.n # 0
        /\ upc \in {"wait", "poll"} => Waiting
        /\ upc = "read" => ~irq /\ ~gVpuEventPresent /\ Answered

LEMMA InitTied == Init => Numbered /\ Tied
  BY DEF Init, Numbered, Tied, FreeSlot, NoCommand, Idle, Quiet, AtRest

LEMMA Numbers ==
    ASSUME TypeOK, Phase
    PROVE  /\ issued \in Nat /\ unit.n \in Nat /\ cmd.n \in Nat
           /\ unit.slot \in Slot /\ cmd.slot \in Slot
           /\ \A i \in Slot : slots[i].needMoreFrame \in Nat
<1>1. unit \in UnitState /\ cmd \in CmdState /\ slots \in [Slot -> SlotState]
  BY TypeParts DEF PoolTyped, CallerTyped, UnitTyped
<1> QED BY <1>1, Limits DEF UnitState, CmdState, SlotState, Phase

(* What forgets numbers keeps the rest apart. *)
LEMMA NumbersForgotten ==
    ASSUME Inv, Numbered, issued' = issued,
           unit'.n = 0 \/ (unit'.n = unit.n /\ unit'.slot = unit.slot),
           cmd'.n = 0 \/ (cmd'.n = cmd.n /\ cmd'.slot = cmd.slot),
           \A i \in Slot : slots'[i].needMoreFrame \in {0, slots[i].needMoreFrame}
    PROVE  Numbered'
  BY Numbers DEF Inv, Numbered

LEMMA NumbersIssued ==
    ASSUME Inv, Numbered, NEW f \in File, NEW op \in Op, NEW s \in Slot, Issue(f, op, s),
           \A i \in Slot : slots'[i].needMoreFrame \in {0, slots[i].needMoreFrame}
    PROVE  Numbered'
<1>1. CASE op \in Waited
  <2>1. /\ issued' = issued + 1 /\ cmd'.n = issued + 1 /\ cmd'.slot = s
        /\ \/ unit' = unit
           \/ unit'.n = issued + 1 /\ unit'.slot = s
    BY <1>1 DEF Issue
  <2> QED BY <2>1, Numbers DEF Inv, Numbered
<1>2. CASE op \notin Waited
  <2>1. /\ issued' = issued /\ cmd'.n = 0
        /\ \/ unit' = unit
           \/ unit'.n = 0
    BY <1>2 DEF Issue
  <2> QED BY <2>1, Numbers DEF Inv, Numbered
<1> QED BY <1>1, <1>2

(* A command is issued to a unit that is idle, or in the middle of another  *)
(* one: then it is taken up, or the unit stays where it is.                *)
LEMMA TiedIssued ==
    ASSUME Inv, Tied, NEW f \in File, NEW op \in Op, NEW s \in Slot, Issue(f, op, s),
           user = "none", UNCHANGED interrupt, adrift' = adrift,
           op \in Waited => slots'[s].inUse
    PROVE  Tied'
<1>1. SUFFICES ASSUME ~adrift' PROVE Tied'
  BY DEF Tied
<1>2. ~adrift /\ unit.state # "run" /\ upc = "none" /\ Quiet
  BY <1>1 DEF Tied, AtRest, Inv, TypeOK
<1>3. Quiet'
  BY <1>2 DEF Quiet, interrupt
<1>4. CASE op \in Waited
  <2>1. /\ upc' = "wait" /\ cmd'.slot = s /\ cmd'.n = issued + 1
        /\ \/ unit' = unit
           \/ unit'.n = cmd'.n /\ unit'.slot = s
    BY <1>4 DEF Issue
  <2>2. cmd'.n # 0
    BY <2>1, Numbers DEF Inv
  <2>3. (unit.state = "run" => Working)'
    BY <1>2, <2>1 DEF Working
  <2> QED BY <1>3, <1>4, <2>1, <2>2, <2>3 DEF Tied, Waiting
<1>5. CASE op \notin Waited
  <2>1. upc' = "busy" /\ (unit' = unit \/ unit'.op = op)
    BY <1>5 DEF Issue
  <2> QED BY <1>2, <1>3, <1>5, <2>1 DEF Tied
<1> QED BY <1>4, <1>5

-----------------------------------------------------------------------------
LEMMA Holds ==
    ASSUME Inv, NEW f \in File, Calls(f)
    PROVE  /\ private_data[f] \in Slot /\ slots[private_data[f]].inUse
           /\ user = "none" /\ upc = "none" /\ ~closing
<1>1. f \in opened /\ private_data[f] \in Slot /\ user = "none" /\ upc = "none" /\ ~closing
  BY CallsTyped DEF Inv
<1>2. f \in Holders
  BY <1>1, Limits DEF Holders
<1> QED BY <1>1, <1>2 DEF Inv, SlotsAgree, InUse

LEMMA OpenTied == ASSUME Inv, Numbered, Tied, NEW f \in File, Open(f) PROVE Numbered' /\ Tied'
<1>1. /\ UNCHANGED <<caller, gVpuEventPresent, history, issued>> /\ upc = "none"
      /\ \/ UNCHANGED <<slots, unit, reason, irq>>
         \/ /\ unit' = Idle /\ irq' = FALSE /\ reason' = NoReason
            /\ \A i \in Slot : slots'[i].needMoreFrame = slots[i].needMoreFrame
  <2>1. slots \in [Slot -> SlotState]
    BY TypeParts DEF Inv, PoolTyped
  <2>2. \A i \in Slot : [slots[i] EXCEPT !.inUse = FALSE].needMoreFrame = slots[i].needMoreFrame
    BY <2>1 DEF SlotState
  <2> QED BY <2>1, <2>2 DEF Open, VpuInit, Inv, TypeOK
<1>2. Numbered'
  BY <1>1, NumbersForgotten, Numbers DEF Inv, caller, Idle
<1>3. Tied'
  BY <1>1 DEF Tied, Quiet, AtRest, Idle, caller, history
<1> QED BY <1>2, <1>3

LEMMA OpenInstanceTied ==
    ASSUME Inv, Numbered, Tied, NEW f \in File, OpenInstance(f) PROVE Numbered' /\ Tied'
<1>1. /\ UNCHANGED <<caller, unit, interrupt, history, issued>> /\ user = "none"
  BY DEF OpenInstance
<1>2. PICK i \in Slot :
          /\ Found(i)
          /\ slots' = [slots EXCEPT ![i].inUse = TRUE,
                                    ![i].codec = IF f \in Encoders THEN "enc" ELSE "dec",
                                    ![i].needMoreFrame = 0]
  BY DEF OpenInstance
<1>3. ~slots[i].inUse /\ slots'[i].needMoreFrame = 0 /\ \A j \in Slot : j # i => slots'[j] = slots[j]
  <2>1. slots \in [Slot -> SlotState]
    BY TypeParts DEF Inv, PoolTyped
  <2> QED BY <1>2, <2>1 DEF Found, SlotState
<1>4. Numbered'
  BY <1>1, <1>3, NumbersForgotten DEF caller
<1>5. Tied'
  <2>1. upc = "none"
    BY <1>1 DEF Inv, TypeOK
  <2> QED BY <1>1, <1>3, <2>1, Numbers DEF Inv, Tied, Quiet, AtRest, caller, interrupt, history
<1> QED BY <1>4, <1>5

LEMMA CommandTied ==
    ASSUME Inv, Numbered, Tied, NEW f \in File, Command(f) PROVE Numbered' /\ Tied'
<1>1. PICK op \in Op : Issue(f, op, private_data[f])
  BY DEF Command, Op
<1>2. private_data[f] \in Slot /\ slots[private_data[f]].inUse /\ user = "none"
  BY Holds DEF Command
<1>3. UNCHANGED <<slots, interrupt, adrift>>
  BY DEF Command, pool, history
<1>4. Numbered'
  BY <1>1, <1>2, <1>3, NumbersIssued
<1>5. Tied'
  BY <1>1, <1>2, <1>3, TiedIssued
<1> QED BY <1>4, <1>5

LEMMA MoreDataTied ==
    ASSUME Inv, Numbered, Tied, NEW f \in File, MoreData(f) PROVE Numbered' /\ Tied'
<1> DEFINE s == private_data[f]
           n == slots[s].needMoreFrame
<1>1. s \in Slot /\ slots[s].inUse /\ upc = "none"
  BY Holds DEF MoreData
<1>2. /\ n # 0 /\ cmd'.n = n /\ cmd'.slot = s
      /\ unit' = IF unit.state = "paused" /\ unit.n = n
                   THEN [unit EXCEPT !.state = "run"] ELSE unit
      /\ slots' = [slots EXCEPT ![s].needMoreFrame = 0]
      /\ upc' = "wait" /\ UNCHANGED <<interrupt, adrift, issued>>
  BY DEF MoreData, SlotOf, history, counts
<1>3. /\ slots'[s].needMoreFrame = 0 /\ slots'[s].inUse
      /\ \A j \in Slot : j # s => slots'[j] = slots[j]
  <2>1. slots \in [Slot -> SlotState]
    BY TypeParts DEF Inv, PoolTyped
  <2> QED BY <1>1, <1>2, <2>1 DEF SlotState
<1>4. unit'.n = unit.n /\ unit'.slot = unit.slot
  <2>1. unit \in UnitState
    BY TypeParts DEF Inv, UnitTyped
  <2> QED BY <1>2, <2>1 DEF UnitState
<1>5. Numbered'
  BY <1>1, <1>2, <1>3, <1>4, Numbers DEF Inv, Numbered
<1>6. Tied'
  <2>1. SUFFICES ASSUME ~adrift' PROVE Tied'
    BY DEF Tied
  <2>2. Quiet' /\ unit.state # "run"
    BY <1>1, <1>2, <2>1 DEF Tied, Quiet, AtRest, interrupt
  <2>3. ASSUME unit'.state = "run" PROVE Working'
    <3>1. unit.n = n /\ unit.slot = s
      BY <1>1, <1>2, <2>2, <2>3 DEF Numbered
    <3> QED BY <1>2, <1>4, <3>1 DEF Working
  <2> QED BY <1>2, <1>3, <2>2, <2>3 DEF Tied, Waiting
<1> QED BY <1>5, <1>6

LEMMA CloseInstanceTied ==
    ASSUME Inv, Numbered, Tied, NEW f \in File, CloseInstance(f) PROVE Numbered' /\ Tied'
<1>1. private_data[f] \in Slot /\ user = "none" /\ upc = "none"
  BY Holds DEF CloseInstance
<1>2. CASE SlotOf(f).isInitialized
  <2>1. /\ Issue(f, "SEQ_END", private_data[f]) /\ "SEQ_END" \in Op /\ "SEQ_END" \notin Waited
        /\ UNCHANGED <<slots, interrupt, adrift>>
    BY <1>2 DEF CloseInstance, Op, Waited, interrupt, history
  <2> QED BY <1>1, <2>1, NumbersIssued, TiedIssued
<1>3. CASE ~SlotOf(f).isInitialized
  <2>1. /\ slots' = [slots EXCEPT ![private_data[f]].isInitialized = FALSE]
        /\ irq' = FALSE /\ gVpuEventPresent' = FALSE
        /\ UNCHANGED <<upc, cmd, unit, issued, reason, history>>
    BY <1>3 DEF CloseInstance, SequenceEnded
  <2>2. \A i \in Slot : /\ slots'[i].needMoreFrame = slots[i].needMoreFrame
                        /\ slots'[i].inUse = slots[i].inUse
    BY <1>1, <2>1, TypeParts DEF Inv, PoolTyped, SlotState
  <2>3. Numbered'
    BY <2>1, <2>2, NumbersForgotten
  <2>4. Tied'
    BY <1>1, <2>1, <2>2, Numbers DEF Inv, Tied, Quiet, AtRest, history
  <2> QED BY <2>3, <2>4
<1> QED BY <1>2, <1>3

LEMMA CloseTied == ASSUME Inv, Numbered, Tied, NEW f \in File, Close(f) PROVE Numbered' /\ Tied'
<1> DEFINE s == private_data[f]
<1>1. user = "none" /\ upc = "none" /\ UNCHANGED <<interrupt, adrift>>
  BY DEF Close, Inv, TypeOK
<1>2. CASE s = 0
  <2>1. upc' = "rest" /\ UNCHANGED <<slots, cmd, unit, dropped, issued>>
    BY <1>2 DEF Close
  <2> QED BY <1>1, <2>1, NumbersForgotten DEF Tied, Quiet, AtRest, interrupt
<1>3. CASE s # 0
  <2>1. /\ s \in Slot /\ slots' = [slots EXCEPT ![s].inUse = FALSE, ![s].needMoreFrame = 0]
        /\ dropped' = dropped \cup ({slots[s].needMoreFrame} \ {0})
    <3>1. s \in 0..NumSlots
      BY TypeParts DEF Inv, PoolTyped
    <3>2. s \in Slot
      BY <1>3, <3>1, Limits
    <3> QED BY <1>3, <3>2 DEF Close
  <2>2. slots'[s].needMoreFrame = 0 /\ \A j \in Slot : j # s => slots'[j] = slots[j]
    BY <2>1, TypeParts DEF Inv, PoolTyped, SlotState
  <2>3. CASE slots[s].isInitialized
    <3>1. Issue(f, "SEQ_END", s) /\ "SEQ_END" \in Op /\ "SEQ_END" \notin Waited
      BY <1>3, <2>3 DEF Close, Op, Waited
    <3> QED BY <1>1, <2>1, <2>2, <3>1, NumbersIssued, TiedIssued
  <2>4. CASE ~slots[s].isInitialized
    <3>1. upc' = "rest" /\ UNCHANGED <<cmd, unit, issued>>
      BY <1>3, <2>4 DEF Close
    <3>2. Numbered'
      BY <2>2, <3>1, NumbersForgotten
    <3>3. Tied'
      BY <1>1, <2>1, <2>2, <3>1, Numbers DEF Inv, Tied, Quiet, AtRest, interrupt
    <3> QED BY <3>2, <3>3
  <2> QED BY <2>3, <2>4
<1> QED BY <1>2, <1>3

LEMMA UnitTied == ASSUME Inv, Numbered, Tied, Unit PROVE Numbered' /\ Tied'
<1>1. UNCHANGED <<slots, upc, cmd, adrift, dropped, issued>>
  BY DEF Unit, UnitDone, UnitPauses, Handler, pool, caller, history, counts
<1>2. unit \in UnitState /\ Codec' = Codec
  BY <1>1, TypeParts DEF Inv, UnitTyped, Codec
<1>3. CASE UnitDone
  <2>1. /\ unit.state = "run" /\ upc # "none" /\ unit' = Idle /\ gVpuEventPresent' = gVpuEventPresent
        /\ \/ unit.op \in Waited /\ reason'.n = unit.n /\ irq' = TRUE
           \/ unit.op \notin Waited /\ UNCHANGED <<reason, irq>>
    BY <1>3 DEF UnitDone, Inv, TypeOK
  <2>2. Numbered'
    BY <1>1, <2>1, NumbersForgotten DEF Idle
  <2>3. unit'.state = "idle"
    BY <2>1 DEF Idle
  <2>4. Waiting => Waiting'
    BY <1>1, <2>1, <2>3 DEF Waiting, Working, Answered, Quiet
  <2>5. Tied'
    BY <1>1, <2>1, <2>3, <2>4 DEF Tied, Answered, Quiet, AtRest
  <2> QED BY <2>2, <2>5
<1>4. CASE UnitPauses
  <2>1. /\ unit.state = "run" /\ unit.op \in Waited /\ irq' = TRUE
        /\ unit' = [unit EXCEPT !.state = "paused"] /\ gVpuEventPresent' = gVpuEventPresent
        /\ reason' = [n |-> unit.n,
                      bit |-> IF slots[unit.slot].codec = "dec" THEN "BUF_EMPTY" ELSE "BUF_FULL"]
    BY <1>4 DEF UnitPauses, Waited
  <2>2. unit'.state = "paused" /\ unit'.n = unit.n /\ unit'.slot = unit.slot
    BY <1>2, <2>1 DEF UnitState
  <2>3. Numbered'
    BY <1>1, <2>2, NumbersForgotten
  <2>4. upc # "none"
    BY <1>4 DEF UnitPauses, Inv, TypeOK
  <2>5. Waiting => Waiting'
    <3>1. ASSUME Waiting PROVE Quiet /\ Working
      BY <2>1, <3>1 DEF Waiting, Answered
    <3>2. ASSUME Quiet, Working PROVE Answered' /\ ~gVpuEventPresent'
      BY <1>1, <1>2, <2>1, <2>2, <3>2 DEF Answered, Working, Codec, Quiet
    <3> QED BY <3>1, <3>2 DEF Waiting
  <2>6. Tied'
    BY <1>1, <2>1, <2>4, <2>5 DEF Tied, Answered, AtRest
  <2> QED BY <2>3, <2>6
<1>5. CASE Handler
  <2>1. irq /\ irq' = FALSE /\ gVpuEventPresent' = TRUE /\ UNCHANGED <<unit, reason>>
    BY <1>5 DEF Handler
  <2>2. Numbered'
    BY <1>1, <2>1, NumbersForgotten
  <2>3. Waiting => Waiting'
    <3>1. Answered => Answered'
      BY <1>1, <1>2, <2>1 DEF Answered
    <3> QED BY <2>1, <3>1 DEF Waiting, Quiet
  <2>4. Tied'
    BY <1>1, <2>1, <2>3 DEF Tied, Quiet
  <2> QED BY <2>2, <2>4
<1> QED BY <1>3, <1>4, <1>5 DEF Unit

(* A wait that is given up goes on with the register; that it is not adrift *)
(* says that the interrupt it finds there has been served.                  *)
LEMMA WaitTied ==
    ASSUME Inv, Numbered, Tied, Woken \/ BreaksOff \/ Poll PROVE Numbered' /\ Tied'
<1>1. UNCHANGED <<slots, cmd, unit, reason, irq, dropped, issued>>
  BY DEF Woken, BreaksOff, Poll, pool, interrupt, history, counts
<1>2. Numbered'
  BY <1>1, NumbersForgotten
<1>3. Answered => Answered'
  BY <1>1 DEF Answered, Codec
<1>4. CASE Woken
  <2>1. upc = "wait" /\ gVpuEventPresent /\ ~gVpuEventPresent' /\ upc' = "read" /\ adrift' = adrift
    BY <1>4 DEF Woken, history
  <2>2. Tied'
    BY <1>1, <1>3, <2>1 DEF Tied, Waiting, Quiet
  <2> QED BY <1>2, <2>2
<1>5. CASE BreaksOff
  <2>1. /\ upc = "wait" /\ upc' \in {"reset", "poll"}
        /\ adrift' = adrift /\ gVpuEventPresent' = gVpuEventPresent
    BY <1>5 DEF BreaksOff, TimeIsUp, interrupt, history
  <2>2. Waiting => Waiting'
    BY <1>1, <1>3, <2>1 DEF Waiting, Quiet, Working
  <2>3. Tied'
    BY <1>1, <2>1, <2>2 DEF Tied
  <2> QED BY <1>2, <2>3
<1>6. CASE Poll
  <2>1. /\ upc = "poll"
        /\ \/ /\ reason # NoReason /\ upc' = "read" /\ ~gVpuEventPresent'
              /\ ~adrift' => ~adrift /\ ~irq
           \/ upc' = "reset"
    BY <1>6 DEF Poll
  <2>2. Waiting /\ reason # NoReason => Answered
    BY DEF Waiting, Quiet
  <2>3. Tied'
    BY <1>1, <1>3, <2>1, <2>2 DEF Tied
  <2> QED BY <1>2, <2>3
<1> QED BY <1>4, <1>5, <1>6

(* A unit that was stopped, and whose interrupt was served, has nothing     *)
(* left.                                                                    *)
LEMMA ResetTied == ASSUME Inv, Numbered, Tied, Reset PROVE Numbered' /\ Tied'
<1>1. Numbered'
  BY NumbersForgotten DEF Reset, SWReset, Idle, NoCommand, pool, counts
<1>2. /\ upc' = "none" /\ ~gVpuEventPresent' /\ reason' = NoReason
      /\ ~adrift' => ~irq' /\ unit'.state = "idle"
  BY DEF Reset, GivenUpReason
<1>3. Tied'
  BY <1>2 DEF Tied, Quiet, AtRest
<1> QED BY <1>1, <1>3

(* What a decoder that ran out of data remembers is what the unit is in    *)
(* the middle of; an encoder cannot go on, and its command is dropped.     *)
LEMMA ReadTied == ASSUME Inv, Numbered, Tied, Read PROVE Numbered' /\ Tied'
<1>1. /\ upc = "read" /\ irq' = FALSE /\ reason' = NoReason
      /\ \/ WaitsAgain /\ upc' = "wait" /\ cmd' = cmd
         \/ ~WaitsAgain /\ upc' = "none" /\ cmd' = NoCommand
      /\ Codec = "enc" /\ reason.bit = "BUF_FULL" => cmd.n \in dropped'
      /\ UNCHANGED <<unit, gVpuEventPresent, adrift, issued>>
  BY DEF Read, counts
<1>2. /\ slots \in [Slot -> SlotState] /\ cmd.slot \in Slot
      /\ Codec \in {"enc", "dec"}
  <2>1. slots \in [Slot -> SlotState] /\ cmd.slot \in Slot
    BY Numbers, TypeParts DEF Inv, PoolTyped
  <2> QED BY <2>1 DEF Codec, SlotState
<1>3. \/ \A i \in Slot : /\ slots'[i].needMoreFrame = slots[i].needMoreFrame
                         /\ slots'[i].inUse = slots[i].inUse
      \/ /\ OutOfData /\ slots'[cmd.slot].needMoreFrame = cmd.n
         /\ slots'[cmd.slot].inUse = slots[cmd.slot].inUse
         /\ \A i \in Slot : i # cmd.slot => slots'[i] = slots[i]
  <2>1. \/ slots' = slots
        \/ slots' = [slots EXCEPT ![cmd.slot].isInitialized = TRUE]
        \/ OutOfData /\ slots' = [slots EXCEPT ![cmd.slot].needMoreFrame = cmd.n]
    BY DEF Read, Remembered
  <2> QED BY <1>2, <2>1 DEF SlotState
<1>4. Numbered'
  <2>1. CASE cmd' = cmd
    BY <1>1, <1>2, <1>3, <2>1, Numbers DEF Inv, Numbered
  <2>2. CASE cmd'.n = 0
    BY <1>1, <1>2, <1>3, <2>2, Numbers DEF Inv, Numbered
  <2> QED BY <1>1, <2>1, <2>2 DEF NoCommand
<1>5. Tied'
  <2>1. SUFFICES ASSUME ~adrift' PROVE Tied'
    BY DEF Tied
  <2>2. Quiet' /\ Answered /\ slots[cmd.slot].inUse /\ cmd.n # 0
    BY <1>1, <2>1 DEF Tied, Quiet
  <2>3. slots'[cmd.slot].inUse
    BY <1>2, <1>3, <2>2
  <2>4. CASE Codec = "dec"
    <3>1. upc' = "none"
      BY <1>1, <2>4 DEF WaitsAgain
    <3>2. OutOfData => slots'[cmd.slot].needMoreFrame = cmd.n
      <4>1. OutOfData => slots' = [slots EXCEPT ![cmd.slot].needMoreFrame = cmd.n]
        BY <1>2 DEF Read, Remembered, OutOfData, Succeeded
      <4> QED BY <1>2, <4>1 DEF SlotState
    <3>3. AtRest'
      BY <1>1, <2>2, <2>3, <2>4, <3>2 DEF AtRest, Answered, OutOfData
    <3> QED BY <2>2, <3>1, <3>3 DEF Tied
  <2>5. CASE Codec = "enc"
    <3>1. unit.state # "idle" => unit.state = "paused" /\ unit.n \in dropped' /\ ~WaitsAgain
      BY <1>1, <2>2, <2>5 DEF Answered, WaitsAgain
    <3>2. AtRest'
      BY <1>1, <3>1 DEF AtRest
    <3>3. upc' = "wait" => cmd' = cmd /\ unit'.state = "idle"
      BY <1>1, <3>1
    <3> QED BY <1>1, <2>2, <2>3, <3>2, <3>3 DEF Tied, Waiting
  <2> QED BY <1>2, <2>4, <2>5
<1> QED BY <1>4, <1>5

LEMMA PolledTied == ASSUME Inv, Numbered, Tied, Polled PROVE Numbered' /\ Tied'
<1>1. /\ upc = "busy" /\ cmd' = NoCommand /\ upc' \in {"rest", "none"} /\ issued' = issued
      /\ unit' \in {unit, Idle}
      /\ ~adrift' => /\ unit'.state = "idle" /\ reason' = reason
                     /\ ~adrift \/ (cmd.op = "SEQ_END" /\ reason = NoReason)
      /\ \/ cmd.op = "SEQ_END" /\ irq' = FALSE /\ gVpuEventPresent' = FALSE
            /\ slots' = [slots EXCEPT ![cmd.slot].isInitialized = FALSE]
         \/ cmd.op # "SEQ_END" /\ UNCHANGED <<irq, gVpuEventPresent, slots>>
  BY DEF Polled, Returned, SequenceEnded, SWReset, counts
<1>2. \A i \in Slot : slots'[i].needMoreFrame = slots[i].needMoreFrame
  BY <1>1, TypeParts, Numbers DEF Inv, PoolTyped, SlotState
<1>3. Numbered'
  BY <1>1, <1>2, NumbersForgotten DEF NoCommand, Idle
<1>4. ~adrift' => Quiet' /\ unit'.state = "idle"
  <2>1. SUFFICES ASSUME ~adrift' PROVE Quiet' /\ unit'.state = "idle"
    OBVIOUS
  <2>2. ~adrift => Quiet
    BY <1>1 DEF Tied
  <2> QED BY <1>1, <2>1, <2>2 DEF Quiet
<1>5. Tied'
  BY <1>1, <1>4 DEF Tied, AtRest
<1> QED BY <1>3, <1>5

LEMMA CloseRestTied == ASSUME Inv, Numbered, Tied, CloseRest PROVE Numbered' /\ Tied'
<1>1. /\ upc = "rest" /\ upc' = "none" /\ irq' \in {irq, FALSE}
      /\ UNCHANGED <<slots, cmd, unit, gVpuEventPresent, reason, adrift, dropped, issued>>
  BY DEF CloseRest, history, counts
<1>2. Numbered'
  BY <1>1, NumbersForgotten
<1>3. Tied'
  BY <1>1 DEF Tied, Quiet, AtRest, Inv, TypeOK
<1> QED BY <1>2, <1>3

LEMMA StepTied == Inv /\ Numbered /\ Tied /\ [Next]_vars => Numbered' /\ Tied'
<1> SUFFICES ASSUME Inv, Numbered, Tied, [Next]_vars PROVE Numbered' /\ Tied'
  OBVIOUS
<1>1. ASSUME NEW f \in File, Call(f) PROVE Numbered' /\ Tied'
  BY <1>1, OpenTied, OpenInstanceTied, CommandTied, MoreDataTied, CloseInstanceTied, CloseTied
     DEF Call
<1>2. CASE Driver
  BY <1>2, WaitTied, ResetTied, ReadTied, PolledTied, CloseRestTied DEF Driver
<1>3. CASE Unit
  BY <1>3, UnitTied
<1>4. CASE UNCHANGED vars
  <2>1. UNCHANGED <<slots, upc, cmd, unit, interrupt, adrift, dropped, issued>>
    BY <1>4 DEF vars, pool, caller, history, counts
  <2>2. Numbered'
    BY <2>1, NumbersForgotten
  <2>3. Tied'
    BY <2>1 DEF Tied, Waiting, Working, Answered, Quiet, AtRest, Codec, interrupt
  <2> QED BY <2>2, <2>3
<1> QED BY <1>1, <1>2, <1>3, <1>4 DEF Next

LEMMA TiedInvariance == Spec => [](Inv /\ Numbered /\ Tied)
<1>1. Inv /\ Numbered /\ Tied /\ [Next]_vars => (Inv /\ Numbered /\ Tied)'
  BY StepInv, StepTied
<1> QED BY InitInv, InitTied, <1>1, PTL DEF Spec

(* No command is taken for done on the answer of another one, whatever the  *)
(* number of files, slots and commands, also after waits that ran out or    *)
(* that a signal broke off, and on a unit others use while a decoder waits  *)
(* for data; until an interrupt comes after its wait was given up or a unit *)
(* that does not answer cannot be stopped, and again from the next SEQ_END. *)
THEOREM AnswersOwned == Spec => []OwnAnswer
<1>1. Inv /\ Numbered /\ Tied => OwnAnswer
  BY DEF Tied, Answered, OwnAnswer
<1> QED BY <1>1, TiedInvariance, PTL

(* Under the same condition a call that returns leaves no event, interrupt  *)
(* or reason behind, and the unit in the middle of nothing but what a       *)
(* decoder remembers, or of a command that was dropped: of an encoder       *)
(* without space, or of a decoder that was closed.                          *)
THEOREM NothingLeft == Spec => []LeftClean
<1>1. Inv /\ Numbered /\ Tied => LeftClean
  BY DEF Inv, TypeOK, Tied, Quiet, AtRest, LeftClean
<1> QED BY <1>1, TiedInvariance, PTL
=============================================================================
