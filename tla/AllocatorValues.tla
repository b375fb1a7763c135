-------------------------- MODULE AllocatorValues --------------------------
(***************************************************************************)
(* What the rewritten frame computes.  Beside the allocator run two         *)
(* machines, one on the lowered frame, with a cell for every virtual and    *)
(* every base register, and one on the rewritten frame, with base registers *)
(* only.  Both execute an instruction when the allocator has finished with  *)
(* it.  A value is the position of the instruction that computed it; 0 is    *)
(* what a register holds when the frame is entered, and Garbage what an      *)
(* instruction leaves behind in a register it does not name:                *)
(*                                                                         *)
(*   Call   the callee uses the general registers and saves none            *)
(*          (src/codegen.cpp emits no push or pop of them);                 *)
(*   setcc  goes through al and is followed by movzx dst, al.               *)
(*                                                                         *)
(* clobbered records that such an instruction hit a live value.             *)
(***************************************************************************)
EXTENDS Allocator

(* include/qa_x86.hpp:40: the general registers carry no parameter.         *)
ASSUME DisjointRegsAssumption ==
    \A n \in DOMAIN GeneralRegs : ~IsParamReg(GeneralRegs[n])

VARIABLES virtual, physical, clobbered

valueVars == <<virtual, physical, clobbered>>

Garbage == -1

BaseCells == {BaseCell(reg) : reg \in BaseRegister}
VirtCells == {VirtCell(id) : id \in VirtId}

EntryCells(cells) == [c \in cells |-> 0]

InitValues ==
    /\ Init
    /\ virtual = EntryCells(BaseCells \cup VirtCells)
    /\ physical = EntryCells(BaseCells)
    /\ clobbered = {}

(* The registers an instruction destroys beside those it names.            *)
SideEffects(i) ==
    CASE i.op = "Call" -> {BaseCell(GeneralRegs[n]) : n \in DOMAIN GeneralRegs}
      [] i.op \in SetsAl -> {BaseCell("AX")}
      [] OTHER -> {}

Result(i, cells) ==
    IF i.op = "Mov" THEN cells[CellOf(i.src)] ELSE idx

Execute(i, cells, destroyed) ==
    [c \in DOMAIN cells |->
        IF WritesDestination(i) /\ CellOf(i.dst) = c THEN Result(i, cells)
        ELSE IF c \in destroyed THEN Garbage
        ELSE cells[c]]

(* The live values, needed after the instruction that is being finished,   *)
(* whose register it destroys or names as a base register.  It overwrites  *)
(* its own destination on purpose.                                         *)
Clobbers ==
    {v \in LiveRegs :
        /\ lastUse[v] > idx
        /\ \/ BaseCell(mapping[v]) \in SideEffects(ins)
           \/ IsHardcoded(ins.dst) /\ mapping[v] = ins.dst.reg
        /\ ~(IsVirtual(ins.dst) /\ Rep(ins.dst.id) = v)}

ExecuteInstruction ==
    LET rewritten == newInstructions'[idx] IN
    /\ virtual' = Execute(ins, virtual, {})
    /\ physical' = Execute(rewritten, physical, SideEffects(rewritten))
    /\ clobbered' = IF Clobbers = {} THEN clobbered ELSE clobbered \cup {ins.op}

NextValues ==
    \/ RewriteDst /\ ExecuteInstruction
    \/ /\ NextFrame
       /\ virtual' = EntryCells(BaseCells \cup VirtCells)
       /\ physical' = EntryCells(BaseCells)
       /\ clobbered' = {}
    \/ /\ \/ FindUses
          \/ NextPass("getFirstUse", "remap")
          \/ Remap
          \/ NextPass("remap", "merge")
          \/ Merge
          \/ MergeDone
          \/ RewriteSrc
          \/ Throw
       /\ UNCHANGED valueVars

(* The machines never hold the allocator back: Fairness stays what it is.   *)
SpecValues == InitValues /\ [][NextValues]_<<vars, valueVars>> /\ Fairness

-----------------------------------------------------------------------------
(* An instruction still to come reads the value v has now.                 *)
Wanted(v) ==
    \E j \in idx..Len(frame) :
        /\ Reads(frame[j], v)
        /\ \A k \in idx..(j - 1) : ~Sets(frame[k], v)

(* In a linear frame, unless a call or a setcc has hit a live value, every  *)
(* virtual register that is still to be read has its value in the register  *)
(* of its representative: the rewritten frame reads what the lowered frame  *)
(* reads, through coalescing, reuse of freed registers and redefinition.    *)
ValuesKept ==
    pass = "rewrite" /\ stage = "src" /\ clobbered = {} /\ Linear(frame) =>
        \A v \in VirtId :
            Wanted(v) =>
                /\ mapping[Rep(v)] # NoReg
                /\ physical[BaseCell(mapping[Rep(v)])] = virtual[VirtCell(v)]

(* include/qa_x86.hpp:40 says of general_regs: "these are disjoint from the *)
(* param_regs, so that calls don't clobber them".                           *)
CallsDontClobber == "Call" \notin clobbered
=============================================================================
