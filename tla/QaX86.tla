------------------------------- MODULE QaX86 -------------------------------
(***************************************************************************)
(* The target language shared by the lowering pass, the register           *)
(* allocator and the code generator: registers, operands and instructions *)
(* (include/qa_x86.hpp, src/qa_x86.cpp).                                    *)
(*                                                                         *)
(* An operand is a record with a kind: a base register, a virtual          *)
(* register, a stack location, an immediate or a label.  An instruction    *)
(* has an opcode and at most two operands; what the C++ structs call       *)
(* value, label or name is kept in src.                                    *)
(***************************************************************************)
EXTENDS Integers, Sequences

BaseRegister == {"AX", "BX", "CX", "DX", "SI", "DI", "R8",
                 "R9", "R10", "R11", "R12", "R13", "R14", "R15"}

param_regs   == <<"DI", "SI", "DX", "CX", "R8", "R9">>
general_regs == <<"AX", "BX", "R10", "R11", "R12", "R13", "R14", "R15">>

HardcodedRegister(reg, size) == [kind |-> "hard", reg |-> reg, size |-> size]
VirtualRegister(id, size)    == [kind |-> "virt", id |-> id, size |-> size]
StackLocation(offset)        == [kind |-> "stack", offset |-> offset]
Immediate(value)             == [kind |-> "int", value |-> value]
LabelName(name)              == [kind |-> "label", name |-> name]
NoOperand                    == [kind |-> "none"]

IsVirtual(operand)  == operand.kind = "virt"
IsHardcoded(operand) == operand.kind = "hard"
IsRegister(operand) == IsVirtual(operand) \/ IsHardcoded(operand)

(* Registers over a set of virtual registers' ids, and what else an          *)
(* instruction may name.                                                   *)
HardRegisters  == [kind : {"hard"}, reg : BaseRegister, size : {4, 8}]
Register(ids)  == HardRegisters \cup [kind : {"virt"}, id : ids, size : {4, 8}]
StackLocations == [kind : {"stack"}, offset : Int]
Immediates     == [kind : {"int"}, value : Int]
LabelNames     == [kind : {"label"}, name : STRING \cup {"end"}]

Ins(op, dst, src) == [op |-> op, dst |-> dst, src |-> src]

(* The setcc instructions are emitted as setcc al; movzx dst, al           *)
(* (src/codegen.cpp).                                                      *)
SetsAl == {"SetEAl", "SetGAl", "SetNeAl"}

(* The structs, by what they hold.                                         *)
RegisterRegister  == {"Mov", "Add", "Sub", "Cmp", "IndirectLoad", "IndirectStore"}
RegisterImmediate == {"LoadI", "AddI", "SubI", "CmpI"}
LabelOnly         == {"Jump", "JumpEq", "JumpGreater", "JumpLess", "Label"}

Instruction(ids) ==
    [op : RegisterRegister, dst : Register(ids), src : Register(ids)]
    \cup [op : RegisterImmediate, dst : Register(ids), src : Immediates]
    \cup [op : {"Load", "Lea"}, dst : Register(ids), src : StackLocations]
    \cup [op : {"Store"}, dst : StackLocations, src : Register(ids)]
    \cup [op : {"StoreI"}, dst : StackLocations, src : Immediates]
    \cup [op : SetsAl, dst : Register(ids), src : {NoOperand}]
    \cup [op : {"Call"}, dst : Register(ids), src : LabelNames]
    \cup [op : LabelOnly, dst : {NoOperand}, src : LabelNames]
    \cup [op : {"Push"}, dst : {NoOperand}, src : Register(ids)]
    \cup [op : {"PushI"}, dst : {NoOperand}, src : Immediates]

(* The virtual register in the source / destination of an instruction, or  *)
(* NoOperand (a base register, a stack location or nothing is there).      *)
get_src_register(ins)  == IF IsVirtual(ins.src) THEN ins.src ELSE NoOperand
get_dest_register(ins) == IF IsVirtual(ins.dst) THEN ins.dst ELSE NoOperand

set_src_register(ins, reg)  == [ins EXCEPT !.src = reg]
set_dest_register(ins, reg) == [ins EXCEPT !.dst = reg]

(* The instruction names the virtual register.                             *)
Occurs(ins, v) == \/ IsVirtual(ins.src) /\ ins.src.id = v
                  \/ IsVirtual(ins.dst) /\ ins.dst.id = v

(* The instructions that use the old value of their destination.           *)
ReadsDestination == {"Add", "AddI", "Sub", "SubI", "Cmp", "CmpI", "IndirectStore"}

(* Cmp and Push, and the store through a pointer, change no register.      *)
WritesDestination(i) ==
    /\ IsRegister(i.dst)
    /\ i.op \notin {"Cmp", "CmpI", "IndirectStore"}

(* Instructions that read, or set, a virtual register.                     *)
Reads(i, v) ==
    \/ IsVirtual(i.src) /\ i.src.id = v
    \/ IsVirtual(i.dst) /\ i.dst.id = v /\ i.op \in ReadsDestination

Sets(i, v) == IsVirtual(i.dst) /\ i.dst.id = v /\ WritesDestination(i)

(* The register cell an operand names, in a machine with one cell for each *)
(* virtual and each base register.                                         *)
BaseCell(reg) == <<"hard", reg>>
VirtCell(id)  == <<"virt", id>>
CellOf(operand) == IF IsVirtual(operand) THEN VirtCell(operand.id)
                                         ELSE BaseCell(operand.reg)

-----------------------------------------------------------------------------
(* What the allocator may rely on in the frames it gets from the lowering  *)
(* pass.  Well formed: a virtual register is the destination of an         *)
(* instruction before it is the source of one.                             *)
WellFormed(f) ==
    \A i \in DOMAIN f :
        IsVirtual(f[i].src) =>
            \E j \in 1..(i - 1) :
                IsVirtual(f[j].dst) /\ f[j].dst.id = f[i].src.id

(* Linear, which coalescing needs: no register is read before it is set; a *)
(* Mov from a virtual register to a virtual register is the last to name    *)
(* its source and the first to name its destination; and a base register   *)
(* that carries no parameter is read only where a call has just left its    *)
(* result there.                                                           *)
VirtualIds(f) == {f[i].dst.id : i \in {j \in DOMAIN f : IsVirtual(f[j].dst)}}
                 \cup {f[i].src.id : i \in {j \in DOMAIN f : IsVirtual(f[j].src)}}

IsParamReg(reg) == \E n \in DOMAIN param_regs : param_regs[n] = reg

Linear(f) ==
    /\ \A i \in DOMAIN f, v \in VirtualIds(f) :
           Reads(f[i], v) => \E j \in 1..(i - 1) : Sets(f[j], v)
    /\ \A i \in DOMAIN f :
           f[i].op = "Mov" /\ IsVirtual(f[i].src) /\ IsVirtual(f[i].dst) =>
               /\ \A j \in (i + 1)..Len(f) : ~Occurs(f[j], f[i].src.id)
               /\ \A j \in 1..(i - 1) : ~Occurs(f[j], f[i].dst.id)
    /\ \A i \in DOMAIN f :
           IsHardcoded(f[i].src) /\ ~IsParamReg(f[i].src.reg) =>
               /\ i > 1
               /\ f[i - 1].op = "Call"
               /\ IsHardcoded(f[i - 1].dst)
               /\ f[i - 1].dst.reg = f[i].src.reg
=============================================================================
