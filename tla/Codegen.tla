------------------------------ MODULE Codegen ------------------------------
(***************************************************************************)
(* Code generation (src/codegen.cpp).  The text is a sequence of lines, and *)
(* a line an instruction of the assembler with at most two operands:        *)
(* registers with a size, immediates, labels and memory.  A label that      *)
(* begins with a dot belongs, for the assembler, to the last one that does  *)
(* not, and is written here with the name of its function.                  *)
(***************************************************************************)
EXTENDS QaX86

LOCAL INSTANCE SequencesExt

BP == HardcodedRegister("BP", 8)
SP == HardcodedRegister("SP", 8)

(* Memory of some bytes where a register points, or a distance from there. *)
Memory(register, distance, size) ==
    [kind |-> "memory", base |-> register, distance |-> distance, size |-> size]

(* [rbp - offset], whatever the sign of the offset.                        *)
Slot(location, size) == Memory(BP, -location.offset, size)

FunctionLabel(name)     == LabelName(<<name>>)
LocalLabel(name, label) == LabelName(<<name, label.name>>)

(* Mutant: the comparisons of a loop change places. *)
Mnemonic_Swapped ==
    [Add |-> "add", AddI |-> "add", Sub |-> "sub", SubI |-> "sub",
     Cmp |-> "cmp", CmpI |-> "cmp", SetEAl |-> "sete", SetGAl |-> "setg",
     SetNeAl |-> "setne", Jump |-> "jmp", JumpEq |-> "je",
     JumpGreater |-> "jl", JumpLess |-> "jg"]

Mnemonic ==
    [Add |-> "add", AddI |-> "add", Sub |-> "sub", SubI |-> "sub",
     Cmp |-> "cmp", CmpI |-> "cmp", SetEAl |-> "sete", SetGAl |-> "setg",
     SetNeAl |-> "setne", Jump |-> "jmp", JumpEq |-> "je",
     JumpGreater |-> "jg", JumpLess |-> "jl"]

(* Registers are compared without their sizes.                             *)
MoveInstruction(mov) ==
    IF mov.dst.reg = mov.src.reg THEN << >> ELSE << Ins("mov", mov.dst, mov.src) >>

generateASMForInstruction(name, is) ==
    CASE is.op = "Mov" -> MoveInstruction(is)
      [] is.op = "LoadI" -> << Ins("mov", is.dst, is.src) >>
      [] is.op = "StoreI" -> << Ins("mov", Slot(is.dst, 4), is.src) >>
      [] is.op = "Store" -> << Ins("mov", Slot(is.dst, is.src.size), is.src) >>
      [] is.op = "Load" -> << Ins("mov", is.dst, Slot(is.src, is.dst.size)) >>
      [] is.op \in {"Add", "AddI", "Sub", "SubI", "Cmp", "CmpI"} ->
           << Ins(Mnemonic[is.op], is.dst, is.src) >>
      [] is.op \in SetsAl ->
           << Ins(Mnemonic[is.op], HardcodedRegister("AX", 1), NoOperand),
              Ins("movzx", is.dst, HardcodedRegister("AX", 1)) >>
      [] is.op = "Lea" -> << Ins("lea", is.dst, Slot(is.src, is.dst.size)) >>
      [] is.op = "IndirectLoad" ->
           << Ins("mov", is.dst, Memory(is.src, 0, is.dst.size)) >>
      [] is.op = "IndirectStore" ->
           << Ins("mov", Memory(is.dst, 0, is.src.size), is.src) >>
      [] is.op = "PushI" -> << Ins("push", NoOperand, is.src) >>
      [] is.op = "Push" -> << Ins("push", NoOperand, HardcodedRegister(is.src.reg, 8)) >>
      [] is.op = "Call" -> << Ins("call", NoOperand, FunctionLabel(is.src.name)) >>
      [] is.op = "Label" -> << Ins("label", NoOperand, LocalLabel(name, is.src)) >>
      [] OTHER -> << Ins(Mnemonic[is.op], NoOperand, LocalLabel(name, is.src)) >>

(* Mutant: rounded down. *)
sixteenByteAlign_Down(size) == size - (size % 16)

sixteenByteAlign(size) == IF size % 16 = 0 THEN size ELSE size + (16 - (size % 16))

Prologue(size) ==
    << Ins("push", NoOperand, BP),
       Ins("mov", BP, SP),
       Ins("sub", SP, Immediate(sixteenByteAlign(size))) >>

(* Mutant: the stack pointer is where the last push left it. *)
Epilogue_Pop(size) == << Ins("pop", BP, NoOperand), Ins("ret", NoOperand, NoOperand) >>

Epilogue(size) ==
    << IF size > 0 THEN Ins("leave", NoOperand, NoOperand) ELSE Ins("pop", BP, NoOperand),
       Ins("ret", NoOperand, NoOperand) >>

generateASMForFrame(name, instructions, size) ==
    << Ins("label", NoOperand, FunctionLabel(name)) >>
    \o Prologue(size)
    \o FlattenSeq([n \in DOMAIN instructions |->
                      generateASMForInstruction(name, instructions[n])])
    \o << Ins("label", NoOperand, LocalLabel(name, LabelName("end"))) >>
    \o Epilogue(size)

(* The frames are [name, instructions, size].                              *)
Generate(frames) ==
    FlattenSeq([n \in DOMAIN frames |->
        generateASMForFrame(frames[n].name, frames[n].instructions, frames[n].size)])
    \o << Ins("label", NoOperand, FunctionLabel("_start")),
          Ins("call", NoOperand, FunctionLabel("main")),
          Ins("mov", HardcodedRegister("DI", 4), HardcodedRegister("AX", 4)),
          Ins("mov", HardcodedRegister("AX", 4), Immediate(60)),
          Ins("syscall", NoOperand, NoOperand) >>
=============================================================================
