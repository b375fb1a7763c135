------------------------------ MODULE Compiler ------------------------------
(***************************************************************************)
(* The whole compiler (src/driver.cpp, runfile) from the syntax tree on,    *)
(* and the processor that runs what it has written: Produce_IR, then the     *)
(* steps of LowerIR, then those of the allocator, then Generate, then the    *)
(* lines of the text.  A pass starts when the one before is done, on what    *)
(* it has made; when one throws, nothing follows.                          *)
(***************************************************************************)
EXTENDS ProduceIR, CSemantics

CONSTANTS
    CPrograms,  \* the programs: sequences of functions, one of them main
    TempId, VarName, VirtId, StackTop, StackSize

VARIABLES
    functions, code,
    irFrames, lf, op, passed, ctx, lowered, status,
    frames, fi, pass, idx, stage, firstUse, lastUse, newFirstUsed, remapped,
    merged, usedRegs, mapping, operation, newInstructions, newFrames,
    text, state, rip, regs, memory, flags, calls

Lowering   == INSTANCE LowerIR WITH IRPrograms <- {}
Allocation == INSTANCE Allocator WITH Programs <- {}, GeneralRegs <- general_regs
Target86   == INSTANCE Processor

produced   == <<functions, code>>
lowering   == <<irFrames, lf, op, passed, ctx, lowered, status>>
allocation == <<frames, fi, pass, idx, stage, firstUse, lastUse, newFirstUsed,
                remapped, merged, usedRegs, mapping, operation,
                newInstructions, newFrames>>
processor  == <<text, state, rip, regs, memory, flags, calls>>

compilerVars == <<produced, lowering, allocation, processor>>

CompilerInit ==
    /\ functions \in CPrograms
    /\ \E reads \in {"own", "last"} : code = Produce_IR(functions, reads)
    /\ irFrames = [n \in DOMAIN code |-> code[n].ins]
    /\ Lowering!LowerStart
    /\ frames = << >>
    /\ Allocation!Start
    /\ Target86!Off

Compiled == \A n \in DOMAIN code : ~code[n].thrown

LowerStep ==
    /\ Compiled
    /\ Lowering!LowerNext
    /\ UNCHANGED <<produced, allocation, processor>>

StartAllocation ==
    /\ status = "done"
    /\ frames # [n \in DOMAIN lowered |-> lowered[n].instructions]
    /\ frames' = [n \in DOMAIN lowered |-> lowered[n].instructions]
    /\ pass' = Allocation!FirstPass(frames')
    /\ UNCHANGED <<produced, lowering, processor, fi, idx, stage, firstUse, lastUse,
                   newFirstUsed, remapped, merged, usedRegs, mapping, operation,
                   newInstructions, newFrames>>

AllocationStep ==
    /\ Allocation!Next
    /\ UNCHANGED <<produced, lowering, processor>>

(* The name and the size of a frame come with it from LowerIR.             *)
Rewritten ==
    [n \in DOMAIN newFrames |->
        [name |-> functions[n].functionName, instructions |-> newFrames[n],
         size |-> lowered[n].size]]

GenerateCode ==
    /\ pass = "done"
    /\ newFrames # << >>
    /\ state = "off"
    /\ text' = Target86!Generate(Rewritten)
    /\ rip' = CHOOSE n \in DOMAIN text' :
                  text'[n] = Ins("label", NoOperand, Target86!FunctionLabel("_start"))
    /\ state' = "running"
    /\ UNCHANGED <<produced, lowering, allocation,
                   regs, memory, flags, calls>>

RunLine ==
    /\ Target86!ProcessorNext
    /\ UNCHANGED <<produced, lowering, allocation>>

CompilerNext ==
    \/ LowerStep
    \/ StartAllocation
    \/ AllocationStep
    \/ GenerateCode
    \/ RunLine

(* The compiler is one thread, and the processor goes on.                  *)
CompilerSpec ==
    CompilerInit /\ [][CompilerNext]_compilerVars /\ WF_compilerVars(CompilerNext)

-----------------------------------------------------------------------------
(* Properties.                                                             *)

(* The exit status of the compiled program is what main returns in C: all   *)
(* passes together keep the meaning of the tree.                            *)
ExitsWithMeaning ==
    state = "exited" => Target86!ExitStatus = Meaning(functions)[2] % 256

(* Every program compiles, and what is compiled exits.                      *)
CompiledProgramExits == <>(state = "exited")

(* At a ret the stack holds the return address and rbp is the caller's:     *)
(* prologues and epilogues, pushed arguments and stores through pointers    *)
(* leave the frames of the callers alone (generateASMForFrame).              *)
ReturnsToCaller ==
    state = "running" /\ Target86!line.op = "ret" =>
        LET call == calls[Len(calls)] IN
        /\ Target86!Fetch(regs["SP"][1], 8) = <<call.back, 0>>
        /\ regs["BP"] = call.BP
        /\ regs["SP"][1] + 8 = call.SP[1]

(* No line but push and call writes below rsp, where the next call would    *)
(* destroy it: the prologue makes room for all slots of the frame.          *)
StoresAboveStackPointer ==
    state = "running" /\ Target86!line.dst.kind = "memory" =>
        Target86!Address(Target86!line.dst) >= regs["SP"][1]

(* The assembler takes no line with two registers of different sizes, or a  *)
(* register and memory of different sizes; only movzx is one.  The text is   *)
(* the same while it runs, and is looked at before the first call.          *)
Sized(o) == o.kind \in {"hard", "memory"}

OperandSizesAgree ==
    state = "running" /\ calls = << >> =>
        \A n \in DOMAIN text :
            LET l == text[n] IN
            Sized(l.dst) /\ Sized(l.src) /\ l.op # "movzx" => l.dst.size = l.src.size
=============================================================================
