------------------------------ MODULE LowerIR ------------------------------
(***************************************************************************)
(* Instruction selection (src/lower_ir.cpp).  LowerIR lowers the operations *)
(* of a frame in order, with a fresh Ctx for each frame.  The Ctx gives     *)
(* every variable a stack slot by its name and every temporary a virtual    *)
(* register, and numbers virtual registers.                                 *)
(*                                                                         *)
(* A step lowers one operation; a call is lowered in one step for its        *)
(* destination, one for each argument and one for the call itself.  The     *)
(* operators below take the context and return it with the instructions     *)
(* appended to its code, or with thrown set where the C++ throws.           *)
(***************************************************************************)
EXTENDS QaIR, FiniteSets

CONSTANTS
    TempId,     \* ids of temporaries
    VarName,    \* names of variables
    IRPrograms  \* the programs to lower: sequences of frames

ASSUME TempIdAssumption == TempId \subseteq Nat

(* What Produce_IR makes (checked for it as TemporariesLinear).             *)
ASSUME IRProgramsAssumption ==
    /\ IRPrograms \subseteq Seq(Seq(Operation(TempId, VarName)))
    /\ \A program \in IRPrograms :
           \A n \in DOMAIN program : LinearOperations(program[n])

VARIABLES
    irFrames,
    lf,       \* the frame being lowered
    op,       \* position of the operation being lowered
    passed,   \* arguments of a call already passed, or NotCalling
    ctx,
    lowered,  \* the finished frames
    status    \* "lowering", "done" or "throw"

lowerVars == <<irFrames, lf, op, passed, ctx, lowered, status>>

NotCalling == -1

Context ==
    [variable_offset            : [VarName -> StackLocations \cup {NoOperand}],
     temp_register_mapping      :
         [TempId -> (Register(Nat) \ HardRegisters) \cup {NoOperand}],
     tempCounter                : Nat,
     stackOffset                : Nat,
     stackPassedParameterOffset : Nat,
     code                       : Seq(Instruction(Nat)),
     thrown                     : BOOLEAN]

FreshCtx ==
    [variable_offset            |-> [name \in VarName |-> NoOperand],
     temp_register_mapping      |-> [id \in TempId |-> NoOperand],
     tempCounter                |-> 0,
     stackOffset                |-> 0,
     stackPassedParameterOffset |-> 16,
     code                       |-> << >>,
     thrown                     |-> FALSE]

-----------------------------------------------------------------------------
(* Ctx.                                                                    *)
Emit(c, i) == [c EXCEPT !.code = Append(@, i)]
Throws(c)  == [c EXCEPT !.thrown = TRUE]

(* Mutant: eight bytes for every value. *)
NewRegister_Wide(c, size) == VirtualRegister(c.tempCounter, 8)

(* NewRegister: the register it returns, and the context after it.         *)
NewRegister(c, size) == VirtualRegister(c.tempCounter, size)

(* Mutant: the number is used again. *)
AfterNewRegister_Same(c) == c

AfterNewRegister(c)  == [c EXCEPT !.tempCounter = @ + 1]

AllocateNewForTemp(c, t) ==
    IF c.temp_register_mapping[t.id] # NoOperand THEN c
    ELSE [AfterNewRegister(c) EXCEPT
              !.temp_register_mapping[t.id] = NewRegister(c, t.size)]

(* Mutant: every variable takes a word, whatever its size. *)
AllocateNewForVariable_Word(c, v) ==
    IF c.variable_offset[v.name] # NoOperand THEN c
    ELSE [c EXCEPT !.stackOffset = @ + 4,
                   !.variable_offset[v.name] = StackLocation(c.stackOffset + 4)]

(* Mutant: the slot begins where it should end. *)
AllocateNewForVariable_Above(c, v) ==
    IF c.variable_offset[v.name] # NoOperand THEN c
    ELSE [c EXCEPT !.stackOffset = @ + v.size,
                   !.variable_offset[v.name] = StackLocation(c.stackOffset)]

AllocateNewForVariable(c, v) ==
    IF c.variable_offset[v.name] # NoOperand THEN c
    ELSE [c EXCEPT !.stackOffset = @ + v.size,
                   !.variable_offset[v.name] = StackLocation(c.stackOffset + v.size)]

AllocateNew(c, v) ==
    CASE v.kind = "temp" -> AllocateNewForTemp(c, v)
      [] v.kind = "var" -> AllocateNewForVariable(c, v)
      [] v.kind = "hard" -> c
      [] OTHER -> Throws(c)

LocationOf(c, v) ==
    CASE v.kind = "temp" -> c.temp_register_mapping[v.id]
      [] v.kind = "var" -> c.variable_offset[v.name]
      [] OTHER -> v

(* Mutant: the offset does not move on. *)
define_stack_pushed_variable_Same(c, name) ==
    [c EXCEPT !.variable_offset[name] = StackLocation(-c.stackPassedParameterOffset)]

define_stack_pushed_variable(c, name) ==
    [c EXCEPT !.variable_offset[name] = StackLocation(-c.stackPassedParameterOffset),
              !.stackPassedParameterOffset = @ + 8]

(* variable_offset.at throws for a variable that has no slot.              *)
HasSlot(c, v) == v.kind = "var" /\ c.variable_offset[v.name] # NoOperand

Register_To_Location(c, l, reg) ==
    Emit(c, Ins(IF IsRegister(l) THEN "Mov" ELSE "Store", l, reg))

toLocation(c, l, v) ==
    CASE v.kind = "int" ->
           Emit(c, Ins(IF IsRegister(l) THEN "LoadI" ELSE "StoreI", l, v))
      [] v.kind = "temp" ->
           LET a == AllocateNewForTemp(c, v) IN
           Register_To_Location(a, l, LocationOf(a, v))
      [] v.kind = "hard" ->
           IF IsRegister(l) THEN Throws(c) ELSE Register_To_Location(c, l, v)
      [] HasSlot(c, v) ->
           IF IsRegister(l) THEN Emit(c, Ins("Load", l, LocationOf(c, v)))
           ELSE LET reg == NewRegister(c, v.size) IN
                Emit(Emit(AfterNewRegister(c), Ins("Load", reg, LocationOf(c, v))),
                     Ins("Store", l, reg))
      [] OTHER -> Throws(c)

-----------------------------------------------------------------------------
(* Arithmetic and comparisons: the template overloads of                   *)
(* InstructionForArth and Create_*_Instruction_Sequence.                    *)

(* The value in a new register, and the context after putting it there.    *)
InRegister(c, v, size) ==
    LET reg == NewRegister(c, size) IN
    [reg |-> reg, after |-> toLocation(AfterNewRegister(c), reg, v)]

ensureRegister(c, v) ==
    IF v.kind = "hard" THEN [reg |-> v, after |-> c]
    ELSE InRegister(c, v, SizeOf(v))

ImmediateForm == [Add |-> "AddI", Sub |-> "SubI", Cmp |-> "CmpI"]
SetInstruction == [Equal |-> "SetEAl", Compare |-> "SetEAl",
                   GreaterThan |-> "SetGAl", NotEqual |-> "SetNeAl"]

TwoOperand(c, o, reg, rhs) ==
    Emit(c, Ins(IF IsRegister(rhs) THEN o ELSE ImmediateForm[o], reg, rhs))

ToDestination(c, dst, reg) ==
    IF dst = NoOperand THEN c ELSE Register_To_Location(c, LocationOf(c, dst), reg)

(* The operation on a register and a register or an immediate; a comparison *)
(* goes on to set a new register.                                          *)
Create_Arth_Instruction(c, o, reg, rhs) ==
    LET compared == TwoOperand(c, "Cmp", reg, rhs)
        newReg   == NewRegister(compared, 4)
    IN  IF o.op \in {"Add", "Sub"}
          THEN ToDestination(TwoOperand(c, o.op, reg, rhs), o.dst, reg)
        ELSE IF o.op = "NotEqual" /\ ~IsRegister(rhs) THEN Throws(compared)
        ELSE ToDestination(
                 Emit(AfterNewRegister(compared),
                      Ins(SetInstruction[o.op], newReg, NoOperand)),
                 o.dst, newReg)

(* The context in which an operation finds its destination.                *)
Prepared(c, dst) == IF dst = NoOperand THEN c ELSE AllocateNew(c, dst)

LowerArth(c, o) ==
    LET l == ensureRegister(Prepared(c, o.dst), o.left)
        r == IF o.right.kind = "int" /\ o.left.kind # "int"
               THEN [reg |-> o.right, after |-> l.after]
               ELSE ensureRegister(l.after, o.right)
    IN  Create_Arth_Instruction(r.after, o, l.reg, r.reg)

-----------------------------------------------------------------------------
(* The other operations.                                                   *)
LowerMov(c, o) ==
    LET a == AllocateNew(c, o.dst) IN toLocation(a, LocationOf(a, o.dst), o.src)

LowerRet(c, o) ==
    Emit(toLocation(c, HardcodedRegister("AX", SizeOf(o.value)), o.value),
         Ins("Jump", NoOperand, LabelName("end")))

LowerAddr(c, o) ==
    IF ~HasSlot(c, o.src) THEN Throws(c)
    ELSE LET a == AllocateNewForTemp(c, o.dst) IN
         Emit(a, Ins("Lea", LocationOf(a, o.dst), LocationOf(a, o.src)))

(* The variable is loaded into a register and followed depth - 1 times into *)
(* new registers, then into the register of the temporary.  Depth 0, of a   *)
(* pointer that is written through twice, is depth 1.                       *)
Hop(c, i) == VirtualRegister(c.tempCounter + i, 8)

FollowPointer(c, slot, hops) ==
    [c EXCEPT
        !.tempCounter = @ + hops + 1,
        !.code = @ \o << Ins("Load", Hop(c, 0), slot) >>
                   \o [i \in 1..hops |-> Ins("IndirectLoad", Hop(c, i), Hop(c, i - 1))]]

LowerDeref(c, o) ==
    LET hops == IF o.depth > 1 THEN o.depth - 1 ELSE 0
        a == AllocateNewForTemp(FollowPointer(c, LocationOf(c, o.src), hops), o.dst)
    IN  IF ~HasSlot(c, o.src) THEN Throws(c)
        ELSE Emit(a, Ins("IndirectLoad", LocationOf(a, o.dst), Hop(c, hops)))

LowerDerefStore(c, o) ==
    LET address == InRegister(c, o.dst, 8)
        value   == InRegister(address.after, o.src, SizeOf(o.src))
    IN  Emit(value.after, Ins("IndirectStore", address.reg, value.reg))

JumpInstruction == [ConditionalJumpEqual   |-> "JumpEq",
                    ConditionalJumpGreater |-> "JumpGreater",
                    ConditionalJumpLess    |-> "JumpLess"]

(* Mutant: the labels are swapped. *)
LowerConditionalJump_Swapped(c, o) ==
    Emit(Emit(c, Ins(JumpInstruction[o.op], NoOperand, LabelName(o.falseLabel))),
         Ins("Jump", NoOperand, LabelName(o.trueLabel)))

LowerConditionalJump(c, o) ==
    Emit(Emit(c, Ins(JumpInstruction[o.op], NoOperand, LabelName(o.trueLabel))),
         Ins("Jump", NoOperand, LabelName(o.falseLabel)))

Lower(c, o) ==
    CASE o.op \in {"Mov", "MovR"} -> LowerMov(c, o)
      [] o.op = "Ret" -> LowerRet(c, o)
      [] o.op \in BinaryOps -> LowerArth(c, o)
      [] o.op = "Addr" -> LowerAddr(c, o)
      [] o.op = "Deref" -> LowerDeref(c, o)
      [] o.op = "DerefStore" -> LowerDerefStore(c, o)
      [] o.op = "DefineStackPushed" -> define_stack_pushed_variable(c, o.name)
      [] o.op = "LabelDef" -> Emit(c, Ins("Label", NoOperand, LabelName(o.label)))
      [] o.op = "Jump" -> Emit(c, Ins("Jump", NoOperand, LabelName(o.label)))
      [] o.op \in CondJumps -> LowerConditionalJump(c, o)

(* Mutant: the sixth argument is pushed. *)
PassedInRegister_Five(index) == index < 5

PassedInRegister(index) == index < 6

(* The loop of a call runs over the arguments in reverse: the last argument *)
(* has index 0 and goes to param_regs[0].                                   *)
PassArgument(c, arg, index) ==
    IF PassedInRegister(index)
      THEN toLocation(c, HardcodedRegister(param_regs[index + 1], SizeOf(arg)), arg)
    ELSE IF arg.kind = "int" THEN Emit(c, Ins("PushI", NoOperand, arg))
    ELSE IF HasSlot(c, arg)
      THEN LET r == InRegister(c, arg, SizeOf(arg)) IN
           Emit(r.after, Ins("Push", NoOperand, r.reg))
    ELSE Throws(c)

FinishCall(c, o) ==
    LET result == HardcodedRegister("AX", SizeOf(o.dst)) IN
    Register_To_Location(Emit(c, Ins("Call", result, LabelName(o.name))),
                         LocationOf(c, o.dst), result)

-----------------------------------------------------------------------------
LowerStart ==
    /\ lf = 1
    /\ op = 1
    /\ passed = NotCalling
    /\ ctx = FreshCtx
    /\ lowered = << >>
    /\ status = IF irFrames = << >> THEN "done" ELSE "lowering"

LowerInit == irFrames \in IRPrograms /\ LowerStart

operation == irFrames[lf][op]

AtOperation ==
    /\ status = "lowering"
    /\ op \in DOMAIN irFrames[lf]

(* The context after a step; an exception ends the compilation.            *)
Continue(c) ==
    /\ ctx' = c
    /\ status' = IF c.thrown THEN "throw" ELSE status
    /\ UNCHANGED <<irFrames, lf, lowered>>

LowerOperation ==
    /\ AtOperation
    /\ operation.op # "Call"
    /\ Continue(Lower(ctx, operation))
    /\ op' = op + 1
    /\ UNCHANGED passed

StartCall ==
    /\ AtOperation
    /\ operation.op = "Call"
    /\ passed = NotCalling
    /\ Continue(AllocateNew(ctx, operation.dst))
    /\ passed' = 0
    /\ UNCHANGED op

PassNext ==
    /\ AtOperation
    /\ operation.op = "Call"
    /\ passed \in 0..(Len(operation.args) - 1)
    /\ Continue(PassArgument(ctx, operation.args[Len(operation.args) - passed], passed))
    /\ passed' = passed + 1
    /\ UNCHANGED op

EndCall ==
    /\ AtOperation
    /\ operation.op = "Call"
    /\ passed = Len(operation.args)
    /\ Continue(FinishCall(ctx, operation))
    /\ passed' = NotCalling
    /\ op' = op + 1

(* Mutant: the last frame is left out. *)
AfterLowering_Early == IF lf + 1 < Len(irFrames) THEN "lowering" ELSE "done"

AfterLowering == IF lf + 1 \in DOMAIN irFrames THEN "lowering" ELSE "done"

LowerNextFrame ==
    /\ status = "lowering"
    /\ op \notin DOMAIN irFrames[lf]
    /\ lowered' = Append(lowered, [instructions |-> ctx.code, size |-> ctx.stackOffset])
    /\ lf' = lf + 1
    /\ op' = 1
    /\ ctx' = FreshCtx
    /\ status' = AfterLowering
    /\ UNCHANGED <<irFrames, passed>>

LowerNext ==
    \/ LowerOperation
    \/ StartCall
    \/ PassNext
    \/ EndCall
    \/ LowerNextFrame

(* One thread lowers the program to the end.                               *)
LowerSpec == LowerInit /\ [][LowerNext]_lowerVars /\ WF_lowerVars(LowerNext)

-----------------------------------------------------------------------------
(* Properties.                                                             *)

Numbered(c, operand) == IsVirtual(operand) => operand.id < c.tempCounter

(* The code names only virtual registers the Ctx has numbered.             *)
LowerTypeOK ==
    /\ lf \in Nat \ {0}
    /\ op \in Nat \ {0}
    /\ status \in {"lowering", "done", "throw"}
    /\ status = "lowering" => lf \in DOMAIN irFrames
    /\ passed \in Nat \cup {NotCalling}
    /\ passed # NotCalling =>
           /\ op \in DOMAIN irFrames[lf]
           /\ operation.op = "Call"
           /\ passed <= Len(operation.args)
    /\ ctx \in Context
    /\ ctx.thrown = (status = "throw")
    /\ \A t \in TempId : Numbered(ctx, ctx.temp_register_mapping[t])
    /\ \A n \in DOMAIN ctx.code :
           Numbered(ctx, ctx.code[n].dst) /\ Numbered(ctx, ctx.code[n].src)
    /\ lowered \in Seq([instructions : Seq(Instruction(Nat)), size : Nat])

(* Variables of one name have one size.                                    *)
VariablesOf(f) ==
    {v \in UNION {Sources(f[n]) \cup {Target(f[n])} : n \in DOMAIN f} : v.kind = "var"}

OneSize(f) ==
    \A v, w \in VariablesOf(f) : v.name = w.name => v.size = w.size

(* The bytes of a variable, by their distance below rbp.                   *)
Slot(v) ==
    LET offset == ctx.variable_offset[v.name].offset IN (offset - v.size + 1)..offset

(* Two temporaries never share a virtual register, and two variables never  *)
(* a byte; locals lie between rbp and the end of the frame, and pushed       *)
(* parameters above the return address (AllocateNew, AllocateNewForTemp,    *)
(* define_stack_pushed_variable).  Only a name that is declared with two     *)
(* sizes has a slot of the wrong size.                                     *)
LocationsDistinct ==
    /\ \A t, u \in TempId :
           t # u /\ ctx.temp_register_mapping[t] # NoOperand
                 /\ ctx.temp_register_mapping[u] # NoOperand =>
               ctx.temp_register_mapping[t].id # ctx.temp_register_mapping[u].id
    /\ status = "lowering" /\ OneSize(irFrames[lf]) =>
           LET placed == {v \in VariablesOf(irFrames[lf]) : HasSlot(ctx, v)} IN
           /\ \A v, w \in placed : v.name # w.name => Slot(v) \cap Slot(w) = {}
           /\ \A v \in placed :
                  Slot(v) \subseteq 1..ctx.stackOffset \/ \A d \in Slot(v) : d < -15

(* The finished frames are what the register allocator relies on.          *)
CodeIsLinear ==
    \A n \in DOMAIN lowered :
        /\ WellFormed(lowered[n].instructions)
        /\ Linear(lowered[n].instructions)

(* The lowering of every program ends, with one frame for each of its       *)
(* frames or with the exception.                                           *)
LowerTermination ==
    <>(status = "throw" \/ (status = "done" /\ Len(lowered) = Len(irFrames)))
=============================================================================
