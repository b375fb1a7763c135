--------------------------- MODULE LowerIRValues ---------------------------
(***************************************************************************)
(* What the lowered code computes.  Beside the lowering pass run two         *)
(* machines: ir evaluates an operation when the pass has finished with it,  *)
(* with a cell for every temporary and every variable; x86 executes the     *)
(* code of the Ctx, with registers, the flags and the bytes of the stack    *)
(* frame.  Values are symbolic, and both machines record what they do in a  *)
(* trace of calls, labels, jumps and returns.                              *)
(*                                                                         *)
(* A byte of the frame is named by its distance below rbp: a location       *)
(* [rbp - offset] of size bytes is the bytes offset - size + 1 .. offset.   *)
(* The bytes -15..0 are the saved rbp and the return address, and those     *)
(* below -15 belong to the caller, who has pushed the parameters there.     *)
(*                                                                         *)
(* The operations of a frame may go wrong: read what nothing has set, or     *)
(* put a value where it does not fit.  Then defined is FALSE, and the code   *)
(* may do anything.                                                        *)
(***************************************************************************)
EXTENDS LowerIR

CONSTANT PushedOnEntry  \* number of parameters the caller has pushed

ASSUME PushedAssumption == PushedOnEntry \in Nat

VARIABLE ir

Undefined == <<"undefined">>
Number(n) == <<"int", n>>

Address(offset) == <<"address", offset>>
IsAddress(value) == value[1] = "address"

(* Partial functions: f at x, and f with value at x.                       *)
Lookup(f, x) == IF x \in DOMAIN f THEN f[x] ELSE Undefined
Put(f, x, value) == [y \in DOMAIN f \cup {x} |-> IF y = x THEN value ELSE f[y]]

Record(m, event) == [m EXCEPT !.trace = Append(@, event)]

-----------------------------------------------------------------------------
(* Evaluating operations.  params are the registers that still hold the     *)
(* parameters, and outside is the memory no variable of the frame is in: the *)
(* list of the stores through pointers from elsewhere.                      *)
IRStart == [temps |-> << >>, vars |-> << >>, flags |-> Undefined,
            params |-> {param_regs[n] : n \in DOMAIN param_regs},
            outside |-> << >>, trace |-> << >>, pushed |-> 0, defined |-> TRUE]

ValueOf(m, v) ==
    CASE v.kind = "int" -> Number(v.value)
      [] v.kind = "temp" -> Lookup(m.temps, v.id)
      [] v.kind = "var" -> Lookup(m.vars, v.name)
      [] v.kind = "hard" -> <<"parameter", v.reg>>

Readable(m, v) ==
    /\ v.kind = "temp" => v.id \in DOMAIN m.temps
    /\ v.kind = "var" => v.name \in DOMAIN m.vars
    /\ v.kind = "hard" => v.reg \in m.params

Assign(m, dst, value) ==
    IF dst.kind = "temp" THEN [m EXCEPT !.temps = Put(@, dst.id, value)]
                         ELSE [m EXCEPT !.vars = Put(@, dst.name, value)]

(* The variables of that size that have the address in the Ctx.            *)
PointedTo(c, address, size) ==
    {v \in VariablesOf(irFrames[lf]) :
        v.size = size /\ LocationOf(c, v) = StackLocation(address[2])}

Pointee(c, address, size) == CHOOSE v \in PointedTo(c, address, size) : TRUE

CanFollow(m, c, address, size) ==
    IsAddress(address) =>
        /\ PointedTo(c, address, size) # {}
        /\ Readable(m, Pointee(c, address, size))

At(m, c, address, size) ==
    IF IsAddress(address) THEN ValueOf(m, Pointee(c, address, size))
                          ELSE <<"at", address, m.outside>>

(* A Deref follows pointers depth - 1 times: the pointer n times followed.  *)
Hops(depth) == IF depth > 1 THEN depth - 1 ELSE 0

Followed(m, c, src, hops) ==
    LET pointer[n \in 0..hops] ==
            IF n = 0 THEN ValueOf(m, src) ELSE At(m, c, pointer[n - 1], 8)
    IN  pointer

(* The operation does not go wrong: it reads what has a value, and sizes    *)
(* agree; and a jump on a condition has a comparison just before it.        *)
GoesRight(m, c, o) ==
    /\ o.op # "Addr" => \A v \in Sources(o) : Readable(m, v)
    /\ o.op \in {"Mov", "MovR"} => o.dst.size = SizeOf(o.src)
    /\ o.op \in {"Add", "Sub"} => o.dst.size = SizeOf(o.left)
    /\ o.op \in BinaryOps \ {"Add", "Sub", "Compare"} => o.dst.size = 4
    /\ o.op = "Deref" =>
           LET pointer == Followed(m, c, o.src, Hops(o.depth)) IN
           /\ o.src.size = 8
           /\ \A n \in 0..(Hops(o.depth) - 1) : CanFollow(m, c, pointer[n], 8)
           /\ CanFollow(m, c, pointer[Hops(o.depth)], o.dst.size)
    /\ o.op = "DerefStore" =>
           /\ SizeOf(o.dst) = 8
           /\ IsAddress(ValueOf(m, o.dst)) =>
                  PointedTo(c, ValueOf(m, o.dst), SizeOf(o.src)) # {}
    /\ o.op \in CondJumps => m.flags # Undefined
    /\ o.op = "DefineStackPushed" => m.pushed < PushedOnEntry

(* An addition to a register that carries a parameter is made there, and a  *)
(* call keeps none of them; additions, comparisons and calls set the flags.  *)
AfterBinary(m, o) ==
    [m EXCEPT !.flags = Undefined,
              !.params = IF o.op \in {"Add", "Sub"} /\ o.left.kind = "hard"
                           THEN @ \ {o.left.reg} ELSE @]

StoreThrough(m, c, address, src) ==
    IF IsAddress(address)
      THEN Assign(m, Pointee(c, address, SizeOf(src)), ValueOf(m, src))
      ELSE [m EXCEPT !.outside = Append(@, <<address, ValueOf(m, src)>>)]

Effect(m, c, o) ==
    CASE o.op \in {"Mov", "MovR"} -> Assign(m, o.dst, ValueOf(m, o.src))
      [] o.op \in BinaryOps \ {"Compare"} ->
           Assign(AfterBinary(m, o), o.dst,
                  <<o.op, ValueOf(m, o.left), ValueOf(m, o.right)>>)
      [] o.op = "Compare" ->
           [m EXCEPT !.flags = <<ValueOf(m, o.left), ValueOf(m, o.right)>>]
      [] o.op = "Addr" -> Assign(m, o.dst, Address(LocationOf(c, o.src).offset))
      [] o.op = "Deref" ->
           Assign(m, o.dst, At(m, c, Followed(m, c, o.src, Hops(o.depth))[Hops(o.depth)],
                               o.dst.size))
      [] o.op = "DerefStore" -> StoreThrough(m, c, ValueOf(m, o.dst), o.src)
      [] o.op = "DefineStackPushed" ->
           [m EXCEPT !.vars = Put(@, o.name, <<"pushed", m.pushed>>), !.pushed = @ + 1]
      [] o.op = "Call" ->
           Assign([Record(m, <<"Call", o.name,
                               [n \in DOMAIN o.args |-> ValueOf(m, o.args[n])]>>)
                     EXCEPT !.params = {}, !.flags = Undefined],
                  o.dst, <<"result", Len(m.trace) + 1>>)
      [] o.op = "Ret" -> Record(m, <<"Return", ValueOf(m, o.value)>>)
      [] o.op = "LabelDef" -> Record(m, <<"Label", o.label>>)
      [] o.op = "Jump" -> Record(m, <<"Jump", o.label>>)
      [] o.op \in CondJumps ->
           Record(Record(m, <<o.op, m.flags, o.trueLabel>>), <<"Jump", o.falseLabel>>)

(* c is the context after the operation is lowered.                        *)
Evaluate(m, c, o) ==
    IF GoesRight(m, c, o) THEN Effect(m, c, o) ELSE [m EXCEPT !.defined = FALSE]

-----------------------------------------------------------------------------
(* Executing instructions, as generateASMForInstruction emits them.         *)
Bytes(offset, size) == (offset - size + 1)..offset

(* A value is stored byte by byte, so that overlapping locations tear it.   *)
Write(bytes, offset, size, value) ==
    [d \in DOMAIN bytes \cup Bytes(offset, size) |->
        IF d \in Bytes(offset, size) THEN <<value, offset - d>> ELSE bytes[d]]

Read(bytes, offset, size) ==
    LET value == Lookup(bytes, offset)[1] IN
    IF \A d \in Bytes(offset, size) : Lookup(bytes, d) = <<value, offset - d>>
      THEN value ELSE Undefined

Saved == -15..0

(* The offset of parameter k that the caller has pushed, the first of them   *)
(* last: 0 is the first.                                                   *)
PushedOffset(k) == -16 - 8 * k

SavedByte(d)  == << <<"saved">>, -d>>
PushedByte(d) == LET k == (-16 - d) \div 8 IN << <<"pushed", k>>, PushedOffset(k) - d>>

X86Start ==
    [regs    |-> [cell \in {BaseCell(param_regs[n]) : n \in DOMAIN param_regs} |->
                     <<"parameter", cell[2]>>],
     bytes   |-> [d \in (PushedOffset(PushedOnEntry) + 1)..0 |->
                     IF d \in Saved THEN SavedByte(d) ELSE PushedByte(d)],
     flags   |-> Undefined,
     outside |-> << >>,
     pushed  |-> << >>,
     trace   |-> << >>]

Content(m, operand) ==
    IF operand.kind = "int" THEN Number(operand.value)
    ELSE Lookup(m.regs, CellOf(operand))

Set(m, dst, value) == [m EXCEPT !.regs = Put(@, CellOf(dst), value)]

Condition == [SetEAl |-> "Equal", SetGAl |-> "GreaterThan", SetNeAl |-> "NotEqual"]

JumpCondition == [JumpEq      |-> "ConditionalJumpEqual",
                  JumpGreater |-> "ConditionalJumpGreater",
                  JumpLess    |-> "ConditionalJumpLess"]

Arithmetic(o) == IF o \in {"Add", "AddI"} THEN "Add" ELSE "Sub"

LoadAt(m, address, size) ==
    IF IsAddress(address) THEN Read(m.bytes, address[2], size)
                          ELSE <<"at", address, m.outside>>

StoreAt(m, address, size, value) ==
    IF IsAddress(address) THEN [m EXCEPT !.bytes = Write(@, address[2], size, value)]
    ELSE [m EXCEPT !.outside = Append(@, <<address, value>>)]

(* The caller's general and parameter registers do not survive a call.      *)
AfterCall(m, i) ==
    [Record(m, <<"Call", i.src.name,
                 [n \in DOMAIN param_regs |-> Lookup(m.regs, BaseCell(param_regs[n]))],
                 m.pushed>>)
       EXCEPT !.regs = Put([cell \in {d \in DOMAIN @ : d[1] = "virt"} |-> @[cell]],
                           CellOf(i.dst), <<"result", Len(m.trace) + 1>>),
              !.flags = Undefined,
              !.pushed = << >>]

(* pushed has the value pushed last first.                                 *)
Execute(m, i) ==
    CASE i.op \in {"LoadI", "Mov"} -> Set(m, i.dst, Content(m, i.src))
      [] i.op = "StoreI" ->
           [m EXCEPT !.bytes = Write(@, i.dst.offset, 4, Content(m, i.src))]
      [] i.op = "Store" ->
           [m EXCEPT !.bytes = Write(@, i.dst.offset, i.src.size, Content(m, i.src))]
      [] i.op = "Load" -> Set(m, i.dst, Read(m.bytes, i.src.offset, i.dst.size))
      [] i.op \in {"Add", "AddI", "Sub", "SubI"} ->
           [Set(m, i.dst, <<Arithmetic(i.op), Content(m, i.dst), Content(m, i.src)>>)
              EXCEPT !.flags = Undefined]
      [] i.op \in {"Cmp", "CmpI"} ->
           [m EXCEPT !.flags = <<Content(m, i.dst), Content(m, i.src)>>]
      [] i.op \in SetsAl ->
           Set([m EXCEPT !.regs = Put(@, BaseCell("AX"), Undefined)],
               i.dst, <<Condition[i.op], m.flags[1], m.flags[2]>>)
      [] i.op = "Lea" -> Set(m, i.dst, Address(i.src.offset))
      [] i.op = "IndirectLoad" ->
           Set(m, i.dst, LoadAt(m, Content(m, i.src), i.dst.size))
      [] i.op = "IndirectStore" ->
           StoreAt(m, Content(m, i.dst), i.src.size, Content(m, i.src))
      [] i.op \in {"Push", "PushI"} ->
           [m EXCEPT !.pushed = <<Content(m, i.src)>> \o @]
      [] i.op = "Call" -> AfterCall(m, i)
      [] i.op = "Label" -> Record(m, <<"Label", i.src.name>>)
      [] i.op = "Jump" ->
           Record(m, IF i.src.name = "end"
                       THEN <<"Return", Lookup(m.regs, BaseCell("AX"))>>
                       ELSE <<"Jump", i.src.name>>)
      [] i.op \in DOMAIN JumpCondition ->
           Record(m, <<JumpCondition[i.op], m.flags, i.src.name>>)

Run(m, code) ==
    LET after[n \in 0..Len(code)] ==
            IF n = 0 THEN m ELSE Execute(after[n - 1], code[n])
    IN  after[Len(code)]

x86 == Run(X86Start, ctx.code)

-----------------------------------------------------------------------------
LowerInitValues == LowerInit /\ ir = IRStart

LowerNextValues ==
    \/ /\ LowerOperation \/ StartCall \/ PassNext \/ EndCall
       /\ ir' = IF op' = op THEN ir ELSE Evaluate(ir, ctx', operation)
    \/ LowerNextFrame /\ ir' = IRStart

LowerSpecValues ==
    /\ LowerInitValues
    /\ [][LowerNextValues]_<<lowerVars, ir>>
    /\ WF_<<lowerVars, ir>>(LowerNextValues)

-----------------------------------------------------------------------------
(* Properties.                                                             *)

(* The frame has not gone wrong, and its variables have one size.           *)
RightFrame == ir.defined /\ OneSize(irFrames[lf])

BetweenOperations == status = "lowering" /\ passed = NotCalling

VariableHeld(m, v) ==
    Read(m.bytes, LocationOf(ctx, v).offset, v.size) = ir.vars[v.name]

VariablesSet == {v \in VariablesOf(irFrames[lf]) : v.name \in DOMAIN ir.vars}

(* What Produce_IR makes of a program never goes wrong: no operation reads  *)
(* what nothing has set, and sizes agree.                                  *)
FramesGoRight == status = "lowering" => RightFrame

(* The registers and the stack slots the Ctx has given out hold what the    *)
(* temporaries and the variables of the IR hold, whatever was computed,     *)
(* stored through a pointer or returned by a call in between: no two share   *)
(* a register or a byte, and no scratch register is one of theirs.          *)
StateSimulated ==
    BetweenOperations /\ RightFrame =>
        LET m == x86 IN
        /\ \A t \in DOMAIN ir.temps :
               Content(m, ctx.temp_register_mapping[t]) = ir.temps[t]
        /\ \A v \in VariablesSet : VariableHeld(m, v)
        /\ m.outside = ir.outside

(* README.md:3 calls the program a "Toy C compiler", and makeNewMemRead,    *)
(* which makes one read of nested ones, "works now for nested stuff"        *)
(* (src/ast.cpp:96-97): what was read through two pointers to an int is an    *)
(* int, and assigning it changes no other variable.                        *)
NestedReadsKeepVariables ==
    BetweenOperations /\ op > 1 =>
        LET m == x86 IN
        \A v \in VariablesSet :
            Target(irFrames[lf][op - 1]) = v \/ VariableHeld(m, v)

IsCall(event) == event[1] = "Call"

(* The code jumps, compares, calls and returns as the operations do, in     *)
(* their order and with their values; what a call passes is stated below.   *)
TraceSimulated ==
    BetweenOperations /\ RightFrame =>
        LET trace == x86.trace IN
        /\ Len(trace) = Len(ir.trace)
        /\ \A n \in DOMAIN ir.trace :
               IF IsCall(ir.trace[n])
                 THEN IsCall(trace[n]) /\ trace[n][2] = ir.trace[n][2]
               ELSE trace[n] = ir.trace[n]

(* Where a callee finds its parameters, in the order of its declaration     *)
(* (src/assem.cpp:283-302): the first six in registers, the others above     *)
(* its return address, the last one pushed first.                           *)
ParametersOf(event, count) ==
    SubSeq(event[3], 1, IF count < 6 THEN count ELSE 6) \o event[4]

Occurrences(s, value) == Cardinality({k \in DOMAIN s : s[k] = value})

(* A callee finds every argument in one of the places of its parameters,    *)
(* and nothing else: passing one does not destroy another.                  *)
ArgumentsDelivered ==
    BetweenOperations /\ RightFrame =>
        LET trace == x86.trace IN
        \A n \in DOMAIN ir.trace :
            IsCall(ir.trace[n]) =>
                LET arguments  == ir.trace[n][3]
                    parameters == ParametersOf(trace[n], Len(arguments))
                IN  /\ Len(parameters) = Len(arguments)
                    /\ \A k \in DOMAIN arguments :
                           Occurrences(parameters, arguments[k])
                               = Occurrences(arguments, arguments[k])

(* include/qa_x86.hpp:35 calls param_regs the "six system V calling         *)
(* convention registers": parameter k of the callee is argument k.          *)
SystemVOrder ==
    BetweenOperations =>
        LET trace == x86.trace IN
        \A n \in DOMAIN ir.trace :
            IsCall(ir.trace[n]) =>
                ParametersOf(trace[n], Len(ir.trace[n][3])) = ir.trace[n][3]

(* The code writes inside the frame it asks for and over the parameters it  *)
(* was passed: not the saved rbp or the return address, nothing of the       *)
(* caller's above the parameters, and nothing below frame.size.             *)
StaysInFrame ==
    status = "lowering" /\ RightFrame =>
        LET bytes == x86.bytes IN
        /\ \A d \in Saved : bytes[d] = SavedByte(d)
        /\ \A d \in DOMAIN bytes :
               PushedOffset(PushedOnEntry) < d /\ d <= ctx.stackOffset
=============================================================================
