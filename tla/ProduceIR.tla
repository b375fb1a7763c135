----------------------------- MODULE ProduceIR -----------------------------
(***************************************************************************)
(* From the syntax tree to the intermediate representation (src/assem.cpp,  *)
(* include/assem.hpp).  Produce_IR visits the tree of each function with a   *)
(* fresh Ctx, which numbers temporaries and labels and knows the type of     *)
(* the variables.                                                          *)
(*                                                                         *)
(* The operators take the Ctx and return it with the operations appended to *)
(* its ins; thrown stands for an exception, a failed assertion or a null     *)
(* pointer that is followed, all of which end the compiler.  The version of *)
(* a Variable is left out: nothing reads it.                               *)
(*                                                                         *)
(* The Ctx keeps a pointer to the Var node of each parameter, which is       *)
(* destroyed before the body is visited.  What the body reads there is       *)
(* undefined; the memory holds the node's old contents ("own") until the     *)
(* node made for the next parameter takes its place ("last").               *)
(***************************************************************************)
EXTENDS Ast, QaIR, TLC

LOCAL INSTANCE SequencesExt

FreshIRCtx == [counter |-> 0, labelCounter |-> 0, variables |-> << >>,
               ins |-> << >>, thrown |-> FALSE]

EmitIR(c, o) == [c EXCEPT !.ins = Append(@, o)]
Fails(c)     == [c EXCEPT !.thrown = TRUE]

(* Mutant: every temporary has the size of a pointer. *)
newTemp_Wide(c, size) == Temp(c.counter, 8)

newTemp(c, size) == Temp(c.counter, size)

(* Mutant: the number is used again. *)
AfterNewTemp_Same(c) == c

AfterNewTemp(c) == [c EXCEPT !.counter = @ + 1]

newLabel(c) == "L" \o ToString(c.labelCounter)

(* Mutant: the numbers are used again. *)
AfterLabels_Same(c, n) == c

AfterLabels(c, n) == [c EXCEPT !.labelCounter = @ + n]

AddVariable(c, name, type) == [c EXCEPT !.variables = (name :> type) @@ @]

(* An expression gives a value and the context after it.                   *)
Result(value, c) == [value |-> value, ctx |-> c]
Failure(c)       == Result(Immediate(0), Fails(c))

getVariable(c, name) ==
    IF name \in DOMAIN c.variables
      THEN Result(Variable(name, SizeOfType(c.variables[name])), c)
    ELSE Failure(c)

(* The operation, which sets a new temporary of this size, and the         *)
(* temporary as its value.                                                 *)
IntoTemp(c, size, operation(_)) ==
    LET t == newTemp(c, size) IN
    Result(t, EmitIR(AfterNewTemp(c), operation(t)))

(* Mutant: the comparison that has no case fails. *)
IROperation_NoNeq == [Add |-> "Add", Sub |-> "Sub", Eq |-> "Equal", Gt |-> "GreaterThan"]

IROperation == [Add |-> "Add", Sub |-> "Sub", Eq |-> "Equal",
                Gt |-> "GreaterThan", Neq |-> "NotEqual"]

RECURSIVE GenerateIRForRhs(_, _), MunchStmt(_, _)

ArgumentsIR(c, args) ==
    FoldLeft(LAMBDA done, arg :
                 LET r == GenerateIRForRhs(done.ctx, arg) IN
                 Result(Append(done.value, r.value), r.ctx),
             Result(<< >>, c), args)

GenerateIRForRhs(c, node) ==
    CASE node.type = "ConstInt" -> Result(Immediate(node.value), c)
      [] node.type = "Var" -> getVariable(c, node.name)
      [] node.type = "BinOp" ->
           LET l == GenerateIRForRhs(c, node.lhs)
               r == GenerateIRForRhs(l.ctx, node.rhs)
           IN  IF node.binOpKind \notin DOMAIN IROperation THEN Failure(r.ctx)
               ELSE IntoTemp(r.ctx, SizeOf(l.value), LAMBDA t :
                        Binary(IROperation[node.binOpKind], t, l.value, r.value))
      [] node.type = "Call" ->
           LET args == ArgumentsIR(c, node.callArgs) IN
           IntoTemp(args.ctx, SizeOfType(node.returnType), LAMBDA t :
               Call(node.callName, args.value, t))
      [] node.type = "Addr" ->
           LET src == GenerateIRForRhs(c, node.expr) IN
           IntoTemp(src.ctx, 8, LAMBDA t : Move("Addr", t, src.value))
      [] node.type = "Deref" ->
           LET src == GenerateIRForRhs(c, node.expr) IN
           IF src.ctx.thrown \/ src.value.kind # "var" THEN Failure(src.ctx)
           ELSE LET type == src.ctx.variables[src.value.name] IN
                IF type = IntType THEN Failure(src.ctx)
                ELSE IntoTemp(src.ctx, SizeOfType(type - 1), LAMBDA t :
                         Deref(t, src.value, node.derefDepth))
      [] OTHER -> Failure(c)

GenerateIRForReturnNode(c, node) ==
    LET r == GenerateIRForRhs(c, node.expr) IN EmitIR(r.ctx, Ret(r.value))

GenerateIRForMovNode(c, node) ==
    LET src == GenerateIRForRhs(c, node.rhs) IN
    CASE node.lhs.type = "Var" ->
           EmitIR(AddVariable(src.ctx, node.lhs.name, node.lhs.variableType),
                  Move("Mov", Variable(node.lhs.name, SizeOfType(node.lhs.variableType)),
                       src.value))
      [] node.lhs.type = "Deref" ->
           LET dst == GenerateIRForRhs(src.ctx, node.lhs.expr) IN
           EmitIR(dst.ctx, Move("DerefStore", dst.value, src.value))
      [] OTHER -> Fails(src.ctx)

MunchAll(c, stmts) == FoldLeft(LAMBDA d, stmt : MunchStmt(d, stmt), c, stmts)

(* Mutant: the sides change places. *)
CompareIR_Swapped(c, condition) ==
    IF condition.type # "BinOp" THEN Fails(c)
    ELSE LET l == GenerateIRForRhs(c, condition.lhs)
             r == GenerateIRForRhs(l.ctx, condition.rhs)
         IN  EmitIR(r.ctx, Compare(r.value, l.value))

(* Both sides of a condition, compared.                                    *)
CompareIR(c, condition) ==
    IF condition.type # "BinOp" THEN Fails(c)
    ELSE LET l == GenerateIRForRhs(c, condition.lhs)
             r == GenerateIRForRhs(l.ctx, condition.rhs)
         IN  EmitIR(r.ctx, Compare(l.value, r.value))

LoopJump == [Gt |-> "ConditionalJumpGreater", Lt |-> "ConditionalJumpLess"]
IfJump   == [Eq |-> "ConditionalJumpEqual", Gt |-> "ConditionalJumpGreater"]

JumpOn(jumps, c, condition, trueLabel, falseLabel) ==
    IF c.thrown \/ condition.binOpKind \notin DOMAIN jumps THEN Fails(c)
    ELSE EmitIR(c, ConditionalJump(jumps[condition.binOpKind], trueLabel, falseLabel))

GenerateIRForForLoop(c, node) ==
    LET init    == MunchStmt(c, node.forInit)
        bottom  == newLabel(init)
        top     == newLabel(AfterLabels(init, 1))
        start   == EmitIR(EmitIR(AfterLabels(init, 2), Jump(bottom)), LabelDef(top))
        body    == MunchAll(start, node.forBody)
        update  == MunchAll(body, node.forUpdate)
        exit    == newLabel(update)
        atEnd   == EmitIR(AfterLabels(update, 1), LabelDef(bottom))
        again   == IF node.forCondition = << >> THEN EmitIR(atEnd, Jump(top))
                   ELSE JumpOn(LoopJump, CompareIR(atEnd, node.forCondition[1]),
                               node.forCondition[1], top, exit)
    IN  EmitIR(again, LabelDef(exit))

(* The then branch runs on into the else branch.                           *)
GenerateIRForIf(c, node) ==
    LET then_label == newLabel(c)
        else_label == newLabel(AfterLabels(c, 1))
        condition  == JumpOn(IfJump, CompareIR(AfterLabels(c, 2), node.condition),
                             node.condition, then_label, else_label)
        then  == MunchAll(EmitIR(condition, LabelDef(then_label)), node.then)
    IN  MunchAll(EmitIR(then, LabelDef(else_label)), node.else_)

MunchStmt(c, node) ==
    CASE node.type = "Return"  -> GenerateIRForReturnNode(c, node)
      [] node.type = "Move"    -> GenerateIRForMovNode(c, node)
      [] node.type = "If"      -> GenerateIRForIf(c, node)
      [] node.type = "Call"    -> GenerateIRForRhs(c, node).ctx
      [] node.type = "ForLoop" -> GenerateIRForForLoop(c, node)
      [] OTHER                 -> Fails(c)

-----------------------------------------------------------------------------
ParameterIR(c, param, n) ==
    LET known == AddVariable(c, param.name, param.type)
        v     == Variable(param.name, SizeOfType(param.type))
    IN  IF n > Len(param_regs) THEN EmitIR(known, DefineStackPushed(param.name))
        ELSE EmitIR(known, Move("MovR", v, HardcodedRegister(param_regs[n], v.size)))

(* The types the body finds in the nodes of the parameters.                *)
Dangling(c, params, reads) ==
    IF reads = "own" THEN c
    ELSE [c EXCEPT !.variables = [name \in DOMAIN @ |-> params[Len(params)].type]]

(* A function becomes a frame of operations, or fails.                     *)
Produce_Frame(function, reads) ==
    LET params == function.params
        entered == FoldLeft(LAMBDA c, n : ParameterIR(c, params[n], n),
                            FreshIRCtx, [n \in DOMAIN params |-> n])
    IN  MunchAll(Dangling(entered, params, reads), function.body)

Produce_IR(functions, reads) ==
    [n \in DOMAIN functions |-> Produce_Frame(functions[n], reads)]
=============================================================================
