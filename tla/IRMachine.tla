----------------------------- MODULE IRMachine -----------------------------
(***************************************************************************)
(* Running the operations Produce_IR makes of a program.  A step executes   *)
(* one operation of the activation on top of the stack; a call gives the     *)
(* callee its arguments, in their order, as its parameters.                 *)
(***************************************************************************)
EXTENDS ProduceIR, CSemantics, FiniteSets

LOCAL INSTANCE SequencesExt

CONSTANTS
    CPrograms  \* the programs: sequences of functions, one of them main

VARIABLES
    functions,
    code,         \* the Ctx Produce_IR leaves for each function
    stack,        \* activations, the running one last
    mem,
    activations,  \* how many there have been
    flags,        \* what was compared last
    result        \* what main returned

machineVars == <<functions, code, stack, mem, activations, flags, result>>

FunctionNamed(name) == CHOOSE n \in DOMAIN functions : functions[n].functionName = name

(* A new activation; into is the temporary of the caller.                  *)
Activation(number, name, args, into) ==
    [number |-> number, function |-> FunctionNamed(name), pc |-> 1,
     args |-> args, temps |-> << >>, into |-> into]

MachineInit ==
    /\ functions \in CPrograms
    /\ \E reads \in {"own", "last"} : code = Produce_IR(functions, reads)
    /\ stack = << Activation(1, "main", << >>, NoOperand) >>
    /\ mem = << >>
    /\ activations = 1
    /\ flags = None
    /\ result = None

Compiled == \A n \in DOMAIN code : ~code[n].thrown

running == Last(stack)
ops     == code[running.function].ins
current == ops[running.pc]

Runs(kinds) ==
    /\ Compiled
    /\ result = None
    /\ running.pc \in DOMAIN ops
    /\ current.op \in kinds

(* Parameter n of the activation; the first six are named by a register.   *)
RegisterNumber(reg) == CHOOSE n \in DOMAIN param_regs : param_regs[n] = reg

StackParameter ==
    6 + Cardinality({n \in 1..running.pc : ops[n].op = "DefineStackPushed"})

ValueIn(v) ==
    CASE v.kind = "int" -> Number(v.value)
      [] v.kind = "temp" -> running.temps[v.id]
      [] v.kind = "var" -> mem[<<running.number, v.name>>]
      [] v.kind = "hard" -> running.args[RegisterNumber(v.reg)]

(* The running activation sets a temporary, if any, and goes on at pc.     *)
GoTo(pc) == stack' = [stack EXCEPT ![Len(stack)].pc = pc]

SetTemp(activation, t, value) ==
    IF t.kind = "temp" THEN [activation EXCEPT !.temps = (t.id :> value) @@ @]
                       ELSE activation

ToTemp(t, value) ==
    stack' = [stack EXCEPT ![Len(stack)] =
                  SetTemp([@ EXCEPT !.pc = @ + 1], t, value)]

ToPlace(place, value) ==
    /\ mem' = (place :> value) @@ mem
    /\ GoTo(running.pc + 1)

Kind == [Add |-> "Add", Sub |-> "Sub", Equal |-> "Eq", NotEqual |-> "Neq",
         GreaterThan |-> "Gt"]

ComputedValue ==
    CASE current.op \in DOMAIN Kind ->
           Apply(Kind[current.op], ValueIn(current.left), ValueIn(current.right))
      [] current.op = "Addr" -> Pointer(running.number, current.src.name)
      [] current.op = "Deref" ->
           FoldLeft(LAMBDA v, n : mem[Place(v)], mem[Place(ValueIn(current.src))],
                    [n \in 1..(current.depth - 1) |-> n])

Compute ==
    /\ Runs(DOMAIN Kind \cup {"Addr", "Deref"})
    /\ ToTemp(current.dst, ComputedValue)
    /\ UNCHANGED <<functions, code, mem, activations, flags, result>>

Write ==
    /\ Runs({"Mov", "MovR", "DerefStore", "DefineStackPushed"})
    /\ CASE current.op = "DerefStore" ->
              ToPlace(Place(ValueIn(current.dst)), ValueIn(current.src))
         [] current.op = "DefineStackPushed" ->
              ToPlace(<<running.number, current.name>>, running.args[StackParameter])
         [] OTHER ->
              ToPlace(<<running.number, current.dst.name>>, ValueIn(current.src))
    /\ UNCHANGED <<functions, code, activations, flags, result>>

CompareValues ==
    /\ Runs({"Compare"})
    /\ flags' = <<ValueIn(current.left), ValueIn(current.right)>>
    /\ GoTo(running.pc + 1)
    /\ UNCHANGED <<functions, code, mem, activations, result>>

LabelAt(label) ==
    CHOOSE n \in DOMAIN ops : ops[n].op = "LabelDef" /\ ops[n].label = label

Taken ==
    CASE current.op = "ConditionalJumpEqual" -> flags[1] = flags[2]
      [] current.op = "ConditionalJumpGreater" -> flags[1][2] > flags[2][2]
      [] current.op = "ConditionalJumpLess" -> flags[1][2] < flags[2][2]

Branch ==
    /\ Runs(CondJumps \cup {"Jump", "LabelDef"})
    /\ CASE current.op = "LabelDef" -> GoTo(running.pc + 1)
         [] current.op = "Jump" -> GoTo(LabelAt(current.label))
         [] OTHER -> GoTo(LabelAt(IF Taken THEN current.trueLabel ELSE current.falseLabel))
    /\ UNCHANGED <<functions, code, mem, activations, flags, result>>

CallFunction ==
    /\ Runs({"Call"})
    /\ activations' = activations + 1
    /\ stack' = Append(stack,
           Activation(activations + 1, current.name,
                      [n \in DOMAIN current.args |-> ValueIn(current.args[n])],
                      current.dst))
    /\ UNCHANGED <<functions, code, mem, flags, result>>

(* Flags do not survive a call.                                            *)
Return ==
    /\ Runs({"Ret"})
    /\ flags' = None
    /\ LET value == ValueIn(current.value) IN
       IF Len(stack) = 1 THEN result' = value /\ UNCHANGED stack
       ELSE /\ stack' = [Front(stack) EXCEPT ![Len(stack) - 1] =
                             SetTemp([@ EXCEPT !.pc = @ + 1], running.into, value)]
            /\ UNCHANGED result
    /\ UNCHANGED <<functions, code, mem, activations>>

MachineNext == Compute \/ Write \/ CompareValues \/ Branch \/ CallFunction \/ Return

(* A processor goes on executing.                                          *)
MachineSpec == MachineInit /\ [][MachineNext]_machineVars /\ WF_machineVars(MachineNext)

-----------------------------------------------------------------------------
(* Properties.                                                             *)

(* What main returns is what the program means: the visits in               *)
(* GenerateIRForRhs, MunchStmt and the loops and branches they lay out       *)
(* compute every operand once, in order, and jump where they should.        *)
ReturnsWhatCReturns == result # None => result = Meaning(functions)

(* Every program main returns from in C is compiled, and its code returns.  *)
CodeReturns == <>(result # None)

(* src/assem.cpp:184: "Things like .. if (a) have already been converted to *)
(* if (a == 0) with flipped then / else" - a branch and not both.           *)
ConvertedIfRight == ReturnsWhatCReturns

(* What the lowering pass relies on: temporaries are set once and read at   *)
(* most once after that; and they are numbered in the order they are set.   *)
TemporariesLinear ==
    \A f \in {code[n].ins : n \in DOMAIN code} :
        LET setting == {n \in DOMAIN f : Target(f[n]).kind = "temp"} IN
        /\ LinearOperations(f)
        /\ \A n \in setting :
               Target(f[n]).id = Cardinality({m \in setting : m < n})

(* Every jump has one place to go in its function.                         *)
LabelsOf(o) ==
    CASE o.op = "Jump" -> {o.label}
      [] o.op \in CondJumps -> {o.trueLabel, o.falseLabel}
      [] OTHER -> {}

JumpsResolve ==
    \A c \in {code[n] : n \in DOMAIN code} :
        ~c.thrown =>
            \A n \in DOMAIN c.ins : \A label \in LabelsOf(c.ins[n]) :
                Cardinality({m \in DOMAIN c.ins :
                    c.ins[m].op = "LabelDef" /\ c.ins[m].label = label}) = 1
=============================================================================
