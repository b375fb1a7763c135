-------------------------------- MODULE QaIR --------------------------------
(***************************************************************************)
(* The intermediate representation between Produce_IR and LowerIR           *)
(* (include/qa_ir.hpp, src/qa_ir.cpp): values are temporaries, variables,    *)
(* base registers or ints, and a frame is a sequence of operations.         *)
(***************************************************************************)
EXTENDS QaX86

Temp(id, size)       == [kind |-> "temp", id |-> id, size |-> size]
Variable(name, size) == [kind |-> "var", name |-> name, size |-> size]

SizeOf(value) == IF value.kind = "int" THEN 4 ELSE value.size

(* One constructor for each shape of operation.  A missing destination, of *)
(* a Compare, is NoOperand.                                                *)
Move(op, dst, src)           == [op |-> op, dst |-> dst, src |-> src]
Ret(value)                   == [op |-> "Ret", value |-> value]
Binary(op, dst, left, right) == [op |-> op, dst |-> dst, left |-> left, right |-> right]
Compare(left, right)         == Binary("Compare", NoOperand, left, right)
Deref(dst, src, depth)       == [op |-> "Deref", dst |-> dst, src |-> src, depth |-> depth]
Call(name, args, dst)        == [op |-> "Call", name |-> name, args |-> args, dst |-> dst]
Jump(label)                  == [op |-> "Jump", label |-> label]
LabelDef(label)              == [op |-> "LabelDef", label |-> label]
ConditionalJump(op, t, f)    == [op |-> op, trueLabel |-> t, falseLabel |-> f]
DefineStackPushed(name)      == [op |-> "DefineStackPushed", name |-> name]

MoveOps   == {"Mov", "MovR", "Addr", "DerefStore"}
BinaryOps == {"Add", "Sub", "Equal", "NotEqual", "GreaterThan", "Compare"}
CondJumps == {"ConditionalJumpEqual", "ConditionalJumpGreater", "ConditionalJumpLess"}

(* The values over a set of temporaries' ids and one of variables' names,   *)
(* and the operations by what they hold.                                   *)
Temps(ids)         == [kind : {"temp"}, id : ids, size : {4, 8}]
Variables(names)   == [kind : {"var"}, name : names, size : {4, 8}]
Places(ids, names) == Temps(ids) \cup Variables(names)
Values(ids, names) == Places(ids, names) \cup HardRegisters \cup Immediates

(* A frame's labels; end is where its returns jump to.                     *)
Labels == STRING \ {"end"}

Operation(ids, names) ==
    [op : {"Mov", "MovR"}, dst : Places(ids, names), src : Values(ids, names)]
    \cup [op : {"Addr"}, dst : Temps(ids), src : Values(ids, names)]
    \cup [op : {"DerefStore"}, dst : Values(ids, names), src : Values(ids, names)]
    \cup [op : {"Ret"}, value : Values(ids, names)]
    \cup [op : BinaryOps \ {"Compare"}, dst : Places(ids, names),
          left : Values(ids, names), right : Values(ids, names)]
    \cup [op : {"Compare"}, dst : {NoOperand},
          left : Values(ids, names), right : Values(ids, names)]
    \cup [op : {"Deref"}, dst : Temps(ids), src : Values(ids, names), depth : Nat]
    \cup [op : {"Call"}, name : STRING, args : Seq(Values(ids, names)), dst : Temps(ids)]
    \cup [op : {"Jump", "LabelDef"}, label : Labels]
    \cup [op : CondJumps, trueLabel : Labels, falseLabel : Labels]
    \cup [op : {"DefineStackPushed"}, name : names]

(* The values an operation reads, and the one it sets.                     *)
ValuesRead(o) ==
    CASE o.op = "DerefStore" -> <<o.dst, o.src>>
      [] o.op \in MoveOps \ {"DerefStore"} -> <<o.src>>
      [] o.op = "Ret" -> <<o.value>>
      [] o.op \in BinaryOps -> <<o.left, o.right>>
      [] o.op = "Deref" -> <<o.src>>
      [] o.op = "Call" -> o.args
      [] OTHER -> << >>

Sources(o) == {ValuesRead(o)[k] : k \in DOMAIN ValuesRead(o)}

Target(o) ==
    IF o.op \in (MoveOps \ {"DerefStore"}) \cup BinaryOps \cup {"Deref", "Call"}
      THEN o.dst ELSE NoOperand

IsTemp(v, id) == v.kind = "temp" /\ v.id = id

(* What the lowering pass may rely on in the frames it gets: a temporary is *)
(* set by one operation and is, after that and with the size it was set      *)
(* with, one operand of one operation at most; and base registers are read  *)
(* for the parameters they carry.                                          *)
LinearOperations(f) ==
    /\ \A n \in DOMAIN f : \A k \in DOMAIN ValuesRead(f[n]) :
           LET v == ValuesRead(f[n])[k] IN
           /\ v.kind = "hard" => IsParamReg(v.reg)
           /\ v.kind = "temp" =>
                  /\ \E m \in 1..(n - 1) : Target(f[m]) = v
                  /\ \A m \in DOMAIN f : \A j \in DOMAIN ValuesRead(f[m]) :
                         IsTemp(ValuesRead(f[m])[j], v.id) => m = n /\ j = k
    /\ \A n, m \in DOMAIN f :
           Target(f[n]).kind = "temp" /\ IsTemp(Target(f[m]), Target(f[n]).id) => m = n
=============================================================================
