-------------------------------- MODULE Ast --------------------------------
(***************************************************************************)
(* The syntax tree translate hands to Produce_IR (include/ast.hpp,          *)
(* src/ast.cpp).  A DataType is how often it can be dereferenced: 0 is int,  *)
(* d + 1 a pointer to d.                                                   *)
(***************************************************************************)
EXTENDS Integers, Sequences

IntType == 0
PointerTo(type) == type + 1
SizeOfType(type) == IF type = IntType THEN 4 ELSE 8

makeConstInt(value)      == [type |-> "ConstInt", value |-> value]
makeNewVar(name, type)   == [type |-> "Var", name |-> name, variableType |-> type]
makeNewBinOp(l, r, kind) == [type |-> "BinOp", lhs |-> l, rhs |-> r, binOpKind |-> kind]
makeNewAddr(e)           == [type |-> "Addr", expr |-> e]
makeNewMove(l, r)        == [type |-> "Move", lhs |-> l, rhs |-> r]
makeNewReturn(e)         == [type |-> "Return", expr |-> e]

(* Every function returns an int.                                          *)
makeNewCall(name, args) ==
    [type |-> "Call", callName |-> name, callArgs |-> args, returnType |-> IntType]

makeNewIfStmt(c, then, else) ==
    [type |-> "If", condition |-> c, then |-> then, else_ |-> else]

(* The condition and the update are sequences of at most one expression.   *)
makeNewForLoop(init, condition, update, body) ==
    [type |-> "ForLoop", forInit |-> init, forCondition |-> condition,
     forUpdate |-> update, forBody |-> body]

(* params is a sequence of [name, type].                                   *)
makeNewFunction(name, body, params) ==
    [type |-> "Frame", functionName |-> name, body |-> body, params |-> params]

makeNewMemWrite(e) == [type |-> "Deref", expr |-> e, derefDepth |-> 0]

(* Reading through the address of a variable is reading the variable, and   *)
(* nested reads are one read of a greater depth.  Of any other node whose    *)
(* address is taken only the type is copied: what it is made of is missing.*)
makeNewMemRead(e) ==
    CASE e.type = "Addr" /\ e.expr.type = "Var" -> makeNewVar(e.expr.name, IntType)
      [] e.type = "Addr" /\ e.expr.type # "Var" ->
           [type |-> e.expr.type, expr |-> e, derefDepth |-> 1, binOpKind |-> "Add"]
      [] e.type = "Deref" -> [e EXCEPT !.derefDepth = @ + 1]
      [] OTHER            -> [type |-> "Deref", expr |-> e, derefDepth |-> 1]
=============================================================================
