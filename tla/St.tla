--------------------------------- MODULE St ---------------------------------
(***************************************************************************)
(* The parse tree (include/st.hpp, src/st.cpp).  Declaration specifiers can  *)
(* only say int and are left out.  What the code may leave out is a sequence *)
(* of at most one element, a compound statement the sequence of its items.  *)
(***************************************************************************)
PrimaryInt(value) ==
    [kind |-> "Primary", type |-> "INT", value |-> value, idenValue |-> ""]
PrimaryIden(name) ==
    [kind |-> "Primary", type |-> "IDEN", value |-> 0, idenValue |-> name]

AssignmentExpression(l, r)     == [kind |-> "Assignment", lhs |-> l, rhs |-> r]
UnaryExpression(type, e)       == [kind |-> "Unary", type |-> type, expr |-> e]
AdditiveExpression(l, r, type) ==
    [kind |-> "Additive", lhs |-> l, rhs |-> r, type |-> type]
FunctionCallExpression(name, args) ==
    [kind |-> "FunctionCall", name |-> name, args |-> args]

(* A direct declarator of either kind, with the level of its pointer.      *)
VariableDeclarator(level, name) ==
    [kind |-> "VARIABLE", level |-> level, name |-> name]
FunctionDeclarator(level, name, params) ==
    [kind |-> "FUNCTION", level |-> level, name |-> name, params |-> params]

(* Also the declaration in a for statement.                                *)
Declaration(declarator, initializer) ==
    [kind |-> "Declaration", declarator |-> declarator, initializer |-> initializer]

ReturnStatement(e)     == [kind |-> "Return", expr |-> e]
ExpressionStatement(e) == [kind |-> "Expression", expr |-> e]
SelectionStatement(cond, then, else) ==
    [kind |-> "Selection", cond |-> cond, then |-> then, else_ |-> else]
ForStatement(init, cond, inc, body) ==
    [kind |-> "For", init |-> init, cond |-> cond, inc |-> inc, body |-> body]

FuncDef(declarator, body) ==
    [kind |-> "FuncDef", declarator |-> declarator, body |-> body]
=============================================================================
