----------------------------- MODULE Translate -----------------------------
(***************************************************************************)
(* From the parse tree to the syntax tree (src/translate.cpp,               *)
(* include/asttraits.hpp), an external declaration a step.  One Ctx is used *)
(* for the whole program: what a declaration enters into local_variables     *)
(* stays for the functions that follow, and lvalue, which says whether a      *)
(* dereference is written, stays as the last statement has left it.         *)
(*                                                                         *)
(* The Ctx keeps a pointer to the Var node of each parameter, which is       *)
(* destroyed before the body is translated.  Any type may be read there.    *)
(***************************************************************************)
EXTENDS Ast, St, TLC

LOCAL INSTANCE SequencesExt

VARIABLES
    nodes,       \* the parse tree
    ast,         \* the syntax tree
    ctx,
    translating  \* "running", "done" or "threw"

translateVars == <<nodes, ast, ctx, translating>>

TranslateStart ==
    /\ ast = << >>
    /\ ctx = [lvalue |-> FALSE, local_variables |-> << >>, thrown |-> FALSE]
    /\ translating = "running"

NoType    == -1  \* of a node that is no variable
AnyType   == {NoType, IntType, PointerTo(IntType)}

Lvalue(c, b)       == [c EXCEPT !.lvalue = b]
Throws(c)          == [c EXCEPT !.thrown = TRUE]
Translated(node, c) == [node |-> node, ctx |-> c]
NoNode(c)          == Translated(makeConstInt(0), Throws(c))

(* Mutant: a name that is known keeps its type. *)
Enter_Once(c, name, type) == [c EXCEPT !.local_variables = @ @@ (name :> type)]

Enter(c, name, type) == [c EXCEPT !.local_variables = (name :> type) @@ @]

toDataType(declarator) == IntType + declarator.level

BinOpKind == [ADD |-> "Add", SUB |-> "Sub", GT |-> "Gt", LT |-> "Lt",
              EQ |-> "Eq", NEQ |-> "Neq"]

RECURSIVE TranslateExpression(_, _), TranslateStatement(_, _), TranslateItems(_, _)

TranslatePrimary(c, e) ==
    CASE e.type = "INT" -> Translated(makeConstInt(e.value), c)
      [] e.idenValue \in DOMAIN c.local_variables ->
           Translated(makeNewVar(e.idenValue, c.local_variables[e.idenValue]), c)
      [] OTHER -> NoNode(c)

(* Mutant: the flag is left as the statement before has left it. *)
TranslateAssignment_NoFlag(c, e) ==
    LET l == TranslateExpression(c, e.lhs)
        r == TranslateExpression(Lvalue(l.ctx, FALSE), e.rhs)
    IN  Translated(makeNewMove(l.node, r.node), r.ctx)

TranslateAssignment(c, e) ==
    LET l == TranslateExpression(Lvalue(c, TRUE), e.lhs)
        r == TranslateExpression(Lvalue(l.ctx, FALSE), e.rhs)
    IN  Translated(makeNewMove(l.node, r.node), r.ctx)

TranslateUnary(c, e) ==
    LET x == TranslateExpression(c, e.expr)
        node == CASE e.type = "NEG"  -> makeNewBinOp(makeConstInt(0), x.node, "Sub")
                  [] e.type = "ADDR" -> makeNewAddr(x.node)
                  [] x.ctx.lvalue    -> makeNewMemWrite(x.node)
                  [] OTHER           -> makeNewMemRead(x.node)
    IN  Translated(node, x.ctx)

TranslateAdditive(c, e) ==
    LET l == TranslateExpression(c, e.lhs)
        r == TranslateExpression(l.ctx, e.rhs)
    IN  Translated(makeNewBinOp(l.node, r.node, BinOpKind[e.type]), r.ctx)

(* A sequence, with the context handed from one to the next.               *)
InOrder(c, trees, translated(_, _)) ==
    FoldLeft(LAMBDA done, tree :
                 LET x == translated(done.ctx, tree) IN
                 Translated(Append(done.node, x.node), x.ctx),
             Translated(<< >>, c), trees)

TranslateCall(c, e) ==
    LET args == InOrder(c, e.args, TranslateExpression) IN
    Translated(makeNewCall(e.name, args.node), args.ctx)

TranslateExpression(c, e) ==
    CASE e.kind = "Primary"      -> TranslatePrimary(c, e)
      [] e.kind = "Assignment"   -> TranslateAssignment(c, e)
      [] e.kind = "Unary"        -> TranslateUnary(c, e)
      [] e.kind = "Additive"     -> TranslateAdditive(c, e)
      [] e.kind = "FunctionCall" -> TranslateCall(c, e)

(* A declaration without an initializer follows an optional that is empty. *)
TranslateDeclaration(c, d) ==
    IF d.declarator.kind # "VARIABLE" \/ d.initializer = << >> THEN NoNode(c)
    ELSE LET type == toDataType(d.declarator)
             init == TranslateExpression(
                         Lvalue(Enter(c, d.declarator.name, type), FALSE),
                         d.initializer[1])
         IN  Translated(makeNewMove(makeNewVar(d.declarator.name, type), init.node),
                        Lvalue(init.ctx, TRUE))

(* Mutant: the flag is left as the statement before has left it. *)
TranslateReturn_NoFlag(c, s) ==
    LET e == TranslateExpression(c, s.expr) IN
    Translated(makeNewReturn(e.node), Lvalue(e.ctx, TRUE))

TranslateReturn(c, s) ==
    LET e == TranslateExpression(Lvalue(c, FALSE), s.expr) IN
    Translated(makeNewReturn(e.node), Lvalue(e.ctx, TRUE))

(* What is no comparison Produce_IR knows is compared with 0, and the       *)
(* branches change places.                                                 *)
TranslateSelection(c, s) ==
    LET cond  == TranslateExpression(c, s.cond)
        then  == TranslateItems(cond.ctx, s.then)
        else  == TranslateItems(then.ctx, s.else_)
        kept  == cond.node.type = "BinOp" /\ cond.node.binOpKind \in {"Eq", "Gt"}
        with0 == makeNewBinOp(cond.node, makeConstInt(0), "Eq")
    IN  Translated(IF kept THEN makeNewIfStmt(cond.node, then.node, else.node)
                   ELSE makeNewIfStmt(with0, else.node, then.node),
                   else.ctx)

TranslateFor(c, s) ==
    LET init == TranslateDeclaration(c, s.init)
        cond == InOrder(init.ctx, s.cond, TranslateExpression)
        inc  == InOrder(cond.ctx, s.inc, TranslateExpression)
        body == TranslateItems(inc.ctx, s.body)
    IN  Translated(makeNewForLoop(init.node, cond.node, inc.node, body.node), body.ctx)

TranslateStatement(c, s) ==
    CASE s.kind = "Declaration" -> TranslateDeclaration(c, s)
      [] s.kind = "Return"      -> TranslateReturn(c, s)
      [] s.kind = "Expression"  -> TranslateExpression(c, s.expr)
      [] s.kind = "Selection"   -> TranslateSelection(c, s)
      [] s.kind = "For"         -> TranslateFor(c, s)

TranslateItems(c, items) == InOrder(c, items, TranslateStatement)

-----------------------------------------------------------------------------
Params(f) ==
    [n \in DOMAIN f.declarator.params |->
        [name |-> f.declarator.params[n].name,
         type |-> toDataType(f.declarator.params[n])]]

(* read is what is found in the freed node of each parameter.              *)
TranslateFunction(c, f, read) ==
    LET params  == f.declarator.params
        entered == FoldLeft(LAMBDA d, n : Enter(d, params[n].name, read[n]),
                            c, [n \in DOMAIN params |-> n])
        body    == TranslateItems(entered, f.body)
    IN  IF \E n \in DOMAIN params : params[n].kind # "VARIABLE" THEN NoNode(c)
        ELSE Translated(makeNewFunction(f.declarator.name, body.node, Params(f)), body.ctx)

TakeTree(t) ==
    /\ ctx' = t.ctx
    /\ IF t.ctx.thrown THEN translating' = "threw" /\ UNCHANGED ast
       ELSE ast' = Append(ast, t.node) /\ UNCHANGED translating
    /\ UNCHANGED nodes

NextTree    == nodes[Len(ast) + 1]
IsNext(kind) ==
    translating = "running" /\ Len(ast) < Len(nodes) /\ NextTree.kind = kind

TranslateNextFunction ==
    /\ IsNext("FuncDef")
    /\ \E read \in [DOMAIN NextTree.declarator.params -> AnyType] :
           TakeTree(TranslateFunction(ctx, NextTree, read))

TranslateNextDeclaration ==
    IsNext("Declaration") /\ TakeTree(TranslateDeclaration(ctx, NextTree))

EndOfTree ==
    /\ translating = "running"
    /\ Len(ast) = Len(nodes)
    /\ translating' = "done"
    /\ UNCHANGED <<nodes, ast, ctx>>

TranslateNext == TranslateNextFunction \/ TranslateNextDeclaration \/ EndOfTree
=============================================================================
