----------------------------- MODULE MCCompiler -----------------------------
(***************************************************************************)
(* Programs to compile and run: those of tests/sources that call, loop,     *)
(* branch and write through pointers, and small ones like them.  They keep   *)
(* clear of what the violation runs show to be wrong: the order of arguments *)
(* does not matter to the functions, no value is kept across a call or a     *)
(* comparison, the first branch of a conditional returns, and a function     *)
(* that pushes arguments has variables.                                     *)
(***************************************************************************)
EXTENDS Compiler, MCPrograms

LOCAL INSTANCE SequencesExt
LOCAL INSTANCE FiniteSetsExt

Program(fs, stmts, returned) ==
    fs \o << makeNewFunction("main",
                 << Set1(X, C(3)), Set1(Y, C(1)) >> \o stmts \o << makeNewReturn(returned) >>,
                 << >>) >>

(* The sum of variables.                                                   *)
SumOf(names) ==
    FoldLeft(LAMBDA e, name : Plus(e, IntVar(name)), IntVar(Head(names)), Tail(names))

-----------------------------------------------------------------------------
(* tests/sources/pass_vars_on_stack.c                                      *)
Seven == <<"a", "b", "c", "d", "e", "f", "g">>

sum7 == makeNewFunction("sum7",
    << Set1(IntVar("g"), C(10)), Set1(IntVar("a"), C(3)), makeNewReturn(SumOf(Seven)) >>,
    IntParams(Seven))

SevenArguments ==
    << sum7,
       makeNewFunction("main",
           << Set1(X, makeNewCall("sum7", [n \in 1..7 |-> C(n)])), makeNewReturn(X) >>,
           << >>) >>

(* The same call, its result returned without a variable.                  *)
VariableFreeMain ==
    {<< sum7,
        makeNewFunction("main",
            << makeNewReturn(makeNewCall("sum7", [n \in 1..7 |-> C(n)])) >>, << >>) >>}

(* A pointer x inside a branch, in a function with an int x:                *)
(* int y=1; int*p=&y; if(y==1){int*x=p; return *x;} return y;               *)
ShadowedName ==
    {<< makeNewFunction("main",
            << Set1(X, C(3)), Set1(Y, C(1)), Set1(P, makeNewAddr(Y)),
               makeNewIfStmt(makeNewBinOp(Y, C(1), "Eq"),
                   << Set1(IntPtr("x"), P), makeNewReturn(makeNewMemRead(IntPtr("x"))) >>,
                   << >>),
               makeNewReturn(Y) >>,
            << >>) >>}

(* tests/sources/pass_vars_on_stack_more_involved.c                        *)
Twelve == Seven \o <<"h", "i", "j", "k", "l">>
Ten    == SubSeq(Twelve, 1, 10)

MoreInvolved ==
    << makeNewFunction("sum12", << makeNewReturn(SumOf(Twelve)) >>, IntParams(Twelve)),
       makeNewFunction("sum10",
           << makeNewReturn(makeNewCall("sum12",
                  [n \in 1..10 |-> IntVar(Ten[n])] \o << C(5), C(5) >>)) >>,
           IntParams(Ten)),
       makeNewFunction("main",
           << Set1(IntVar("t"), C(10)), Set1(I, C(8)),
              Set1(X, makeNewCall("sum10",
                  [n \in 1..7 |-> C(n)] \o << I, C(9), IntVar("t") >>)),
              makeNewReturn(X) >>,
           << >>) >>

(* tests/sources/int_gt_if_statements.c, its conditions flipped.           *)
IfStatements ==
    << makeNewFunction("main",
           << Set1(IntVar("t"), makeNewBinOp(C(5), C(0), "Gt")),
              Set1(X, makeNewBinOp(C(0), C(5), "Gt")),
              makeNewIfStmt(makeNewBinOp(IntVar("t"), C(0), "Eq"), << >>,
                  << makeNewIfStmt(makeNewBinOp(X, C(0), "Eq"),
                         << makeNewReturn(C(42)) >>, << makeNewReturn(C(10)) >>),
                     makeNewReturn(C(30)) >>),
              makeNewReturn(C(0)) >>,
           << >>) >>

(* tests/sources/int_deref_addition.c                                      *)
addFive == makeNewFunction("addFive",
    << Set1(IntVar("b"), makeNewMemRead(IntPtr("a"))),
       Set1(IntVar("c"), Plus(IntVar("b"), C(2))),
       Set1(makeNewMemWrite(IntPtr("a")), Plus(IntVar("c"), C(3))),
       makeNewReturn(C(0)) >>,
    PtrParams(<<"a">>))

(* The sum of the numbers up to a, by recursion.                           *)
sumTo == makeNewFunction("sumTo",
    << makeNewIfStmt(makeNewBinOp(IntVar("a"), C(0), "Eq"),
                     << makeNewReturn(C(0)) >>, << >>),
       makeNewReturn(Plus(makeNewCall("sumTo", << Minus(IntVar("a"), C(1)) >>),
                          IntVar("a"))) >>,
    IntParams(<<"a">>))

-----------------------------------------------------------------------------
Compares(e) == e.type = "BinOp" /\ e.binOpKind = "Neq" /\ e.rhs.type = "ConstInt"

CompiledExprs ==
    {e \in SimpleExprs : ~Compares(e)}
    \cup {Minus(C(0), Minus(X, Plus(Y, C(2)))), makeNewMemRead(makeNewAddr(Y))}

Calling ==
    {Program(<<sumTo>>, << Set1(v, makeNewCall("sumTo", <<e>>)) >>, v) :
        v \in {X, Y}, e \in {X, C(2), Plus(X, Y)}}
    \cup {Program(<<sumTo, sum7>>, <<l>>, X) :
             l \in Loops({<< Set1(X, Plus(makeNewCall("sumTo", <<I>>), X)) >>,
                          << Set1(X, makeNewCall("sum7",
                                 <<C(1), I, X, C(2), Y, C(3), I>>)) >>})}
    \cup {Program(<<addFive>>, << makeNewCall("addFive", << makeNewAddr(v) >>) >>, X) :
             v \in {X, Y}}
    \cup {Program(<<swap>>, << makeNewCall("swap", << makeNewAddr(v), makeNewAddr(w) >>) >>, X) :
             v \in {X, Y}, w \in {X, Y}}

CompiledStatements ==
    {<<s>> : s \in Assignments(CompiledExprs) \cup Ifs \cup Loops(SmallBodies)}
    \cup {<<Set1(X, makeNewBinOp(X, Y, k)), t>> : k \in {"Add", "Gt"}, t \in Ifs}
    \cup {s \in PointerStmts : s[1].type = "Move"}

CompiledPrograms ==
    {SevenArguments, MoreInvolved, IfStatements}
    \cup Calling
    \cup {Program(<< >>, l, v) : l \in CompiledStatements, v \in {X, Y}}

CompiledNames == {"x", "y", "p", "q", "t"} \cup {Twelve[n] : n \in DOMAIN Twelve}
TempIds == 0..11
VirtIds == 0..39
=============================================================================
