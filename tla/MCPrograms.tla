----------------------------- MODULE MCPrograms -----------------------------
(***************************************************************************)
(* Small C programs, as syntax trees: main declares x and y, runs one or     *)
(* two statements and returns x or y; it may call minus, which is not        *)
(* commutative, eight, which takes parameters on the stack, and swap, which *)
(* writes through pointers (as tests/sources/int_swap.c does).              *)
(***************************************************************************)
EXTENDS Ast

IntVar(name) == makeNewVar(name, IntType)
IntPtr(name) == makeNewVar(name, PointerTo(IntType))
X  == IntVar("x")
Y  == IntVar("y")
I  == IntVar("i")
P  == IntPtr("p")
PP == makeNewVar("q", PointerTo(PointerTo(IntType)))
C(n) == makeConstInt(n)
Plus(l, r)  == makeNewBinOp(l, r, "Add")
Minus(l, r) == makeNewBinOp(l, r, "Sub")
Set1(v, e)  == makeNewMove(v, e)

IntParams(names) == [n \in DOMAIN names |-> [name |-> names[n], type |-> IntType]]
PtrParams(names) == [n \in DOMAIN names |-> [name |-> names[n], type |-> PointerTo(IntType)]]

minus == makeNewFunction("minus", << makeNewReturn(Minus(IntVar("a"), IntVar("b"))) >>,
                         IntParams(<<"a", "b">>))

swap == makeNewFunction("swap",
    << Set1(IntVar("t"), makeNewMemRead(IntPtr("a"))),
       Set1(makeNewMemWrite(IntPtr("a")), makeNewMemRead(IntPtr("b"))),
       Set1(makeNewMemWrite(IntPtr("b")), IntVar("t")),
       makeNewReturn(C(0)) >>,
    PtrParams(<<"a", "b">>))

eight == makeNewFunction("eight",
    << Set1(IntVar("g"), Minus(IntVar("g"), IntVar("h"))),
       makeNewReturn(Plus(IntVar("a"), Plus(IntVar("f"), IntVar("g")))) >>,
    IntParams(<<"a", "b", "c", "d", "e", "f", "g", "h">>))

Main(stmts, returned) ==
    << minus, swap, eight,
       makeNewFunction("main",
           << Set1(X, C(3)), Set1(Y, C(1)) >> \o stmts \o << makeNewReturn(returned) >>,
           << >>) >>

Operands == {C(2), X, Y}

SimpleExprs ==
    Operands
    \cup {makeNewBinOp(l, r, k) : l \in Operands, r \in Operands,
                                  k \in {"Add", "Sub", "Eq", "Gt", "Neq"}}

Calls2 == {makeNewCall("minus", <<l, r>>) : l \in Operands, r \in Operands}

Exprs ==
    SimpleExprs \cup Calls2
    \cup {Minus(l, r) : l \in Calls2, r \in {Plus(X, Y), makeNewCall("minus", <<X, C(2)>>)}}
    \cup {Minus(C(0), Minus(X, Plus(Y, C(2)))),
          makeNewMemRead(makeNewAddr(Y)),
          makeNewCall("minus", <<Plus(X, C(1)), makeNewCall("minus", <<Y, X>>)>>),
          makeNewCall("eight", <<C(1), X, Y, C(4), C(5), Plus(X, Y), Y, C(7)>>)}

Assignments(exprs) == {Set1(v, e) : v \in {X, Y}, e \in exprs}

(* p points to x or y, q to p.                                             *)
PointTo(v) == << Set1(P, makeNewAddr(v)), Set1(PP, makeNewAddr(P)) >>
WriteTwice == Set1(makeNewMemWrite(makeNewMemWrite(PP)), C(2))

(* A read in a condition behind a declaration, as translate makes it: the    *)
(* node of a write.                                                        *)
ReadsTaken ==
    {<< Set1(P, makeNewAddr(v)),
        makeNewIfStmt(makeNewBinOp(makeNewMemWrite(P), C(2), k),
                      << makeNewReturn(Plus(X, Y)) >>, << Set1(Y, C(5)) >>) >> :
        v \in {X, Y}, k \in {"Eq", "Gt"}}

PointerStmts ==
    ReadsTaken
    \cup {<< Set1(P, makeNewAddr(v)), Set1(makeNewMemWrite(P), e),
        Set1(Y, makeNewMemRead(P)) >> : v \in {X, Y}, e \in {C(2), Y, Plus(X, C(1))}}
    \cup {PointTo(v) \o << WriteTwice, Set1(Y, makeNewMemRead(P)) >> : v \in {X, Y}}
    \cup {<< makeNewCall("swap", <<makeNewAddr(v), makeNewAddr(w)>>) >> :
             v \in {X, Y}, w \in {X, Y}}

NestedReads ==
    {PointTo(v) \o << Set1(Y, makeNewMemRead(makeNewMemRead(PP))) >> : v \in {X, Y}}

Conditions == {makeNewBinOp(l, r, k) : l \in {X, C(1)}, r \in {Y, C(2)}, k \in {"Eq", "Gt"}}

(* As translate makes them: a condition that is a comparison stays, any     *)
(* other is compared with 0 and the branches change places.                *)
ReturnStmt == makeNewReturn(Plus(X, C(4)))

Ifs ==
    {makeNewIfStmt(c, then, else) : c \in Conditions,
        then \in {<< ReturnStmt >>, << Set1(X, C(2)), ReturnStmt >>},
        else \in {<< >>, << Set1(Y, C(5)) >>, << makeNewReturn(Y) >>}}
    \cup {makeNewIfStmt(c, << Set1(X, Plus(X, Y)) >>, << >>) : c \in Conditions}

FlippedIfs ==
    {makeNewIfStmt(makeNewBinOp(v, C(0), "Eq"), else, then) :
        v \in {X, Minus(Y, C(1))},
        then \in {<< ReturnStmt >>, << Set1(X, C(2)) >>},
        else \in {<< >>, << Set1(Y, C(5)) >>}}

(* Up: for (i = 0; i < y; i = i + 1); down: for (i = x; i > 1; i = i - 1).   *)
Loops(bodies) ==
    {makeNewForLoop(Set1(I, C(0)), << makeNewBinOp(I, e, "Lt") >>,
                    << Set1(I, Plus(I, C(1))) >>, body) :
        e \in {Y, C(0), Plus(C(1), C(1))}, body \in bodies}
    \cup {makeNewForLoop(Set1(I, X), << makeNewBinOp(I, C(1), "Gt") >>,
                         << Set1(I, Minus(I, C(1))) >>, body) : body \in bodies}
    \cup {makeNewForLoop(Set1(I, C(0)), << >>, << Set1(I, Plus(I, C(1))) >>,
              << makeNewIfStmt(makeNewBinOp(I, C(1), "Gt"),
                               << makeNewReturn(Plus(I, X)) >>, << >>) >> \o body) :
             body \in bodies}

SmallBodies ==
    {<< >>, << Set1(X, Plus(X, I)) >>, << Set1(Y, Minus(Y, X)) >>}
            \cup {<<makeNewIfStmt(c, << Set1(X, Plus(X, Y)) >>, << >>)>> : c \in Conditions}

OneStatement ==
    {<<s>> : s \in Assignments(Exprs) \cup Ifs \cup Loops(SmallBodies)
                     \cup Loops({<<l>> : l \in Ifs})}

TwoStatements ==
    {<<Set1(X, e), t>> : e \in SimpleExprs, t \in Ifs \cup Assignments(Calls2)}

Returning(lists) == {Main(l, v) : l \in lists, v \in {X, Y}}

(* Every program of WellBehavedPrograms returns.                           *)
SmallCPrograms      == Returning(OneStatement \cup PointerStmts)
NestedReadPrograms  == Returning(NestedReads)
WellBehavedPrograms == SmallCPrograms \cup NestedReadPrograms 
                           \cup {Main(l, Y) : l \in TwoStatements}
IfPrograms          == Returning({<<s>> : s \in FlippedIfs})
=============================================================================
