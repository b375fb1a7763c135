----------------------------- MODULE MCFrontEnd -----------------------------
(***************************************************************************)
(* Texts for the front end: programs written down from their trees, with     *)
(* the brackets C asks for and no others, and texts of a few pieces or a few *)
(* characters that need not be C.                                          *)
(***************************************************************************)
EXTENDS FrontEnd, MCPrograms

LOCAL INSTANCE SequencesExt
LOCAL INSTANCE FiniteSetsExt

CONSTANTS PieceCount, CharacterCount

(* How tightly an expression binds: equality, relations, sums, the unary    *)
(* operators, operands.  What is subtracted from 0 is written as negated.   *)
Level(e) ==
    CASE e.type = "BinOp" ->
           CASE e.binOpKind = "Sub" /\ e.lhs = C(0)  -> 3
             [] e.binOpKind \in {"Eq", "Neq"}        -> 0
             [] e.binOpKind \in {"Gt", "Lt"}         -> 1
             [] OTHER                                -> 2
      [] e.type \in {"Addr", "Deref"} -> 3
      [] OTHER -> 4

Sign == [Add |-> "+", Sub |-> "-", Eq |-> "==", Neq |-> "!=", Gt |-> ">", Lt |-> "<"]

RECURSIVE Written(_, _), StmtWritten(_, _)

Separated(texts) ==
    FlattenSeq([n \in DOMAIN texts |-> IF n = 1 THEN texts[n] ELSE <<",">> \o texts[n]])

(* The lexemes of an expression that stands where this level is asked for.  *)
Written(e, level) ==
    LET operand == CASE e.type = "BinOp" /\ Level(e) = 3 -> Written(e.rhs, 3)
                     [] e.type \in {"Addr", "Deref"}     -> Written(e.expr, 3)
        lexemes ==
            CASE e.type = "ConstInt" -> << ToString(e.value) >>
              [] e.type = "Var"      -> << e.name >>
              [] e.type = "Call"     ->
                   << e.callName, "(" >>
                   \o Separated([n \in DOMAIN e.callArgs |-> Written(e.callArgs[n], 0)])
                   \o << ")" >>
              [] e.type = "Addr"  -> << "&" >> \o operand
              [] e.type = "Deref" -> << "*" >> \o operand
              [] Level(e) = 3     -> << "-" >> \o operand
              [] OTHER            ->
                   Written(e.lhs, IF Level(e) = 2 THEN 2 ELSE Level(e) + 1)
                   \o << Sign[e.binOpKind] >> \o Written(e.rhs, Level(e) + 1)
    IN  IF Level(e) < level THEN << "(" >> \o lexemes \o << ")" >> ELSE lexemes

Stars(level) == [n \in 1..level |-> "*"]

(* Statements after which these names are known: a name is declared where   *)
(* it is assigned first.                                                   *)
Listed(stmts, known) ==
    FoldLeft(LAMBDA w, s :
                 [text |-> w.text \o StmtWritten(s, w.known),
                  known |-> w.known \cup
                      (IF s.type = "Move" /\ s.lhs.type = "Var" THEN {s.lhs.name} ELSE {})],
             [text |-> << >>, known |-> known], stmts).text

Block(stmts, known) == << "{" >> \o Listed(stmts, known) \o << "}" >>

Set2(s) == Written(s.lhs, 3) \o << "=" >> \o Written(s.rhs, 0)

DeclarationOf(s) ==
    << "int" >> \o Stars(s.lhs.variableType) \o Set2(s) \o << ";" >>

StmtWritten(s, known) ==
    CASE s.type = "Return" -> << "return" >> \o Written(s.expr, 0) \o << ";" >>
      [] s.type = "Call"   -> Written(s, 0) \o << ";" >>
      [] s.type = "Move"   ->
           IF s.lhs.type = "Var" /\ s.lhs.name \notin known THEN DeclarationOf(s)
           ELSE Set2(s) \o << ";" >>
      [] s.type = "If"     ->
           << "if", "(" >> \o Written(s.condition, 0) \o << ")" >> \o Block(s.then, known)
           \o (IF s.else_ = << >> THEN << >> ELSE << "else" >> \o Block(s.else_, known))
      [] s.type = "ForLoop" ->
           LET inside == known \cup {s.forInit.lhs.name} IN
           << "for", "(" >> \o DeclarationOf(s.forInit)
           \o (IF s.forCondition = << >> THEN << >> ELSE Written(s.forCondition[1], 0))
           \o << ";" >>
           \o (IF s.forUpdate = << >> THEN << >> ELSE Set2(s.forUpdate[1]))
           \o << ")" >> \o Block(s.forBody, inside)

FunctionWritten(f) ==
    << "int", f.functionName, "(" >>
    \o Separated([n \in DOMAIN f.params |->
                     << "int" >> \o Stars(f.params[n].type) \o << f.params[n].name >>])
    \o << ")" >> \o Block(f.body, {f.params[n].name : n \in DOMAIN f.params})

(* The lexemes with a gap in between, at least where two words meet.       *)
IsWordLike(lexeme) == At(lexeme, 1) \in WordCharacter

Joined(lexemes, gap) ==
    FoldLeft(LAMBDA t, n :
                 t \o (IF n > 1 /\ gap = "" /\ IsWordLike(lexemes[n - 1])
                            /\ IsWordLike(lexemes[n]) THEN " " ELSE gap) \o lexemes[n],
             "", [n \in DOMAIN lexemes |-> n])

Input(fs, gap) ==
    [program |-> fs,
     text |-> Joined(FlattenSeq([n \in DOMAIN fs |-> FunctionWritten(fs[n])]), gap)]

-----------------------------------------------------------------------------
Kinds == DOMAIN Sign

(* Reads as C writes them, one inside the other.                           *)
Read(e) == [type |-> "Deref", expr |-> e, derefDepth |-> 1]
ReadAt(v) == Read(makeNewAddr(v))

MainOf(stmts) == makeNewFunction("main", stmts, << >>)

Atoms  == {X, C(2)}
BinOps(left, right) == {makeNewBinOp(l, r, k) : l \in left, r \in right, k \in Kinds}
Flat   == Atoms \cup BinOps(Atoms, Atoms) \cup {Minus(C(0), X), ReadAt(X)}
Nested == Flat \cup BinOps(Flat, Atoms) \cup BinOps(Atoms, Flat)
          \cup {Minus(C(0), e) : e \in Flat}

ExpressionPrograms ==
    {<< MainOf(<< Set1(X, C(3)), makeNewReturn(e) >>) >> : e \in Nested}

(* Conditions of every kind, also with reads through pointers, whose         *)
(* translation depends on the statement before: behind a declaration a read  *)
(* is taken for a write, and of what is nested there Produce_IR makes nothing *)
(* (ConditionInputs), so nested reads stand behind assignments.             *)
AnyCondition    == (Flat \ {ReadAt(X)}) \cup {Read(P), Minus(X, C(3)), Plus(Read(P), C(1))}
NestedCondition == {ReadAt(X), makeNewBinOp(Read(Read(PP)), C(3), "Eq")}

Pointing == << Set1(X, C(3)), Set1(P, makeNewAddr(X)), Set1(PP, makeNewAddr(P)) >>
PointerAssignments == {Set1(X, Read(P)), Set1(makeNewMemWrite(P), C(2))}

Branching(before, c, else) ==
    << MainOf(Pointing \o before
              \o << makeNewIfStmt(c, << makeNewReturn(C(1)) >>, else), makeNewReturn(X) >>) >>

BranchPrograms ==
    {Branching(before, c, else) :
        before \in {<< >>} \cup {<< s >> : s \in PointerAssignments},
        c \in AnyCondition, else \in {<< >>, << Set1(X, C(5)) >>}}
    \cup {Branching(<< s >>, c, << >>) : s \in PointerAssignments, c \in NestedCondition}

(* Declarations and returns read through two pointers behind a declaration. *)
ReadPrograms ==
    {<< MainOf(Pointing \o << Set1(Y, e), makeNewReturn(r) >>) >> :
        e \in {Read(P), Read(Read(PP))}, r \in {Y, Read(P), Read(Read(PP))}}

PointerPrograms ==
    {<< MainOf(Pointing \o before \o << s, makeNewReturn(e) >>) >> :
        before \in {<< >>, << Set1(X, C(4)) >>},
        s \in {Set1(target, e) : target \in {X, makeNewMemWrite(P),
                                             makeNewMemWrite(makeNewMemWrite(PP))},
                                 e \in {C(2), Plus(Read(P), C(1)), Read(Read(PP))}},
        e \in {X, Read(Read(PP)), Minus(C(0), Read(P))}}

(* The names of swap are those of main, with other types.                  *)
CallPrograms ==
    {<< swap, minus,
        MainOf(<< Set1(IntVar("a"), C(3)), Set1(IntPtr("t"), makeNewAddr(IntVar("a"))),
                  makeNewCall("swap", << IntPtr("t"), makeNewAddr(IntVar("a")) >>),
                  Set1(IntVar("a"), makeNewCall("minus", << l, r >>)),
                  makeNewReturn(IntVar("a")) >>) >> :
        l \in {C(1), IntVar("a")},
        r \in {Plus(IntVar("a"), C(1)), Minus(C(0), Read(IntPtr("t"))),
               makeNewCall("minus", << IntVar("a"), C(1) >>)}}

LoopPrograms ==
    {<< MainOf(<< Set1(X, C(3)), Set1(Y, C(1)), l, makeNewReturn(X) >>) >> :
        l \in Loops({<< >>, << Set1(X, Plus(X, I)) >>,
                     << makeNewIfStmt(X, << Set1(Y, I) >>, << Set1(X, Y) >>) >>})}

FewPrograms == CallPrograms \cup LoopPrograms

WrittenInputs ==
    {Input(p, "") : p \in ExpressionPrograms \cup BranchPrograms \cup ReadPrograms
                            \cup PointerPrograms \cup FewPrograms}
    \cup {Input(p, gap) : p \in FewPrograms, gap \in {" ", "//==\n\t"}}

-----------------------------------------------------------------------------
(* Characters as they are, so that words and numbers grow together.        *)
Strings(characters, n) ==
    {FoldLeft(LAMBDA t, ch : t \o ch, "", s) : s \in SeqOf(characters, n)}

Text(t) == [program |-> << >>, text |-> t]

ExpressionPieces == {"x", "1", "100", "-", "*", "(", ")", "==", ",", "f("}
BracketPieces    == {"x", "1", "-", "(", ")", "f("}
StatementPieces  == {"int", "x", "=", "1", ";", "{", "}", "(", ")", "if", "return", "*"}
Characters       == {"i", "f", "_", "1", ".", "=", "/", "\n", "@"}

(* A number or a closing bracket directly before an opening one is taken    *)
(* for a call, whose name it is not.                                       *)
NoCall(pieces) ==
    \A n \in 1..(Len(pieces) - 1) :
        pieces[n] \in {"1", "100", ")"} => pieces[n + 1] # "("

TextInputs ==
    {Text("int x=" \o Joined(s, "") \o ";") :
         s \in {t \in SeqOf(ExpressionPieces, PieceCount)
                      \cup SeqOf(BracketPieces, PieceCount + 1) : NoCall(t)}}
    \cup {Text("int f(){" \o Joined(s, "")) :
              s \in {t \in SeqOf(StatementPieces, PieceCount) : NoCall(t)}}
    \cup {Text(t) : t \in Strings(Characters, CharacterCount)}

AllInputs == WrittenInputs \cup TextInputs
AllTexts  == {input.text : input \in AllInputs}

(* Reads through two pointers, and through the address of what a pointer    *)
(* points to.                                                              *)
NestedReadInputs ==
    {Input(<< MainOf(Pointing \o << Set1(Y, e), makeNewReturn(Y) >>) >>, gap) :
        e \in {Read(Read(PP)), ReadAt(X), ReadAt(Read(P))}, gap \in {"", " "}}
NestedReadTexts == {input.text : input \in NestedReadInputs}

(* The conditions that BranchPrograms keep away from declarations, behind    *)
(* one and behind an assignment.                                           *)
ConditionInputs ==
    {Input(Branching(before, c, << >>), "") :
        before \in {<< >>} \cup {<< s >> : s \in PointerAssignments},
        c \in NestedCondition}
ConditionTexts == {input.text : input \in ConditionInputs}
=============================================================================
