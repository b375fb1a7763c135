------------------------------ MODULE FrontEnd ------------------------------
(***************************************************************************)
(* runfile (src/driver.cpp) up to the syntax tree: the lexer, then the       *)
(* parser on its tokens, then the translation of its tree.  Beside a text    *)
(* stands the program it was written from, if it was written from one: a     *)
(* sequence of functions as a reader of C understands them.                *)
(***************************************************************************)
EXTENDS Lexer, ProduceIR, CSemantics

LOCAL INSTANCE SequencesExt

CONSTANTS
    MaxInt,
    Inputs  \* [text, program]; program is empty for a text that is just a text

VARIABLES program, cursor, nodes, parsing, ast, ctx, translating

Parse      == INSTANCE Parser
Translator == INSTANCE Translate

parsed     == <<cursor, nodes, parsing>>
translated == <<ast, ctx, translating>>
frontVars  == <<program, lexVars, parsed, translated>>

FrontInit ==
    /\ \E input \in Inputs : source = input.text /\ program = input.program
    /\ LexStart
    /\ Parse!ParseStart
    /\ Translator!TranslateStart

Lex ==
    LexNext /\ UNCHANGED <<program, parsed, translated>>

ParseTokens ==
    /\ scanning = "done"
    /\ Parse!ParseNext
    /\ UNCHANGED <<program, source, start, current, scanning, translated>>

TranslateTree ==
    /\ parsing = "done"
    /\ Translator!TranslateNext
    /\ UNCHANGED <<program, lexVars, cursor, parsing>>

FrontNext == Lex \/ ParseTokens \/ TranslateTree

FrontSpec == FrontInit /\ [][FrontNext]_frontVars /\ WF_frontVars(Lex) /\ WF_frontVars(ParseTokens)

Done   == translating = "done"
Failed == scanning = "rejected" \/ parsing = "threw" \/ translating = "threw"

-----------------------------------------------------------------------------
(* What a tree says from left to right: names and numbers.                 *)
RECURSIVE Words(_)

WordsOf(trees) == FlattenSeq([n \in DOMAIN trees |-> Words(trees[n])])

Words(t) ==
    CASE t.kind = "Primary" ->
           << IF t.type = "INT" THEN ToString(t.value) ELSE t.idenValue >>
      [] t.kind \in {"Assignment", "Additive"} -> WordsOf(<< t.lhs, t.rhs >>)
      [] t.kind \in {"Unary", "Return", "Expression"} -> Words(t.expr)
      [] t.kind = "FunctionCall" -> << t.name >> \o WordsOf(t.args)
      [] t.kind = "VARIABLE"     -> << t.name >>
      [] t.kind = "FUNCTION"     -> << t.name >> \o WordsOf(t.params)
      [] t.kind = "Declaration"  -> Words(t.declarator) \o WordsOf(t.initializer)
      [] t.kind = "Selection"    -> Words(t.cond) \o WordsOf(t.then \o t.else_)
      [] t.kind = "For"          -> Words(t.init) \o WordsOf(t.cond \o t.inc \o t.body)
      [] t.kind = "FuncDef"      -> Words(t.declarator) \o WordsOf(t.body)

(* What the parser has read of the text is in its tree, once and in its      *)
(* order, also when it is no C and is accepted all the same: the lookahead   *)
(* and the brackets that may be missing never lose or repeat an operand.    *)
(* Not so of two kinds of text that are no C, which the inputs leave out: a  *)
(* number or a bracket directly before an opening bracket is taken for a     *)
(* call, whose name it is not (src/parser.cpp:168), and a number with a dot  *)
(* is read up to the dot (src/parser.cpp:143).                              *)
TokensKept ==
    parsing # "threw" =>
        LET words == SelectSeq(SubSeq(tokens, 1, cursor - 1),
                               LAMBDA t : t.type \in {"identifier", "number"})
        IN  WordsOf(nodes) = [n \in DOMAIN words |-> words[n].lexeme]

(* A program that was written down, in whatever brackets and blanks C asks  *)
(* for, is accepted.                                                       *)
AcceptsWritten == program # << >> => ~Failed

(* The syntax tree means what the program means: operators bind as in C, a  *)
(* condition that was turned round has its branches turned round, what is    *)
(* written through pointers is written where C writes it, and no function    *)
(* is lost.  A node made for a write means a read where a value is asked     *)
(* for; whether Produce_IR can take it there is ProgramsCompile's.          *)
MeaningKept == program # << >> /\ Done => Meaning(ast) = Meaning(program)

(* Produce_IR has a case for each comparison of a program: < is only the     *)
(* condition of a loop, and that is < or >.                                 *)
RECURSIVE HasCases(_)

AllHaveCases(trees) == \A t \in ToSet(trees) : HasCases(t)

HasCases(t) ==
    CASE t.type \in {"Return", "Addr", "Deref"} -> HasCases(t.expr)
      [] t.type = "Move"  -> HasCases(t.rhs)
      [] t.type = "Call"  -> AllHaveCases(t.callArgs)
      [] t.type = "Frame" -> AllHaveCases(t.body)
      [] t.type = "BinOp" -> t.binOpKind # "Lt" /\ AllHaveCases(<< t.lhs, t.rhs >>)
      [] t.type = "If"    -> AllHaveCases(<< t.condition >> \o t.then \o t.else_)
      [] t.type = "ForLoop" ->
           /\ AllHaveCases(<< t.forInit >> \o t.forUpdate \o t.forBody)
           /\ \A c \in ToSet(t.forCondition) :
                  c.binOpKind \in {"Lt", "Gt"} /\ AllHaveCases(<< c.lhs, c.rhs >>)
      [] OTHER -> TRUE

Compiles ==
    \A reads \in {"own", "last"} : \A f \in ToSet(Produce_IR(ast, reads)) : ~f.thrown

(* The tree of a program is one Produce_IR has a case for, node by node:     *)
(* the flag the statement before has left in the context does not turn a     *)
(* nested read into a write, and of the conditions all that are neither ==   *)
(* nor > were turned round.                                                *)
ProgramsCompile == program # << >> /\ Done /\ AllHaveCases(program) => Compiles

(* The name and type of everything a function declares, blocks included.   *)
RECURSIVE Declared(_)

Declared(items) ==
    UNION {CASE item.kind = "Declaration" -> {item.declarator}
             [] item.kind = "Selection"   -> Declared(item.then \o item.else_)
             [] item.kind = "For"         -> Declared(<< item.init >> \o item.body)
             [] OTHER                     -> {} : item \in ToSet(items)}

(* The variables statements assign to.                                     *)
RECURSIVE AssignedIn(_)

AssignedIn(stmts) ==
    UNION {CASE s.type = "Move" /\ s.lhs.type = "Var" -> {s.lhs}
             [] s.type = "If"      -> AssignedIn(s.then \o s.else_)
             [] s.type = "ForLoop" ->
                  AssignedIn(<< s.forInit >> \o s.forUpdate \o s.forBody)
             [] OTHER              -> {} : s \in ToSet(stmts)}

(* A variable is assigned with the type its own function declares, although *)
(* the functions before it have left their variables in the context.        *)
VariablesTyped ==
    \A n \in {m \in DOMAIN ast : nodes[m].kind = "FuncDef"} :
        \A v \in AssignedIn(ast[n].body), d \in Declared(nodes[n].body) :
            v.name = d.name => v.variableType = IntType + d.level

(* Every text is lexed and parsed, or refused.                             *)
FrontEndEnds == <>(parsing = "done" \/ Failed)

(* "Works now for nested stuff" (src/ast.cpp:96): a read through pointers   *)
(* and addresses, one inside the other, is one that Produce_IR compiles,    *)
(* whatever is read and whatever statement stands before.                   *)
NestedReadsCompile == Done => Compiles
=============================================================================
