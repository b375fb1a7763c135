------------------------------- MODULE Parser -------------------------------
(***************************************************************************)
(* The parser (src/parser.cpp, src/syntax_utils.cpp), an iteration of the    *)
(* loop of parse a step.  The functions below it take the place of the next *)
(* token and give the tree they have made and the place after it, or Thrown.*)
(***************************************************************************)
EXTENDS Tokens, St

LOCAL INSTANCE SequencesExt

CONSTANTS MaxInt  \* the largest int

VARIABLES
    tokens,   \* g_tokens
    cursor,   \* current
    nodes,
    parsing   \* "running", "done" or "threw"

parseVars == <<tokens, cursor, nodes, parsing>>

ParseStart ==
    /\ cursor = 1
    /\ nodes = << >>
    /\ parsing = "running"

peek(at) == IF at <= Len(tokens) THEN tokens[at] ELSE FEOF
Type(at) == peek(at).type

Thrown           == [tree |-> << >>, at |-> 0]
Parsed(tree, at) == [tree |-> tree, at |-> at]

(* What comes after r, unless r has thrown; r is parsed once.              *)
Then(r, next(_)) ==
    CHOOSE result \in {IF x.at = 0 THEN Thrown ELSE next(x) : x \in {r}} : TRUE

Made(r, make(_)) == Then(r, LAMBDA x : Parsed(make(x.tree), x.at))

Pass(x) == [x EXCEPT !.at = @ + 1]

(* The token must follow what has been parsed; it is passed when it is there. *)
Consume(type, r) == Then(r, LAMBDA x : IF Type(x.at) = type THEN Pass(x) ELSE Thrown)
Match(type, r)   == Then(r, LAMBDA x : IF Type(x.at) = type THEN Pass(x) ELSE x)

(* The place after all tokens of the type.                                 *)
AfterRun(type, at) ==
    CHOOSE end \in at..(Len(tokens) + 1) :
        /\ Type(end) # type
        /\ \A n \in at..(end - 1) : Type(n) = type

(* Mutant: the search goes on behind a bracket. *)
EqualsSignLookahead_Far(at) ==
    \E n \in at..Len(tokens) :
        Type(n) = "=" /\ \A m \in at..n : Type(m) # ";"

EqualsSignLookahead(at) ==
    \E n \in at..Len(tokens) :
        /\ Type(n) = "="
        /\ \A m \in at..n : Type(m) \notin {";", "{", "}", "(", ")"}

(* stoi reads the digits at the front.                                     *)
DigitValue(c) == CHOOSE d \in 0..9 : ToString(d) = c

stoi(lexeme) ==
    LET digits == SelectSeq([n \in 1..Len(lexeme) |-> n],
                      LAMBDA n : \A m \in 1..n : At(lexeme, m) # ".")
    IN  FoldLeft(LAMBDA v, n : IF v > MaxInt THEN v ELSE 10 * v + DigitValue(At(lexeme, n)),
                 0, digits)

-----------------------------------------------------------------------------
RECURSIVE Expression(_), Unary(_), AdditiveTail(_), Arguments(_, _),
          Parameters(_, _), BlockItems(_, _)

Primary(at) ==
    CASE Type(at) = "identifier" -> Parsed(PrimaryIden(peek(at).lexeme), at + 1)
      [] Type(at) = "number" ->
           LET value == stoi(peek(at).lexeme) IN
           IF value > MaxInt THEN Thrown ELSE Parsed(PrimaryInt(value), at + 1)
      [] Type(at) = "(" -> Consume(")", Expression(at + 1))
      [] OTHER -> Thrown

(* Mutant: the arguments are stored in reverse. *)
Arguments_Reversed(at, args) ==
    IF Type(at) = ")" THEN Parsed(args, at + 1)
    ELSE Then(Expression(at), LAMBDA e :
             IF Type(e.at) = "," THEN Arguments(e.at + 1, << e.tree >> \o args)
             ELSE Parsed(<< e.tree >> \o args, e.at))

Arguments(at, args) ==
    IF Type(at) = ")" THEN Parsed(args, at + 1)
    ELSE Then(Expression(at), LAMBDA e :
             IF Type(e.at) = "," THEN Arguments(e.at + 1, Append(args, e.tree))
             ELSE Parsed(Append(args, e.tree), e.at))

(* The bracket may be missing, and after no argument one more is taken.    *)
Postfix(at) ==
    Then(Primary(at), LAMBDA p :
        IF Type(p.at) # "(" THEN p
        ELSE LET args == Match(")", Arguments(p.at + 1, << >>)) IN
             IF p.tree.kind # "Primary" THEN Thrown
             ELSE Made(args, LAMBDA a : FunctionCallExpression(p.tree.idenValue, a)))

Unary(at) ==
    LET operand(type) == Made(Unary(at + 1), LAMBDA e : UnaryExpression(type, e)) IN
    CASE Type(at) = "*" -> operand("DEREF")
      [] Type(at) = "&" -> operand("ADDR")
      [] Type(at) = "-" -> operand("NEG")
      [] OTHER          -> Postfix(at)

OperatorKind ==
    [op \in {"+", "-", ">", "<", "==", "!="} |->
        CASE op = "+" -> "ADD" [] op = "-"  -> "SUB"
          [] op = ">" -> "GT"  [] op = "<"  -> "LT"
          [] op = "==" -> "EQ" [] op = "!=" -> "NEQ"]

(* One operator of these after l, and what stands on its other side.       *)
WithOperator(l, operators, side(_)) ==
    Then(l, LAMBDA x :
        IF Type(x.at) \notin operators THEN x
        ELSE Made(side(x.at + 1), LAMBDA r :
                 AdditiveExpression(x.tree, r, OperatorKind[Type(x.at)])))

(* Mutant: a chain of them associates to the right. *)
AdditiveTail_Right(l) ==
    WithOperator(l, {"+", "-"}, LAMBDA at : AdditiveTail(Unary(at)))

AdditiveTail(l) ==
    Then(l, LAMBDA x :
        IF Type(x.at) \notin {"+", "-"} THEN x
        ELSE AdditiveTail(WithOperator(x, {"+", "-"}, Unary)))

Additive(at)   == AdditiveTail(Unary(at))
Relational(at) == WithOperator(Additive(at), {">", "<"}, Additive)
Equality(at)   == WithOperator(Relational(at), {"==", "!="}, Relational)

Expression(at) ==
    IF ~EqualsSignLookahead(at) THEN Equality(at)
    ELSE Then(Consume("=", Equality(at)), LAMBDA l :
             Made(Equality(l.at), LAMBDA r : AssignmentExpression(l.tree, r)))

-----------------------------------------------------------------------------
Declarator(at) ==
    LET iden   == AfterRun("*", at)
        level  == iden - at
        name   == peek(iden).lexeme
        params == Match(")", Parameters(iden + 2, << >>))
    IN  CASE Type(iden) # "identifier" -> Thrown
          [] Type(iden + 1) # "(" -> Parsed(VariableDeclarator(level, name), iden + 1)
          [] OTHER -> Made(params, LAMBDA p : FunctionDeclarator(level, name, p))

Parameters(at, params) ==
    IF Type(at) = ")" THEN Parsed(params, at + 1)
    ELSE Then(Declarator(AfterRun("int", at)), LAMBDA d :
             IF Type(d.at) = "," THEN Parameters(d.at + 1, Append(params, d.tree))
             ELSE Parsed(Append(params, d.tree), d.at))

(* With the specifiers before it and the semicolon after it.               *)
InitDeclarator(at) ==
    Then(Declarator(AfterRun("int", at)), LAMBDA d :
        IF Type(d.at) # "=" THEN Made(Consume(";", d), LAMBDA t : Declaration(t, << >>))
        ELSE Made(Consume(";", Expression(d.at + 1)), LAMBDA e :
                 Declaration(d.tree, << e >>)))

Optional(end, at) ==
    Consume(end, IF Type(at) = end THEN Parsed(<< >>, at)
                 ELSE Made(Expression(at), LAMBDA e : << e >>))

Open(bracket, at)     == Consume(bracket, Parsed(<< >>, at))
CompoundStatement(at) == Then(Open("{", at), LAMBDA open : BlockItems(open.at, << >>))

IfStatement(at) ==
    Then(Open("(", at), LAMBDA open :
    Then(Consume(")", Expression(open.at)), LAMBDA cond :
    Then(CompoundStatement(cond.at), LAMBDA then :
        IF Type(then.at) # "else"
          THEN Parsed(SelectionStatement(cond.tree, then.tree, << >>), then.at)
        ELSE Made(CompoundStatement(then.at + 1), LAMBDA else :
                 SelectionStatement(cond.tree, then.tree, else)))))

ForStatementAt(at) ==
    Then(Open("(", at), LAMBDA open :
    IF Type(open.at) # "int" THEN Thrown
    ELSE Then(InitDeclarator(open.at), LAMBDA init :
         Then(Optional(";", init.at), LAMBDA cond :
         Then(Optional(")", cond.at), LAMBDA inc :
         Made(CompoundStatement(inc.at), LAMBDA body :
             ForStatement(init.tree, cond.tree, inc.tree, body))))))

Statement(at) ==
    CASE Type(at) = "return" -> Made(Consume(";", Expression(at + 1)), ReturnStatement)
      [] Type(at) = "if"     -> IfStatement(at + 1)
      [] Type(at) = "for"    -> ForStatementAt(at + 1)
      [] OTHER               -> Made(Consume(";", Expression(at)), ExpressionStatement)

StmtBegin == {"return", "identifier", "*", "if", "for"}

BlockItems(at, items) ==
    IF Type(at) = "}" THEN Parsed(items, at + 1)
    ELSE Then(IF Type(at) \in StmtBegin THEN Statement(at) ELSE InitDeclarator(at),
              LAMBDA item : BlockItems(item.at, Append(items, item.tree)))

FunctionDefinition(at) ==
    Then(Declarator(AfterRun("int", at)), LAMBDA d :
        Made(CompoundStatement(d.at), LAMBDA body : FuncDef(d.tree, body)))

IsFuncBegin(at) ==
    Type(at) = "int" /\ Type(at + 1) = "identifier" /\ Type(at + 2) = "("

-----------------------------------------------------------------------------
Running == parsing = "running" /\ Type(cursor) # "FEOF"

(* parse takes over what parseExternalDeclaration gives, or ends with it.  *)
Take(parsed) ==
    \E r \in {parsed} :
        IF r.at = 0
          THEN parsing' = "threw" /\ UNCHANGED <<tokens, cursor, nodes>>
        ELSE /\ cursor' = r.at
             /\ nodes' = Append(nodes, r.tree)
             /\ UNCHANGED <<tokens, parsing>>

(* Mutant: the semicolon is looked at and not taken. *)
SkipSemicolon_Stays ==
    /\ Running
    /\ Type(cursor) = ";"
    /\ UNCHANGED parseVars

SkipSemicolon ==
    /\ Running
    /\ Type(cursor) = ";"
    /\ cursor' = cursor + 1
    /\ UNCHANGED <<tokens, nodes, parsing>>

ParseFunction ==
    /\ Running
    /\ IsFuncBegin(cursor)
    /\ Take(FunctionDefinition(cursor))

ParseDeclaration ==
    /\ Running
    /\ Type(cursor) # ";"
    /\ ~IsFuncBegin(cursor)
    /\ Take(InitDeclarator(cursor))

EndOfTokens ==
    /\ parsing = "running"
    /\ Type(cursor) = "FEOF"
    /\ parsing' = "done"
    /\ UNCHANGED <<tokens, cursor, nodes>>

ParseNext == SkipSemicolon \/ ParseFunction \/ ParseDeclaration \/ EndOfTokens
=============================================================================
