----------------------------- MODULE CSemantics -----------------------------
(***************************************************************************)
(* What a syntax tree means: the reference the translation is checked       *)
(* against.  A call opens an activation; memory is indexed by activation and *)
(* variable, and such a pair is also what a pointer is.                     *)
(***************************************************************************)
EXTENDS Ast, TLC

LOCAL INSTANCE SequencesExt

CONSTANTS
    MaxLoops  \* iterations of a loop the reference follows

None      == <<"none">>
Number(n) == <<"number", n>>
Pointer(activation, name) == <<"pointer", activation, name>>
Place(pointer) == <<pointer[2], pointer[3]>>

Truth(b) == Number(IF b THEN 1 ELSE 0)

Apply(kind, l, r) ==
    CASE kind = "Add" -> Number(l[2] + r[2])
      [] kind = "Sub" -> Number(l[2] - r[2])
      [] kind = "Eq"  -> Truth(l[2] = r[2])
      [] kind = "Neq" -> Truth(l[2] # r[2])
      [] kind = "Gt"  -> Truth(l[2] > r[2])
      [] kind = "Lt"  -> Truth(l[2] < r[2])

Assigned(s, place, value) == [s EXCEPT !.mem = (place :> value) @@ @]

RECURSIVE Evaluated(_, _, _, _), Executed(_, _, _, _), Looped(_, _, _, _, _)

(* The value of an expression in an activation, and the state after it.    *)
Evaluated(functions, s, a, e) ==
    CASE e.type = "ConstInt" -> [value |-> Number(e.value), state |-> s]
      [] e.type = "Var" -> [value |-> s.mem[<<a, e.name>>], state |-> s]
      [] e.type = "Addr" -> [value |-> Pointer(a, e.expr.name), state |-> s]
      [] e.type = "Deref" ->
           LET p == Evaluated(functions, s, a, e.expr) IN
           [p EXCEPT !.value =
               FoldLeft(LAMBDA v, n : s.mem[Place(v)], s.mem[Place(@)],
                        [n \in 1..(e.derefDepth - 1) |-> n])]
      [] e.type = "BinOp" ->
           LET l == Evaluated(functions, s, a, e.lhs)
               r == Evaluated(functions, l.state, a, e.rhs)
           IN  [value |-> Apply(e.binOpKind, l.value, r.value), state |-> r.state]
      [] e.type = "Call" ->
           LET args == FoldLeft(LAMBDA done, arg :
                           LET r == Evaluated(functions, done.state, a, arg) IN
                           [value |-> Append(done.value, r.value), state |-> r.state],
                           [value |-> << >>, state |-> s], e.callArgs)
               f == CHOOSE g \in ToSet(functions) : g.functionName = e.callName
               b == args.state.activations + 1
               entered == FoldLeft(LAMBDA t, n :
                              Assigned(t, <<b, f.params[n].name>>, args.value[n]),
                              [args.state EXCEPT !.activations = b],
                              [n \in DOMAIN f.params |-> n])
               left == FoldLeft(LAMBDA t, stmt : Executed(functions, t, b, stmt),
                                entered, f.body)
           IN  [value |-> left.returned, state |-> [left EXCEPT !.returned = None]]

(* The state after a statement; nothing runs after a return.               *)
Executed(functions, s, a, stmt) ==
    LET all(t, stmts) == FoldLeft(LAMBDA u, x : Executed(functions, u, a, x), t, stmts)
    IN
    CASE s.returned # None -> s
      [] stmt.type = "Return" ->
           LET r == Evaluated(functions, s, a, stmt.expr) IN
           [r.state EXCEPT !.returned = r.value]
      [] stmt.type = "Move" ->
           LET r == Evaluated(functions, s, a, stmt.rhs) IN
           IF stmt.lhs.type = "Var" THEN Assigned(r.state, <<a, stmt.lhs.name>>, r.value)
           ELSE LET p == Evaluated(functions, r.state, a, stmt.lhs.expr) IN
                Assigned(p.state, Place(p.value), r.value)
      [] stmt.type = "Call" -> Evaluated(functions, s, a, stmt).state
      [] stmt.type = "If" ->
           LET c == Evaluated(functions, s, a, stmt.condition) IN
           all(c.state, IF c.value = Number(0) THEN stmt.else_ ELSE stmt.then)
      [] stmt.type = "ForLoop" ->
           Looped(functions, Executed(functions, s, a, stmt.forInit), a, stmt, MaxLoops)

Looped(functions, s, a, stmt, left) ==
    LET c == IF stmt.forCondition = << >> THEN [value |-> Number(1), state |-> s]
             ELSE Evaluated(functions, s, a, stmt.forCondition[1])
        next == FoldLeft(LAMBDA u, x : Executed(functions, u, a, x),
                         c.state, stmt.forBody \o stmt.forUpdate)
    IN  CASE s.returned # None \/ left = 0 -> s
          [] c.value = Number(0) -> c.state
          [] OTHER -> Looped(functions, next, a, stmt, left - 1)

(* What the program returns: the value of a call of main.                  *)
Meaning(functions) ==
    Evaluated(functions, [mem |-> << >>, activations |-> 0, returned |-> None],
              0, makeNewCall("main", << >>)).value
=============================================================================
