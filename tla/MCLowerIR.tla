----------------------------- MODULE MCLowerIR -----------------------------
(***************************************************************************)
(* Small inputs of the lowering pass, of the shapes Produce_IR generates:   *)
(* the parameters are moved to variables first; a temporary is numbered in   *)
(* the order it is set, set once and read at most once after that; every     *)
(* variable has one size; and a pointer to a variable has its type.         *)
(***************************************************************************)
EXTENDS LowerIRValues

x == Variable("x", 4)
y == Variable("y", 4)
z == Variable("z", 4)
p == Variable("p", 8)
q == Variable("q", 8)

T(id)   == Temp(id, 4)
Ptr(id) == Temp(id, 8)
One == Immediate(1)
Two == Immediate(2)

Names == {"x", "y", "z", "p", "q", "a", "b", "c"}

Parameter(v, n) == Move("MovR", v, HardcodedRegister(param_regs[n], v.size))

FewParameters  == << Parameter(x, 1), Parameter(p, 2), Parameter(q, 3) >>
ManyParameters == FewParameters
    \o << Parameter(Variable("a", 4), 4), Parameter(Variable("b", 8), 5),
          Parameter(Variable("c", 4), 6), DefineStackPushed("y"),
          DefineStackPushed("z") >>

(* The operations over the temporaries with ids from ids.                   *)
Arithmetic2(ids) ==
    {Binary(o, T(t), lr[1], lr[2]) :
        o \in {"Add", "Equal"}, t \in ids,
        lr \in {<<x, x>>, <<x, One>>, <<One, x>>, <<One, Two>>}
               \cup ({x, One} \X {T(u) : u \in ids})
               \cup ({T(u) : u \in ids} \X {x, One})
               \cup ({T(u) : u \in ids} \X {T(u) : u \in ids})}
    \cup {Binary(o, T(t), x, r) : o \in {"Sub", "GreaterThan", "NotEqual"},
                                  t \in ids, r \in {y, One}}

Pointers(ids) ==
    {Move("Addr", Ptr(t), v) : t \in ids, v \in {x, p}}
    \cup {Move("Mov", v, Ptr(t)) : v \in {p, q}, t \in ids}
    \cup {Deref(T(t), p, 1) : t \in ids}
    \cup {Deref(Ptr(t), q, depth) : t \in ids, depth \in {0, 2}}
    \cup {Move("DerefStore", p, v) : v \in {One, x} \cup {T(t) : t \in ids}}
    \cup {Move("DerefStore", Ptr(t), One) : t \in ids}

Calls(ids) ==
    {Call("f", args, T(t)) : t \in ids,
        args \in {<< >>, <<x, One>>, <<One, x, Two>>, <<x, x>>,
                  <<x, One, y, Two, x, p, Two, Immediate(3)>>}
                 \cup {<<T(u), x>> : u \in ids}
                 \cup {<<p, Ptr(u)>> : u \in ids}
                 \cup {<<T(u), x, x, x, x, x, x>> : u \in ids}}

Control(ids) ==
    {Compare(x, One), Compare(One, x), ConditionalJump("ConditionalJumpGreater", "L0", "L1"),
     ConditionalJump("ConditionalJumpEqual", "L0", "L1"), LabelDef("L0"), Jump("L1")}
    \cup {Compare(T(t), x) : t \in ids}
    \cup {Move("Mov", v, One) : v \in {x, y}}
    \cup {Move("Mov", v, T(t)) : v \in {x, y}, t \in ids}
    \cup {Move("Mov", y, x), Ret(One)}
    \cup {Ret(T(t)) : t \in ids}

Body(ids) == Arithmetic2(ids) \cup Pointers(ids) \cup Calls(ids) \cup Control(ids)

TempsIn(values) == {v \in values : v.kind = "temp"}

SetTemps(f) == {t \in {Target(f[n]) : n \in DOMAIN f} : t.kind = "temp"}

ReadTemps(f) == {t \in {T(id) : id \in TempId} \cup {Ptr(id) : id \in TempId} :
                    \E n \in DOMAIN f : t \in Sources(f[n])}

(* o may follow f: it sets the next temporary if any, reads temporaries     *)
(* that wait to be read, jumps on a condition right after a comparison,     *)
(* gives p a pointer to x and q a pointer to p, stores an int through a      *)
(* pointer to an int, and reads through two pointers only what the caller   *)
(* has passed.                                                             *)
MayFollow(f, o) ==
    /\ Target(o).kind = "temp" => Target(o).id = Cardinality(SetTemps(f))
    /\ TempsIn(Sources(o)) \subseteq SetTemps(f) \ ReadTemps(f)
    /\ o.op \in BinaryOps /\ o.left.kind = "temp" => o.left # o.right
    /\ o.op \in CondJumps => f # << >> /\ f[Len(f)].op = "Compare"
    /\ o.op = "DerefStore" /\ o.dst.kind = "temp" =>
           \A n \in DOMAIN f : Target(f[n]) = o.dst => f[n].src # p
    /\ o.op = "Deref" /\ o.depth = 2 => \A n \in DOMAIN f : Target(f[n]) # q
    /\ o.op = "Mov" /\ o.src.kind = "temp" /\ o.src.size = 8 =>
           \E n \in DOMAIN f :
               f[n].op = "Addr" /\ f[n].dst = o.src
                   /\ f[n].src = (IF o.dst = p THEN x ELSE p)

Longer(fs, ids) ==
    {Append(fo[1], fo[2]) : fo \in {w \in fs \X Body(ids) : MayFollow(w[1], w[2])}}

OneLonger(ids)   == Longer({<< >>}, ids)
TwoLonger(ids)   == Longer(OneLonger(ids), ids)
ThreeLonger(ids) == Longer(TwoLonger(ids), ids)

FewParameterFrames(bodies) == {FewParameters \o f \o <<Ret(x)>> : f \in bodies}
ManyParameterFrames ==
    {ManyParameters \o f \o <<Ret(z)>> : f \in OneLonger({0})}

ProgramsOver(bodies) ==
    {<< >>} \cup {<<f>> : f \in FewParameterFrames(bodies) \cup ManyParameterFrames}
            \cup {<<f, f>> : f \in ManyParameterFrames}

SmallPrograms == ProgramsOver(ThreeLonger(TempId))
ShortPrograms == ProgramsOver(TwoLonger(TempId))
=============================================================================
