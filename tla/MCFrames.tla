----------------------------- MODULE MCFrames ------------------------------
(***************************************************************************)
(* Small inputs of the allocator: frames over a few opcodes, one for each   *)
(* way of naming registers (none; a destination that is set, or set and     *)
(* read; a source; both) and those with side effects.  Virtual registers    *)
(* are numbered in the order they appear, as NewRegister numbers them, and  *)
(* are a destination before they are a source.                              *)
(***************************************************************************)
EXTENDS QaX86, FiniteSets

V(id) == VirtualRegister(id, 4)
AX    == HardcodedRegister("AX", 4)
DI    == HardcodedRegister("DI", 4)

Alphabet(ids) ==
    {Ins("LoadI", V(v), Immediate(1)) : v \in ids}
    \cup {Ins("AddI", V(v), Immediate(1)) : v \in ids}
    \cup {Ins("SetEAl", V(v), NoOperand) : v \in ids}
    \cup {Ins("Mov", V(v), AX) : v \in ids}
    \cup {Ins("Mov", reg, V(v)) : reg \in {AX, DI}, v \in ids}
    \cup {Ins(op, V(v), V(w)) : op \in {"Mov", "Add"}, v \in ids, w \in ids}
    \cup {Ins("Call", AX, LabelName("f"))}

(* The registers a frame sets; in these frames, all it names.              *)
SetBy(f, ids) == {v \in ids : \E i \in DOMAIN f : IsVirtual(f[i].dst) /\ f[i].dst.id = v}

MayFollow(i, known, ids) ==
    /\ IsVirtual(i.src) => i.src.id \in known
    /\ IsVirtual(i.dst) => \A w \in ids : w < i.dst.id => w \in known

FramesOver(alphabet, n, ids) ==
    {f \in [1..n -> alphabet] :
        \A i \in 1..n : MayFollow(f[i], SetBy(SubSeq(f, 1, i - 1), ids), ids)}

OneFrame(fs)  == {<<f>> : f \in fs}
TwoFrames(fs) == {<<f, g>> : f \in fs, g \in fs}
=============================================================================
