--------------------------- MODULE MCProducedCode ---------------------------
(***************************************************************************)
(* Lowering what Produce_IR makes of the small programs: each main alone,    *)
(* and the functions it may call as a program of three frames.              *)
(***************************************************************************)
EXTENDS LowerIRValues, ProduceIR, MCPrograms

IRMains(programs) ==
    {<<Produce_Frame(program[4], "own").ins>> : program \in programs}

IRLibraries ==
    {[n \in 1..3 |-> Produce_Frame(f[n], reads).ins] :
        f \in {<<minus, swap, eight>>, <<eight, minus, swap>>}, reads \in {"own", "last"}}

ProducedPrograms == IRMains(SmallCPrograms) \cup IRLibraries
NestedPrograms   == IRMains(NestedReadPrograms)

ProducedNames == {"x", "y", "i", "p", "q", "t", "a", "b", "c", "d", "e", "f", "g", "h"}
=============================================================================
