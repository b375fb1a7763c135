----------------------------- MODULE Allocator -----------------------------
(***************************************************************************)
(* Register allocation (src/allocator.cpp).  target::rewrite takes the      *)
(* lowered frames one by one, each with a fresh AllocatorContext, and makes *)
(* four passes over a frame:                                               *)
(*                                                                         *)
(*   getFirstUse  first and last instruction that names each virtual       *)
(*                register, by position in the frame;                      *)
(*   remap        coalesces the destination of a register to register Mov  *)
(*                with its source when the destination was no source yet;  *)
(*   merge        widens the interval of a representative to that of every *)
(*                register coalesced with it;                              *)
(*   rewrite      replaces virtual registers by general registers, taking  *)
(*                the lowest free one at the first use and giving it back   *)
(*                at the last.                                             *)
(*                                                                         *)
(* A step is one iteration of the loop of a pass; the rewriting of an      *)
(* instruction is two steps, its source and then its destination, because  *)
(* a register can change hands between them.  Positions count from 1, and  *)
(* NotFound is "not in the map".                                           *)
(***************************************************************************)
EXTENDS QaX86, FiniteSets

CONSTANTS
    VirtId,       \* the ids virtual registers may have
    GeneralRegs,  \* the registers the allocator hands out, in order
    Programs      \* the programs to allocate: sequences of frames

NotFound == 0
NoReg    == "no register"
VReg     == [kind : {"virt"}, id : VirtId, size : {4, 8}]

ASSUME VirtIdAssumption == VirtId \subseteq Nat

ASSUME GeneralRegsAssumption ==
    /\ GeneralRegs \in Seq(BaseRegister)
    /\ \A i, j \in DOMAIN GeneralRegs :
           GeneralRegs[i] = GeneralRegs[j] => i = j

ASSUME ProgramsAssumption ==
    /\ Programs \subseteq Seq(Seq(Instruction(VirtId)))
    /\ \A program \in Programs :
           \A f \in DOMAIN program : WellFormed(program[f])

VARIABLES
    frames,     \* the argument of rewrite(frames)
    fi,         \* the frame being rewritten
    pass,       \* the pass over it, or "done", or "throw"
    idx,        \* the instruction the pass is at
    stage,      \* of the rewriting of an instruction: "src", then "dst"
    firstUse,
    lastUse,
    newFirstUsed,  \* registers remap has seen as a source
    remapped,      \* remappedRegisters: representative of a coalesced register
    merged,        \* entries of remapped the merge loop is done with
    usedRegs,      \* AllocatorContext: indices of the registers handed out
    mapping,       \* AllocatorContext: the register of each representative
    operation,     \* copy of the instruction being rewritten
    newInstructions,
    newFrames

analysis == <<firstUse, lastUse, newFirstUsed, remapped, merged>>
context  == <<usedRegs, mapping, operation, newInstructions>>
vars     == <<frames, fi, pass, idx, stage, analysis, context, newFrames>>

frame == frames[fi]
ins   == frame[idx]

-----------------------------------------------------------------------------
(* Registers and their representatives.                                    *)

Coalesced(v) == remapped[v] # NoOperand
Rep(v)       == IF Coalesced(v) THEN remapped[v].id ELSE v

Representative(reg) == IF Coalesced(reg.id) THEN remapped[reg.id] ELSE reg

(* Mutant: getReg ignores usedRegs. *)
FreeIndices_All == DOMAIN GeneralRegs

FreeIndices == DOMAIN GeneralRegs \ usedRegs

Index(reg) == {i \in DOMAIN GeneralRegs : GeneralRegs[i] = reg}

-----------------------------------------------------------------------------
(* The start of a program.  A frame starts from the same empty maps.        *)
EmptyUses    == [v \in VirtId |-> NotFound]
EmptyMap     == [v \in VirtId |-> NoOperand]
EmptyMapping == [v \in VirtId |-> NoReg]

FirstPass(fs) == IF fs = << >> THEN "done" ELSE "getFirstUse"

Start ==
    /\ fi = 1
    /\ pass = FirstPass(frames)
    /\ idx = 1
    /\ stage = "src"
    /\ firstUse = EmptyUses
    /\ lastUse = EmptyUses
    /\ newFirstUsed = {}
    /\ remapped = EmptyMap
    /\ merged = {}
    /\ usedRegs = {}
    /\ mapping = EmptyMapping
    /\ operation = NoOperand
    /\ newInstructions = << >>
    /\ newFrames = << >>

Init == frames \in Programs /\ Start

-----------------------------------------------------------------------------
(* A pass reaches the end of the frame and the next one starts.            *)
NextPass(from, to) ==
    /\ pass = from
    /\ idx \notin DOMAIN frame
    /\ pass' = to
    /\ idx' = 1
    /\ UNCHANGED <<frames, fi, stage, analysis, context, newFrames>>

(* getFirstUse, one instruction.  The source is looked at first, which     *)
(* makes no difference: both get the same position.                        *)
FindUses ==
    /\ pass = "getFirstUse"
    /\ idx \in DOMAIN frame
    /\ firstUse' = [v \in VirtId |->
           IF Occurs(ins, v) /\ firstUse[v] = NotFound THEN idx ELSE firstUse[v]]
    /\ lastUse' = [v \in VirtId |->
           IF Occurs(ins, v) THEN idx ELSE lastUse[v]]
    /\ idx' = idx + 1
    /\ UNCHANGED <<frames, fi, pass, stage, newFirstUsed, remapped, merged,
                   context, newFrames>>

(* remap, one instruction.                                                 *)
SourcesSeen ==
    newFirstUsed \cup {v \in VirtId : IsVirtual(ins.src) /\ ins.src.id = v}

Coalesces ==
    /\ ins.op = "Mov"
    /\ IsVirtual(ins.dst)
    /\ IsVirtual(ins.src)
    /\ ins.dst.id \notin SourcesSeen

Remap ==
    /\ pass = "remap"
    /\ idx \in DOMAIN frame
    /\ newFirstUsed' = SourcesSeen
    /\ remapped' = IF Coalesces
                     THEN [remapped EXCEPT ![ins.dst.id] = Representative(ins.src)]
                     ELSE remapped
    /\ idx' = idx + 1
    /\ UNCHANGED <<frames, fi, pass, stage, firstUse, lastUse, merged,
                   context, newFrames>>

(* The loop over remappedRegisters, in the order of the map's keys.        *)
(* Mutant: the loop does not move on. *)
Unmerged_All == {v \in VirtId : Coalesced(v)}

Unmerged == {v \in VirtId : Coalesced(v)} \ merged

Merge ==
    /\ pass = "merge"
    /\ \E prev \in Unmerged :
         /\ \A v \in Unmerged : prev <= v
         /\ LET newReg == Rep(prev) IN
            /\ firstUse' = [firstUse EXCEPT ![newReg] =
                   IF firstUse[prev] < @ THEN firstUse[prev] ELSE @]
            /\ lastUse' = [lastUse EXCEPT ![newReg] =
                   IF lastUse[prev] > @ THEN lastUse[prev] ELSE @]
         /\ merged' = merged \cup {prev}
    /\ UNCHANGED <<frames, fi, pass, idx, stage, newFirstUsed, remapped,
                   context, newFrames>>

MergeDone ==
    /\ pass = "merge"
    /\ Unmerged = {}
    /\ pass' = "rewrite"
    /\ UNCHANGED <<frames, fi, idx, stage, analysis, context, newFrames>>

-----------------------------------------------------------------------------
(* process_register: a representative without a register, or at its first  *)
(* use, gets one; at its last use the register is free again, and keeps    *)
(* its name in this instruction.  Index(reg) is never empty: mapping holds *)
(* general registers only, so freeReg never throws.                        *)
(* Mutant: a value is given a register at each of its uses. *)
NeedsRegister_Again(v) == mapping[v] = NoReg \/ firstUse[v] <= idx

NeedsRegister(v) == mapping[v] = NoReg \/ firstUse[v] = idx

(* Mutant: a register is given back one instruction late. *)
Freed_Late(v, reg) == IF lastUse[v] < idx THEN Index(reg) ELSE {}

(* Mutant: a register is given back one instruction early. *)
Freed_Early(v, reg) == IF lastUse[v] <= idx + 1 THEN Index(reg) ELSE {}

Freed(v, reg) == IF lastUse[v] <= idx THEN Index(reg) ELSE {}

process_register(reg) ==
    LET v == Representative(reg).id IN
    \/ /\ NeedsRegister(v)
       /\ \E i \in FreeIndices :
            /\ \A j \in FreeIndices : i <= j
            /\ mapping' = [mapping EXCEPT ![v] = GeneralRegs[i]]
            /\ usedRegs' = (usedRegs \cup {i}) \ Freed(v, GeneralRegs[i])
    \/ /\ ~NeedsRegister(v)
       /\ usedRegs' = usedRegs \ Freed(v, mapping[v])
       /\ UNCHANGED mapping

(* The operand process_register returns, with the representative's size.   *)
Assigned(reg) ==
    HardcodedRegister(mapping'[Representative(reg).id], Representative(reg).size)

RewriteSrc ==
    /\ pass = "rewrite"
    /\ stage = "src"
    /\ idx \in DOMAIN frame
    /\ \/ /\ IsVirtual(ins.src)
          /\ process_register(ins.src)
          /\ operation' = set_src_register(ins, Assigned(ins.src))
       \/ /\ ~IsVirtual(ins.src)
          /\ operation' = ins
          /\ UNCHANGED <<usedRegs, mapping>>
    /\ stage' = "dst"
    /\ UNCHANGED <<frames, fi, pass, idx, analysis, newInstructions, newFrames>>

RewriteDst ==
    /\ pass = "rewrite"
    /\ stage = "dst"
    /\ \/ /\ IsVirtual(ins.dst)
          /\ process_register(ins.dst)
          /\ newInstructions' = Append(newInstructions,
                 set_dest_register(operation, Assigned(ins.dst)))
       \/ /\ ~IsVirtual(ins.dst)
          /\ newInstructions' = Append(newInstructions, operation)
          /\ UNCHANGED <<usedRegs, mapping>>
    /\ idx' = idx + 1
    /\ stage' = "src"
    /\ UNCHANGED <<frames, fi, pass, analysis, operation, newFrames>>

(* getReg finds every register taken and throws; nothing catches it.       *)
Throw ==
    /\ pass = "rewrite"
    /\ idx \in DOMAIN frame
    /\ LET reg == IF stage = "src" THEN ins.src ELSE ins.dst IN
         /\ IsVirtual(reg)
         /\ NeedsRegister(Representative(reg).id)
    /\ FreeIndices = {}
    /\ pass' = "throw"
    /\ UNCHANGED <<frames, fi, idx, stage, analysis, context, newFrames>>

(* Mutant: one frame too many. *)
AfterFrame_Late == IF fi \in DOMAIN frames THEN "getFirstUse" ELSE "done"

AfterFrame == IF fi + 1 \in DOMAIN frames THEN "getFirstUse" ELSE "done"

(* The frame is finished; rewrite(frames) goes on with the next, if any.   *)
NextFrame ==
    /\ pass = "rewrite"
    /\ stage = "src"
    /\ idx \notin DOMAIN frame
    /\ newFrames' = Append(newFrames, newInstructions)
    /\ fi' = fi + 1
    /\ pass' = AfterFrame
    /\ idx' = 1
    /\ firstUse' = EmptyUses
    /\ lastUse' = EmptyUses
    /\ newFirstUsed' = {}
    /\ remapped' = EmptyMap
    /\ merged' = {}
    /\ usedRegs' = {}
    /\ mapping' = EmptyMapping
    /\ operation' = NoOperand
    /\ newInstructions' = << >>
    /\ UNCHANGED <<frames, stage>>

Next ==
    \/ FindUses
    \/ NextPass("getFirstUse", "remap")
    \/ Remap
    \/ NextPass("remap", "merge")
    \/ Merge
    \/ MergeDone
    \/ RewriteSrc
    \/ RewriteDst
    \/ Throw
    \/ NextFrame

(* One thread runs the passes to the end.                                  *)
Fairness == WF_vars(Next)

Spec == Init /\ [][Next]_vars /\ Fairness

-----------------------------------------------------------------------------
(* Properties.                                                             *)

TypeOK ==
    /\ fi \in Nat \ {0}
    /\ pass \in {"getFirstUse", "remap", "merge", "rewrite", "done", "throw"}
    /\ pass # "done" => fi \in DOMAIN frames
    /\ idx \in Nat \ {0}
    /\ stage \in {"src", "dst"}
    /\ stage = "dst" => pass \in {"rewrite", "throw"} /\ idx \in DOMAIN frame
    /\ firstUse \in [VirtId -> Nat]
    /\ lastUse \in [VirtId -> Nat]
    /\ newFirstUsed \subseteq VirtId
    /\ remapped \in [VirtId -> VReg \cup {NoOperand}]
    /\ merged \subseteq VirtId
    /\ usedRegs \subseteq DOMAIN GeneralRegs
    /\ mapping \in [VirtId -> BaseRegister \cup {NoReg}]

(* A representative whose interval the rewriting is inside of: its value   *)
(* has been written and an instruction still to come names it.  Once the   *)
(* source of an instruction is rewritten a register it used last is free.  *)
Live(v) ==
    /\ pass \in {"rewrite", "throw"}
    /\ ~Coalesced(v)
    /\ firstUse[v] # NotFound
    /\ firstUse[v] < idx
    /\ idx <= lastUse[v]
    /\ ~ /\ stage = "dst"
         /\ lastUse[v] = idx
         /\ IsVirtual(ins.src)
         /\ Rep(ins.src.id) = v

LiveRegs == {v \in VirtId : Live(v)}

(* Two values that are both still needed are never in one register: what   *)
(* getReg, freeReg and the coalescing of Movs must achieve together.       *)
NoInterference ==
    \A v, w \in VirtId :
        Live(v) /\ Live(w) /\ v # w => mapping[v] # mapping[w]

(* usedRegs holds exactly the registers of the live values: nothing is     *)
(* handed out twice and no register is lost to the rest of the frame       *)
(* (freeReg at the last use, the mapping left behind by a dead value).     *)
UsedExact ==
    pass = "rewrite" =>
        usedRegs = {i \in DOMAIN GeneralRegs :
                      \E v \in VirtId : Live(v) /\ mapping[v] = GeneralRegs[i]}

(* "No free registers" is thrown only when every general register holds a  *)
(* value a later instruction names.                                        *)
ThrowsOnlyWhenFull ==
    pass = "throw" =>
        \A i \in DOMAIN GeneralRegs :
            \E v \in VirtId : Live(v) /\ mapping[v] = GeneralRegs[i]

(* A live value stays in its register: process_register must not take a    *)
(* second one for it in the middle of its interval.                        *)
StableRegister ==
    [][\A v \in VirtId : Live(v) /\ Live(v)' => mapping'[v] = mapping[v]]_vars

(* The rewriting of every program ends, with one frame for each of its     *)
(* frames or with the exception.                                           *)
Termination ==
    <>(pass = "throw" \/ (pass = "done" /\ Len(newFrames) = Len(frames)))

(* The run implements the abstract register file: seen through the values   *)
(* that are live, every step takes a free register, gives one back, fails    *)
(* with all of them held, or changes nothing.                               *)
Held == [v \in VirtId |-> IF Live(v) THEN mapping[v] ELSE NoReg]

File == INSTANCE RegisterFile WITH
            Value <- VirtId,
            Reg <- {GeneralRegs[i] : i \in DOMAIN GeneralRegs},
            None <- NoReg,
            held <- Held,
            exhausted <- (pass = "throw")

ImplementsRegisterFile == File!Spec
=============================================================================
