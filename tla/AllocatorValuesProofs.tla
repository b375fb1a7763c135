----------------------- MODULE AllocatorValuesProofs -----------------------
(***************************************************************************)
(* The rewritten frame reads what the lowered frame reads: ValuesKept, for   *)
(* every program, every set of virtual registers and every list of general   *)
(* registers that carry no parameter.                                       *)
(*                                                                         *)
(* That live values are in different registers (AllocatorProofs) is half of *)
(* it.  The registers of a class share one, so it also takes                *)
(*                                                                         *)
(*   ClassesOrdered  in a linear frame the uses of two registers of a class *)
(*                   do not overlap: one is used up when the other begins;  *)
(*   Rewritten       what the rewriting of a source leaves for that of the   *)
(*                   destination, and that no virtual register is left;     *)
(*   ValuesAgree     what the two machines agree on between instructions.   *)
(***************************************************************************)
EXTENDS AllocatorValues, AllocatorProofs

allVars == <<vars, valueVars>>

Analysed == pass \in {"remap", "merge", "rewrite", "throw"}

(* No use of w comes before a use of v.                                    *)
Precedes(v, w) ==
    \A j, k \in DOMAIN frame :
        Occurs(frame[j], v) /\ Occurs(frame[k], w) => j <= k

SeenBefore ==
    pass = "remap" =>
        \A v \in VirtId :
            v \in newFirstUsed \/ Coalesced(v) =>
                \E j \in DOMAIN frame : j < idx /\ Occurs(frame[j], v)

ClassesOrdered ==
    Analysed /\ Linear(frame) =>
        \A v, w \in VirtId :
            v # w /\ Rep(v) = Rep(w) => Precedes(v, w) \/ Precedes(w, v)

(* The operand that stands for a virtual register.                         *)
Place(reg) == HardcodedRegister(mapping[Rep(reg.id)], Representative(reg).size)

Rewritten ==
    /\ newInstructions \in Seq(Instruction({}))
    /\ newFrames \in Seq(Seq(Instruction({})))
    /\ pass \in {"getFirstUse", "remap", "merge"} => newInstructions = << >>
    /\ pass = "rewrite" => Len(newInstructions) = idx - 1
    /\ pass = "rewrite" /\ stage = "dst" =>
           operation = IF IsVirtual(ins.src) THEN set_src_register(ins, Place(ins.src))
                       ELSE ins

Agree(reg) == physical[BaseCell(reg)] = virtual[BaseCell(reg)]

Kept(v) ==
    /\ mapping[Rep(v)] # NoReg
    /\ physical[BaseCell(mapping[Rep(v)])] = virtual[VirtCell(v)]

(* A base register is read if it carries a parameter or a call has just     *)
(* left its result there.                                                  *)
ValuesAgree ==
    /\ virtual \in [BaseCells \cup VirtCells -> Int]
    /\ physical \in [BaseCells -> Int]
    /\ pass \in {"getFirstUse", "remap", "merge"} =>
           /\ virtual = EntryCells(BaseCells \cup VirtCells)
           /\ physical = EntryCells(BaseCells)
    /\ pass = "rewrite" /\ clobbered = {} /\ Linear(frame) =>
           /\ \A v \in VirtId : Wanted(v) => Kept(v)
           /\ \A reg \in BaseRegister : IsParamReg(reg) => Agree(reg)
           /\ idx > 1 /\ frame[idx - 1].op = "Call" /\ IsHardcoded(frame[idx - 1].dst) =>
                  Agree(frame[idx - 1].dst.reg)

ValuesInv ==
    /\ IInv
    /\ SeenBefore
    /\ ClassesOrdered
    /\ Rewritten
    /\ ValuesAgree

-----------------------------------------------------------------------------
(* Steps of the allocator with its machines are steps of the allocator.     *)
LEMMA ValuesStep == [NextValues]_allVars => [Next]_vars
BY DEF NextValues, Next, allVars

LEMMA FrameOperands ==
    ASSUME IInv, pass # "done"
    PROVE  /\ frame \in Seq(Instruction(VirtId))
           /\ \A i \in DOMAIN frame :
                  /\ IsVirtual(frame[i].src) => frame[i].src \in VReg /\ frame[i].src.id \in VirtId
                  /\ IsVirtual(frame[i].dst) => frame[i].dst \in VReg /\ frame[i].dst.id \in VirtId
BY FrameType, OperandTypes DEF IInv, TypeOK

(* What the structs of the instructions that move values hold.              *)
LEMMA MovOperands ==
    ASSUME NEW ids, NEW i \in Instruction(ids)
    PROVE  /\ i.op = "Mov" => i.src \in Register(ids) /\ i.dst \in Register(ids)
           /\ IsHardcoded(i.dst) => i.dst.reg \in BaseRegister
           /\ IsHardcoded(i.src) => i.src.reg \in BaseRegister
BY DEF Instruction, Register, HardRegisters, StackLocations, Immediates, LabelNames,
       NoOperand, IsHardcoded, RegisterRegister, RegisterImmediate, LabelOnly, SetsAl

-----------------------------------------------------------------------------
(* The registers of a class come one after the other.                      *)

(* remap puts the destination of a move behind its source: nothing of the   *)
(* class is used after the source, and the destination not before it.      *)
LEMMA RemapOrder ==
    ASSUME IInv, SeenBefore, ClassesOrdered, Remap, Linear(frame), Coalesces,
           NEW u \in VirtId, u # ins.dst.id, Rep(u) = Rep(ins.src.id)
    PROVE  Precedes(u, ins.dst.id)
<1> DEFINE d == ins.dst.id
           s == ins.src.id
<1>1. /\ pass = "remap" /\ idx \in DOMAIN frame /\ ins = frame[idx]
      /\ frame \in Seq(Instruction(VirtId)) /\ idx \in Nat
      /\ s \in VirtId /\ d \in VirtId
      /\ Occurs(frame[idx], s)
  BY FrameOperands DEF Remap, Coalesces, ins, Occurs, IInv, TypeOK
<1>2. \A j \in DOMAIN frame :
         /\ Occurs(frame[j], s) => j <= idx
         /\ Occurs(frame[j], d) => idx <= j
  BY <1>1 DEF Linear, Coalesces
<1>3. CASE u = s
  BY <1>1, <1>2, <1>3 DEF Precedes
<1>4. CASE u # s
  <2>1. Precedes(u, s) \/ Precedes(s, u)
    BY <1>1, <1>4 DEF ClassesOrdered, Analysed
  <2>2. u \in newFirstUsed \/ Coalesced(u)
    <3>1. CASE Coalesced(u)
      BY <3>1
    <3>2. CASE ~Coalesced(u)
      BY <1>1, <1>4, <3>2 DEF Rep, IInv, Coalescing
    <3> QED
      BY <3>1, <3>2
  <2>3. PICK j \in DOMAIN frame : j < idx /\ Occurs(frame[j], u)
    BY <1>1, <2>2 DEF SeenBefore
  <2>4. Precedes(u, s)
    BY <1>1, <2>1, <2>3 DEF Precedes
  <2>5. \A k \in DOMAIN frame : Occurs(frame[k], u) => k <= idx
    BY <1>1, <2>4 DEF Precedes
  <2> QED
    BY <1>1, <1>2, <2>5 DEF Precedes
<1> QED
  BY <1>3, <1>4

LEMMA RemapClasses ==
    ASSUME IInv, SeenBefore, ClassesOrdered, Remap
    PROVE  SeenBefore' /\ ClassesOrdered'
<1>1. /\ pass = "remap" /\ pass' = "remap" /\ idx \in DOMAIN frame /\ ins = frame[idx]
      /\ frame \in Seq(Instruction(VirtId)) /\ idx \in Nat /\ idx' = idx + 1
      /\ frame' = frame
      /\ remapped \in [VirtId -> VReg \cup {NoOperand}]
  BY FrameOperands DEF Remap, ins, frame, IInv, TypeOK
<1>2. /\ IsVirtual(ins.src) =>
             /\ ins.src.id \in VirtId
             /\ Representative(ins.src).id = Rep(ins.src.id)
      /\ IsVirtual(ins.dst) => ins.dst.id \in VirtId
  BY <1>1, FrameOperands, RepresentativeType DEF IInv
<1>3. \A v \in VirtId : ~(Coalesces /\ v = ins.dst.id) =>
         Rep(v)' = Rep(v) /\ (Coalesced(v)' <=> Coalesced(v))
  BY <1>1, <1>2 DEF Remap, Coalesces, Rep, Coalesced
<1>4. \A v \in VirtId : Coalesces /\ v = ins.dst.id => Rep(v)' = Rep(ins.src.id)
  <2>1. Coalesces => /\ remapped'[ins.dst.id] = Representative(ins.src)
                     /\ Representative(ins.src) \in VReg
    BY <1>1, <1>2, FrameOperands, RepresentativeType DEF Remap, Coalesces, IInv
  <2> QED
    BY <1>2, <2>1 DEF Rep, Coalesced, Coalesces, VReg, NoOperand
<1>5. SeenBefore'
  <2> SUFFICES ASSUME NEW v \in VirtId, v \in newFirstUsed' \/ Coalesced(v)'
               PROVE  \E j \in DOMAIN frame : j < idx + 1 /\ Occurs(frame[j], v)
    BY <1>1 DEF SeenBefore
  <2>1. CASE Occurs(ins, v)
    BY <1>1, <2>1
  <2>2. CASE ~Occurs(ins, v)
    <3>1. v \in newFirstUsed \/ Coalesced(v)
      BY <1>1, <1>3, <2>2 DEF Remap, SourcesSeen, Coalesces, Occurs
    <3> QED
      BY <1>1, <3>1 DEF SeenBefore
  <2> QED
    BY <2>1, <2>2
<1>6. ClassesOrdered'
  <2> SUFFICES ASSUME Linear(frame), NEW v \in VirtId, NEW w \in VirtId, v # w,
                      Rep(v)' = Rep(w)'
               PROVE  Precedes(v, w) \/ Precedes(w, v)
    BY <1>1 DEF ClassesOrdered, Analysed, Precedes
  <2>1. CASE Coalesces /\ v = ins.dst.id
    BY <1>3, <1>4, <2>1, RemapOrder
  <2>2. CASE Coalesces /\ w = ins.dst.id
    BY <1>3, <1>4, <2>2, RemapOrder
  <2>3. CASE ~(Coalesces /\ v = ins.dst.id) /\ ~(Coalesces /\ w = ins.dst.id)
    BY <1>1, <1>3, <2>3 DEF ClassesOrdered, Analysed
  <2> QED
    BY <2>1, <2>2, <2>3
<1> QED
  BY <1>5, <1>6

LEMMA ClassesInv ==
    ASSUME IInv, SeenBefore, ClassesOrdered, [Next]_vars
    PROVE  SeenBefore' /\ ClassesOrdered'
<1>1. CASE Remap
  BY <1>1, RemapClasses
<1>2. CASE NextPass("getFirstUse", "remap")
  <2>1. /\ pass' = "remap" /\ newFirstUsed' = {} /\ remapped' = remapped
        /\ \A v \in VirtId : ~Coalesced(v)
    BY <1>2 DEF NextPass, analysis, IInv, Coalescing
  <2> QED
    BY <2>1 DEF SeenBefore, ClassesOrdered, Coalesced, Rep
<1>3. CASE FindUses \/ NextFrame
  <2>1. pass' \in {"getFirstUse", "done"}
    BY <1>3 DEF FindUses, NextFrame, AfterFrame
  <2> QED
    BY <2>1 DEF SeenBefore, ClassesOrdered, Analysed
<1>4. CASE \/ NextPass("remap", "merge") \/ Merge \/ MergeDone
           \/ RewriteSrc \/ RewriteDst \/ Throw
  <2>1. /\ pass' \in {"merge", "rewrite", "throw"} /\ Analysed
        /\ remapped' = remapped /\ frame' = frame
    BY <1>4 DEF NextPass, Merge, MergeDone, RewriteSrc, RewriteDst, Throw, analysis,
                frame, Analysed
  <2> QED
    BY <2>1 DEF SeenBefore, ClassesOrdered, Precedes, Rep, Coalesced
<1>5. CASE UNCHANGED vars
  BY <1>5 DEF vars, analysis, SeenBefore, ClassesOrdered, Analysed, Precedes, Rep,
              Coalesced, frame
<1> QED
  BY <1>1, <1>2, <1>3, <1>4, <1>5 DEF Next

-----------------------------------------------------------------------------
(* The rewritten instruction.                                              *)
LEMMA ReplacedOperands ==
    ASSUME NEW i \in Instruction(VirtId), NEW dst, NEW src,
           IF IsVirtual(i.dst) THEN dst \in HardRegisters ELSE dst = i.dst,
           IF IsVirtual(i.src) THEN src \in HardRegisters ELSE src = i.src
    PROVE  Ins(i.op, dst, src) \in Instruction({})
<1>1. /\ i.dst \in Register(VirtId) => dst \in Register({})
      /\ i.src \in Register(VirtId) => src \in Register({})
  BY DEF Register, HardRegisters, IsVirtual
<1>2. /\ i.dst \in StackLocations \cup {NoOperand} => dst = i.dst
      /\ i.src \in StackLocations \cup {NoOperand} => src = i.src
      /\ i.src \in Immediates \cup LabelNames => src = i.src
  BY DEF StackLocations, Immediates, LabelNames, NoOperand, IsVirtual
<1> QED
  BY <1>1, <1>2 DEF Instruction, Ins

LEMMA SetOperands ==
    ASSUME NEW i \in Instruction(VirtId), NEW reg
    PROVE  /\ i = Ins(i.op, i.dst, i.src)
           /\ set_src_register(i, reg) = Ins(i.op, i.dst, reg)
BY DEF Instruction, Ins, set_src_register

LEMMA RegisterGiven ==
    ASSUME TypeOK, NEW reg \in VReg, process_register(reg)
    PROVE  /\ mapping'[Rep(reg.id)] \in BaseRegister
           /\ Assigned(reg) = HardcodedRegister(mapping'[Rep(reg.id)], Representative(reg).size)
           /\ Assigned(reg) \in HardRegisters
<1>1. /\ Representative(reg) \in VReg
      /\ Representative(reg).id = Rep(reg.id)
      /\ Rep(reg.id) \in VirtId
      /\ mapping \in [VirtId -> BaseRegister \cup {NoReg}]
  BY RepresentativeType DEF TypeOK
<1>2. CASE NeedsRegister(Rep(reg.id))
  BY <1>1, <1>2, RegisterIndex DEF process_register, Assigned, HardRegisters,
     HardcodedRegister, FreeIndices, VReg
<1>3. CASE ~NeedsRegister(Rep(reg.id))
  BY <1>1, <1>3 DEF process_register, NeedsRegister, Assigned, HardRegisters,
     HardcodedRegister, VReg
<1> QED
  BY <1>2, <1>3

(* What the two steps of an instruction make of it.                        *)
LEMMA RewrittenIns ==
    ASSUME IInv, Rewritten, RewriteDst
    PROVE  LET rewritten == newInstructions'[idx] IN
           /\ rewritten =
                  Ins(ins.op,
                      IF IsVirtual(ins.dst)
                        THEN HardcodedRegister(mapping'[Rep(ins.dst.id)],
                                               Representative(ins.dst).size)
                        ELSE ins.dst,
                      IF IsVirtual(ins.src) THEN Place(ins.src) ELSE ins.src)
           /\ rewritten \in Instruction({})
           /\ newInstructions' = Append(newInstructions, rewritten)
           /\ IsVirtual(ins.dst) => mapping'[Rep(ins.dst.id)] \in BaseRegister
           /\ IsVirtual(ins.src) => mapping[Rep(ins.src.id)] \in BaseRegister
<1>1. /\ pass = "rewrite" /\ stage = "dst" /\ idx \in DOMAIN frame /\ ins = frame[idx]
      /\ ins \in Instruction(VirtId) /\ idx \in Nat
      /\ newInstructions \in Seq(Instruction({})) /\ Len(newInstructions) = idx - 1
  BY FrameOperands DEF RewriteDst, IInv, TypeOK, ins, Rewritten
<1>2. /\ IsVirtual(ins.dst) => ins.dst \in VReg
      /\ IsVirtual(ins.src) => ins.src \in VReg /\ ins.src.id \in VirtId
  BY <1>1, FrameOperands
<1>3. IsVirtual(ins.src) => /\ mapping[Rep(ins.src.id)] \in BaseRegister
                            /\ Place(ins.src) \in HardRegisters
  <2> SUFFICES ASSUME IsVirtual(ins.src)
               PROVE  /\ mapping[Rep(ins.src.id)] \in BaseRegister
                      /\ Place(ins.src) \in HardRegisters
    OBVIOUS
  <2>1. \E i \in DOMAIN GeneralRegs : mapping[Rep(ins.src.id)] = GeneralRegs[i]
    BY <1>1, SourceHasRegister
  <2>2. Representative(ins.src) \in VReg
    BY <1>2, RepresentativeType DEF IInv
  <2> QED
    BY <2>1, <2>2, RegisterIndex DEF Place, HardcodedRegister, HardRegisters, VReg
<1> DEFINE src == IF IsVirtual(ins.src) THEN Place(ins.src) ELSE ins.src
           dst == IF IsVirtual(ins.dst)
                    THEN HardcodedRegister(mapping'[Rep(ins.dst.id)],
                                           Representative(ins.dst).size)
                    ELSE ins.dst
<1>4. operation = Ins(ins.op, ins.dst, src)
  BY <1>1, SetOperands DEF Rewritten
<1>5. newInstructions' = Append(newInstructions, Ins(ins.op, dst, src))
  <2>1. CASE IsVirtual(ins.dst)
    <3>1. process_register(ins.dst) /\ Assigned(ins.dst) = dst
      BY <1>2, <2>1, RegisterGiven DEF RewriteDst, IInv
    <3>2. set_dest_register(operation, Assigned(ins.dst)) = Ins(ins.op, dst, src)
      BY <1>4, <3>1 DEF set_dest_register, Ins
    <3> QED
      BY <2>1, <3>2 DEF RewriteDst
  <2>2. CASE ~IsVirtual(ins.dst)
    BY <1>4, <2>2 DEF RewriteDst
  <2> QED
    BY <2>1, <2>2
<1>6. IsVirtual(ins.dst) => /\ mapping'[Rep(ins.dst.id)] \in BaseRegister
                            /\ dst \in HardRegisters
  BY <1>2, RegisterGiven DEF RewriteDst, IInv
<1>7. Ins(ins.op, dst, src) \in Instruction({})
  BY <1>1, <1>3, <1>6, ReplacedOperands
<1>8. newInstructions'[idx] = Ins(ins.op, dst, src)
  BY <1>1, <1>5, <1>7
<1> QED
  BY <1>3, <1>5, <1>6, <1>7, <1>8

LEMMA RewrittenInv ==
    ASSUME IInv, Rewritten, [Next]_vars
    PROVE  Rewritten'
<1>1. CASE RewriteDst
  <2>1. /\ newInstructions \in Seq(Instruction({})) /\ Len(newInstructions) = idx - 1
        /\ newInstructions'[idx] \in Instruction({})
        /\ newInstructions' = Append(newInstructions, newInstructions'[idx])
        /\ newFrames \in Seq(Seq(Instruction({})))
        /\ pass' = "rewrite" /\ stage' = "src" /\ idx' = idx + 1 /\ idx \in Nat
        /\ newFrames' = newFrames
    BY <1>1, RewrittenIns DEF RewriteDst, Rewritten, IInv, TypeOK
  <2> QED
    BY <2>1 DEF Rewritten
<1>2. CASE RewriteSrc
  <2>1. /\ pass = "rewrite" /\ pass' = "rewrite" /\ idx' = idx /\ ins' = ins
        /\ newFrames' = newFrames /\ newInstructions' = newInstructions
        /\ remapped' = remapped
    BY <1>2 DEF RewriteSrc, ins, frame, analysis
  <2>2. CASE IsVirtual(ins.src)
    <3>1. ins.src \in VReg
      BY <1>2, <2>2, FrameOperands DEF RewriteSrc, ins
    <3>2. Assigned(ins.src) = HardcodedRegister(mapping'[Rep(ins.src.id)],
                                                Representative(ins.src).size)
      BY <1>2, <2>2, <3>1, RegisterGiven DEF RewriteSrc, IInv
    <3>3. operation' = set_src_register(ins, Place(ins.src)')
      BY <1>2, <2>1, <2>2, <3>2 DEF RewriteSrc, Place, Rep, Representative, Coalesced
    <3> QED
      BY <2>1, <2>2, <3>3 DEF Rewritten
  <2>3. CASE ~IsVirtual(ins.src)
    BY <1>2, <2>1, <2>3 DEF RewriteSrc, Rewritten
  <2> QED
    BY <2>2, <2>3
<1>3. CASE MergeDone
  BY <1>3 DEF MergeDone, Rewritten, context, IInv, TypeOK, Allocated
<1>4. CASE FindUses \/ Remap \/ Merge \/ NextPass("getFirstUse", "remap")
           \/ NextPass("remap", "merge") \/ Throw
  BY <1>4 DEF FindUses, Remap, Merge, NextPass, Throw, context, Rewritten
<1>5. CASE NextFrame
  BY <1>5 DEF NextFrame, AfterFrame, Rewritten
<1>6. CASE UNCHANGED vars
  BY <1>6 DEF vars, analysis, context, Rewritten, Place, Rep, Representative, Coalesced,
              ins, frame
<1> QED
  BY <1>1, <1>2, <1>3, <1>4, <1>5, <1>6 DEF Next

-----------------------------------------------------------------------------
(* The registers of values that are still to be read.                      *)
LEMMA NamesRegister ==
    ASSUME NEW i, NEW v, Reads(i, v) \/ Sets(i, v)
    PROVE  Occurs(i, v)
BY DEF Reads, Sets, Occurs

LEMMA VirtualIdsOccur ==
    ASSUME NEW f, NEW i \in DOMAIN f, NEW v, Occurs(f[i], v)
    PROVE  v \in VirtualIds(f)
BY DEF VirtualIds, Occurs

(* A value that is read at j and not set before then was set before now,    *)
(* and the interval of its representative lasts until j.                   *)
LEMMA WantedInInterval ==
    ASSUME IInv, pass = "rewrite", Linear(frame), NEW v \in VirtId,
           NEW j \in DOMAIN frame, idx <= j, Reads(frame[j], v),
           \A k \in idx..(j - 1) : ~Sets(frame[k], v)
    PROVE  /\ \E k \in DOMAIN frame : k < idx /\ Occurs(frame[k], v)
           /\ Rep(v) \in VirtId /\ ~Coalesced(Rep(v))
           /\ firstUse[Rep(v)] # NotFound
           /\ firstUse[Rep(v)] < idx
           /\ j <= lastUse[Rep(v)]
<1>1. /\ frame \in Seq(Instruction(VirtId)) /\ idx \in Nat
      /\ firstUse \in [VirtId -> Nat] /\ lastUse \in [VirtId -> Nat]
  BY FrameOperands DEF IInv, TypeOK
<1>2. Occurs(frame[j], v) /\ v \in VirtualIds(frame)
  BY NamesRegister, VirtualIdsOccur
<1>3. PICK k \in 1..(j - 1) : Sets(frame[k], v)
  BY <1>2 DEF Linear
<1>4. k \in DOMAIN frame /\ k < idx /\ Occurs(frame[k], v)
  BY <1>1, <1>3, NamesRegister
<1>5. /\ Rep(v) \in VirtId /\ ~Coalesced(Rep(v))
      /\ firstUse[Rep(v)] # NotFound
      /\ firstUse[Rep(v)] <= k
      /\ j <= lastUse[Rep(v)]
  BY <1>2, <1>4, UseInInterval
<1> QED
  BY <1>1, <1>4, <1>5

(* Of the registers of a class only the one that is named is needed later.  *)
LEMMA ClassNotNeeded ==
    ASSUME ClassesOrdered, Analysed, Linear(frame),
           NEW v \in VirtId, NEW w \in VirtId, v # w,
           NEW i \in DOMAIN frame, NEW j \in DOMAIN frame, NEW k \in DOMAIN frame,
           frame \in Seq(Instruction(VirtId)),
           k < i, i < j, Occurs(frame[i], w), Occurs(frame[k], v), Occurs(frame[j], v)
    PROVE  Rep(v) # Rep(w)
BY DEF ClassesOrdered, Precedes

(* A destination is put where no value is that is needed later.            *)
LEMMA DestinationApart ==
    ASSUME IInv, RewriteDst, IsVirtual(ins.dst),
           NEW r \in VirtId, ~Coalesced(r), firstUse[r] # NotFound,
           firstUse[r] < idx, idx < lastUse[r], r # Rep(ins.dst.id)
    PROVE  mapping'[Rep(ins.dst.id)] # mapping[r]
<1> DEFINE q == Rep(ins.dst.id)
<1>1. /\ pass = "rewrite" /\ stage = "dst" /\ idx \in DOMAIN frame /\ ins = frame[idx]
      /\ frame \in Seq(Instruction(VirtId)) /\ idx \in Nat
      /\ firstUse \in [VirtId -> Nat] /\ lastUse \in [VirtId -> Nat]
      /\ mapping \in [VirtId -> BaseRegister \cup {NoReg}]
      /\ ins.dst \in VReg /\ ins.dst.id \in VirtId
      /\ usedRegs = {i \in DOMAIN GeneralRegs :
                        \E v \in VirtId : Live(v) /\ mapping[v] = GeneralRegs[i]}
      /\ NoInterference
  BY FrameOperands DEF RewriteDst, IInv, TypeOK, ins, Allocated, Rewriting
<1>2. /\ Representative(ins.dst).id = q
      /\ q \in VirtId /\ ~Coalesced(q) /\ firstUse[q] # NotFound
      /\ firstUse[q] <= idx /\ idx <= lastUse[q]
  BY <1>1, RepresentativeType, UseInInterval DEF IInv, Occurs
<1>3. Live(r)
  BY <1>1 DEF Live
<1>4. PICK k \in DOMAIN GeneralRegs : mapping[r] = GeneralRegs[k]
  BY <1>1 DEF IInv, Allocated, Rewriting
<1>5. CASE NeedsRegister(q)
  <2>1. PICK i \in FreeIndices : mapping'[q] = GeneralRegs[i]
    BY <1>1, <1>2, <1>5 DEF RewriteDst, process_register
  <2>2. k \in usedRegs
    BY <1>1, <1>3, <1>4
  <2> QED
    BY <1>4, <2>1, <2>2, GeneralRegsAssumption DEF FreeIndices
<1>6. CASE ~NeedsRegister(q)
  <2>1. mapping' = mapping /\ firstUse[q] < idx
    BY <1>1, <1>2, <1>6 DEF RewriteDst, process_register, NeedsRegister
  <2>2. CASE Live(q)
    BY <1>1, <1>2, <1>3, <2>1, <2>2 DEF NoInterference
  <2>3. CASE ~Live(q)
    <3>1. IsVirtual(ins.src) /\ Rep(ins.src.id) = q
      BY <1>1, <1>2, <2>1, <2>3 DEF Live
    <3> QED
      BY <1>1, <1>3, <2>1, <3>1 DEF IInv, Allocated, Rewriting
  <2> QED
    BY <2>2, <2>3
<1> QED
  BY <1>5, <1>6

-----------------------------------------------------------------------------
(* Executing an instruction and what it was rewritten to.                  *)
LEMMA Cells ==
    ASSUME NEW reg \in BaseRegister
    PROVE  /\ BaseCell(reg) \in BaseCells
           /\ \A r : BaseCell(reg) = BaseCell(r) <=> reg = r
           /\ \A id : BaseCell(reg) # VirtCell(id)
BY DEF BaseCell, VirtCell, BaseCells

LEMMA VirtualCells ==
    ASSUME NEW id \in VirtId
    PROVE  /\ VirtCell(id) \in VirtCells
           /\ \A v : VirtCell(id) = VirtCell(v) <=> id = v
           /\ \A r : BaseCell(r) # VirtCell(id)
BY DEF BaseCell, VirtCell, VirtCells

(* A register that may be read has the same value in both machines.        *)
LEMMA SourceAgrees ==
    ASSUME IInv, ValuesAgree, pass = "rewrite", idx \in DOMAIN frame,
           clobbered = {}, Linear(frame)
    PROVE  /\ IsVirtual(ins.src) =>
                  physical[BaseCell(mapping[Rep(ins.src.id)])] = virtual[VirtCell(ins.src.id)]
           /\ IsHardcoded(ins.src) =>
                  physical[BaseCell(ins.src.reg)] = virtual[BaseCell(ins.src.reg)]
<1>1. /\ frame \in Seq(Instruction(VirtId)) /\ idx \in Nat /\ ins = frame[idx]
      /\ ins \in Instruction(VirtId)
      /\ IsVirtual(ins.src) => ins.src.id \in VirtId
      /\ IsHardcoded(ins.src) => ins.src.reg \in BaseRegister
  BY FrameOperands, MovOperands DEF IInv, TypeOK, ins
<1>2. IsVirtual(ins.src) => Wanted(ins.src.id)
  <2>1. IsVirtual(ins.src) => Reads(frame[idx], ins.src.id)
    BY <1>1 DEF Reads
  <2>2. idx \in idx..Len(frame) /\ idx..(idx - 1) = {}
    BY <1>1
  <2> QED
    BY <2>1, <2>2 DEF Wanted
<1>3. IsVirtual(ins.src) => Kept(ins.src.id)
  BY <1>1, <1>2 DEF ValuesAgree
<1>4. IsHardcoded(ins.src) => Agree(ins.src.reg)
  <2>1. CASE IsHardcoded(ins.src) /\ ~IsParamReg(ins.src.reg)
    <3>1. /\ idx > 1
          /\ frame[idx - 1].op = "Call"
          /\ IsHardcoded(frame[idx - 1].dst)
          /\ frame[idx - 1].dst.reg = ins.src.reg
      BY <1>1, <2>1 DEF Linear
    <3>2. Agree(frame[idx - 1].dst.reg)
      BY <3>1 DEF ValuesAgree
    <3> QED
      BY <3>1, <3>2
  <2>2. CASE IsHardcoded(ins.src) /\ IsParamReg(ins.src.reg)
    BY <1>1, <2>2 DEF ValuesAgree
  <2> QED
    BY <2>1, <2>2
<1> QED
  BY <1>3, <1>4 DEF Kept, Agree

LEMMA ResultsAgree ==
    ASSUME IInv, Rewritten, ValuesAgree, RewriteDst
    PROVE  LET rewritten == newInstructions'[idx] IN
           /\ Result(ins, virtual) \in Int
           /\ Result(rewritten, physical) \in Int
           /\ clobbered = {} /\ Linear(frame) =>
                  Result(rewritten, physical) = Result(ins, virtual)
<1> DEFINE rewritten == newInstructions'[idx]
<1>1. /\ pass = "rewrite" /\ idx \in DOMAIN frame /\ ins \in Instruction(VirtId)
      /\ idx \in Nat
      /\ IsVirtual(ins.src) => ins.src.id \in VirtId
      /\ virtual \in [BaseCells \cup VirtCells -> Int]
      /\ physical \in [BaseCells -> Int]
  BY FrameOperands DEF RewriteDst, IInv, TypeOK, ins, ValuesAgree
<1>2. /\ rewritten.op = ins.op
      /\ rewritten.src = IF IsVirtual(ins.src) THEN Place(ins.src) ELSE ins.src
      /\ IsVirtual(ins.src) => mapping[Rep(ins.src.id)] \in BaseRegister
  BY RewrittenIns DEF Ins
<1>3. CASE ins.op # "Mov"
  BY <1>1, <1>2, <1>3 DEF Result
<1>4. CASE ins.op = "Mov" /\ IsVirtual(ins.src)
  <2>1. /\ CellOf(ins.src) = VirtCell(ins.src.id)
        /\ CellOf(rewritten.src) = BaseCell(mapping[Rep(ins.src.id)])
    BY <1>2, <1>4 DEF CellOf, Place, HardcodedRegister, IsVirtual
  <2>2. CellOf(ins.src) \in VirtCells /\ CellOf(rewritten.src) \in BaseCells
    BY <1>1, <1>2, <1>4, <2>1, Cells, VirtualCells
  <2> QED
    BY <1>1, <1>2, <1>4, <2>1, <2>2, SourceAgrees DEF Result
<1>5. CASE ins.op = "Mov" /\ ~IsVirtual(ins.src)
  <2>1. ins.src \in HardRegisters
    BY <1>1, <1>5, MovOperands DEF Register, HardRegisters, IsVirtual
  <2>2. IsHardcoded(ins.src) /\ ins.src.reg \in BaseRegister
    BY <2>1 DEF HardRegisters, IsHardcoded
  <2>3. CellOf(ins.src) = BaseCell(ins.src.reg) /\ CellOf(ins.src) \in BaseCells
    BY <1>5, <2>2, Cells DEF CellOf
  <2> QED
    BY <1>1, <1>2, <1>5, <2>2, <2>3, SourceAgrees DEF Result
<1> QED
  BY <1>3, <1>4, <1>5

(* The cells after the instruction.                                        *)
LEMMA ExecutedCells ==
    ASSUME IInv, Rewritten, ValuesAgree, RewriteDst, ExecuteInstruction
    PROVE  LET rewritten == newInstructions'[idx]
               given == IF IsVirtual(ins.dst) THEN mapping'[Rep(ins.dst.id)] ELSE ins.dst.reg
           IN  /\ virtual' \in [BaseCells \cup VirtCells -> Int]
               /\ physical' \in [BaseCells -> Int]
               /\ \A v \in VirtId :
                      virtual'[VirtCell(v)] =
                          IF Sets(ins, v) THEN Result(ins, virtual) ELSE virtual[VirtCell(v)]
               /\ \A reg \in BaseRegister :
                      virtual'[BaseCell(reg)] =
                          IF WritesDestination(ins) /\ IsHardcoded(ins.dst) /\ ins.dst.reg = reg
                            THEN Result(ins, virtual) ELSE virtual[BaseCell(reg)]
               /\ \A reg \in BaseRegister :
                      physical'[BaseCell(reg)] =
                          IF WritesDestination(ins) /\ given = reg
                            THEN Result(rewritten, physical)
                          ELSE IF BaseCell(reg) \in SideEffects(ins) THEN Garbage
                          ELSE physical[BaseCell(reg)]
<1> DEFINE rewritten == newInstructions'[idx]
           given == IF IsVirtual(ins.dst) THEN mapping'[Rep(ins.dst.id)] ELSE ins.dst.reg
<1>1. /\ pass = "rewrite" /\ idx \in DOMAIN frame /\ ins \in Instruction(VirtId)
      /\ IsVirtual(ins.dst) => ins.dst.id \in VirtId
      /\ IsHardcoded(ins.dst) => ins.dst.reg \in BaseRegister
      /\ virtual \in [BaseCells \cup VirtCells -> Int]
      /\ physical \in [BaseCells -> Int]
  BY FrameOperands, MovOperands DEF RewriteDst, IInv, TypeOK, ins, ValuesAgree
<1>2. /\ rewritten.op = ins.op
      /\ rewritten.dst = IF IsVirtual(ins.dst)
                           THEN HardcodedRegister(given, Representative(ins.dst).size)
                           ELSE ins.dst
      /\ IsVirtual(ins.dst) => given \in BaseRegister
  BY RewrittenIns DEF Ins
<1>3. /\ Result(ins, virtual) \in Int /\ Result(rewritten, physical) \in Int
  BY ResultsAgree
<1>4. /\ WritesDestination(rewritten) <=> WritesDestination(ins)
      /\ WritesDestination(ins) =>
             CellOf(rewritten.dst) = BaseCell(given) /\ given \in BaseRegister
      /\ WritesDestination(ins) /\ ~IsVirtual(ins.dst) => IsHardcoded(ins.dst)
  BY <1>1, <1>2 DEF WritesDestination, IsRegister, IsVirtual, IsHardcoded, CellOf,
     HardcodedRegister
<1>5. SideEffects(rewritten) = SideEffects(ins)
  BY <1>2 DEF SideEffects
<1>6. /\ virtual' = [c \in BaseCells \cup VirtCells |->
             IF WritesDestination(ins) /\ CellOf(ins.dst) = c THEN Result(ins, virtual)
             ELSE virtual[c]]
      /\ physical' = [c \in BaseCells |->
             IF WritesDestination(ins) /\ BaseCell(given) = c THEN Result(rewritten, physical)
             ELSE IF c \in SideEffects(ins) THEN Garbage ELSE physical[c]]
  BY <1>1, <1>4, <1>5 DEF ExecuteInstruction, Execute
<1> HIDE DEF rewritten, given
<1>7. virtual' \in [BaseCells \cup VirtCells -> Int] /\ physical' \in [BaseCells -> Int]
  BY <1>1, <1>3, <1>6 DEF Garbage
<1>8. ASSUME NEW v \in VirtId
      PROVE  virtual'[VirtCell(v)] =
                 IF Sets(ins, v) THEN Result(ins, virtual) ELSE virtual[VirtCell(v)]
  <2>1. VirtCell(v) \in VirtCells
    BY VirtualCells
  <2>2. WritesDestination(ins) /\ CellOf(ins.dst) = VirtCell(v) <=> Sets(ins, v)
    <3>1. CASE IsVirtual(ins.dst)
      BY <3>1, VirtualCells DEF Sets, CellOf
    <3>2. CASE ~IsVirtual(ins.dst)
      BY <3>2, VirtualCells DEF Sets, CellOf
    <3> QED
      BY <3>1, <3>2
  <2> QED
    BY <1>6, <2>1, <2>2
<1>9. ASSUME NEW reg \in BaseRegister
      PROVE  virtual'[BaseCell(reg)] =
                 IF WritesDestination(ins) /\ IsHardcoded(ins.dst) /\ ins.dst.reg = reg
                   THEN Result(ins, virtual) ELSE virtual[BaseCell(reg)]
  <2>1. BaseCell(reg) \in BaseCells
    BY Cells
  <2>2. WritesDestination(ins) =>
            (CellOf(ins.dst) = BaseCell(reg) <=> IsHardcoded(ins.dst) /\ ins.dst.reg = reg)
    <3>1. CASE IsVirtual(ins.dst)
      BY <3>1, Cells DEF CellOf, IsVirtual, IsHardcoded
    <3>2. CASE ~IsVirtual(ins.dst)
      BY <1>4, <3>2, Cells DEF CellOf
    <3> QED
      BY <3>1, <3>2
  <2> QED
    BY <1>6, <2>1, <2>2
<1>10. ASSUME NEW reg \in BaseRegister
       PROVE  physical'[BaseCell(reg)] =
                  IF WritesDestination(ins) /\ given = reg THEN Result(rewritten, physical)
                  ELSE IF BaseCell(reg) \in SideEffects(ins) THEN Garbage
                  ELSE physical[BaseCell(reg)]
  <2>1. BaseCell(reg) \in BaseCells /\ (BaseCell(given) = BaseCell(reg) <=> given = reg)
    BY Cells
  <2> QED
    BY <1>6, <2>1
<1> QED
  BY <1>7, <1>8, <1>9, <1>10 DEF rewritten, given

-----------------------------------------------------------------------------
(* A value that is wanted after the instruction: it has just been computed, *)
(* or neither its place nor its value has changed.                         *)
LEMMA WantedKept ==
    ASSUME IInv, ClassesOrdered, Rewritten, ValuesAgree, RewriteDst, ExecuteInstruction,
           clobbered' = {}, Linear(frame), NEW v \in VirtId, Wanted(v)'
    PROVE  Kept(v)'
<1> DEFINE rewritten == newInstructions'[idx]
           r == Rep(v)
<1>1. /\ pass = "rewrite" /\ stage = "dst" /\ idx \in DOMAIN frame /\ ins = frame[idx]
      /\ frame \in Seq(Instruction(VirtId)) /\ idx \in Nat /\ idx' = idx + 1
      /\ frame' = frame /\ remapped' = remapped
      /\ IsVirtual(ins.dst) => ins.dst \in VReg /\ ins.dst.id \in VirtId
      /\ IsHardcoded(ins.dst) => ~IsVirtual(ins.dst)
  BY FrameOperands DEF RewriteDst, IInv, TypeOK, ins, frame, analysis, IsHardcoded, IsVirtual
<1>2. clobbered = {} /\ Clobbers = {}
  BY DEF ExecuteInstruction
<1>3. Rep(v)' = r
  BY <1>1 DEF Rep, Coalesced
<1>4. PICK j \in (idx + 1)..Len(frame) :
          Reads(frame[j], v) /\ \A k \in (idx + 1)..(j - 1) : ~Sets(frame[k], v)
  BY <1>1 DEF Wanted
<1>5. j \in DOMAIN frame /\ idx < j /\ Occurs(frame[j], v)
  BY <1>1, <1>4, NamesRegister
<1>6. CASE Sets(ins, v)
  <2>1. IsVirtual(ins.dst) /\ ins.dst.id = v /\ WritesDestination(ins)
    BY <1>6 DEF Sets
  <2>2. mapping'[r] \in BaseRegister
    BY <2>1, RewrittenIns
  <2>3. physical'[BaseCell(mapping'[r])] = Result(rewritten, physical)
    BY <2>1, <2>2, ExecutedCells
  <2>4. virtual'[VirtCell(v)] = Result(ins, virtual)
    BY <1>6, ExecutedCells
  <2>5. Result(rewritten, physical) = Result(ins, virtual)
    BY <1>2, ResultsAgree
  <2>6. mapping'[r] # NoReg
    BY <2>2 DEF BaseRegister, NoReg
  <2> QED
    BY <1>3, <2>3, <2>4, <2>5, <2>6 DEF Kept
<1>7. CASE ~Sets(ins, v)
  <2>1. \A k \in idx..(j - 1) : ~Sets(frame[k], v)
    BY <1>1, <1>4, <1>7
  <2>2. Kept(v)
    <3>1. j \in idx..Len(frame)
      BY <1>1
    <3>2. Wanted(v)
      BY <1>4, <2>1, <3>1 DEF Wanted
    <3> QED
      BY <1>1, <1>2, <3>2 DEF ValuesAgree
  <2>3. /\ \E k \in DOMAIN frame : k < idx /\ Occurs(frame[k], v)
        /\ r \in VirtId /\ ~Coalesced(r)
        /\ firstUse[r] # NotFound
        /\ firstUse[r] < idx
        /\ j <= lastUse[r]
    BY <1>1, <1>4, <1>5, <2>1, WantedInInterval
  <2>4. idx < lastUse[r] /\ Live(r)
    <3>1. lastUse[r] \in Nat
      BY <2>3 DEF IInv, TypeOK
    <3> QED
      BY <1>1, <1>5, <2>3, <3>1 DEF Live
  <2>5. mapping'[r] = mapping[r] /\ mapping[r] \in BaseRegister /\ mapping[r] # NoReg
    <3>1. \E i \in DOMAIN GeneralRegs : mapping[r] = GeneralRegs[i]
      BY <1>1, <2>3 DEF IInv, Allocated, Rewriting
    <3>2. LiveStep
      BY RewriteDstInv
    <3> QED
      BY <2>3, <2>4, <3>1, <3>2, RegisterIndex DEF LiveStep
  <2>6. IsVirtual(ins.dst) /\ WritesDestination(ins) =>
            /\ Rep(ins.dst.id) # r
            /\ mapping'[Rep(ins.dst.id)] # mapping[r]
    <3> SUFFICES ASSUME IsVirtual(ins.dst), WritesDestination(ins)
                 PROVE  /\ Rep(ins.dst.id) # r
                        /\ mapping'[Rep(ins.dst.id)] # mapping[r]
      OBVIOUS
    <3>1. v # ins.dst.id
      BY <1>7 DEF Sets
    <3>2. Occurs(frame[idx], ins.dst.id)
      BY <1>1 DEF Occurs
    <3>3. Rep(ins.dst.id) # r
      BY <1>1, <1>5, <2>3, <3>1, <3>2, ClassNotNeeded DEF Analysed
    <3> QED
      BY <2>3, <2>4, <3>3, DestinationApart
  <2>7. ~(IsHardcoded(ins.dst) /\ ins.dst.reg = mapping[r])
    BY <1>1, <1>2, <2>3, <2>4 DEF Clobbers, LiveRegs
  <2>8. BaseCell(mapping[r]) \notin SideEffects(ins)
    <3>1. ASSUME BaseCell(mapping[r]) \in SideEffects(ins)
          PROVE  IsVirtual(ins.dst) /\ Rep(ins.dst.id) = r
      BY <1>1, <1>2, <2>3, <2>4, <3>1 DEF Clobbers, LiveRegs
    <3>2. ASSUME BaseCell(mapping[r]) \in SideEffects(ins), IsVirtual(ins.dst)
          PROVE  WritesDestination(ins)
      BY <3>2 DEF SideEffects, SetsAl, WritesDestination, IsRegister
    <3> QED
      BY <2>6, <3>1, <3>2
  <2>9. physical'[BaseCell(mapping[r])] = physical[BaseCell(mapping[r])]
    <3>1. WritesDestination(ins) /\ ~IsVirtual(ins.dst) => IsHardcoded(ins.dst)
      BY DEF WritesDestination, IsRegister
    <3> QED
      BY <2>5, <2>6, <2>7, <2>8, <3>1, ExecutedCells
  <2>10. virtual'[VirtCell(v)] = virtual[VirtCell(v)]
    BY <1>7, ExecutedCells
  <2> QED
    BY <1>3, <2>2, <2>5, <2>9, <2>10 DEF Kept
<1> QED
  BY <1>6, <1>7

(* Nobody else writes the registers of the parameters.                     *)
LEMMA ParametersKept ==
    ASSUME IInv, Rewritten, ValuesAgree, RewriteDst, ExecuteInstruction,
           clobbered' = {}, Linear(frame), NEW reg \in BaseRegister, IsParamReg(reg)
    PROVE  Agree(reg)'
<1> DEFINE rewritten == newInstructions'[idx]
<1>1. /\ pass = "rewrite" /\ clobbered = {}
      /\ ins \in Instruction(VirtId)
      /\ IsVirtual(ins.dst) => ins.dst \in VReg
      /\ IsHardcoded(ins.dst) => ~IsVirtual(ins.dst)
  BY FrameOperands DEF RewriteDst, IInv, TypeOK, ins, ExecuteInstruction, IsHardcoded,
     IsVirtual
<1>2. Agree(reg)
  BY <1>1 DEF ValuesAgree
<1>3. \A i \in DOMAIN GeneralRegs : GeneralRegs[i] # reg
  BY DisjointRegsAssumption
<1>4. IsVirtual(ins.dst) => mapping'[Rep(ins.dst.id)] # reg
  <2> SUFFICES ASSUME IsVirtual(ins.dst) PROVE mapping'[Rep(ins.dst.id)] # reg
    OBVIOUS
  <2>1. process_register(ins.dst) /\ Representative(ins.dst).id = Rep(ins.dst.id)
        /\ Rep(ins.dst.id) \in VirtId
    BY <1>1, RepresentativeType DEF RewriteDst, IInv
  <2>2. CASE NeedsRegister(Rep(ins.dst.id))
    BY <1>3, <2>1, <2>2 DEF process_register, IInv, TypeOK, FreeIndices
  <2>3. CASE ~NeedsRegister(Rep(ins.dst.id))
    <3>1. /\ ~Coalesced(Rep(ins.dst.id)) /\ firstUse[Rep(ins.dst.id)] # NotFound
          /\ firstUse[Rep(ins.dst.id)] < idx
      <4>1. /\ idx \in DOMAIN frame /\ Occurs(frame[idx], ins.dst.id) /\ idx \in Nat
            /\ ins.dst.id \in VirtId /\ firstUse \in [VirtId -> Nat]
        BY <1>1, FrameOperands DEF RewriteDst, IInv, TypeOK, ins, Occurs
      <4> QED
        BY <1>1, <2>1, <2>3, <4>1, UseInInterval DEF NeedsRegister
    <3>2. \E i \in DOMAIN GeneralRegs : mapping[Rep(ins.dst.id)] = GeneralRegs[i]
      BY <1>1, <2>1, <3>1 DEF IInv, Allocated, Rewriting
    <3>3. mapping' = mapping
      BY <2>1, <2>3 DEF process_register
    <3> QED
      BY <1>3, <3>2, <3>3
  <2> QED
    BY <2>2, <2>3
<1>5. BaseCell(reg) \notin SideEffects(ins)
  <2>1. \A i \in DOMAIN GeneralRegs : BaseCell(reg) # BaseCell(GeneralRegs[i])
    BY <1>3, Cells
  <2>2. BaseCell(reg) # BaseCell("AX")
    BY Cells DEF IsParamReg, param_regs
  <2> QED
    BY <2>1, <2>2 DEF SideEffects
<1>6. WritesDestination(ins) /\ ~IsVirtual(ins.dst) => IsHardcoded(ins.dst)
  BY DEF WritesDestination, IsRegister
<1>7. Result(rewritten, physical) = Result(ins, virtual)
  BY <1>1, ResultsAgree
<1>8. CASE WritesDestination(ins) /\ IsHardcoded(ins.dst) /\ ins.dst.reg = reg
  BY <1>1, <1>7, <1>8, ExecutedCells DEF Agree
<1>9. CASE ~(WritesDestination(ins) /\ IsHardcoded(ins.dst) /\ ins.dst.reg = reg)
  <2>1. virtual'[BaseCell(reg)] = virtual[BaseCell(reg)]
    BY <1>9, ExecutedCells
  <2>2. physical'[BaseCell(reg)] = physical[BaseCell(reg)]
    BY <1>1, <1>4, <1>5, <1>6, <1>9, ExecutedCells
  <2> QED
    BY <1>2, <2>1, <2>2 DEF Agree
<1> QED
  BY <1>8, <1>9

(* The result of a call is in the register it names.                       *)
LEMMA CallResult ==
    ASSUME IInv, Rewritten, ValuesAgree, RewriteDst, ExecuteInstruction,
           clobbered' = {}, Linear(frame), ins.op = "Call", IsHardcoded(ins.dst)
    PROVE  physical'[BaseCell(ins.dst.reg)] = virtual'[BaseCell(ins.dst.reg)]
<1>1. /\ pass = "rewrite" /\ clobbered = {} /\ ins \in Instruction(VirtId)
  BY FrameOperands DEF RewriteDst, IInv, TypeOK, ins, ExecuteInstruction
<1>2. /\ WritesDestination(ins) /\ ~IsVirtual(ins.dst)
      /\ ins.dst.reg \in BaseRegister
  BY <1>1, MovOperands DEF WritesDestination, IsRegister, IsVirtual, IsHardcoded
<1>3. Result(newInstructions'[idx], physical) = Result(ins, virtual)
  BY <1>1, ResultsAgree
<1> QED
  BY <1>2, <1>3, ExecutedCells

LEMMA ValuesDst ==
    ASSUME IInv, ClassesOrdered, Rewritten, ValuesAgree, RewriteDst, ExecuteInstruction
    PROVE  ValuesAgree'
<1>1. /\ pass' = "rewrite" /\ idx' = idx + 1 /\ idx \in Nat /\ frame' = frame
      /\ idx \in DOMAIN frame /\ ins = frame[idx]
  BY FrameOperands DEF RewriteDst, IInv, TypeOK, ins, frame
<1>2. virtual' \in [BaseCells \cup VirtCells -> Int] /\ physical' \in [BaseCells -> Int]
  BY ExecutedCells
<1>3. ASSUME clobbered' = {}, Linear(frame)
      PROVE  /\ \A v \in VirtId : Wanted(v)' => Kept(v)'
             /\ \A reg \in BaseRegister : IsParamReg(reg) => Agree(reg)'
             /\ ins.op = "Call" /\ IsHardcoded(ins.dst) =>
                    physical'[BaseCell(ins.dst.reg)] = virtual'[BaseCell(ins.dst.reg)]
  BY <1>3, WantedKept, ParametersKept, CallResult
<1>4. (idx + 1) - 1 = idx
  BY <1>1
<1> QED
  BY <1>1, <1>2, <1>3, <1>4 DEF ValuesAgree, Agree

(* The machines stand still while the source of an instruction is rewritten, *)
(* and so does the mapping.                                                *)
LEMMA ValuesSrc ==
    ASSUME IInv, ValuesAgree, RewriteSrc, UNCHANGED valueVars
    PROVE  ValuesAgree'
<1>1. /\ pass = "rewrite" /\ pass' = "rewrite" /\ idx' = idx /\ frame' = frame
      /\ remapped' = remapped
      /\ virtual' = virtual /\ physical' = physical /\ clobbered' = clobbered
  BY DEF RewriteSrc, frame, analysis, valueVars
<1>2. mapping' = mapping
  <2>1. CASE IsVirtual(ins.src)
    <3>1. /\ ins.src \in VReg /\ idx \in DOMAIN frame
          /\ Representative(ins.src).id = Rep(ins.src.id)
      BY <1>1, <2>1, FrameOperands, RepresentativeType DEF RewriteSrc, ins, IInv
    <3>2. ~NeedsRegister(Rep(ins.src.id))
      BY <1>1, <2>1, <3>1, SourceHasRegister
    <3> QED
      BY <2>1, <3>1, <3>2 DEF RewriteSrc, process_register
  <2>2. CASE ~IsVirtual(ins.src)
    BY <2>2 DEF RewriteSrc
  <2> QED
    BY <2>1, <2>2
<1> QED
  BY <1>1, <1>2 DEF ValuesAgree, Wanted, Kept, Agree, Rep, Coalesced

(* At the start of the rewriting nothing is wanted that is not set before.  *)
LEMMA ValuesStart ==
    ASSUME IInv, ValuesAgree, MergeDone, UNCHANGED valueVars
    PROVE  ValuesAgree'
<1>1. /\ pass = "merge" /\ pass' = "rewrite" /\ idx = 1 /\ idx' = 1 /\ frame' = frame
      /\ virtual' = virtual /\ physical' = physical /\ clobbered' = clobbered
      /\ virtual = EntryCells(BaseCells \cup VirtCells) /\ physical = EntryCells(BaseCells)
      /\ frame \in Seq(Instruction(VirtId))
  BY FrameOperands DEF MergeDone, frame, valueVars, ValuesAgree, IInv, Allocated
<1>2. Linear(frame) => \A v \in VirtId : ~Wanted(v)'
  <2> SUFFICES ASSUME Linear(frame), NEW v \in VirtId, Wanted(v)' PROVE FALSE
    OBVIOUS
  <2>1. PICK j \in 1..Len(frame) :
            Reads(frame[j], v) /\ \A k \in 1..(j - 1) : ~Sets(frame[k], v)
    BY <1>1 DEF Wanted
  <2>2. j \in DOMAIN frame /\ v \in VirtualIds(frame)
    BY <1>1, <2>1, NamesRegister, VirtualIdsOccur
  <2> QED
    BY <2>1, <2>2 DEF Linear
<1>3. \A reg \in BaseRegister : Agree(reg)'
  BY <1>1, Cells DEF Agree, EntryCells
<1>4. virtual' \in [BaseCells \cup VirtCells -> Int] /\ physical' \in [BaseCells -> Int]
  BY <1>1 DEF ValuesAgree
<1>5. ~(idx' > 1) /\ pass' \notin {"getFirstUse", "remap", "merge"}
  BY <1>1
<1> QED
  BY <1>1, <1>2, <1>3, <1>4, <1>5, Zenon DEF ValuesAgree

LEMMA ValuesInit == InitValues => ValuesInv
<1> SUFFICES ASSUME InitValues PROVE ValuesInv
  OBVIOUS
<1>1. /\ Init /\ IInv
      /\ pass \in {"getFirstUse", "done"} /\ newInstructions = << >> /\ newFrames = << >>
      /\ virtual = EntryCells(BaseCells \cup VirtCells) /\ physical = EntryCells(BaseCells)
  BY InitInv DEF InitValues, Init, Start, FirstPass
<1> QED
  BY <1>1 DEF ValuesInv, SeenBefore, ClassesOrdered, Analysed, Rewritten, ValuesAgree,
     EntryCells

LEMMA ValuesNext == ValuesInv /\ [NextValues]_allVars => ValuesInv'
<1> SUFFICES ASSUME ValuesInv, [NextValues]_allVars PROVE ValuesInv'
  OBVIOUS
<1> USE DEF ValuesInv
<1>1. [Next]_vars
  BY ValuesStep
<1>2. IInv' /\ SeenBefore' /\ ClassesOrdered' /\ Rewritten'
  BY <1>1, NextInv, ClassesInv, RewrittenInv
<1>3. ValuesAgree'
  <2>1. CASE RewriteDst /\ ExecuteInstruction
    BY <2>1, ValuesDst
  <2>2. CASE NextFrame /\ virtual' = EntryCells(BaseCells \cup VirtCells)
                       /\ physical' = EntryCells(BaseCells)
    BY <2>2 DEF NextFrame, AfterFrame, ValuesAgree, EntryCells
  <2>3. CASE RewriteSrc /\ UNCHANGED valueVars
    BY <2>3, ValuesSrc
  <2>4. CASE MergeDone /\ UNCHANGED valueVars
    BY <2>4, ValuesStart
  <2>5. CASE /\ \/ FindUses \/ NextPass("getFirstUse", "remap") \/ Remap
                \/ NextPass("remap", "merge") \/ Merge \/ Throw
             /\ UNCHANGED valueVars
    BY <2>5 DEF FindUses, NextPass, Remap, Merge, Throw, valueVars, ValuesAgree
  <2>6. CASE UNCHANGED allVars
    BY <2>6 DEF allVars, vars, valueVars, analysis, context, ValuesAgree, Wanted, Kept,
                Agree, Rep, Coalesced, frame
  <2> QED
    BY <2>1, <2>2, <2>3, <2>4, <2>5, <2>6 DEF NextValues
<1> QED
  BY <1>2, <1>3

-----------------------------------------------------------------------------
(* src/allocator.cpp:62-143: whatever linear frame is lowered and however    *)
(* many registers there are, as long as no call or setcc has hit a live      *)
(* value every virtual register that is still to be read has its value in    *)
(* the register its class was given, through coalescing and reuse.           *)
THEOREM ValuesKeptCorrect == SpecValues => []ValuesKept
<1>1. ValuesInv => ValuesKept
  BY DEF ValuesInv, ValuesAgree, ValuesKept, Kept
<1>2. SpecValues => []ValuesInv
  BY ValuesInit, ValuesNext, PTL DEF SpecValues, allVars
<1> QED
  BY <1>1, <1>2, PTL

(* src/allocator.cpp:109-143: no virtual register is left in a frame that    *)
(* has been rewritten, and every operand is still what its instruction takes. *)
THEOREM NoVirtualRegisterLeft ==
    Spec => [](newFrames \in Seq(Seq(Instruction({}))))
<1>1. Init => Rewritten
  BY DEF Init, Start, FirstPass, Rewritten
<1>2. Rewritten => newFrames \in Seq(Seq(Instruction({})))
  BY DEF Rewritten
<1>3. IInv /\ Rewritten /\ [Next]_vars => Rewritten'
  BY RewrittenInv
<1>4. Spec => []Rewritten
  BY <1>1, <1>3, Invariant, PTL DEF Spec
<1> QED
  BY <1>2, <1>4, PTL
=============================================================================
