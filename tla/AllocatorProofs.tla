-------------------------- MODULE AllocatorProofs --------------------------
(***************************************************************************)
(* Proofs about the register allocator, for every program of well-formed    *)
(* frames, every set of virtual registers and every list of general         *)
(* registers.                                                              *)
(*                                                                         *)
(* The safety of the rewriting rests on what the three analysis passes      *)
(* leave behind, so the inductive invariant has a part for each:            *)
(*                                                                         *)
(*   UsesFound     the interval of a register covers its uses and begins    *)
(*                 and ends at one;                                        *)
(*   Coalescing    a representative is never coalesced itself;              *)
(*   Widened       the interval of a representative covers the uses of its  *)
(*                 whole class and begins and ends at one;                  *)
(*   Allocated     while rewriting, a value has a register from its first   *)
(*                 use on, live values have different ones, and usedRegs is  *)
(*                 exactly those.                                          *)
(***************************************************************************)
EXTENDS Allocator, TLAPS

Rewriting == pass \in {"rewrite", "throw"}

(* Intervals and uses of the registers themselves, in the first n          *)
(* instructions.                                                           *)
UsesUpTo(n) ==
    /\ \A v \in VirtId : \A j \in DOMAIN frame :
           j <= n /\ Occurs(frame[j], v) =>
               firstUse[v] # NotFound /\ firstUse[v] <= j /\ j <= lastUse[v]
    /\ \A v \in VirtId :
           firstUse[v] # NotFound =>
               /\ firstUse[v] \in DOMAIN frame
               /\ firstUse[v] <= n
               /\ Occurs(frame[firstUse[v]], v)
               /\ lastUse[v] \in DOMAIN frame
               /\ lastUse[v] <= n
               /\ Occurs(frame[lastUse[v]], v)

UsesFound ==
    /\ pass = "getFirstUse" => UsesUpTo(idx - 1) /\ idx <= Len(frame) + 1
    /\ pass = "remap" => UsesUpTo(Len(frame)) /\ idx <= Len(frame) + 1

Coalescing ==
    /\ pass = "getFirstUse" =>
           newFirstUsed = {} /\ (\A v \in VirtId : ~Coalesced(v))
    /\ pass \in {"getFirstUse", "remap"} => merged = {}
    /\ pass \in {"remap", "merge", "rewrite", "throw"} =>
           /\ \A v \in newFirstUsed : firstUse[v] # NotFound
           /\ \A v \in VirtId :
                  Coalesced(v) =>
                      /\ Rep(v) \in newFirstUsed
                      /\ ~Coalesced(Rep(v))
                      /\ firstUse[v] # NotFound

(* A use of the class of v.                                                *)
ClassUse(v, j) ==
    /\ j \in DOMAIN frame
    /\ \E w \in VirtId : Rep(w) = Rep(v) /\ Occurs(frame[j], w)

Covers(r, v) == firstUse[r] <= firstUse[v] /\ lastUse[v] <= lastUse[r]

Widened ==
    pass \in {"merge", "rewrite", "throw"} =>
        /\ \A v \in VirtId : \A j \in DOMAIN frame :
               Occurs(frame[j], v) =>
                   firstUse[v] # NotFound /\ firstUse[v] <= j /\ j <= lastUse[v]
        /\ \A v \in VirtId :
               firstUse[v] # NotFound =>
                   ClassUse(v, firstUse[v]) /\ ClassUse(v, lastUse[v])
        /\ \A v \in merged : Coalesced(v) /\ Covers(Rep(v), v)
        /\ Rewriting => \A v \in VirtId : Coalesced(v) => Covers(Rep(v), v)

Allocated ==
    /\ pass \in {"getFirstUse", "remap", "merge"} => usedRegs = {}
    /\ pass = "merge" => idx = 1
    /\ Rewriting =>
           /\ idx <= Len(frame) + 1
           /\ \A v \in VirtId :
                  ~Coalesced(v) /\ firstUse[v] # NotFound /\ firstUse[v] < idx =>
                      \E i \in DOMAIN GeneralRegs : mapping[v] = GeneralRegs[i]
           /\ NoInterference
           /\ usedRegs = {i \in DOMAIN GeneralRegs :
                            \E v \in VirtId : Live(v) /\ mapping[v] = GeneralRegs[i]}
           /\ stage = "dst" /\ IsVirtual(ins.src) =>
                  \A v \in VirtId :
                      Live(v) /\ v # Rep(ins.src.id) =>
                          mapping[v] # mapping[Rep(ins.src.id)]

IInv ==
    /\ frames \in Programs
    /\ TypeOK
    /\ UsesFound
    /\ Coalescing
    /\ Widened
    /\ Allocated

(* What a step may do to the live values: at most one of them starts or    *)
(* stops being live; one that was live keeps its register, one that was not *)
(* takes a free one.                                                       *)
LiveStep ==
    /\ \A v \in VirtId : Live(v) => mapping'[v] = mapping[v]
    /\ \A v \in VirtId : Live(v)' /\ ~Live(v) =>
           \E i \in FreeIndices : mapping'[v] = GeneralRegs[i]
    /\ \A v, w \in VirtId :
           ~(Live(v)' <=> Live(v)) /\ ~(Live(w)' <=> Live(w)) => v = w

-----------------------------------------------------------------------------
(* What the assumption on Programs says of the frame being rewritten.      *)
LEMMA FrameType ==
    ASSUME frames \in Programs, fi \in DOMAIN frames
    PROVE  frame \in Seq(Instruction(VirtId)) /\ WellFormed(frame)
<1>1. frames \in Seq(Seq(Instruction(VirtId)))
  BY ProgramsAssumption
<1>2. frames[fi] \in Seq(Instruction(VirtId))
  BY <1>1
<1>3. WellFormed(frames[fi])
  BY ProgramsAssumption
<1> QED
  BY <1>2, <1>3 DEF frame

LEMMA VirtualOperand ==
    ASSUME NEW o, IsVirtual(o),
           \/ o \in Register(VirtId) \cup StackLocations
           \/ o \in Immediates \cup LabelNames \cup {NoOperand}
    PROVE  o \in VReg /\ o.id \in VirtId
BY DEF Register, HardRegisters, StackLocations, Immediates, LabelNames, NoOperand,
       IsVirtual, VReg

LEMMA OperandTypes ==
    ASSUME frame \in Seq(Instruction(VirtId)), NEW i \in DOMAIN frame
    PROVE  /\ IsVirtual(frame[i].src) => frame[i].src \in VReg /\ frame[i].src.id \in VirtId
           /\ IsVirtual(frame[i].dst) => frame[i].dst \in VReg /\ frame[i].dst.id \in VirtId
<1>1. frame[i] \in Instruction(VirtId)
  OBVIOUS
<1>2. /\ \/ frame[i].src \in Register(VirtId) \cup StackLocations
         \/ frame[i].src \in Immediates \cup LabelNames \cup {NoOperand}
      /\ \/ frame[i].dst \in Register(VirtId) \cup StackLocations
         \/ frame[i].dst \in Immediates \cup LabelNames \cup {NoOperand}
  BY <1>1 DEF Instruction
<1> QED
  BY <1>2, VirtualOperand

LEMMA CoalescedType ==
    ASSUME TypeOK, NEW v \in VirtId
    PROVE  /\ Coalesced(v) => remapped[v] \in VReg
           /\ Rep(v) \in VirtId
BY DEF TypeOK, Coalesced, Rep, VReg

LEMMA RepresentativeType ==
    ASSUME TypeOK, NEW reg \in VReg
    PROVE  /\ Representative(reg) \in VReg
           /\ Representative(reg).id = Rep(reg.id)
           /\ Rep(reg.id) \in VirtId
BY DEF TypeOK, Coalesced, Rep, Representative, VReg

-----------------------------------------------------------------------------
(* The initial states.                                                     *)
LEMMA InitInv == Init => IInv
<1> SUFFICES ASSUME Init PROVE IInv
  OBVIOUS
<1>1. frames \in Seq(Seq(Instruction(VirtId)))
  BY ProgramsAssumption DEF Init, Start, FirstPass
<1>2. pass # "done" => fi \in DOMAIN frames /\ frame \in Seq(Instruction(VirtId))
  BY <1>1 DEF Init, Start, FirstPass, frame
<1>3. \A v \in VirtId : ~Coalesced(v)
  BY DEF Init, Start, FirstPass, EmptyMap, Coalesced
<1>4. TypeOK
  BY <1>2, VirtIdAssumption DEF Init, Start, FirstPass, TypeOK, EmptyUses, EmptyMap, EmptyMapping, NotFound
<1>5. UsesFound
  BY <1>2 DEF Init, Start, FirstPass, UsesFound, UsesUpTo, EmptyUses, NotFound
<1>6. Coalescing
  BY <1>3 DEF Init, Start, FirstPass, Coalescing
<1>7. Widened
  BY DEF Init, Start, FirstPass, Widened, Rewriting
<1>8. Allocated
  BY DEF Init, Start, FirstPass, Allocated, Rewriting
<1> QED
  BY <1>4, <1>5, <1>6, <1>7, <1>8 DEF Init, Start, FirstPass, IInv

-----------------------------------------------------------------------------
(* One lemma for each action.                                              *)
LEMMA FindUsesInv == IInv /\ FindUses => IInv'
<1> SUFFICES ASSUME IInv, FindUses PROVE IInv'
  OBVIOUS
<1> USE DEF IInv
<1>1. /\ frame \in Seq(Instruction(VirtId))
      /\ frame' = frame
      /\ frame[idx] = ins
  BY FrameType DEF FindUses, frame, ins, TypeOK
<1>2. TypeOK'
  BY <1>1 DEF TypeOK, FindUses, context
<1>3. UsesFound'
  <2>1. idx' - 1 = idx /\ idx' <= Len(frame) + 1
    BY <1>1 DEF FindUses, TypeOK
  <2>2. UsesUpTo(idx - 1)
    BY DEF FindUses, UsesFound
  <2>3. ASSUME NEW v \in VirtId, NEW j \in DOMAIN frame, j <= idx, Occurs(frame[j], v)
        PROVE  firstUse'[v] # NotFound /\ firstUse'[v] <= j /\ j <= lastUse'[v]
    BY <1>1, <2>2, <2>3 DEF FindUses, UsesUpTo, TypeOK, NotFound
  <2>4. ASSUME NEW v \in VirtId, firstUse'[v] # NotFound
        PROVE  /\ firstUse'[v] \in DOMAIN frame
               /\ firstUse'[v] <= idx
               /\ Occurs(frame[firstUse'[v]], v)
               /\ lastUse'[v] \in DOMAIN frame
               /\ lastUse'[v] <= idx
               /\ Occurs(frame[lastUse'[v]], v)
    BY <1>1, <2>2, <2>4 DEF FindUses, UsesUpTo, TypeOK, NotFound
  <2>5. UsesUpTo(idx - 1)'
    BY <1>1, <2>1, <2>3, <2>4 DEF UsesUpTo, NotFound
  <2> QED
    BY <1>1, <2>1, <2>5 DEF UsesFound, FindUses
<1>4. Coalescing'
  BY DEF Coalescing, FindUses, Coalesced
<1>5. Widened'
  BY DEF Widened, FindUses, Rewriting
<1>6. Allocated'
  BY DEF Allocated, FindUses, Rewriting, context
<1> QED
  BY <1>2, <1>3, <1>4, <1>5, <1>6 DEF FindUses

LEMMA ToRemapInv == IInv /\ NextPass("getFirstUse", "remap") => IInv'
<1> SUFFICES ASSUME IInv, NextPass("getFirstUse", "remap") PROVE IInv'
  OBVIOUS
<1> USE DEF IInv
<1>1. /\ frame \in Seq(Instruction(VirtId))
      /\ frame' = frame
  BY FrameType DEF NextPass, frame, TypeOK
<1>2. idx = Len(frame) + 1
  BY <1>1 DEF NextPass, UsesFound, TypeOK
<1>3. TypeOK'
  BY <1>1 DEF TypeOK, NextPass, analysis, context
<1>4. UsesFound'
  <2>1. UsesUpTo(Len(frame))
    BY <1>1, <1>2 DEF NextPass, UsesFound
  <2>2. UsesUpTo(Len(frame))'
    BY <1>1, <2>1 DEF NextPass, analysis, UsesUpTo
  <2> QED
    BY <1>1, <1>2, <2>2 DEF UsesFound, NextPass, TypeOK
<1>5. Coalescing'
  BY DEF Coalescing, NextPass, analysis, Coalesced
<1>6. Widened'
  BY DEF Widened, NextPass, Rewriting
<1>7. Allocated'
  BY DEF Allocated, NextPass, Rewriting, context
<1> QED
  BY <1>3, <1>4, <1>5, <1>6, <1>7 DEF NextPass

LEMMA RemapInv == IInv /\ Remap => IInv'
<1> SUFFICES ASSUME IInv, Remap PROVE IInv'
  OBVIOUS
<1> USE DEF IInv
<1>1. /\ frame \in Seq(Instruction(VirtId))
      /\ frame' = frame
      /\ frame[idx] = ins
      /\ idx \in DOMAIN frame
  BY FrameType DEF Remap, frame, ins, TypeOK
<1>2. /\ IsVirtual(ins.src) => ins.src \in VReg /\ ins.src.id \in VirtId
      /\ IsVirtual(ins.dst) => ins.dst.id \in VirtId
  BY <1>1, OperandTypes
<1>3. IsVirtual(ins.src) =>
         /\ Representative(ins.src) \in VReg
         /\ Representative(ins.src).id = Rep(ins.src.id)
         /\ Rep(ins.src.id) \in VirtId
  BY <1>2, RepresentativeType
<1>4. TypeOK'
  BY <1>1, <1>2, <1>3 DEF TypeOK, Remap, SourcesSeen, Coalesces, context
<1>5. UsesFound'
  BY <1>1 DEF UsesFound, UsesUpTo, Remap, TypeOK
<1>6. \A v \in SourcesSeen : firstUse[v] # NotFound
  BY <1>1, <1>2 DEF SourcesSeen, Coalescing, UsesFound, UsesUpTo, Remap, Occurs
<1>7. Coalescing'
  <2>1. SUFFICES ASSUME NEW v \in VirtId, Coalesced(v)'
                 PROVE  /\ Rep(v)' \in SourcesSeen
                        /\ ~Coalesced(Rep(v))'
                        /\ firstUse[v] # NotFound
    BY <1>6 DEF Coalescing, Remap
  <2>2. CASE Coalesces /\ v = ins.dst.id
    <3>1. remapped'[v] = Representative(ins.src)
      BY <2>2, <1>2 DEF Remap, Coalesces, TypeOK
    <3>2. Rep(v)' = Rep(ins.src.id)
      BY <2>1, <3>1, <1>3, <2>2 DEF Rep, Coalesces
    <3>3. Rep(ins.src.id) \in SourcesSeen /\ ~Coalesced(Rep(ins.src.id))
      BY <1>2, <2>2 DEF Coalescing, Remap, SourcesSeen, Coalesces, Rep
    <3>4. Rep(ins.src.id) # ins.dst.id
      BY <3>3, <2>2 DEF Coalesces
    <3>5. ~Coalesced(Rep(v))'
      BY <3>2, <3>3, <3>4, <1>2, <1>3, <2>2 DEF Coalesced, Remap, Coalesces, TypeOK
    <3>6. firstUse[v] # NotFound
      BY <1>1, <2>2 DEF UsesFound, UsesUpTo, Remap, Occurs, Coalesces
    <3> QED
      BY <3>2, <3>3, <3>5, <3>6
  <2>3. CASE ~(Coalesces /\ v = ins.dst.id)
    <3>1. remapped'[v] = remapped[v]
      BY <2>3, <1>2 DEF Remap, Coalesces, TypeOK
    <3>2. Coalesced(v) /\ Rep(v)' = Rep(v)
      BY <2>1, <3>1 DEF Coalesced, Rep
    <3>3. Rep(v) \in newFirstUsed /\ ~Coalesced(Rep(v)) /\ firstUse[v] # NotFound
      BY <3>2 DEF Coalescing, Remap
    <3>4. Rep(v) \in SourcesSeen /\ Rep(v) \in VirtId
      BY <3>3 DEF SourcesSeen, TypeOK
    <3>5. remapped'[Rep(v)] = remapped[Rep(v)]
      BY <3>4, <1>2 DEF Remap, Coalesces, TypeOK
    <3> QED
      BY <3>2, <3>3, <3>4, <3>5 DEF Coalesced
  <2> QED
    BY <2>2, <2>3
<1>8. Widened'
  BY DEF Widened, Remap, Rewriting
<1>9. Allocated'
  BY DEF Allocated, Remap, Rewriting, context
<1> QED
  BY <1>4, <1>5, <1>7, <1>8, <1>9 DEF Remap

LEMMA ToMergeInv == IInv /\ NextPass("remap", "merge") => IInv'
<1> SUFFICES ASSUME IInv, NextPass("remap", "merge") PROVE IInv'
  OBVIOUS
<1> USE DEF IInv
<1>1. /\ frame \in Seq(Instruction(VirtId))
      /\ frame' = frame
  BY FrameType DEF NextPass, frame, TypeOK
<1>2. TypeOK'
  BY <1>1 DEF TypeOK, NextPass, analysis, context
<1>3. UsesFound'
  BY DEF UsesFound, NextPass
<1>4. Coalescing'
  BY DEF Coalescing, NextPass, analysis, Coalesced, Rep
<1>5. UsesUpTo(Len(frame))
  BY DEF NextPass, UsesFound
<1>6. \A j \in DOMAIN frame : j <= Len(frame)
  BY <1>1
<1>7. Widened'
  <2>1. \A v \in VirtId : \A j \in DOMAIN frame :
           Occurs(frame[j], v) =>
               firstUse[v] # NotFound /\ firstUse[v] <= j /\ j <= lastUse[v]
    BY <1>5, <1>6 DEF UsesUpTo
  <2>2. \A v \in VirtId :
           firstUse[v] # NotFound =>
               ClassUse(v, firstUse[v]) /\ ClassUse(v, lastUse[v])
    BY <1>5 DEF UsesUpTo, ClassUse
  <2>3. merged = {} /\ merged' = {}
    BY DEF Coalescing, NextPass, analysis
  <2>4. firstUse' = firstUse /\ lastUse' = lastUse /\ remapped' = remapped
    BY DEF NextPass, analysis
  <2>5. \A v \in VirtId, j \in DOMAIN frame : ClassUse(v, j)' <=> ClassUse(v, j)
    BY <1>1, <2>4 DEF ClassUse, Rep, Coalesced
  <2>6. \A v \in VirtId :
           firstUse[v] # NotFound =>
               firstUse[v] \in DOMAIN frame /\ lastUse[v] \in DOMAIN frame
    BY <2>2 DEF ClassUse
  <2>7. \A v \in VirtId :
           firstUse'[v] # NotFound =>
               ClassUse(v, firstUse[v])' /\ ClassUse(v, lastUse[v])'
    BY <2>2, <2>4, <2>5, <2>6, <1>1 DEF ClassUse, Rep, Coalesced
  <2> QED
    BY <1>1, <2>1, <2>3, <2>4, <2>7 DEF Widened, NextPass, Rewriting
<1>8. Allocated'
  BY DEF Allocated, NextPass, Rewriting, context
<1> QED
  BY <1>2, <1>3, <1>4, <1>7, <1>8 DEF NextPass

LEMMA MergeInv == IInv /\ Merge => IInv'
<1> SUFFICES ASSUME IInv, Merge PROVE IInv'
  OBVIOUS
<1> USE DEF IInv
<1>1. /\ frame \in Seq(Instruction(VirtId))
      /\ frame' = frame
  BY FrameType DEF Merge, frame, TypeOK
<1>2. PICK prev \in Unmerged :
         /\ firstUse' = [firstUse EXCEPT ![Rep(prev)] =
                IF firstUse[prev] < @ THEN firstUse[prev] ELSE @]
         /\ lastUse' = [lastUse EXCEPT ![Rep(prev)] =
                IF lastUse[prev] > @ THEN lastUse[prev] ELSE @]
         /\ merged' = merged \cup {prev}
  BY DEF Merge
<1> DEFINE r == Rep(prev)
<1>3. /\ prev \in VirtId /\ Coalesced(prev)
      /\ r \in VirtId /\ ~Coalesced(r) /\ r # prev
      /\ Rep(r) = r
      /\ firstUse[prev] # NotFound /\ firstUse[r] # NotFound
  BY CoalescedType DEF Unmerged, Coalescing, Merge, Rep
<1>4. /\ firstUse \in [VirtId -> Nat] /\ lastUse \in [VirtId -> Nat]
      /\ remapped' = remapped /\ newFirstUsed' = newFirstUsed
  BY DEF TypeOK, Merge
<1>5. /\ firstUse'[r] \in {firstUse[r], firstUse[prev]}
      /\ firstUse'[r] <= firstUse[r] /\ firstUse'[r] <= firstUse[prev]
      /\ lastUse'[r] \in {lastUse[r], lastUse[prev]}
      /\ lastUse'[r] >= lastUse[r] /\ lastUse'[r] >= lastUse[prev]
  BY <1>2, <1>3, <1>4
<1>6. \A v \in VirtId : v # r => firstUse'[v] = firstUse[v] /\ lastUse'[v] = lastUse[v]
  BY <1>2, <1>3, <1>4
<1>7. firstUse' \in [VirtId -> Nat] /\ lastUse' \in [VirtId -> Nat]
  BY <1>2, <1>3, <1>4
<1>8. \A v \in VirtId : /\ Coalesced(v)' <=> Coalesced(v)
                        /\ Rep(v)' = Rep(v)
  BY <1>4 DEF Coalesced, Rep
<1>9. TypeOK'
  BY <1>1, <1>2, <1>3, <1>7 DEF TypeOK, Merge, context
<1>10. UsesFound'
  BY DEF UsesFound, Merge
<1>11. \A v \in VirtId : firstUse[v] # NotFound => firstUse'[v] # NotFound
  BY <1>3, <1>5, <1>6
<1>12. Coalescing'
  <2>1. /\ \A v \in newFirstUsed : firstUse[v] # NotFound
        /\ \A v \in VirtId :
               Coalesced(v) =>
                   /\ Rep(v) \in newFirstUsed
                   /\ ~Coalesced(Rep(v))
                   /\ firstUse[v] # NotFound
    BY DEF Coalescing, Merge
  <2>2. newFirstUsed \subseteq VirtId
    BY DEF TypeOK
  <2>3. pass' = "merge"
    BY DEF Merge
  <2>4. \A v \in VirtId : Coalesced(v) => Coalesced(Rep(v))' = Coalesced(Rep(v))
    BY <1>4 DEF Coalesced, Rep
  <2> QED
    BY <1>4, <1>8, <1>11, <2>1, <2>2, <2>3, <2>4 DEF Coalescing
<1>13. Widened'
  <2>1. /\ \A v \in VirtId : \A j \in DOMAIN frame :
               Occurs(frame[j], v) =>
                   firstUse[v] # NotFound /\ firstUse[v] <= j /\ j <= lastUse[v]
        /\ \A v \in VirtId :
               firstUse[v] # NotFound =>
                   ClassUse(v, firstUse[v]) /\ ClassUse(v, lastUse[v])
        /\ \A v \in merged : Coalesced(v) /\ Covers(Rep(v), v)
    BY DEF Widened, Merge
  <2>2. \A j : j \in DOMAIN frame => j \in Nat
    BY <1>1
  <2>3. ASSUME NEW v \in VirtId, NEW j \in DOMAIN frame, Occurs(frame[j], v)
        PROVE  firstUse'[v] # NotFound /\ firstUse'[v] <= j /\ j <= lastUse'[v]
    <3>1. firstUse[v] # NotFound /\ firstUse[v] <= j /\ j <= lastUse[v]
      BY <2>1, <2>3
    <3>2. firstUse'[v] # NotFound
      BY <3>1, <1>11
    <3>3. firstUse'[v] <= firstUse[v] /\ lastUse[v] <= lastUse'[v]
      BY <1>3, <1>4, <1>5, <1>6
    <3> QED
      BY <3>1, <3>2, <3>3, <2>2, <1>4, <1>7
  <2>4. \A v \in VirtId, j \in Nat : ClassUse(v, j)' <=> ClassUse(v, j)
    BY <1>1, <1>4 DEF ClassUse, Rep, Coalesced
  <2>5. ASSUME NEW v \in VirtId, firstUse'[v] # NotFound
        PROVE  ClassUse(v, firstUse'[v]) /\ ClassUse(v, lastUse'[v])
    <3>1. CASE v # r
      BY <1>6, <2>1, <2>5, <3>1
    <3>2. CASE v = r
      <4>1. /\ ClassUse(r, firstUse[r]) /\ ClassUse(r, lastUse[r])
            /\ ClassUse(prev, firstUse[prev]) /\ ClassUse(prev, lastUse[prev])
        BY <2>1, <1>3
      <4>2. ClassUse(r, firstUse[prev]) /\ ClassUse(r, lastUse[prev])
        BY <4>1, <1>3 DEF ClassUse
      <4> QED
        BY <4>1, <4>2, <1>5, <3>2
    <3> QED
      BY <3>1, <3>2
  <2>6. \A v \in VirtId :
           firstUse'[v] # NotFound =>
               ClassUse(v, firstUse[v])' /\ ClassUse(v, lastUse[v])'
    BY <2>5, <1>1, <1>4 DEF ClassUse, Rep, Coalesced
  <2>7. ASSUME NEW v \in merged'
        PROVE  Coalesced(v)' /\ Covers(Rep(v), v)'
    <3>1. v \in VirtId /\ Coalesced(v) /\ v # r
      BY <1>2, <1>3, <2>1 DEF TypeOK
    <3>2. firstUse'[v] = firstUse[v] /\ lastUse'[v] = lastUse[v]
      BY <3>1, <1>6
    <3>3. firstUse'[Rep(v)] <= firstUse[v] /\ lastUse[v] <= lastUse'[Rep(v)]
      <4>1. CASE v = prev
        BY <4>1, <1>5
      <4>2. CASE v # prev
        <5>1. v \in merged
          BY <4>2, <1>2
        <5>2. Covers(Rep(v), v) /\ Rep(v) \in VirtId
          BY <2>1, <5>1, <3>1, CoalescedType
        <5>3. CASE Rep(v) = r
          BY <5>2, <5>3, <1>3, <1>4, <1>5, <1>7, <3>1 DEF Covers
        <5>4. CASE Rep(v) # r
          BY <5>2, <5>4, <1>6 DEF Covers
        <5> QED
          BY <5>3, <5>4
      <4> QED
        BY <4>1, <4>2
    <3> QED
      BY <3>1, <3>2, <3>3, <1>4 DEF Covers, Rep, Coalesced
  <2>8. pass' = "merge"
    BY DEF Merge
  <2> QED
    BY <1>1, <2>3, <2>6, <2>7, <2>8 DEF Widened, Rewriting
<1>14. Allocated'
  BY DEF Allocated, Merge, Rewriting, context
<1> QED
  BY <1>9, <1>10, <1>12, <1>13, <1>14 DEF Merge

LEMMA MergeDoneInv == IInv /\ MergeDone => IInv'
<1> SUFFICES ASSUME IInv, MergeDone PROVE IInv'
  OBVIOUS
<1> USE DEF IInv
<1>1. /\ frame \in Seq(Instruction(VirtId))
      /\ frame' = frame
      /\ idx' = 1 /\ idx = 1 /\ stage' = "src"
      /\ pass' = "rewrite" /\ pass = "merge"
  BY FrameType DEF MergeDone, frame, TypeOK, Allocated
<1>2. /\ firstUse' = firstUse /\ lastUse' = lastUse /\ merged' = merged
      /\ remapped' = remapped /\ newFirstUsed' = newFirstUsed
      /\ usedRegs' = {} /\ firstUse \in [VirtId -> Nat]
  BY <1>1 DEF MergeDone, analysis, context, Allocated, TypeOK
<1>3. TypeOK'
  BY <1>1 DEF TypeOK, MergeDone, analysis, context
<1>4. UsesFound'
  BY <1>1 DEF UsesFound
<1>5. Coalescing'
  BY <1>1, <1>2 DEF Coalescing, Coalesced, Rep
<1>6. Widened'
  <2>1. \A v \in VirtId : Coalesced(v) => Covers(Rep(v), v)
    BY <1>1 DEF Widened, MergeDone, Unmerged
  <2>2. (\A v \in VirtId : Coalesced(v) => Covers(Rep(v), v))'
    BY <1>2, <2>1 DEF Covers, Rep, Coalesced
  <2>3. (\A v \in merged : Coalesced(v) /\ Covers(Rep(v), v))'
    BY <1>1, <1>2 DEF Covers, Rep, Coalesced, Widened
  <2>4. (\A v \in VirtId :
           firstUse[v] # NotFound =>
               ClassUse(v, firstUse[v]) /\ ClassUse(v, lastUse[v]))'
    BY <1>1, <1>2 DEF ClassUse, Rep, Coalesced, Widened
  <2> QED
    BY <1>1, <1>2, <2>2, <2>3, <2>4 DEF Widened
<1>7. \A v \in VirtId : ~Live(v)' /\ (firstUse'[v] < idx' => firstUse'[v] = NotFound)
  BY <1>1, <1>2 DEF Live, NotFound
<1>8. Allocated'
  BY <1>1, <1>2, <1>7 DEF Allocated, NoInterference
<1> QED
  BY <1>3, <1>4, <1>5, <1>6, <1>8 DEF MergeDone

-----------------------------------------------------------------------------
(* What the analysis tells the rewriting.                                  *)

(* An instruction lies in the interval of the representative of each       *)
(* register it names.                                                      *)
LEMMA UseInInterval ==
    ASSUME IInv, pass = "rewrite",
           NEW j \in DOMAIN frame, NEW v \in VirtId, Occurs(frame[j], v)
    PROVE  /\ Rep(v) \in VirtId
           /\ ~Coalesced(Rep(v))
           /\ firstUse[Rep(v)] # NotFound
           /\ firstUse[Rep(v)] <= j
           /\ j <= lastUse[Rep(v)]
<1>1. /\ frame \in Seq(Instruction(VirtId))
      /\ firstUse \in [VirtId -> Nat] /\ lastUse \in [VirtId -> Nat]
      /\ Rep(v) \in VirtId
  BY FrameType, CoalescedType DEF IInv, TypeOK
<1>2. firstUse[v] # NotFound /\ firstUse[v] <= j /\ j <= lastUse[v]
  BY DEF IInv, Widened
<1>3. CASE Coalesced(v)
  <2>1. /\ ~Coalesced(Rep(v)) /\ firstUse[Rep(v)] # NotFound
        /\ Covers(Rep(v), v)
    BY <1>3 DEF IInv, Coalescing, Widened, Rewriting
  <2> QED
    BY <1>1, <1>2, <2>1 DEF Covers
<1>4. CASE ~Coalesced(v)
  BY <1>2, <1>4, <1>1 DEF Rep
<1> QED
  BY <1>3, <1>4

LEMMA RegisterIndex ==
    ASSUME NEW i \in DOMAIN GeneralRegs
    PROVE  /\ Index(GeneralRegs[i]) = {i}
           /\ GeneralRegs[i] \in BaseRegister
           /\ GeneralRegs[i] # NoReg
<1>1. GeneralRegs[i] \in BaseRegister
  BY GeneralRegsAssumption
<1>2. GeneralRegs[i] # NoReg
  BY <1>1 DEF BaseRegister, NoReg
<1>3. Index(GeneralRegs[i]) = {i}
  BY GeneralRegsAssumption DEF Index
<1> QED
  BY <1>1, <1>2, <1>3

(* A source has been set before, so its representative is in a register    *)
(* and does not need one.                                                  *)
LEMMA SourceHasRegister ==
    ASSUME IInv, pass = "rewrite", idx \in DOMAIN frame, IsVirtual(ins.src)
    PROVE  /\ ins.src.id \in VirtId
           /\ firstUse[Rep(ins.src.id)] < idx
           /\ ~NeedsRegister(Rep(ins.src.id))
           /\ \E i \in DOMAIN GeneralRegs :
                  mapping[Rep(ins.src.id)] = GeneralRegs[i]
<1>1. /\ frame \in Seq(Instruction(VirtId)) /\ WellFormed(frame)
      /\ frame[idx] = ins
      /\ firstUse \in [VirtId -> Nat]
      /\ idx \in Nat
  BY FrameType DEF IInv, TypeOK, ins
<1>2. ins.src.id \in VirtId
  BY <1>1, OperandTypes
<1>3. PICK j \in 1..(idx - 1) :
          IsVirtual(frame[j].dst) /\ frame[j].dst.id = ins.src.id
  BY <1>1 DEF WellFormed
<1>4. j \in DOMAIN frame /\ j < idx /\ Occurs(frame[j], ins.src.id)
  BY <1>1, <1>3 DEF Occurs
<1>5. /\ Rep(ins.src.id) \in VirtId
      /\ ~Coalesced(Rep(ins.src.id))
      /\ firstUse[Rep(ins.src.id)] # NotFound
      /\ firstUse[Rep(ins.src.id)] <= j
  BY <1>2, <1>4, UseInInterval
<1>6. firstUse[Rep(ins.src.id)] < idx
  BY <1>1, <1>4, <1>5
<1>7. PICK i \in DOMAIN GeneralRegs : mapping[Rep(ins.src.id)] = GeneralRegs[i]
  BY <1>5, <1>6 DEF IInv, Allocated, Rewriting
<1>8. GeneralRegs[i] # NoReg
  BY RegisterIndex
<1> QED
  BY <1>1, <1>2, <1>6, <1>7, <1>8 DEF NeedsRegister

(* A representative whose interval begins or ends at the instruction is    *)
(* that of its source or of its destination.                               *)
LEMMA EndsAtOperand ==
    ASSUME IInv, pass = "rewrite", idx \in DOMAIN frame,
           NEW v \in VirtId, ~Coalesced(v), firstUse[v] # NotFound,
           firstUse[v] = idx \/ lastUse[v] = idx
    PROVE  \/ IsVirtual(ins.src) /\ Rep(ins.src.id) = v
           \/ IsVirtual(ins.dst) /\ Rep(ins.dst.id) = v
<1>1. ClassUse(v, idx)
  BY DEF IInv, Widened
<1>2. PICK w \in VirtId : Rep(w) = Rep(v) /\ Occurs(ins, w)
  BY <1>1 DEF ClassUse, ins
<1>3. Rep(v) = v
  BY DEF Rep
<1> QED
  BY <1>2, <1>3 DEF Occurs

(* The parts of the invariant that the rewriting of an instruction leaves  *)
(* alone.                                                                  *)
LEMMA AnalysisKept ==
    ASSUME IInv, pass = "rewrite", pass' \in {"rewrite", "throw"},
           frame' = frame, UNCHANGED analysis
    PROVE  UsesFound' /\ Coalescing' /\ Widened'
<1>1. UNCHANGED <<firstUse, lastUse, newFirstUsed, remapped, merged>>
  BY DEF analysis
<1>2. UsesFound'
  BY DEF UsesFound
<1>3. Coalescing'
  BY <1>1 DEF IInv, Coalescing, Coalesced, Rep
<1>4. Widened'
  <2>1. (\A v \in VirtId : Coalesced(v) => Covers(Rep(v), v))'
    BY <1>1 DEF IInv, Widened, Rewriting, Covers, Rep, Coalesced
  <2>2. (\A v \in merged : Coalesced(v) /\ Covers(Rep(v), v))'
    BY <1>1 DEF IInv, Widened, Covers, Rep, Coalesced
  <2>3. (\A v \in VirtId :
           firstUse[v] # NotFound =>
               ClassUse(v, firstUse[v]) /\ ClassUse(v, lastUse[v]))'
    BY <1>1 DEF IInv, Widened, ClassUse, Rep, Coalesced
  <2>4. (\A v \in VirtId : \A j \in DOMAIN frame :
           Occurs(frame[j], v) =>
               firstUse[v] # NotFound /\ firstUse[v] <= j /\ j <= lastUse[v])'
    BY <1>1 DEF IInv, Widened
  <2> QED
    BY <2>1, <2>2, <2>3, <2>4 DEF Widened
<1> QED
  BY <1>2, <1>3, <1>4

-----------------------------------------------------------------------------
(* The rewriting of a source gives no register away and frees that of a    *)
(* value used for the last time.                                           *)
LEMMA RewriteSrcInv == IInv /\ RewriteSrc => IInv' /\ LiveStep
<1> SUFFICES ASSUME IInv, RewriteSrc PROVE IInv' /\ LiveStep
  OBVIOUS
<1>1. /\ frame \in Seq(Instruction(VirtId))
      /\ frame' = frame /\ frames' = frames /\ fi' = fi
      /\ ins' = ins /\ frame[idx] = ins
      /\ idx \in DOMAIN frame /\ idx \in Nat
      /\ idx' = idx /\ stage = "src" /\ stage' = "dst"
      /\ pass = "rewrite" /\ pass' = "rewrite"
  BY FrameType DEF RewriteSrc, frame, ins, IInv, TypeOK
<1>2. /\ UNCHANGED <<analysis, firstUse, lastUse, newFirstUsed, remapped, merged>>
      /\ firstUse \in [VirtId -> Nat] /\ lastUse \in [VirtId -> Nat]
  BY DEF RewriteSrc, analysis, IInv, TypeOK
<1>3. UsesFound' /\ Coalescing' /\ Widened'
  BY <1>1, <1>2, AnalysisKept
<1> DEFINE r == Rep(ins.src.id)
<1>4. IsVirtual(ins.src) =>
         /\ ins.src.id \in VirtId /\ ins.src \in VReg
         /\ r \in VirtId /\ ~Coalesced(r) /\ firstUse[r] # NotFound
         /\ firstUse[r] < idx /\ idx <= lastUse[r]
         /\ ~NeedsRegister(r)
         /\ \E i \in DOMAIN GeneralRegs : mapping[r] = GeneralRegs[i]
  BY <1>1, OperandTypes, SourceHasRegister, UseInInterval DEF Occurs
<1>5. /\ mapping' = mapping
      /\ IsVirtual(ins.src) => usedRegs' = usedRegs \ Freed(r, mapping[r])
      /\ ~IsVirtual(ins.src) => usedRegs' = usedRegs
  <2>1. IsVirtual(ins.src) => Representative(ins.src).id = r
    BY <1>4, RepresentativeType DEF IInv
  <2> QED
    BY <1>4, <2>1 DEF RewriteSrc, process_register
<1>6. TypeOK'
  BY <1>1, <1>2, <1>5 DEF IInv, TypeOK, analysis
<1>7. \A v \in VirtId : Coalesced(v)' = Coalesced(v) /\ Rep(v)' = Rep(v)
  BY <1>2 DEF Coalesced, Rep
<1>8. \A v \in VirtId :
         Live(v)' <=> Live(v) /\ ~(IsVirtual(ins.src) /\ v = r /\ lastUse[r] = idx)
  BY <1>1, <1>2, <1>4, <1>7 DEF Live, Rep, Coalesced
<1>9. /\ NoInterference
      /\ usedRegs = {i \in DOMAIN GeneralRegs :
                       \E v \in VirtId : Live(v) /\ mapping[v] = GeneralRegs[i]}
  BY <1>1 DEF IInv, Allocated, Rewriting
<1>10. IsVirtual(ins.src) => Live(r)
  BY <1>1, <1>4 DEF Live
<1>11. usedRegs' = {i \in DOMAIN GeneralRegs :
                      \E v \in VirtId : Live(v)' /\ mapping[v] = GeneralRegs[i]}
  <2>1. CASE IsVirtual(ins.src) /\ lastUse[r] = idx
    <3>1. PICK i \in DOMAIN GeneralRegs : mapping[r] = GeneralRegs[i]
      BY <1>4, <2>1
    <3>2. Freed(r, mapping[r]) = {i}
      BY <1>1, <1>2, <2>1, <3>1, RegisterIndex DEF Freed
    <3>3. usedRegs' = usedRegs \ {i}
      BY <1>5, <2>1, <3>2
    <3>4. \A v \in VirtId : Live(v)' <=> Live(v) /\ v # r
      BY <1>8, <2>1
    <3>5. \A v \in VirtId : Live(v) /\ v # r => mapping[v] # mapping[r]
      BY <1>4, <1>9, <1>10, <2>1 DEF NoInterference
    <3> QED
      BY <1>9, <3>1, <3>3, <3>4, <3>5, GeneralRegsAssumption
  <2>2. CASE ~(IsVirtual(ins.src) /\ lastUse[r] = idx)
    <3>1. \A v \in VirtId : Live(v)' <=> Live(v)
      BY <1>8, <2>2
    <3>2. IsVirtual(ins.src) => Freed(r, mapping[r]) = {}
      <4>1. IsVirtual(ins.src) => lastUse[r] \in Nat /\ idx <= lastUse[r] /\ lastUse[r] # idx
        BY <1>2, <1>4, <2>2
      <4> QED
        BY <4>1, <1>1 DEF Freed
    <3>3. usedRegs' = usedRegs
      BY <1>5, <3>2
    <3> QED
      BY <1>9, <3>1, <3>3
  <2> QED
    BY <2>1, <2>2
<1>12. NoInterference'
  BY <1>5, <1>8, <1>9 DEF NoInterference
<1>13. \A v \in VirtId :
          ~Coalesced(v) /\ firstUse[v] # NotFound /\ firstUse[v] < idx =>
              \E i \in DOMAIN GeneralRegs : mapping[v] = GeneralRegs[i]
  BY <1>1 DEF IInv, Allocated, Rewriting
<1>14. IsVirtual(ins.src) =>
          \A v \in VirtId : Live(v)' /\ v # r => mapping[v] # mapping[r]
  BY <1>4, <1>8, <1>9, <1>10 DEF NoInterference
<1>15. idx <= Len(frame) + 1
  BY <1>1
<1>16. IsVirtual(ins.src) => r' = r
  BY <1>1, <1>4, <1>7
<1>17. Allocated'
  BY <1>1, <1>2, <1>5, <1>7, <1>11, <1>12, <1>13, <1>14, <1>15, <1>16
  DEF Allocated, Rewriting
<1>18. LiveStep
  BY <1>5, <1>8 DEF LiveStep
<1> QED
  BY <1>1, <1>3, <1>6, <1>17, <1>18 DEF IInv

(* The rewriting of a destination hands out a register at the first use of *)
(* the value only, and one that no live value is in; nobody but the         *)
(* destination starts or stops being live.                                 *)
LEMMA RewriteDstInv == IInv /\ RewriteDst => IInv' /\ LiveStep
<1> SUFFICES ASSUME IInv, RewriteDst PROVE IInv' /\ LiveStep
  OBVIOUS
<1>1. /\ frame \in Seq(Instruction(VirtId))
      /\ frame' = frame /\ frames' = frames /\ fi' = fi
      /\ frame[idx] = ins
      /\ idx \in DOMAIN frame /\ idx \in Nat
      /\ idx' = idx + 1 /\ stage = "dst" /\ stage' = "src"
      /\ pass = "rewrite" /\ pass' = "rewrite"
  BY FrameType DEF RewriteDst, frame, ins, IInv, TypeOK
<1>2. /\ UNCHANGED <<analysis, firstUse, lastUse, newFirstUsed, remapped, merged>>
      /\ firstUse \in [VirtId -> Nat] /\ lastUse \in [VirtId -> Nat]
      /\ mapping \in [VirtId -> BaseRegister \cup {NoReg}]
      /\ usedRegs \subseteq DOMAIN GeneralRegs
  BY DEF RewriteDst, analysis, IInv, TypeOK
<1>3. UsesFound' /\ Coalescing' /\ Widened'
  BY <1>1, <1>2, AnalysisKept
<1> DEFINE s == Rep(ins.src.id)
<1>4. IsVirtual(ins.src) =>
         /\ s \in VirtId /\ ~Coalesced(s) /\ firstUse[s] # NotFound
         /\ firstUse[s] < idx /\ idx <= lastUse[s]
         /\ \E i \in DOMAIN GeneralRegs : mapping[s] = GeneralRegs[i]
  BY <1>1, SourceHasRegister, UseInInterval DEF Occurs
<1>5. IsVirtual(ins.dst) =>
         /\ ins.dst.id \in VirtId /\ ins.dst \in VReg
         /\ Rep(ins.dst.id) \in VirtId
         /\ ~Coalesced(Rep(ins.dst.id))
         /\ firstUse[Rep(ins.dst.id)] # NotFound
         /\ firstUse[Rep(ins.dst.id)] <= idx
         /\ idx <= lastUse[Rep(ins.dst.id)]
  BY <1>1, OperandTypes, UseInInterval DEF Occurs
<1>6. \A v \in VirtId : Coalesced(v)' = Coalesced(v) /\ Rep(v)' = Rep(v)
  BY <1>2 DEF Coalesced, Rep
<1>7. /\ NoInterference
      /\ usedRegs = {i \in DOMAIN GeneralRegs :
                       \E v \in VirtId : Live(v) /\ mapping[v] = GeneralRegs[i]}
      /\ \A v \in VirtId :
             ~Coalesced(v) /\ firstUse[v] # NotFound /\ firstUse[v] < idx =>
                 \E i \in DOMAIN GeneralRegs : mapping[v] = GeneralRegs[i]
      /\ IsVirtual(ins.src) =>
             \A v \in VirtId : Live(v) /\ v # s => mapping[v] # mapping[s]
  BY <1>1 DEF IInv, Allocated, Rewriting
<1>8. ASSUME NEW v \in VirtId, ~(IsVirtual(ins.dst) /\ v = Rep(ins.dst.id))
      PROVE  /\ Live(v)' <=> Live(v)
             /\ ~Coalesced(v) /\ firstUse[v] # NotFound => firstUse[v] # idx
  <2>1. ~Coalesced(v) /\ firstUse[v] # NotFound /\ (firstUse[v] = idx \/ lastUse[v] = idx)
           => IsVirtual(ins.src) /\ s = v
    BY <1>1, <1>8, EndsAtOperand
  <2>2. ~Coalesced(v) /\ firstUse[v] # NotFound => firstUse[v] # idx
    BY <1>4, <2>1, <1>1, <1>2
  <2>3. firstUse[v] \in Nat /\ lastUse[v] \in Nat
    BY <1>2
  <2>4. firstUse'[v] = firstUse[v] /\ lastUse'[v] = lastUse[v]
    BY <1>2
  <2>5. Live(v)' <=> /\ ~Coalesced(v) /\ firstUse[v] # NotFound
                     /\ firstUse[v] < idx + 1 /\ idx + 1 <= lastUse[v]
    BY <1>1, <1>2, <1>6, <2>4 DEF Live
  <2>6. Live(v) <=> /\ ~Coalesced(v) /\ firstUse[v] # NotFound
                    /\ firstUse[v] < idx /\ idx <= lastUse[v]
                    /\ ~(lastUse[v] = idx /\ IsVirtual(ins.src) /\ s = v)
    BY <1>1 DEF Live
  <2> QED
    BY <1>1, <2>1, <2>2, <2>3, <2>5, <2>6
<1>9. CASE ~IsVirtual(ins.dst)
  <2>1. mapping' = mapping /\ usedRegs' = usedRegs
    BY <1>9 DEF RewriteDst
  <2>2. TypeOK'
    BY <1>1, <1>2, <2>1 DEF IInv, TypeOK
  <2>3. Allocated'
    BY <1>1, <1>2, <1>6, <1>7, <1>8, <1>9, <2>1 DEF Allocated, Rewriting, NoInterference
  <2>4. LiveStep
    BY <1>8, <1>9, <2>1 DEF LiveStep
  <2> QED
    BY <1>1, <1>3, <2>2, <2>3, <2>4 DEF IInv
<1>10. CASE IsVirtual(ins.dst)
  <2>1. PICK d \in VirtId : d = Rep(ins.dst.id)
    BY <1>5, <1>10
  <2>2. /\ ~Coalesced(d) /\ firstUse[d] # NotFound
        /\ firstUse[d] <= idx /\ idx <= lastUse[d]
        /\ ins.dst.id \in VirtId /\ ins.dst \in VReg
    BY <1>5, <1>10, <2>1
  <2>3. Live(d)' <=> idx + 1 <= lastUse[d]
    <3>1. firstUse[d] < idx + 1
      BY <2>2, <1>1, <1>2
    <3>2. Live(d)' <=> /\ ~Coalesced(d) /\ firstUse[d] # NotFound
                       /\ firstUse[d] < idx + 1 /\ idx + 1 <= lastUse[d]
      BY <1>1, <1>2, <1>6 DEF Live
    <3> QED
      BY <2>2, <3>1, <3>2
  <2>4. CASE NeedsRegister(d)
    <3>1. PICK i \in FreeIndices :
             /\ mapping' = [mapping EXCEPT ![d] = GeneralRegs[i]]
             /\ usedRegs' = (usedRegs \cup {i}) \ Freed(d, GeneralRegs[i])
      <4>1. Representative(ins.dst).id = d
        BY <2>1, <2>2, RepresentativeType DEF IInv
      <4> QED
        BY <1>10, <2>4, <4>1 DEF RewriteDst, process_register
    <3>2. i \in DOMAIN GeneralRegs /\ i \notin usedRegs
      BY DEF FreeIndices
    <3>3. firstUse[d] = idx
      <4>1. firstUse[d] < idx => \E k \in DOMAIN GeneralRegs : mapping[d] = GeneralRegs[k]
        BY <2>2, <1>7, <1>10, <2>4
      <4>2. firstUse[d] < idx => mapping[d] # NoReg
        BY <4>1, RegisterIndex
      <4> QED
        BY <1>1, <1>2, <2>2, <1>10, <2>4, <4>2 DEF NeedsRegister
    <3>4. ~Live(d)
      BY <1>1, <3>3 DEF Live
    <3>5. /\ mapping'[d] = GeneralRegs[i]
          /\ \A v \in VirtId : v # d => mapping'[v] = mapping[v]
      BY <1>2, <2>2, <1>10, <2>4, <3>1
    <3>6. \A v \in VirtId : Live(v) => mapping[v] # GeneralRegs[i]
      BY <1>7, <3>2
    <3>7. usedRegs' = IF Live(d)' THEN usedRegs \cup {i} ELSE usedRegs
      <4>1. Live(d)' => Freed(d, GeneralRegs[i]) = {}
        BY <1>1, <1>2, <2>2, <2>3, <1>10, <2>4 DEF Freed
      <4>2. ~Live(d)' => Freed(d, GeneralRegs[i]) = {i}
        <5>1. ~Live(d)' => lastUse[d] <= idx
          BY <1>1, <1>2, <2>2, <2>3, <1>10, <2>4
        <5> QED
          BY <5>1, <3>2, RegisterIndex DEF Freed
      <4> QED
        BY <3>1, <3>2, <4>1, <4>2
    <3>8. TypeOK'
      <4>1. usedRegs' \subseteq DOMAIN GeneralRegs
        BY <1>2, <3>2, <3>7
      <4>2. mapping' \in [VirtId -> BaseRegister \cup {NoReg}]
        BY <1>2, <3>1, <3>2, RegisterIndex
      <4> QED
        BY <1>1, <1>2, <4>1, <4>2 DEF IInv, TypeOK
    <3>9. NoInterference'
      BY <1>7, <1>8, <2>1, <3>5, <3>6 DEF NoInterference
    <3>10. usedRegs' = {k \in DOMAIN GeneralRegs :
                          \E v \in VirtId : Live(v)' /\ mapping'[v] = GeneralRegs[k]}
      <4>1. ASSUME NEW k \in usedRegs'
            PROVE  k \in DOMAIN GeneralRegs
                   /\ \E v \in VirtId : Live(v)' /\ mapping'[v] = GeneralRegs[k]
        <5>1. CASE k \in usedRegs
          BY <1>7, <1>8, <2>1, <3>4, <3>5, <5>1
        <5>2. CASE k \notin usedRegs
          BY <2>2, <1>10, <2>4, <3>2, <3>5, <3>7, <5>2
        <5> QED
          BY <5>1, <5>2
      <4>2. ASSUME NEW k \in DOMAIN GeneralRegs,
                   NEW v \in VirtId, Live(v)', mapping'[v] = GeneralRegs[k]
            PROVE  k \in usedRegs'
        <5>1. CASE v = d
          BY <3>2, <3>5, <3>7, <4>2, <5>1, GeneralRegsAssumption
        <5>2. CASE v # d
          BY <1>7, <1>8, <2>1, <3>5, <3>7, <4>2, <5>2
        <5> QED
          BY <5>1, <5>2
      <4> QED
        BY <4>1, <4>2
    <3>11. \A v \in VirtId :
             ~Coalesced(v) /\ firstUse[v] # NotFound /\ firstUse[v] < idx + 1 =>
                 \E k \in DOMAIN GeneralRegs : mapping'[v] = GeneralRegs[k]
      <4>1. \A v \in VirtId :
               v # d /\ ~Coalesced(v) /\ firstUse[v] # NotFound /\ firstUse[v] < idx + 1 =>
                   firstUse[v] < idx
        BY <1>1, <1>2, <1>8, <2>1
      <4> QED
        BY <1>7, <3>2, <3>5, <4>1
    <3>12. Allocated'
      BY <1>1, <1>2, <1>6, <3>9, <3>10, <3>11 DEF Allocated, Rewriting
    <3>13. LiveStep
      BY <1>8, <2>1, <3>1, <3>4, <3>5 DEF LiveStep
    <3> QED
      BY <1>1, <1>3, <3>8, <3>12, <3>13 DEF IInv
  <2>5. CASE ~NeedsRegister(d)
    <3>1. mapping' = mapping /\ usedRegs' = usedRegs \ Freed(d, mapping[d])
      <4>1. Representative(ins.dst).id = d
        BY <2>1, <2>2, RepresentativeType DEF IInv
      <4> QED
        BY <1>10, <2>5, <4>1 DEF RewriteDst, process_register
    <3>2. firstUse[d] < idx
      BY <1>1, <1>2, <2>2, <1>10, <2>5 DEF NeedsRegister
    <3>3. PICK i \in DOMAIN GeneralRegs : mapping[d] = GeneralRegs[i]
      BY <2>2, <1>7, <1>10, <2>5, <3>2
    <3>4. \A v \in VirtId : Live(v) /\ v # d => mapping[v] # GeneralRegs[i]
      <4>1. CASE Live(d)
        BY <2>2, <1>7, <1>10, <2>5, <3>3, <4>1 DEF NoInterference
      <4>2. CASE ~Live(d)
        <5>1. IsVirtual(ins.src) /\ s = d
          BY <1>1, <2>2, <1>10, <2>5, <3>2, <4>2 DEF Live
        <5> QED
          BY <1>7, <3>3, <5>1
      <4> QED
        BY <4>1, <4>2
    <3>5. Live(d)' => Live(d)
      <4>1. Live(d)' => idx + 1 <= lastUse[d]
        BY <2>3, <1>10, <2>5
      <4>2. Live(d)' => idx <= lastUse[d] /\ lastUse[d] # idx
        BY <4>1, <1>1, <1>2, <2>2, <1>10, <2>5
      <4> QED
        BY <1>1, <2>2, <1>10, <2>5, <3>2, <4>2 DEF Live
    <3>6. usedRegs' = IF Live(d)' THEN usedRegs ELSE usedRegs \ {i}
      <4>1. Live(d)' => Freed(d, mapping[d]) = {}
        BY <1>1, <1>2, <2>2, <2>3, <1>10, <2>5 DEF Freed
      <4>2. ~Live(d)' => Freed(d, mapping[d]) = {i}
        <5>1. ~Live(d)' => lastUse[d] <= idx
          BY <1>1, <1>2, <2>2, <2>3, <1>10, <2>5
        <5> QED
          BY <5>1, <3>3, RegisterIndex DEF Freed
      <4> QED
        BY <3>1, <4>1, <4>2
    <3>7. TypeOK'
      BY <1>1, <1>2, <3>1, <3>6 DEF IInv, TypeOK
    <3>8. NoInterference'
      BY <1>7, <1>8, <2>1, <3>1, <3>5 DEF NoInterference
    <3>9. usedRegs' = {k \in DOMAIN GeneralRegs :
                         \E v \in VirtId : Live(v)' /\ mapping'[v] = GeneralRegs[k]}
      <4>1. ASSUME NEW k \in usedRegs'
            PROVE  k \in DOMAIN GeneralRegs
                   /\ \E v \in VirtId : Live(v)' /\ mapping'[v] = GeneralRegs[k]
        <5>1. PICK v \in VirtId : Live(v) /\ mapping[v] = GeneralRegs[k]
          BY <1>7, <3>6
        <5>2. v = d => Live(v)'
          BY <1>7, <3>3, <3>6, <5>1, GeneralRegsAssumption
        <5> QED
          BY <1>7, <1>8, <2>1, <3>1, <3>6, <5>1, <5>2
      <4>2. ASSUME NEW k \in DOMAIN GeneralRegs,
                   NEW v \in VirtId, Live(v)', mapping'[v] = GeneralRegs[k]
            PROVE  k \in usedRegs'
        <5>1. CASE v = d
          BY <1>7, <3>1, <3>5, <3>6, <4>2, <5>1
        <5>2. CASE v # d
          BY <1>7, <1>8, <2>1, <3>1, <3>3, <3>4, <3>6, <4>2, <5>2
        <5> QED
          BY <5>1, <5>2
      <4> QED
        BY <4>1, <4>2
    <3>10. \A v \in VirtId :
             ~Coalesced(v) /\ firstUse[v] # NotFound /\ firstUse[v] < idx + 1 =>
                 \E k \in DOMAIN GeneralRegs : mapping'[v] = GeneralRegs[k]
      <4>1. \A v \in VirtId :
               v # d /\ ~Coalesced(v) /\ firstUse[v] # NotFound /\ firstUse[v] < idx + 1 =>
                   firstUse[v] < idx
        BY <1>1, <1>2, <1>8, <2>1
      <4> QED
        BY <1>7, <3>1, <3>3, <4>1
    <3>11. Allocated'
      BY <1>1, <1>2, <1>6, <3>8, <3>9, <3>10 DEF Allocated, Rewriting
    <3>12. LiveStep
      BY <1>8, <2>1, <3>1, <3>5 DEF LiveStep
    <3> QED
      BY <1>1, <1>3, <3>7, <3>11, <3>12 DEF IInv
  <2> QED
    BY <2>4, <2>5
<1> QED
  BY <1>9, <1>10

LEMMA ThrowInv == IInv /\ Throw => IInv'
<1> SUFFICES ASSUME IInv, Throw PROVE IInv'
  OBVIOUS
<1>1. /\ frame' = frame /\ frames' = frames /\ fi' = fi /\ ins' = ins
      /\ idx' = idx /\ stage' = stage
      /\ pass = "rewrite" /\ pass' = "throw"
  BY DEF Throw, frame, ins
<1>2. /\ UNCHANGED <<analysis, firstUse, lastUse, newFirstUsed, remapped, merged>>
      /\ mapping' = mapping /\ usedRegs' = usedRegs
  BY DEF Throw, analysis, context
<1>3. UsesFound' /\ Coalescing' /\ Widened'
  BY <1>1, <1>2, AnalysisKept
<1>4. TypeOK'
  BY <1>1, <1>2 DEF IInv, TypeOK, analysis
<1>5. \A v \in VirtId : /\ Coalesced(v)' <=> Coalesced(v)
                        /\ Rep(v)' = Rep(v)
                        /\ Live(v)' <=> Live(v)
  BY <1>1, <1>2 DEF Live, Coalesced, Rep
<1>6. IsVirtual(ins.src) /\ stage = "dst" => Rep(ins.src.id)' = Rep(ins.src.id)
  BY <1>1, <1>2 DEF Rep, Coalesced
<1>7. Allocated'
  BY <1>1, <1>2, <1>5, <1>6 DEF IInv, Allocated, Rewriting, NoInterference
<1> QED
  BY <1>1, <1>3, <1>4, <1>7 DEF IInv

LEMMA NextFrameInv == IInv /\ NextFrame => IInv'
<1> SUFFICES ASSUME IInv, NextFrame PROVE IInv'
  OBVIOUS
<1>1. /\ frames' = frames /\ fi \in Nat \ {0} /\ fi' = fi + 1
      /\ idx' = 1 /\ stage' = "src"
      /\ pass' = IF fi + 1 \in DOMAIN frames THEN "getFirstUse" ELSE "done"
  BY DEF NextFrame, AfterFrame, IInv, TypeOK
<1>2. /\ firstUse' = EmptyUses /\ lastUse' = EmptyUses
      /\ newFirstUsed' = {} /\ remapped' = EmptyMap /\ merged' = {}
      /\ usedRegs' = {} /\ mapping' = EmptyMapping
  BY DEF NextFrame, AfterFrame
<1>3. pass' # "done" => frame' \in Seq(Instruction(VirtId))
  <2>1. frames \in Seq(Seq(Instruction(VirtId)))
    BY ProgramsAssumption DEF IInv
  <2>2. fi' \in DOMAIN frames => frames'[fi'] \in Seq(Instruction(VirtId))
    BY <1>1, <2>1
  <2> QED
    BY <1>1, <2>2 DEF frame
<1>4. TypeOK'
  BY <1>1, <1>2, VirtIdAssumption
  DEF TypeOK, EmptyUses, EmptyMap, EmptyMapping, NotFound
<1>5. UsesFound'
  BY <1>1, <1>2, <1>3 DEF UsesFound, UsesUpTo, EmptyUses, NotFound
<1>6. Coalescing'
  BY <1>1, <1>2 DEF Coalescing, EmptyMap, Coalesced
<1>7. Widened'
  BY <1>1 DEF Widened, Rewriting
<1>8. Allocated'
  BY <1>1, <1>2 DEF Allocated, Rewriting
<1> QED
  BY <1>1, <1>4, <1>5, <1>6, <1>7, <1>8 DEF IInv

LEMMA StutterInv == IInv /\ UNCHANGED vars => IInv'
<1> SUFFICES ASSUME IInv, UNCHANGED vars PROVE IInv'
  OBVIOUS
<1>1. UNCHANGED <<frames, fi, pass, idx, stage, firstUse, lastUse, newFirstUsed,
                  remapped, merged, usedRegs, mapping>>
  BY DEF vars, analysis, context
<1>2. TypeOK'
  BY <1>1 DEF IInv, TypeOK, frame
<1>3. UsesFound' /\ Coalescing'
  BY <1>1 DEF IInv, UsesFound, UsesUpTo, Coalescing, Coalesced, Rep, frame
<1>4. Widened'
  BY <1>1 DEF IInv, Widened, Rewriting, ClassUse, Covers, Coalesced, Rep, frame
<1>5. \A v \in VirtId : Live(v)' <=> Live(v)
  BY <1>1 DEF Live, Coalesced, Rep, ins, frame
<1>6. Allocated'
  BY <1>1, <1>5 DEF IInv, Allocated, Rewriting, NoInterference, Coalesced, Rep, ins, frame
<1> QED
  BY <1>1, <1>2, <1>3, <1>4, <1>6 DEF IInv

LEMMA NextInv == IInv /\ [Next]_vars => IInv'
BY FindUsesInv, ToRemapInv, RemapInv, ToMergeInv, MergeInv, MergeDoneInv,
   RewriteSrcInv, RewriteDstInv, ThrowInv, NextFrameInv, StutterInv
DEF Next

-----------------------------------------------------------------------------
(* The inductive invariant holds of every run of the allocator.            *)
THEOREM Invariant == Spec => []IInv
BY InitInv, NextInv, PTL DEF Spec

(* The state of the four passes is well-typed.                             *)
THEOREM TypeCorrect == Spec => []TypeOK
<1>1. IInv => TypeOK
  BY DEF IInv
<1> QED
  BY <1>1, Invariant, PTL

(* src/allocator.cpp:98: whatever the program and however many general      *)
(* registers there are, two values that are both still needed are never in  *)
(* one register.                                                           *)
THEOREM NoInterferenceCorrect == Spec => []NoInterference
<1>1. IInv => NoInterference
  BY DEF IInv, Allocated, Rewriting, NoInterference, Live
<1> QED
  BY <1>1, Invariant, PTL

(* src/allocator.cpp:22-41: usedRegs is exactly the set of registers that   *)
(* live values are in, so none is leaked or handed out twice.               *)
THEOREM UsedExactCorrect == Spec => []UsedExact
<1>1. IInv => UsedExact
  BY DEF IInv, Allocated, Rewriting, UsedExact
<1> QED
  BY <1>1, Invariant, PTL

-----------------------------------------------------------------------------
(* "No free registers" (src/allocator.cpp:29) is thrown only when every     *)
(* general register holds a value that is still needed.                     *)
THEOREM ThrowsOnlyWhenFullCorrect == Spec => []ThrowsOnlyWhenFull
<1> DEFINE Full == pass = "throw" => FreeIndices = {}
<1>1. Init => Full
  BY DEF Init, Start, FirstPass
<1>2. Full /\ [Next]_vars => Full'
  BY DEF FreeIndices, Next, vars, context, FindUses, NextPass, Remap, Merge,
         MergeDone, RewriteSrc, RewriteDst, Throw, NextFrame, AfterFrame
<1>3. IInv /\ Full => ThrowsOnlyWhenFull
  BY DEF IInv, Allocated, Rewriting, ThrowsOnlyWhenFull, FreeIndices
<1>4. Spec => []Full
  BY <1>1, <1>2, PTL DEF Spec
<1> QED
  BY <1>3, <1>4, Invariant, PTL

-----------------------------------------------------------------------------
(* The steps of the analysis, of the exception and of the change of frame  *)
(* touch no live value: there is none outside the rewriting, and none left  *)
(* at the end of a frame.                                                  *)
LEMMA OtherSteps ==
    ASSUME IInv, Next, ~RewriteSrc, ~RewriteDst
    PROVE  \A v \in VirtId : /\ Live(v)' <=> Live(v)
                             /\ Live(v) => mapping'[v] = mapping[v]
<1>1. CASE pass \notin {"rewrite", "throw"} /\ pass' \notin {"rewrite", "throw"}
  BY <1>1 DEF Live
<1>2. CASE MergeDone
  <2>1. idx' = 1 /\ firstUse' = firstUse /\ firstUse \in [VirtId -> Nat]
    BY <1>2 DEF MergeDone, analysis, IInv, Allocated, TypeOK
  <2> QED
    BY <1>2, <2>1 DEF Live, MergeDone, NotFound
<1>3. CASE Throw
  BY <1>3 DEF Throw, Live, Coalesced, Rep, analysis, context, ins, frame
<1>4. CASE NextFrame
  <2>1. frame \in Seq(Instruction(VirtId)) /\ lastUse \in [VirtId -> Nat]
    BY <1>4, FrameType DEF NextFrame, AfterFrame, IInv, TypeOK
  <2>2. idx = Len(frame) + 1
    BY <1>4, <2>1 DEF NextFrame, AfterFrame, IInv, TypeOK, Allocated, Rewriting
  <2>3. \A v \in VirtId : firstUse[v] # NotFound => lastUse[v] \in DOMAIN frame
    BY <1>4 DEF NextFrame, AfterFrame, IInv, Widened, ClassUse
  <2>4. \A v \in VirtId : firstUse[v] # NotFound => lastUse[v] < idx
    BY <2>1, <2>2, <2>3
  <2> QED
    BY <1>4, <2>1, <2>2, <2>4 DEF Live, NextFrame, AfterFrame
<1> QED
  BY <1>1, <1>2, <1>3, <1>4 DEF Next, FindUses, NextPass, Remap, Merge

LEMMA StutterLive ==
    ASSUME UNCHANGED vars
    PROVE  /\ \A v \in VirtId : Live(v)' <=> Live(v)
           /\ mapping' = mapping /\ pass' = pass
BY DEF vars, analysis, context, Live, Coalesced, Rep, ins, frame

LEMMA EveryLiveStep == IInv /\ [Next]_vars => LiveStep
<1> SUFFICES ASSUME IInv, [Next]_vars PROVE LiveStep
  OBVIOUS
<1>1. CASE RewriteSrc \/ RewriteDst
  BY <1>1, RewriteSrcInv, RewriteDstInv
<1>2. CASE Next /\ ~RewriteSrc /\ ~RewriteDst
  BY <1>2, OtherSteps DEF LiveStep
<1>3. CASE UNCHANGED vars
  BY <1>3, StutterLive DEF LiveStep
<1> QED
  BY <1>1, <1>2, <1>3

(* src/allocator.cpp:118-121: a value that is live before and after a step  *)
(* is in the same register, through every pass and every instruction.       *)
THEOREM StableRegisterCorrect == Spec => StableRegister
<1>1. IInv /\ [Next]_vars =>
         [\A v \in VirtId : Live(v) /\ Live(v)' => mapping'[v] = mapping[v]]_vars
  BY EveryLiveStep DEF LiveStep
<1> QED
  BY <1>1, Invariant, PTL DEF Spec, StableRegister

-----------------------------------------------------------------------------
(* The refinement.  What is exhausted is the throw, and it needs every     *)
(* register to be held.                                                    *)
LEMMA HeldRegisters ==
    ASSUME IInv, pass = "rewrite"
    PROVE  {Held[v] : v \in VirtId} \ {NoReg} =
               {GeneralRegs[i] : i \in usedRegs}
<1>1. usedRegs = {i \in DOMAIN GeneralRegs :
                    \E v \in VirtId : Live(v) /\ mapping[v] = GeneralRegs[i]}
  BY DEF IInv, Allocated, Rewriting
<1>2. \A v \in VirtId : Live(v) =>
         \E i \in DOMAIN GeneralRegs : mapping[v] = GeneralRegs[i]
  BY DEF IInv, Allocated, Rewriting, Live
<1> QED
  BY <1>1, <1>2, RegisterIndex DEF Held

LEMMA SameHeld ==
    ASSUME LiveStep, \A v \in VirtId : Live(v)' <=> Live(v)
    PROVE  Held' = Held
BY DEF LiveStep, Held

LEMMA RewriteRefines ==
    ASSUME IInv, RewriteSrc \/ RewriteDst
    PROVE  [File!Next]_<<Held, pass = "throw">>
<1>1. LiveStep
  BY RewriteSrcInv, RewriteDstInv
<1>2. pass = "rewrite" /\ pass' = "rewrite"
  BY DEF RewriteSrc, RewriteDst
<1>3. CASE \A v \in VirtId : Live(v)' <=> Live(v)
  BY <1>1, <1>2, <1>3, SameHeld
<1>4. CASE \E v \in VirtId : ~(Live(v)' <=> Live(v))
  <2>1. PICK v \in VirtId : ~(Live(v)' <=> Live(v))
    BY <1>4
  <2>2. \A w \in VirtId : w # v =>
           (Live(w)' <=> Live(w)) /\ (Live(w) => mapping'[w] = mapping[w])
    BY <1>1, <2>1 DEF LiveStep
  <2>3. CASE Live(v)'
    <3>1. ~Live(v)
      BY <2>1, <2>3
    <3>2. PICK i \in FreeIndices : mapping'[v] = GeneralRegs[i]
      BY <1>1, <2>3, <3>1 DEF LiveStep
    <3>3. i \in DOMAIN GeneralRegs /\ i \notin usedRegs
      BY DEF FreeIndices
    <3>4. GeneralRegs[i] \notin {GeneralRegs[k] : k \in usedRegs}
      BY <3>3, GeneralRegsAssumption DEF IInv, TypeOK
    <3>5. GeneralRegs[i] \notin {Held[w] : w \in VirtId}
      BY <1>2, <3>3, <3>4, HeldRegisters, RegisterIndex
    <3>6. GeneralRegs[i] \in File!Free
      BY <3>3, <3>5 DEF File!Free
    <3>7. Held' = [Held EXCEPT ![v] = GeneralRegs[i]]
      BY <2>2, <2>3, <3>2 DEF Held
    <3>8. Held[v] = NoReg
      BY <3>1 DEF Held
    <3>9. File!Acquire(v)
      BY <1>2, <3>6, <3>7, <3>8 DEF File!Acquire
    <3> QED
      BY <1>2, <3>9 DEF File!Next
  <2>4. CASE ~Live(v)'
    <3>1. Live(v)
      BY <2>1, <2>4
    <3>2. PICK i \in DOMAIN GeneralRegs : mapping[v] = GeneralRegs[i]
      BY <1>2, <3>1 DEF IInv, Allocated, Rewriting, Live
    <3>3. Held[v] # NoReg
      BY <3>1, <3>2, RegisterIndex DEF Held
    <3>4. Held' = [Held EXCEPT ![v] = NoReg]
      BY <2>2, <2>4 DEF Held
    <3>5. File!Release(v)
      BY <1>2, <3>3, <3>4 DEF File!Release
    <3> QED
      BY <1>2, <3>5 DEF File!Next
  <2> QED
    BY <2>3, <2>4
<1> QED
  BY <1>3, <1>4

LEMMA ThrowRefines ==
    ASSUME IInv, Throw
    PROVE  File!Fail
<1>1. pass = "rewrite" /\ pass' = "throw" /\ FreeIndices = {}
  BY DEF Throw
<1>2. Held' = Held
  <2>1. ~RewriteSrc /\ ~RewriteDst
    BY <1>1 DEF RewriteSrc, RewriteDst
  <2> QED
    BY <2>1, OtherSteps DEF Next, Held
<1>3. \A i \in DOMAIN GeneralRegs : i \in usedRegs
  BY <1>1 DEF FreeIndices
<1>4. {GeneralRegs[i] : i \in DOMAIN GeneralRegs} \subseteq {Held[v] : v \in VirtId}
  BY <1>1, <1>3, HeldRegisters
<1>5. File!Free = {}
  BY <1>4 DEF File!Free
<1> QED
  BY <1>1, <1>2, <1>5 DEF File!Fail

(* The allocator implements RegisterFile: for every program, seen through  *)
(* its live values it only takes free registers, keeps them and gives them   *)
(* back, and fails only when all are held.                                  *)
THEOREM Refinement == Spec => ImplementsRegisterFile
<1>1. Init => File!Init
  <2> SUFFICES ASSUME Init PROVE File!Init
    OBVIOUS
  <2>1. pass \notin {"rewrite", "throw"}
    BY DEF Init, Start, FirstPass
  <2>2. \A v \in VirtId : ~Live(v)
    BY <2>1 DEF Live
  <2>3. Held = [v \in VirtId |-> NoReg]
    BY <2>2 DEF Held
  <2> QED
    BY <2>1, <2>3 DEF File!Init
<1>2. IInv /\ [Next]_vars => [File!Next]_<<Held, pass = "throw">>
  <2> SUFFICES ASSUME IInv, [Next]_vars PROVE [File!Next]_<<Held, pass = "throw">>
    OBVIOUS
  <2>1. CASE RewriteSrc \/ RewriteDst
    BY <2>1, RewriteRefines
  <2>2. CASE Throw
    BY <2>2, ThrowRefines DEF File!Next
  <2>3. CASE Next /\ ~RewriteSrc /\ ~RewriteDst /\ ~Throw
    <3>1. pass # "throw" /\ pass' # "throw"
      BY <2>3 DEF Next, FindUses, NextPass, Remap, Merge, MergeDone, NextFrame, AfterFrame
    <3>2. Held' = Held
      BY <2>3, OtherSteps, EveryLiveStep, SameHeld
    <3> QED
      BY <3>1, <3>2
  <2>4. CASE UNCHANGED vars
    BY <2>4, StutterLive DEF Held
  <2> QED
    BY <2>1, <2>2, <2>3, <2>4
<1> QED
  BY <1>1, <1>2, Invariant, PTL DEF Spec, ImplementsRegisterFile, File!Spec
=============================================================================
