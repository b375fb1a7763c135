--------------------------- MODULE LowerIRProofs ---------------------------
(***************************************************************************)
(* The lowering pass keeps its types and gives every temporary a register,  *)
(* and every variable bytes, of its own: LowerTypeOK and LocationsDistinct,  *)
(* for every program of IR operations.                                      *)
(*                                                                         *)
(* The operators of LowerIR are composed of a few that append an            *)
(* instruction, number a register or place a value.  A lemma for each says  *)
(* that the context stays one (ContextOK) and that what was numbered and     *)
(* placed stays (Follows); those about the operations only compose them.    *)
(***************************************************************************)
EXTENDS LowerIR, SequenceTheorems, TLAPS

IRValue     == Values(TempId, VarName)
IROperation == Operation(TempId, VarName)

Mapped(c, t) == c.temp_register_mapping[t] # NoOperand

RegisterOf(c, t) == c.temp_register_mapping[t].id

(* The value needs no new register.                                        *)
Held(c, v) == v.kind = "temp" => Mapped(c, v.id)

ContextOK(c) ==
    /\ c \in Context
    /\ \A t \in TempId : Numbered(c, c.temp_register_mapping[t])
    /\ \A n \in DOMAIN c.code : Numbered(c, c.code[n].dst) /\ Numbered(c, c.code[n].src)
    /\ \A t, u \in TempId :
           t # u /\ Mapped(c, t) /\ Mapped(c, u) => RegisterOf(c, t) # RegisterOf(c, u)

(* d is a context the pass makes of c.                                     *)
Follows(c, d) ==
    /\ ContextOK(d)
    /\ c.tempCounter <= d.tempCounter
    /\ \A t \in TempId :
           Mapped(c, t) => d.temp_register_mapping[t] = c.temp_register_mapping[t]
    /\ c.thrown => d.thrown

SameSlots(c, d) ==
    /\ d.variable_offset = c.variable_offset
    /\ d.stackOffset = c.stackOffset
    /\ d.stackPassedParameterOffset = c.stackPassedParameterOffset

(* The registers instructions may name, and what a value may be moved to.   *)
Known(c)     == Register(0..(c.tempCounter - 1))
Locations(c) == Known(c) \cup StackLocations

-----------------------------------------------------------------------------
(* Values, operations and instructions.                                    *)
LEMMA ValueKinds ==
    ASSUME NEW v \in IRValue
    PROVE  /\ v.kind \in {"temp", "var", "hard", "int"}
           /\ v.kind = "temp" => v \in Temps(TempId) /\ v.id \in TempId
           /\ v.kind = "var" => v \in Variables(VarName) /\ v.name \in VarName
           /\ v.kind = "hard" => v \in HardRegisters
           /\ v.kind = "int" => v \in Immediates
           /\ v.kind # "int" => v.size \in {4, 8}
           /\ SizeOf(v) \in {4, 8}
BY DEF IRValue, Values, Places, Temps, Variables, HardRegisters, Immediates, SizeOf

LEMMA OperationFields ==
    ASSUME NEW o \in IROperation
    PROVE  /\ o.op \in {"Mov", "MovR"} =>
                  o.dst \in Places(TempId, VarName) /\ o.src \in IRValue
           /\ o.op = "Addr" => o.dst \in Temps(TempId) /\ o.src \in IRValue
           /\ o.op = "DerefStore" => o.dst \in IRValue /\ o.src \in IRValue
           /\ o.op = "Ret" => o.value \in IRValue
           /\ o.op \in BinaryOps =>
                  /\ IF o.op = "Compare" THEN o.dst = NoOperand
                                         ELSE o.dst \in Places(TempId, VarName)
                  /\ o.left \in IRValue
                  /\ o.right \in IRValue
           /\ o.op = "Deref" => o.dst \in Temps(TempId) /\ o.src \in IRValue /\ o.depth \in Nat
           /\ o.op = "Call" =>
                  o.name \in STRING /\ o.args \in Seq(IRValue) /\ o.dst \in Temps(TempId)
           /\ o.op \in {"Jump", "LabelDef"} => o.label \in Labels
           /\ o.op \in CondJumps => o.trueLabel \in Labels /\ o.falseLabel \in Labels
           /\ o.op = "DefineStackPushed" => o.name \in VarName
           /\ \/ o.op \in {"Mov", "MovR", "Ret", "Addr", "Deref", "DerefStore", "Call",
                           "DefineStackPushed", "LabelDef", "Jump"}
              \/ o.op \in BinaryOps
              \/ o.op \in CondJumps
<1> DEFINE places == Places(TempId, VarName)
           temps == Temps(TempId)
<1>1. \/ o \in [op : {"Mov", "MovR"}, dst : places, src : IRValue]
      \/ o \in [op : {"Addr"}, dst : temps, src : IRValue]
      \/ o \in [op : {"DerefStore"}, dst : IRValue, src : IRValue]
      \/ o \in [op : {"Ret"}, value : IRValue]
      \/ o \in [op : BinaryOps \ {"Compare"}, dst : places, left : IRValue, right : IRValue]
      \/ o \in [op : {"Compare"}, dst : {NoOperand}, left : IRValue, right : IRValue]
      \/ o \in [op : {"Deref"}, dst : temps, src : IRValue, depth : Nat]
      \/ o \in [op : {"Call"}, name : STRING, args : Seq(IRValue), dst : temps]
      \/ o \in [op : {"Jump", "LabelDef"}, label : Labels]
      \/ o \in [op : CondJumps, trueLabel : Labels, falseLabel : Labels]
      \/ o \in [op : {"DefineStackPushed"}, name : VarName]
  BY DEF IROperation, Operation, IRValue
<1> HIDE DEF places, temps
<1> SUFFICES
      /\ o.op \in {"Mov", "MovR"} => o.dst \in places /\ o.src \in IRValue
      /\ o.op = "Addr" => o.dst \in temps /\ o.src \in IRValue
      /\ o.op = "DerefStore" => o.dst \in IRValue /\ o.src \in IRValue
      /\ o.op = "Ret" => o.value \in IRValue
      /\ o.op \in BinaryOps =>
             /\ IF o.op = "Compare" THEN o.dst = NoOperand ELSE o.dst \in places
             /\ o.left \in IRValue
             /\ o.right \in IRValue
      /\ o.op = "Deref" => o.dst \in temps /\ o.src \in IRValue /\ o.depth \in Nat
      /\ o.op = "Call" => o.name \in STRING /\ o.args \in Seq(IRValue) /\ o.dst \in temps
      /\ o.op \in {"Jump", "LabelDef"} => o.label \in Labels
      /\ o.op \in CondJumps => o.trueLabel \in Labels /\ o.falseLabel \in Labels
      /\ o.op = "DefineStackPushed" => o.name \in VarName
      /\ \/ o.op \in {"Mov", "MovR", "Ret", "Addr", "Deref", "DerefStore", "Call",
                      "DefineStackPushed", "LabelDef", "Jump"}
         \/ o.op \in BinaryOps
         \/ o.op \in CondJumps
  BY DEF places, temps
<1> QED
  BY <1>1 DEF BinaryOps, CondJumps

LEMMA PlaceKinds ==
    ASSUME NEW v \in Places(TempId, VarName)
    PROVE  /\ v \in IRValue
           /\ v.kind \in {"temp", "var"}
           /\ v # NoOperand
BY DEF IRValue, Values, Places, Temps, Variables, NoOperand

LEMMA ValuesReadType ==
    ASSUME NEW o \in IROperation
    PROVE  ValuesRead(o) \in Seq(IRValue)
<1>1. CASE o.op = "Call"
  BY <1>1, OperationFields DEF ValuesRead, MoveOps, BinaryOps
<1>2. CASE o.op # "Call"
  BY <1>2, OperationFields DEF ValuesRead, MoveOps, BinaryOps, CondJumps
<1> QED
  BY <1>1, <1>2

LEMMA TargetType ==
    ASSUME NEW o \in IROperation
    PROVE  Target(o) \in Places(TempId, VarName) \cup {NoOperand}
BY OperationFields DEF Target, MoveOps, BinaryOps, Places

(* The instructions the pass makes.                                        *)
LEMMA Instructions ==
    ASSUME NEW ids, NEW r \in Register(ids), NEW s \in Register(ids)
    PROVE  /\ \A o \in RegisterRegister : Ins(o, r, s) \in Instruction(ids)
           /\ \A o \in RegisterImmediate, v \in Immediates : Ins(o, r, v) \in Instruction(ids)
           /\ \A l \in StackLocations :
                  /\ Ins("Load", r, l) \in Instruction(ids)
                  /\ Ins("Lea", r, l) \in Instruction(ids)
                  /\ Ins("Store", l, r) \in Instruction(ids)
           /\ \A o \in SetsAl : Ins(o, r, NoOperand) \in Instruction(ids)
           /\ Ins("Push", NoOperand, r) \in Instruction(ids)
           /\ \A n \in LabelNames : Ins("Call", r, n) \in Instruction(ids)
BY DEF Instruction, Ins

LEMMA OtherInstructions ==
    ASSUME NEW ids
    PROVE  /\ \A l \in StackLocations, v \in Immediates : Ins("StoreI", l, v) \in Instruction(ids)
           /\ \A o \in LabelOnly, n \in LabelNames : Ins(o, NoOperand, n) \in Instruction(ids)
           /\ \A v \in Immediates : Ins("PushI", NoOperand, v) \in Instruction(ids)
BY DEF Instruction, Ins

LEMMA RegisterKinds ==
    ASSUME NEW ids, NEW r \in Register(ids)
    PROVE  /\ IsRegister(r)
           /\ IsVirtual(r) <=> r \notin HardRegisters
           /\ IsVirtual(r) => r.id \in ids
           /\ IsHardcoded(r) => r \in HardRegisters /\ r.reg \in BaseRegister
           /\ r # NoOperand
           /\ r \notin StackLocations
           /\ r \notin Immediates
BY DEF Register, HardRegisters, IsRegister, IsVirtual, IsHardcoded, NoOperand,
       StackLocations, Immediates

LEMMA NotRegisters ==
    ASSUME NEW x \in StackLocations \cup Immediates \cup LabelNames \cup {NoOperand}
    PROVE  ~IsVirtual(x) /\ ~IsHardcoded(x) /\ ~IsRegister(x)
BY DEF StackLocations, Immediates, LabelNames, NoOperand, IsRegister, IsVirtual, IsHardcoded

LEMMA MoreRegisters ==
    ASSUME NEW m \in Nat, NEW n \in Nat, m <= n
    PROVE  /\ Register(0..(m - 1)) \subseteq Register(0..(n - 1))
           /\ Register(0..(m - 1)) \subseteq Register(Nat)
           /\ HardRegisters \subseteq Register(0..(m - 1))
BY DEF Register

LEMMA InstructionIds ==
    ASSUME NEW ids, NEW i \in Instruction(ids)
    PROVE  /\ i.dst \in Register(ids) \cup StackLocations \cup {NoOperand}
           /\ i.src \in Register(ids) \cup StackLocations \cup Immediates
                            \cup LabelNames \cup {NoOperand}
           /\ IsVirtual(i.dst) => i.dst.id \in ids
           /\ IsVirtual(i.src) => i.src.id \in ids
<1>1. /\ i.dst \in Register(ids) \cup StackLocations \cup {NoOperand}
      /\ i.src \in Register(ids) \cup StackLocations \cup Immediates
                       \cup LabelNames \cup {NoOperand}
  BY DEF Instruction
<1> QED
  BY <1>1, RegisterKinds, NotRegisters

LEMMA NumberedInstruction ==
    ASSUME NEW n \in Nat, NEW i \in Instruction(0..(n - 1))
    PROVE  /\ i \in Instruction(Nat)
           /\ IsVirtual(i.dst) => i.dst.id \in 0..(n - 1)
           /\ IsVirtual(i.src) => i.src.id \in 0..(n - 1)
<1>1. i \in Instruction(Nat)
  BY MoreRegisters DEF Instruction
<1> QED
  BY <1>1, InstructionIds

-----------------------------------------------------------------------------
(* Contexts.                                                               *)
LEMMA ContextFields ==
    ASSUME NEW c, ContextOK(c)
    PROVE  /\ c.tempCounter \in Nat /\ c.stackOffset \in Nat
           /\ c.stackPassedParameterOffset \in Nat
           /\ c.thrown \in BOOLEAN
           /\ c.code \in Seq(Instruction(Nat))
           /\ c.variable_offset \in [VarName -> StackLocations \cup {NoOperand}]
           /\ \A t \in TempId :
                  Mapped(c, t) => /\ c.temp_register_mapping[t] \in Known(c) \ HardRegisters
                                  /\ IsVirtual(c.temp_register_mapping[t])
                                  /\ RegisterOf(c, t) \in 0..(c.tempCounter - 1)
BY DEF ContextOK, Context, Known, Register, HardRegisters, Mapped, RegisterOf,
       Numbered, IsVirtual, NoOperand

LEMMA FollowsSame == ASSUME NEW c, ContextOK(c) PROVE Follows(c, c) /\ SameSlots(c, c)
BY ContextFields DEF Follows, SameSlots

LEMMA FollowsTrans ==
    ASSUME NEW c, NEW d, NEW e, ContextOK(c), Follows(c, d), Follows(d, e)
    PROVE  /\ Follows(c, e)
           /\ Known(c) \subseteq Known(d)
           /\ SameSlots(c, d) /\ SameSlots(d, e) => SameSlots(c, e)
<1>1. /\ c.tempCounter \in Nat /\ d.tempCounter \in Nat /\ e.tempCounter \in Nat
      /\ ContextOK(d)
  BY ContextFields DEF Follows
<1>2. Follows(c, e)
  BY <1>1 DEF Follows, Mapped
<1>3. Known(c) \subseteq Known(d)
  BY <1>1, MoreRegisters DEF Known, Follows
<1> QED
  BY <1>2, <1>3 DEF SameSlots

LEMMA KnownGrows ==
    ASSUME NEW c, NEW d, ContextOK(c), Follows(c, d)
    PROVE  Known(c) \subseteq Known(d) /\ Locations(c) \subseteq Locations(d)
BY ContextFields, MoreRegisters DEF Known, Locations, Follows

LEMMA EmitFollows ==
    ASSUME NEW c, ContextOK(c), NEW i \in Instruction(0..(c.tempCounter - 1))
    PROVE  /\ Follows(c, Emit(c, i))
           /\ SameSlots(c, Emit(c, i))
           /\ Emit(c, i).tempCounter = c.tempCounter
           /\ Emit(c, i).temp_register_mapping = c.temp_register_mapping
           /\ Emit(c, i).thrown = c.thrown
           /\ Emit(c, i).code = Append(c.code, i)
<1> DEFINE d == Emit(c, i)
<1>1. /\ c \in Context /\ c.tempCounter \in Nat /\ c.code \in Seq(Instruction(Nat))
  BY ContextFields DEF ContextOK
<1>2. i \in Instruction(Nat) /\ Numbered(c, i.dst) /\ Numbered(c, i.src)
  BY <1>1, NumberedInstruction DEF Numbered
<1>3. /\ d.variable_offset = c.variable_offset
      /\ d.temp_register_mapping = c.temp_register_mapping
      /\ d.tempCounter = c.tempCounter
      /\ d.stackOffset = c.stackOffset
      /\ d.stackPassedParameterOffset = c.stackPassedParameterOffset
      /\ d.code = Append(c.code, i)
      /\ d.thrown = c.thrown
      /\ d \in Context
  <2>1. Append(c.code, i) \in Seq(Instruction(Nat))
    BY <1>1, <1>2
  <2> QED
    BY <1>1, <2>1 DEF Emit, Context
<1>4. \A n \in DOMAIN d.code : Numbered(d, d.code[n].dst) /\ Numbered(d, d.code[n].src)
  BY <1>1, <1>2, <1>3 DEF Numbered, ContextOK
<1>5. ContextOK(d)
  BY <1>3, <1>4 DEF ContextOK, Numbered, Mapped, RegisterOf
<1> QED
  BY <1>1, <1>3, <1>5 DEF Follows, SameSlots

LEMMA ThrowsFollows ==
    ASSUME NEW c, ContextOK(c)
    PROVE  /\ Follows(c, Throws(c))
           /\ SameSlots(c, Throws(c))
           /\ Throws(c).thrown
           /\ Throws(c).temp_register_mapping = c.temp_register_mapping
<1> DEFINE d == Throws(c)
<1>1. /\ d.variable_offset = c.variable_offset
      /\ d.temp_register_mapping = c.temp_register_mapping
      /\ d.tempCounter = c.tempCounter
      /\ d.stackOffset = c.stackOffset
      /\ d.stackPassedParameterOffset = c.stackPassedParameterOffset
      /\ d.code = c.code
      /\ d.thrown
      /\ d \in Context
  BY DEF Throws, Context, ContextOK
<1>2. ContextOK(d)
  BY <1>1 DEF ContextOK, Numbered, Mapped, RegisterOf
<1> QED
  BY <1>1, <1>2, ContextFields DEF Follows, SameSlots

(* A new register has a number no one else has.                            *)
LEMMA NewRegisterFollows ==
    ASSUME NEW c, ContextOK(c), NEW size \in {4, 8}
    PROVE  LET d == AfterNewRegister(c)
           IN  /\ Follows(c, d)
               /\ SameSlots(c, d)
               /\ d.tempCounter = c.tempCounter + 1
               /\ d.temp_register_mapping = c.temp_register_mapping
               /\ d.thrown = c.thrown
               /\ d.code = c.code
               /\ NewRegister(c, size) \in Known(d)
               /\ IsVirtual(NewRegister(c, size))
               /\ NewRegister(c, size).id = c.tempCounter
<1> DEFINE d == AfterNewRegister(c)
<1>1. /\ c \in Context /\ c.tempCounter \in Nat
  BY ContextFields DEF ContextOK
<1>2. /\ d.variable_offset = c.variable_offset
      /\ d.temp_register_mapping = c.temp_register_mapping
      /\ d.tempCounter = c.tempCounter + 1
      /\ d.stackOffset = c.stackOffset
      /\ d.stackPassedParameterOffset = c.stackPassedParameterOffset
      /\ d.code = c.code
      /\ d.thrown = c.thrown
      /\ d \in Context
  BY <1>1 DEF AfterNewRegister, Context
<1>3. /\ \A t \in TempId : Numbered(d, d.temp_register_mapping[t])
      /\ \A n \in DOMAIN d.code : Numbered(d, d.code[n].dst) /\ Numbered(d, d.code[n].src)
  <2>1. ASSUME NEW x, Numbered(c, x), IsVirtual(x) => x.id \in Nat
        PROVE  Numbered(d, x)
    BY <1>1, <1>2, <2>1 DEF Numbered
  <2>2. \A t \in TempId : IsVirtual(c.temp_register_mapping[t]) => RegisterOf(c, t) \in Nat
    BY ContextFields, NotRegisters DEF Mapped
  <2>3. \A n \in DOMAIN c.code : /\ IsVirtual(c.code[n].dst) => c.code[n].dst.id \in Nat
                                 /\ IsVirtual(c.code[n].src) => c.code[n].src.id \in Nat
    BY ContextFields, InstructionIds
  <2> QED
    BY <1>2, <2>1, <2>2, <2>3 DEF ContextOK, RegisterOf
<1>4. ContextOK(d)
  BY <1>2, <1>3 DEF ContextOK, Mapped, RegisterOf
<1>5. /\ NewRegister(c, size) \in Known(d)
      /\ IsVirtual(NewRegister(c, size))
      /\ NewRegister(c, size).id = c.tempCounter
  BY <1>1, <1>2 DEF NewRegister, VirtualRegister, Known, Register, IsVirtual
<1> QED
  BY <1>1, <1>2, <1>4, <1>5 DEF Follows, SameSlots
-----------------------------------------------------------------------------
(* Registers for temporaries and slots for variables.                      *)
LEMMA AllocateTempFollows ==
    ASSUME NEW c, ContextOK(c), NEW t \in Temps(TempId)
    PROVE  LET d == AllocateNewForTemp(c, t)
           IN  /\ Follows(c, d)
               /\ SameSlots(c, d)
               /\ d.code = c.code
               /\ d.thrown = c.thrown
               /\ Mapped(d, t.id)
               /\ LocationOf(d, t) = d.temp_register_mapping[t.id]
               /\ LocationOf(d, t) \in Known(d) \ HardRegisters
               /\ IsVirtual(LocationOf(d, t))
               /\ \A u \in TempId :
                      u # t.id => d.temp_register_mapping[u] = c.temp_register_mapping[u]
               /\ Mapped(c, t.id) => d = c
               /\ ~Mapped(c, t.id) => RegisterOf(d, t.id) = c.tempCounter
<1> DEFINE d == AllocateNewForTemp(c, t)
           n == AfterNewRegister(c)
           r == NewRegister(c, t.size)
<1>1. /\ t.id \in TempId /\ t.size \in {4, 8} /\ t.kind = "temp"
      /\ LocationOf(d, t) = d.temp_register_mapping[t.id]
  BY DEF Temps, LocationOf
<1>2. CASE Mapped(c, t.id)
  <2>1. d = c
    BY <1>2 DEF AllocateNewForTemp, Mapped
  <2> QED
    BY <1>1, <1>2, <2>1, FollowsSame, ContextFields
<1>3. CASE ~Mapped(c, t.id)
  <2>1. /\ Follows(c, n) /\ ContextOK(n) /\ n \in Context
        /\ SameSlots(c, n) /\ n.tempCounter = c.tempCounter + 1
        /\ n.temp_register_mapping = c.temp_register_mapping
        /\ n.thrown = c.thrown /\ n.code = c.code
        /\ r \in Known(n) /\ IsVirtual(r) /\ r.id = c.tempCounter
        /\ c.tempCounter \in Nat
    BY <1>1, NewRegisterFollows, ContextFields DEF Follows, ContextOK
  <2>2. r \in Register(Nat) \ HardRegisters /\ r # NoOperand
    <3>1. n.tempCounter \in Nat
      BY <2>1
    <3>2. r \in Register(0..(n.tempCounter - 1)) /\ r \in Register(Nat)
      BY <2>1, <3>1, MoreRegisters DEF Known
    <3> QED
      BY <2>1, <3>2, RegisterKinds
  <2>3. d = [n EXCEPT !.temp_register_mapping[t.id] = r]
    BY <1>3 DEF AllocateNewForTemp, Mapped
  <2>4. /\ n.temp_register_mapping
               \in [TempId -> (Register(Nat) \ HardRegisters) \cup {NoOperand}]
        /\ d.temp_register_mapping = [n.temp_register_mapping EXCEPT ![t.id] = r]
        /\ d.variable_offset = n.variable_offset
        /\ d.tempCounter = n.tempCounter
        /\ d.stackOffset = n.stackOffset
        /\ d.stackPassedParameterOffset = n.stackPassedParameterOffset
        /\ d.code = n.code
        /\ d.thrown = n.thrown
    BY <2>1, <2>3 DEF Context
  <2>5. d.temp_register_mapping \in [TempId -> (Register(Nat) \ HardRegisters) \cup {NoOperand}]
    BY <1>1, <2>2, <2>4
  <2>6. d \in Context
    BY <2>1, <2>3, <2>4, <2>5 DEF Context
  <2>7. /\ d.temp_register_mapping[t.id] = r
        /\ \A u \in TempId :
               u # t.id => d.temp_register_mapping[u] = c.temp_register_mapping[u]
    BY <1>1, <2>1, <2>4
  <2>8. \A u \in TempId :
            u # t.id /\ Mapped(c, u) => RegisterOf(c, u) # c.tempCounter
    BY <2>1, ContextFields
  <2>9. ContextOK(d)
    <3>1. \A u, w \in TempId :
              u # w /\ Mapped(d, u) /\ Mapped(d, w) => RegisterOf(d, u) # RegisterOf(d, w)
      BY <2>1, <2>7, <2>8 DEF ContextOK, Mapped, RegisterOf
    <3>2. \A u \in TempId : Numbered(d, d.temp_register_mapping[u])
      BY <2>1, <2>4, <2>7 DEF ContextOK, Numbered
    <3>3. \A k \in DOMAIN d.code : Numbered(d, d.code[k].dst) /\ Numbered(d, d.code[k].src)
      BY <2>1, <2>4 DEF ContextOK, Numbered
    <3> QED
      BY <2>6, <3>1, <3>2, <3>3 DEF ContextOK
  <2>10. Follows(c, d) /\ SameSlots(c, d)
    BY <1>3, <2>1, <2>4, <2>7, <2>9 DEF Follows, SameSlots, Mapped
  <2>11. LocationOf(d, t) \in Known(d)
    BY <1>1, <2>1, <2>4, <2>7 DEF Known
  <2> QED
    BY <1>1, <1>3, <2>1, <2>2, <2>4, <2>7, <2>10, <2>11 DEF Mapped, RegisterOf
<1> QED
  BY <1>2, <1>3

LEMMA AllocateVariableFollows ==
    ASSUME NEW c, ContextOK(c), NEW v \in Variables(VarName)
    PROVE  LET d == AllocateNewForVariable(c, v)
           IN  /\ Follows(c, d)
               /\ d.code = c.code
               /\ d.thrown = c.thrown
               /\ d.tempCounter = c.tempCounter
               /\ d.temp_register_mapping = c.temp_register_mapping
               /\ LocationOf(d, v) \in StackLocations
<1> DEFINE d == AllocateNewForVariable(c, v)
<1>1. /\ v.name \in VarName /\ v.size \in {4, 8} /\ v.kind = "var"
      /\ c \in Context /\ c.stackOffset \in Nat
      /\ c.variable_offset \in [VarName -> StackLocations \cup {NoOperand}]
  BY ContextFields DEF Variables, ContextOK
<1>2. CASE c.variable_offset[v.name] # NoOperand
  <2>1. d = c
    BY <1>2 DEF AllocateNewForVariable
  <2> QED
    BY <1>1, <1>2, <2>1, FollowsSame DEF LocationOf
<1>3. CASE c.variable_offset[v.name] = NoOperand
  <2> DEFINE l == StackLocation(c.stackOffset + v.size)
  <2>1. l \in StackLocations
    BY <1>1 DEF StackLocation, StackLocations
  <2>2. d = [c EXCEPT !.stackOffset = @ + v.size, !.variable_offset[v.name] = l]
    BY <1>3 DEF AllocateNewForVariable
  <2>3. /\ d.variable_offset = [c.variable_offset EXCEPT ![v.name] = l]
        /\ d.temp_register_mapping = c.temp_register_mapping
        /\ d.tempCounter = c.tempCounter
        /\ d.stackOffset = c.stackOffset + v.size
        /\ d.stackPassedParameterOffset = c.stackPassedParameterOffset
        /\ d.code = c.code
        /\ d.thrown = c.thrown
    BY <1>1, <2>2 DEF Context
  <2>4. d.variable_offset \in [VarName -> StackLocations \cup {NoOperand}]
    BY <1>1, <2>1, <2>3
  <2>5. d \in Context
    <3>1. c.stackOffset + v.size \in Nat
      BY <1>1
    <3> QED
      BY <1>1, <2>2, <2>3, <2>4, <3>1 DEF Context
  <2>6. ContextOK(d)
    BY <2>3, <2>5 DEF ContextOK, Numbered, Mapped, RegisterOf
  <2>7. Follows(c, d)
    BY <2>3, <2>6, ContextFields DEF Follows
  <2> QED
    BY <1>1, <2>1, <2>3, <2>7 DEF LocationOf
<1> QED
  BY <1>2, <1>3

LEMMA DefineFollows ==
    ASSUME NEW c, ContextOK(c), NEW name \in VarName
    PROVE  LET d == define_stack_pushed_variable(c, name)
           IN  /\ Follows(c, d)
               /\ d.code = c.code
               /\ d.thrown = c.thrown
               /\ d.tempCounter = c.tempCounter
               /\ d.temp_register_mapping = c.temp_register_mapping
<1> DEFINE d == define_stack_pushed_variable(c, name)
           l == StackLocation(-c.stackPassedParameterOffset)
<1>1. /\ c \in Context /\ c.stackPassedParameterOffset \in Nat
      /\ c.variable_offset \in [VarName -> StackLocations \cup {NoOperand}]
  BY ContextFields DEF ContextOK
<1>2. l \in StackLocations
  BY <1>1 DEF StackLocation, StackLocations
<1>3. /\ d.variable_offset = [c.variable_offset EXCEPT ![name] = l]
      /\ d.temp_register_mapping = c.temp_register_mapping
      /\ d.tempCounter = c.tempCounter
      /\ d.stackOffset = c.stackOffset
      /\ d.stackPassedParameterOffset = c.stackPassedParameterOffset + 8
      /\ d.code = c.code
      /\ d.thrown = c.thrown
  BY <1>1 DEF define_stack_pushed_variable, Context
<1>4. d.variable_offset \in [VarName -> StackLocations \cup {NoOperand}]
  BY <1>1, <1>2, <1>3
<1>5. d \in Context
  <2>1. c.stackPassedParameterOffset + 8 \in Nat
    BY <1>1
  <2>2. d = [c EXCEPT !.variable_offset = d.variable_offset,
                      !.stackPassedParameterOffset = @ + 8]
    BY <1>1, <1>3 DEF define_stack_pushed_variable, Context
  <2> QED
    BY <1>1, <1>4, <2>1, <2>2 DEF Context
<1>6. ContextOK(d)
  BY <1>3, <1>5 DEF ContextOK, Numbered, Mapped, RegisterOf
<1> QED
  BY <1>3, <1>6, ContextFields DEF Follows

LEMMA AllocateFollows ==
    ASSUME NEW c, ContextOK(c), NEW v \in Places(TempId, VarName)
    PROVE  LET d == AllocateNew(c, v)
           IN  /\ Follows(c, d)
               /\ d.code = c.code
               /\ d.thrown = c.thrown
               /\ LocationOf(d, v) \in Locations(d)
               /\ IF v.kind = "temp"
                    THEN d = AllocateNewForTemp(c, v) /\ v \in Temps(TempId)
                  ELSE d = AllocateNewForVariable(c, v) /\ v \in Variables(VarName)
<1>1. \/ v.kind = "temp" /\ v \in Temps(TempId)
      \/ v.kind = "var" /\ v \in Variables(VarName)
  BY DEF Places, Temps, Variables
<1> QED
  BY <1>1, AllocateTempFollows, AllocateVariableFollows DEF AllocateNew, Locations

-----------------------------------------------------------------------------
(* Moving values.                                                          *)
LEMMA SlotLocation ==
    ASSUME NEW c, ContextOK(c), NEW v \in IRValue, HasSlot(c, v)
    PROVE  LocationOf(c, v) \in StackLocations
BY ValueKinds, ContextFields DEF HasSlot, LocationOf

LEMMA RegisterToLocationFollows ==
    ASSUME NEW c, ContextOK(c), NEW l \in Locations(c), NEW r \in Known(c)
    PROVE  LET d == Register_To_Location(c, l, r)
           IN  /\ Follows(c, d)
               /\ SameSlots(c, d)
               /\ d.thrown = c.thrown
               /\ d.temp_register_mapping = c.temp_register_mapping
<1>1. Ins(IF IsRegister(l) THEN "Mov" ELSE "Store", l, r)
          \in Instruction(0..(c.tempCounter - 1))
  BY Instructions, RegisterKinds, NotRegisters DEF Locations, Known, RegisterRegister
<1> QED
  BY <1>1, EmitFollows DEF Register_To_Location

LEMMA ToLocationFollows ==
    ASSUME NEW c, ContextOK(c), NEW l \in Locations(c), NEW v \in IRValue
    PROVE  LET d == toLocation(c, l, v)
           IN  /\ Follows(c, d)
               /\ SameSlots(c, d)
               /\ Held(c, v) => d.temp_register_mapping = c.temp_register_mapping
<1> DEFINE d == toLocation(c, l, v)
<1>1. /\ v.kind \in {"temp", "var", "hard", "int"}
      /\ IsRegister(l) => l \in Known(c)
      /\ ~IsRegister(l) => l \in StackLocations
  BY ValueKinds, RegisterKinds, NotRegisters DEF Locations, Known
<1>2. CASE v.kind = "int"
  <2>1. Ins(IF IsRegister(l) THEN "LoadI" ELSE "StoreI", l, v)
            \in Instruction(0..(c.tempCounter - 1))
    BY <1>1, <1>2, ValueKinds, Instructions, OtherInstructions DEF Known, RegisterImmediate
  <2> QED
    BY <1>2, <2>1, EmitFollows DEF toLocation, HasSlot
<1>3. CASE v.kind = "temp"
  <2> DEFINE a == AllocateNewForTemp(c, v)
  <2>1. v \in Temps(TempId)
    BY <1>3, ValueKinds
  <2>2. /\ Follows(c, a) /\ ContextOK(a) /\ SameSlots(c, a)
        /\ LocationOf(a, v) \in Known(a)
        /\ Mapped(c, v.id) => a = c
    BY <2>1, AllocateTempFollows DEF Follows
  <2>3. l \in Locations(a)
    BY <2>2, KnownGrows
  <2>4. d = Register_To_Location(a, l, LocationOf(a, v))
    BY <1>3 DEF toLocation, HasSlot
  <2>5. /\ Follows(a, d) /\ SameSlots(a, d)
        /\ d.temp_register_mapping = a.temp_register_mapping
    BY <2>2, <2>3, <2>4, RegisterToLocationFollows
  <2>6. Follows(c, d) /\ SameSlots(c, d)
    BY <2>2, <2>5, FollowsTrans
  <2> QED
    BY <1>3, <2>2, <2>5, <2>6 DEF Held
<1>4. CASE v.kind = "hard" /\ IsRegister(l)
  BY <1>4, ThrowsFollows DEF toLocation, HasSlot
<1>5. CASE v.kind = "hard" /\ ~IsRegister(l)
  <2>1. v \in Known(c)
    BY <1>5, ValueKinds DEF Known, Register
  <2> QED
    BY <1>5, <2>1, RegisterToLocationFollows DEF toLocation, HasSlot, Locations
<1>6. CASE v.kind = "var" /\ ~HasSlot(c, v)
  BY <1>6, ThrowsFollows DEF toLocation
<1>7. CASE v.kind = "var" /\ HasSlot(c, v) /\ IsRegister(l)
  <2>1. Ins("Load", l, LocationOf(c, v)) \in Instruction(0..(c.tempCounter - 1))
    BY <1>1, <1>7, SlotLocation, Instructions DEF Known
  <2> QED
    BY <1>7, <2>1, EmitFollows DEF toLocation
<1>8. CASE v.kind = "var" /\ HasSlot(c, v) /\ ~IsRegister(l)
  <2> DEFINE reg  == NewRegister(c, v.size)
             n    == AfterNewRegister(c)
             load == Ins("Load", reg, LocationOf(c, v))
             e    == Emit(n, load)
  <2>1. /\ Follows(c, n) /\ ContextOK(n) /\ SameSlots(c, n)
        /\ n.temp_register_mapping = c.temp_register_mapping
        /\ reg \in Known(n)
    BY <1>8, ValueKinds, NewRegisterFollows DEF Follows
  <2>2. load \in Instruction(0..(n.tempCounter - 1))
    BY <1>8, <2>1, SlotLocation, Instructions DEF Known
  <2>3. /\ Follows(n, e) /\ ContextOK(e) /\ SameSlots(n, e)
        /\ e.temp_register_mapping = n.temp_register_mapping
        /\ e.tempCounter = n.tempCounter
    BY <2>1, <2>2, EmitFollows DEF Follows
  <2>4. Ins("Store", l, reg) \in Instruction(0..(e.tempCounter - 1))
    BY <1>1, <1>8, <2>1, <2>3, Instructions DEF Known
  <2>5. d = Emit(e, Ins("Store", l, reg))
    BY <1>8 DEF toLocation
  <2>6. /\ Follows(e, d) /\ SameSlots(e, d)
        /\ d.temp_register_mapping = e.temp_register_mapping
    BY <2>3, <2>4, <2>5, EmitFollows
  <2>7. Follows(c, e) /\ SameSlots(c, e)
    BY <2>1, <2>3, FollowsTrans
  <2> QED
    BY <2>1, <2>3, <2>6, <2>7, FollowsTrans
<1> QED
  BY <1>1, <1>2, <1>3, <1>4, <1>5, <1>6, <1>7, <1>8

LEMMA InRegisterFollows ==
    ASSUME NEW c, ContextOK(c), NEW v \in IRValue, NEW size \in {4, 8}
    PROVE  LET r == InRegister(c, v, size)
           IN  /\ Follows(c, r.after)
               /\ SameSlots(c, r.after)
               /\ r.reg = NewRegister(c, size)
               /\ r.reg \in Known(r.after) \ HardRegisters
               /\ Held(c, v) =>
                      r.after.temp_register_mapping = c.temp_register_mapping
<1> DEFINE reg == NewRegister(c, size)
           n   == AfterNewRegister(c)
           d   == toLocation(n, reg, v)
<1>1. /\ Follows(c, n) /\ ContextOK(n) /\ SameSlots(c, n)
      /\ n.temp_register_mapping = c.temp_register_mapping
      /\ reg \in Known(n) /\ IsVirtual(reg)
  BY NewRegisterFollows DEF Follows
<1>2. reg \in Locations(n) /\ reg \notin HardRegisters
  BY <1>1, RegisterKinds DEF Locations, Known
<1>3. /\ Follows(n, d) /\ SameSlots(n, d)
      /\ Held(c, v) => d.temp_register_mapping = n.temp_register_mapping
  BY <1>1, <1>2, ToLocationFollows DEF Held, Mapped
<1>4. Follows(c, d) /\ SameSlots(c, d) /\ reg \in Known(d)
  BY <1>1, <1>3, FollowsTrans, KnownGrows
<1> QED
  BY <1>1, <1>2, <1>3, <1>4 DEF InRegister
-----------------------------------------------------------------------------
(* Operations.                                                             *)
LEMMA EnsureRegisterFollows ==
    ASSUME NEW c, ContextOK(c), NEW v \in IRValue
    PROVE  LET r == ensureRegister(c, v)
           IN  /\ Follows(c, r.after)
               /\ SameSlots(c, r.after)
               /\ r.reg \in Known(r.after)
               /\ Held(c, v) => r.after.temp_register_mapping = c.temp_register_mapping
<1>1. CASE v.kind = "hard"
  <2>1. v \in Known(c)
    BY <1>1, ValueKinds DEF Known, Register
  <2> QED
    BY <1>1, <2>1, FollowsSame DEF ensureRegister
<1>2. CASE v.kind # "hard"
  BY <1>2, ValueKinds, InRegisterFollows DEF ensureRegister
<1> QED
  BY <1>1, <1>2

LEMMA TwoOperandFollows ==
    ASSUME NEW c, ContextOK(c), NEW o \in {"Add", "Sub", "Cmp"}, NEW reg \in Known(c),
           NEW rhs \in Known(c) \cup Immediates
    PROVE  LET d == TwoOperand(c, o, reg, rhs)
           IN  /\ Follows(c, d)
               /\ SameSlots(c, d)
               /\ d.temp_register_mapping = c.temp_register_mapping
               /\ d.thrown = c.thrown
               /\ d.tempCounter = c.tempCounter
<1>1. ImmediateForm[o] \in RegisterImmediate /\ o \in RegisterRegister
  BY DEF ImmediateForm, RegisterImmediate, RegisterRegister
<1>2. Ins(IF IsRegister(rhs) THEN o ELSE ImmediateForm[o], reg, rhs)
          \in Instruction(0..(c.tempCounter - 1))
  BY <1>1, Instructions, RegisterKinds, NotRegisters DEF Known
<1> QED
  BY <1>2, EmitFollows DEF TwoOperand

LEMMA ToDestinationFollows ==
    ASSUME NEW c, ContextOK(c), NEW dst, NEW reg \in Known(c),
           dst # NoOperand => LocationOf(c, dst) \in Locations(c)
    PROVE  LET d == ToDestination(c, dst, reg)
           IN  /\ Follows(c, d)
               /\ SameSlots(c, d)
               /\ d.temp_register_mapping = c.temp_register_mapping
               /\ d.thrown = c.thrown
BY FollowsSame, RegisterToLocationFollows DEF ToDestination

(* A place that has its location keeps it.                                 *)
LEMMA LocationKept ==
    ASSUME NEW c, NEW d, ContextOK(c), Follows(c, d), SameSlots(c, d),
           NEW v \in Places(TempId, VarName), v.kind = "temp" => Mapped(c, v.id),
           LocationOf(c, v) \in Locations(c)
    PROVE  LocationOf(d, v) = LocationOf(c, v) /\ LocationOf(d, v) \in Locations(d)
<1>1. (v.kind = "temp" /\ v.id \in TempId) \/ v.kind = "var"
  BY PlaceKinds, ValueKinds
<1>2. LocationOf(d, v) = LocationOf(c, v)
  BY <1>1 DEF LocationOf, Follows, SameSlots
<1> QED
  BY <1>2, KnownGrows

LEMMA PreparedFollows ==
    ASSUME NEW c, ContextOK(c), NEW dst \in Places(TempId, VarName) \cup {NoOperand}
    PROVE  LET a == Prepared(c, dst)
           IN  /\ Follows(c, a)
               /\ ContextOK(a)
               /\ a.code = c.code
               /\ a.thrown = c.thrown
               /\ dst # NoOperand => /\ LocationOf(a, dst) \in Locations(a)
                                     /\ dst \in Places(TempId, VarName)
                                     /\ (dst.kind = "temp" => Mapped(a, dst.id))
               /\ \A d : Follows(a, d) /\ SameSlots(a, d) /\ dst # NoOperand =>
                      /\ LocationOf(d, dst) = LocationOf(a, dst)
                      /\ LocationOf(d, dst) \in Locations(d)
<1>1. CASE dst = NoOperand
  BY <1>1, FollowsSame DEF Prepared
<1>2. CASE dst # NoOperand
  <2> DEFINE a == AllocateNew(c, dst)
  <2>1. dst \in Places(TempId, VarName) /\ Prepared(c, dst) = a
    BY <1>2 DEF Prepared
  <2>2. /\ Follows(c, a) /\ a.code = c.code /\ a.thrown = c.thrown
        /\ LocationOf(a, dst) \in Locations(a)
        /\ dst.kind = "temp" => a = AllocateNewForTemp(c, dst) /\ dst \in Temps(TempId)
    BY <2>1, AllocateFollows
  <2>3. dst.kind = "temp" => Mapped(a, dst.id)
    BY <2>2, AllocateTempFollows
  <2> HIDE DEF a
  <2>4. ContextOK(a)
    BY <2>2 DEF Follows
  <2>5. ASSUME NEW d, Follows(a, d), SameSlots(a, d)
        PROVE  LocationOf(d, dst) = LocationOf(a, dst) /\ LocationOf(d, dst) \in Locations(d)
    BY <2>1, <2>2, <2>3, <2>4, <2>5, LocationKept
  <2> QED
    BY <1>2, <2>1, <2>2, <2>3, <2>4, <2>5
<1> QED
  BY <1>1, <1>2

LEMMA CreateArthFollows ==
    ASSUME NEW c, ContextOK(c), NEW o \in IROperation, o.op \in BinaryOps,
           NEW reg \in Known(c), NEW rhs \in Known(c) \cup Immediates,
           o.dst # NoOperand =>
               \A e : Follows(c, e) /\ SameSlots(c, e) =>
                         LocationOf(e, o.dst) \in Locations(e)
    PROVE  LET d == Create_Arth_Instruction(c, o, reg, rhs)
           IN  Follows(c, d) /\ SameSlots(c, d)
<1> DEFINE d == Create_Arth_Instruction(c, o, reg, rhs)
<1>1. CASE o.op \in {"Add", "Sub"}
  <2> DEFINE e == TwoOperand(c, o.op, reg, rhs)
  <2>1. Follows(c, e) /\ ContextOK(e) /\ SameSlots(c, e)
    BY <1>1, TwoOperandFollows DEF Follows
  <2>2. d = ToDestination(e, o.dst, reg)
    BY <1>1 DEF Create_Arth_Instruction
  <2> HIDE DEF e
  <2>3. reg \in Known(e)
    BY <2>1, KnownGrows
  <2>4. Follows(e, d) /\ SameSlots(e, d)
    BY <2>1, <2>2, <2>3, ToDestinationFollows
  <2> QED
    BY <2>1, <2>4, FollowsTrans
<1>2. CASE o.op \notin {"Add", "Sub"}
  <2> DEFINE e == TwoOperand(c, "Cmp", reg, rhs)
             newReg == NewRegister(e, 4)
             n   == AfterNewRegister(e)
             set == Ins(SetInstruction[o.op], newReg, NoOperand)
             s   == Emit(n, set)
  <2>1. Follows(c, e) /\ ContextOK(e) /\ SameSlots(c, e)
    BY TwoOperandFollows DEF Follows
  <2>2. CASE o.op = "NotEqual" /\ ~IsRegister(rhs)
    <3>1. d = Throws(e)
      BY <1>2, <2>2 DEF Create_Arth_Instruction
    <3> HIDE DEF e
    <3> QED
      BY <2>1, <3>1, ThrowsFollows, FollowsTrans
  <2>3. CASE ~(o.op = "NotEqual" /\ ~IsRegister(rhs))
    <3>1. d = ToDestination(s, o.dst, newReg)
      BY <1>2, <2>3 DEF Create_Arth_Instruction
    <3>2. SetInstruction[o.op] \in SetsAl
      BY <1>2 DEF SetInstruction, SetsAl, BinaryOps
    <3> HIDE DEF e
    <3>3. /\ Follows(e, n) /\ ContextOK(n) /\ SameSlots(e, n)
          /\ newReg \in Known(n)
      BY <2>1, NewRegisterFollows DEF Follows
    <3> HIDE DEF n, newReg
    <3>4. set \in Instruction(0..(n.tempCounter - 1))
      BY <3>2, <3>3, Instructions DEF Known
    <3> HIDE DEF set
    <3>5. Follows(n, s) /\ ContextOK(s) /\ SameSlots(n, s)
      BY <3>3, <3>4, EmitFollows DEF Follows
    <3> HIDE DEF s
    <3>6. Follows(c, n) /\ SameSlots(c, n)
      BY <2>1, <3>3, FollowsTrans
    <3>7. Follows(c, s) /\ SameSlots(c, s) /\ newReg \in Known(s)
      BY <2>1, <3>3, <3>5, <3>6, FollowsTrans, KnownGrows
    <3>8. Follows(s, d) /\ SameSlots(s, d)
      BY <3>1, <3>5, <3>7, ToDestinationFollows
    <3> QED
      BY <3>7, <3>8, FollowsTrans
  <2> QED
    BY <2>2, <2>3
<1> QED
  BY <1>1, <1>2

LEMMA ArthFollows ==
    ASSUME NEW c, ContextOK(c), NEW o \in IROperation, o.op \in BinaryOps
    PROVE  LET a == Prepared(c, o.dst)
               d == LowerArth(c, o)
           IN  Follows(a, d) /\ SameSlots(a, d)
<1> DEFINE a == Prepared(c, o.dst)
           l == ensureRegister(a, o.left)
           r == IF o.right.kind = "int" /\ o.left.kind # "int"
                  THEN [reg |-> o.right, after |-> l.after]
                ELSE ensureRegister(l.after, o.right)
           d == LowerArth(c, o)
<1>1. /\ o.dst \in Places(TempId, VarName) \cup {NoOperand}
      /\ o.left \in IRValue /\ o.right \in IRValue
  BY OperationFields
<1>2. /\ ContextOK(a)
      /\ \A e : Follows(a, e) /\ SameSlots(a, e) =>
             (o.dst # NoOperand => LocationOf(e, o.dst) \in Locations(e))
  BY <1>1, PreparedFollows
<1>3. d = Create_Arth_Instruction(r.after, o, l.reg, r.reg)
  BY DEF LowerArth
<1> HIDE DEF a
<1>4. /\ Follows(a, l.after) /\ ContextOK(l.after) /\ SameSlots(a, l.after)
      /\ l.reg \in Known(l.after)
  BY <1>1, <1>2, EnsureRegisterFollows DEF Follows
<1> HIDE DEF l
<1>5. /\ Follows(l.after, r.after) /\ ContextOK(r.after) /\ SameSlots(l.after, r.after)
      /\ r.reg \in Known(r.after) \cup Immediates
  <2>1. CASE o.right.kind = "int" /\ o.left.kind # "int"
    BY <1>1, <1>4, <2>1, FollowsSame, ValueKinds
  <2>2. CASE ~(o.right.kind = "int" /\ o.left.kind # "int")
    BY <1>1, <1>4, <2>2, EnsureRegisterFollows DEF Follows
  <2> QED
    BY <2>1, <2>2
<1> HIDE DEF r
<1>6. /\ Follows(a, r.after) /\ SameSlots(a, r.after) /\ l.reg \in Known(r.after)
  BY <1>2, <1>4, <1>5, FollowsTrans, KnownGrows
<1> HIDE DEF d
<1>7. \A e : Follows(r.after, e) /\ SameSlots(r.after, e) => Follows(a, e) /\ SameSlots(a, e)
  BY <1>2, <1>6, FollowsTrans
<1>8. Follows(r.after, d) /\ SameSlots(r.after, d)
  BY <1>2, <1>3, <1>5, <1>6, <1>7, CreateArthFollows
<1> QED
  BY <1>7, <1>8 DEF a, d

LEMMA MovFollows ==
    ASSUME NEW c, ContextOK(c), NEW o \in IROperation, o.op \in {"Mov", "MovR"}
    PROVE  LET a == Prepared(c, o.dst)
               d == LowerMov(c, o)
           IN  Follows(a, d) /\ SameSlots(a, d)
<1>1. /\ o.dst \in Places(TempId, VarName) /\ o.src \in IRValue
      /\ o.dst # NoOperand
  BY OperationFields, PlaceKinds
<1>2. /\ ContextOK(Prepared(c, o.dst))
      /\ LocationOf(Prepared(c, o.dst), o.dst) \in Locations(Prepared(c, o.dst))
      /\ LowerMov(c, o) = toLocation(Prepared(c, o.dst),
                                     LocationOf(Prepared(c, o.dst), o.dst), o.src)
  BY <1>1, PreparedFollows DEF LowerMov, Prepared
<1> QED
  BY <1>1, <1>2, ToLocationFollows

LEMMA JumpFollows ==
    ASSUME NEW c, ContextOK(c), NEW o \in LabelOnly, NEW name \in STRING \cup {"end"}
    PROVE  LET d == Emit(c, Ins(o, NoOperand, LabelName(name)))
           IN  Follows(c, d) /\ SameSlots(c, d)
<1>1. LabelName(name) \in LabelNames
  BY DEF LabelName, LabelNames
<1> QED
  BY <1>1, OtherInstructions, EmitFollows

LEMMA HardcodedKnown ==
    ASSUME NEW c, NEW reg \in BaseRegister, NEW size \in {4, 8}
    PROVE  /\ HardcodedRegister(reg, size) \in Known(c)
           /\ HardcodedRegister(reg, size) \in Locations(c)
           /\ IsHardcoded(HardcodedRegister(reg, size))
           /\ ~IsVirtual(HardcodedRegister(reg, size))
BY DEF HardcodedRegister, Known, Locations, Register, HardRegisters, IsHardcoded, IsVirtual

LEMMA RetFollows ==
    ASSUME NEW c, ContextOK(c), NEW o \in IROperation, o.op = "Ret"
    PROVE  Follows(c, LowerRet(c, o)) /\ SameSlots(c, LowerRet(c, o))
<1> DEFINE ax == HardcodedRegister("AX", SizeOf(o.value))
           m  == toLocation(c, ax, o.value)
           d  == Emit(m, Ins("Jump", NoOperand, LabelName("end")))
<1>1. ax \in Locations(c) /\ o.value \in IRValue
  BY OperationFields, ValueKinds, HardcodedKnown DEF BaseRegister
<1>2. Follows(c, m) /\ SameSlots(c, m) /\ ContextOK(m)
  BY <1>1, ToLocationFollows DEF Follows
<1>3. Follows(m, d) /\ SameSlots(m, d)
  BY <1>2, JumpFollows DEF LabelOnly
<1> QED
  BY <1>2, <1>3, FollowsTrans DEF LowerRet

LEMMA AddrFollows ==
    ASSUME NEW c, ContextOK(c), NEW o \in IROperation, o.op = "Addr"
    PROVE  Follows(c, LowerAddr(c, o)) /\ SameSlots(c, LowerAddr(c, o))
<1> DEFINE a   == AllocateNewForTemp(c, o.dst)
           lea == Ins("Lea", LocationOf(a, o.dst), LocationOf(a, o.src))
           d   == LowerAddr(c, o)
<1>1. o.dst \in Temps(TempId) /\ o.src \in IRValue
  BY OperationFields
<1>2. CASE ~HasSlot(c, o.src)
  BY <1>2, ThrowsFollows DEF LowerAddr
<1>3. CASE HasSlot(c, o.src)
  <2>1. d = Emit(a, lea)
    BY <1>3 DEF LowerAddr
  <2>2. /\ Follows(c, a) /\ ContextOK(a) /\ SameSlots(c, a)
        /\ LocationOf(a, o.dst) \in Known(a)
    BY <1>1, AllocateTempFollows DEF Follows
  <2>3. HasSlot(a, o.src)
    BY <1>3, <2>2 DEF HasSlot, SameSlots
  <2>4. lea \in Instruction(0..(a.tempCounter - 1))
    BY <1>1, <2>2, <2>3, SlotLocation, Instructions DEF Known
  <2> HIDE DEF a, lea
  <2>5. Follows(a, d) /\ SameSlots(a, d)
    BY <2>1, <2>2, <2>4, EmitFollows
  <2> QED
    BY <2>2, <2>5, FollowsTrans
<1> QED
  BY <1>2, <1>3

LEMMA DerefStoreFollows ==
    ASSUME NEW c, ContextOK(c), NEW o \in IROperation, o.op = "DerefStore"
    PROVE  Follows(c, LowerDerefStore(c, o)) /\ SameSlots(c, LowerDerefStore(c, o))
<1> DEFINE address == InRegister(c, o.dst, 8)
           value   == InRegister(address.after, o.src, SizeOf(o.src))
           store   == Ins("IndirectStore", address.reg, value.reg)
           d       == LowerDerefStore(c, o)
<1>1. o.dst \in IRValue /\ o.src \in IRValue /\ SizeOf(o.src) \in {4, 8}
  BY OperationFields, ValueKinds
<1>2. d = Emit(value.after, store)
  BY DEF LowerDerefStore
<1>3. /\ Follows(c, address.after) /\ ContextOK(address.after)
      /\ SameSlots(c, address.after)
      /\ address.reg \in Known(address.after)
  BY <1>1, InRegisterFollows DEF Follows
<1> HIDE DEF address
<1>4. /\ Follows(address.after, value.after)
      /\ SameSlots(address.after, value.after)
      /\ value.reg \in Known(value.after)
  BY <1>1, <1>3, InRegisterFollows
<1> HIDE DEF value
<1>5. /\ Follows(c, value.after) /\ SameSlots(c, value.after)
      /\ address.reg \in Known(value.after)
  BY <1>3, <1>4, FollowsTrans, KnownGrows
<1>6. store \in Instruction(0..(value.after.tempCounter - 1))
  BY <1>4, <1>5, Instructions DEF Known, RegisterRegister
<1> HIDE DEF store
<1>7. Follows(value.after, d) /\ SameSlots(value.after, d)
  BY <1>2, <1>4, <1>6, EmitFollows DEF Follows
<1> QED
  BY <1>5, <1>7, FollowsTrans

LEMMA ConditionalJumpFollows ==
    ASSUME NEW c, ContextOK(c), NEW o \in IROperation, o.op \in CondJumps
    PROVE  Follows(c, LowerConditionalJump(c, o)) /\ SameSlots(c, LowerConditionalJump(c, o))
<1> DEFINE d == Emit(c, Ins(JumpInstruction[o.op], NoOperand, LabelName(o.trueLabel)))
           e == Emit(d, Ins("Jump", NoOperand, LabelName(o.falseLabel)))
<1>1. /\ o.trueLabel \in STRING /\ o.falseLabel \in STRING
      /\ JumpInstruction[o.op] \in LabelOnly
  BY OperationFields DEF CondJumps, JumpInstruction, LabelOnly, Labels
<1>2. Follows(c, d) /\ SameSlots(c, d) /\ ContextOK(d)
  BY <1>1, JumpFollows DEF Follows
<1> HIDE DEF d
<1>3. Follows(d, e) /\ SameSlots(d, e)
  BY <1>1, <1>2, JumpFollows DEF LabelOnly
<1> QED
  BY <1>2, <1>3, FollowsTrans DEF LowerConditionalJump, d

LEMMA FollowPointerFollows ==
    ASSUME NEW c, ContextOK(c), NEW slot \in StackLocations, NEW hops \in Nat
    PROVE  LET d == FollowPointer(c, slot, hops)
           IN  /\ Follows(c, d)
               /\ SameSlots(c, d)
               /\ d.thrown = c.thrown
               /\ d.tempCounter = c.tempCounter + hops + 1
               /\ d.temp_register_mapping = c.temp_register_mapping
               /\ Len(d.code) = Len(c.code) + 1 + hops
               /\ DOMAIN d.code = 1..(Len(c.code) + 1 + hops)
               /\ \A n \in 1..Len(c.code) : d.code[n] = c.code[n]
               /\ d.code[Len(c.code) + 1] = Ins("Load", Hop(c, 0), slot)
               /\ \A i \in 1..hops :
                      d.code[Len(c.code) + 1 + i] = Ins("IndirectLoad", Hop(c, i), Hop(c, i - 1))
               /\ \A i \in 0..hops : Hop(c, i) \in Known(d)
<1> DEFINE d    == FollowPointer(c, slot, hops)
           load == Ins("Load", Hop(c, 0), slot)
           next == [i \in 1..hops |-> Ins("IndirectLoad", Hop(c, i), Hop(c, i - 1))]
           ids  == 0..(d.tempCounter - 1)
<1>1. /\ c \in Context /\ c.tempCounter \in Nat /\ c.code \in Seq(Instruction(Nat))
  BY ContextFields DEF ContextOK
<1>2. /\ d.variable_offset = c.variable_offset
      /\ d.temp_register_mapping = c.temp_register_mapping
      /\ d.tempCounter = c.tempCounter + hops + 1
      /\ d.stackOffset = c.stackOffset
      /\ d.stackPassedParameterOffset = c.stackPassedParameterOffset
      /\ d.code = (c.code \o <<load>>) \o next
      /\ d.thrown = c.thrown
  BY <1>1 DEF FollowPointer, Context
<1>0. d = [c EXCEPT !.tempCounter = d.tempCounter, !.code = d.code]
  BY <1>1 DEF FollowPointer, Context
<1> HIDE DEF d
<1>3. \A i \in 0..hops : Hop(c, i) \in Register(ids)
  BY <1>1, <1>2 DEF Hop, VirtualRegister, Register
<1>4. /\ load \in Instruction(ids)
      /\ \A i \in 1..hops : next[i] \in Instruction(ids)
  <2>1. load \in Instruction(ids)
    BY <1>3, Instructions
  <2>2. ASSUME NEW i \in 1..hops PROVE next[i] \in Instruction(ids)
    <3>1. Hop(c, i) \in Register(ids) /\ Hop(c, i - 1) \in Register(ids)
      BY <1>3
    <3> QED
      BY <3>1, Instructions DEF RegisterRegister
  <2> QED
    BY <2>1, <2>2
<1>5. d.tempCounter \in Nat
  BY <1>1, <1>2
<1>6. /\ load \in Instruction(Nat)
      /\ Numbered(d, load.dst) /\ Numbered(d, load.src)
      /\ \A i \in 1..hops : /\ next[i] \in Instruction(Nat)
                             /\ Numbered(d, next[i].dst) /\ Numbered(d, next[i].src)
  BY <1>4, <1>5, NumberedInstruction DEF Numbered
<1>7. next \in Seq(Instruction(Nat)) /\ Len(next) = hops
  <2>1. next \in [1..hops -> Instruction(Nat)]
    BY <1>6
  <2>2. next \in Seq(Instruction(Nat))
    BY <2>1, SeqDef, Zenon
  <2>3. DOMAIN next = 1..hops /\ DOMAIN next = 1..Len(next) /\ Len(next) \in Nat
    BY <2>1, <2>2, LenProperties
  <2> QED
    BY <2>2, <2>3
<1> HIDE DEF load, next
<1>8. /\ d.code \in Seq(Instruction(Nat))
      /\ Len(d.code) = Len(c.code) + 1 + hops
      /\ DOMAIN d.code = 1..(Len(c.code) + 1 + hops)
      /\ \A n \in 1..Len(c.code) : d.code[n] = c.code[n]
      /\ d.code[Len(c.code) + 1] = load
      /\ \A i \in 1..hops : d.code[Len(c.code) + 1 + i] = next[i]
  <2> DEFINE s == c.code \o <<load>>
  <2>1. /\ s \in Seq(Instruction(Nat)) /\ Len(s) = Len(c.code) + 1
        /\ \A n \in 1..Len(c.code) : s[n] = c.code[n]
        /\ s[Len(c.code) + 1] = load
    BY <1>1, <1>6
  <2>2. d.code = s \o next
    BY <1>2
  <2> HIDE DEF s
  <2>3. /\ d.code \in Seq(Instruction(Nat)) /\ Len(d.code) = Len(s) + hops
        /\ \A k \in 1..(Len(s) + hops) :
               d.code[k] = IF k <= Len(s) THEN s[k] ELSE next[k - Len(s)]
    <3>1. /\ s \o next \in Seq(Instruction(Nat)) /\ Len(s \o next) = Len(s) + Len(next)
          /\ \A k \in 1..(Len(s) + Len(next)) :
                 (s \o next)[k] = IF k <= Len(s) THEN s[k] ELSE next[k - Len(s)]
      BY <1>7, <2>1, ConcatProperties, Zenon
    <3> QED
      BY <1>7, <2>2, <3>1
  <2>4. Len(c.code) \in Nat /\ DOMAIN d.code = 1..Len(d.code)
    BY <1>1, <2>3
  <2>5. \A k \in 1..Len(c.code) : d.code[k] = c.code[k]
    BY <2>1, <2>3, <2>4
  <2>6. d.code[Len(c.code) + 1] = load
    BY <2>1, <2>3, <2>4
  <2>7. ASSUME NEW i \in 1..hops
        PROVE  d.code[Len(c.code) + 1 + i] = next[i]
    <3> DEFINE k == Len(c.code) + 1 + i
    <3>1. k \in 1..(Len(s) + hops) /\ ~(k <= Len(s)) /\ k - Len(s) = i
      BY <2>1, <2>4
    <3> QED
      BY <2>3, <3>1
  <2> QED
    BY <2>1, <2>3, <2>4, <2>5, <2>6, <2>7
<1>9. ContextOK(d)
  <2>1. d \in Context
    BY <1>0, <1>1, <1>5, <1>8 DEF Context
  <2>2. \A t \in TempId : Numbered(d, d.temp_register_mapping[t])
    <3>1. \A t \in TempId : IsVirtual(c.temp_register_mapping[t]) =>
              RegisterOf(c, t) \in Nat /\ RegisterOf(c, t) < c.tempCounter
      BY ContextFields, NotRegisters DEF Mapped
    <3> QED
      BY <1>1, <1>2, <3>1 DEF Numbered, RegisterOf
  <2>3. ASSUME NEW n \in DOMAIN d.code
        PROVE  Numbered(d, d.code[n].dst) /\ Numbered(d, d.code[n].src)
    <3>1. CASE n \in 1..Len(c.code)
      <4>1. n \in DOMAIN c.code /\ d.code[n] = c.code[n] /\ c.code[n] \in Instruction(Nat)
        BY <1>1, <1>8, <3>1
      <4>2. Numbered(c, c.code[n].dst) /\ Numbered(c, c.code[n].src)
        BY <4>1 DEF ContextOK
      <4>3. /\ IsVirtual(c.code[n].dst) => c.code[n].dst.id \in Nat
            /\ IsVirtual(c.code[n].src) => c.code[n].src.id \in Nat
        BY <4>1, InstructionIds
      <4> QED
        BY <1>1, <1>2, <4>1, <4>2, <4>3 DEF Numbered
    <3>2. CASE n = Len(c.code) + 1
      BY <1>6, <1>8, <3>2
    <3>3. CASE n > Len(c.code) + 1
      <4>1. PICK i \in 1..hops : n = Len(c.code) + 1 + i
        <5>1. Len(c.code) \in Nat /\ n \in 1..(Len(c.code) + 1 + hops)
          BY <1>1, <1>8
        <5>2. /\ n - Len(c.code) - 1 \in 1..hops
              /\ n = Len(c.code) + 1 + (n - Len(c.code) - 1)
          BY <3>3, <5>1
        <5> QED
          BY <5>2
      <4> QED
        BY <1>6, <1>8, <4>1
    <3> QED
      BY <1>1, <1>8, <3>1, <3>2, <3>3
  <2> QED
    BY <1>2, <2>1, <2>2, <2>3 DEF ContextOK, Mapped, RegisterOf
<1> QED
  BY <1>1, <1>2, <1>3, <1>8, <1>9 DEF d, Follows, SameSlots, Known, load, next

LEMMA DerefFollows ==
    ASSUME NEW c, ContextOK(c), NEW o \in IROperation, o.op = "Deref"
    PROVE  Follows(c, LowerDeref(c, o)) /\ SameSlots(c, LowerDeref(c, o))
<1> DEFINE hops == IF o.depth > 1 THEN o.depth - 1 ELSE 0
           f    == FollowPointer(c, LocationOf(c, o.src), hops)
           a    == AllocateNewForTemp(f, o.dst)
           load == Ins("IndirectLoad", LocationOf(a, o.dst), Hop(c, hops))
           d    == LowerDeref(c, o)
<1>1. o.dst \in Temps(TempId) /\ o.src \in IRValue /\ hops \in Nat
  BY OperationFields
<1>2. CASE ~HasSlot(c, o.src)
  BY <1>2, ThrowsFollows DEF LowerDeref
<1>3. CASE HasSlot(c, o.src)
  <2>1. d = Emit(a, load)
    BY <1>3 DEF LowerDeref
  <2> HIDE DEF hops
  <2>2. LocationOf(c, o.src) \in StackLocations
    BY <1>1, <1>3, SlotLocation
  <2>3. /\ Follows(c, f) /\ ContextOK(f) /\ SameSlots(c, f)
        /\ Hop(c, hops) \in Known(f)
    BY <1>1, <2>2, FollowPointerFollows DEF Follows
  <2> HIDE DEF f
  <2>4. /\ Follows(f, a) /\ ContextOK(a) /\ SameSlots(f, a)
        /\ LocationOf(a, o.dst) \in Known(a)
    BY <1>1, <2>3, AllocateTempFollows DEF Follows
  <2> HIDE DEF a
  <2>5. Follows(c, a) /\ SameSlots(c, a) /\ Hop(c, hops) \in Known(a)
    BY <2>3, <2>4, FollowsTrans, KnownGrows
  <2>6. load \in Instruction(0..(a.tempCounter - 1))
    BY <2>4, <2>5, Instructions DEF Known, RegisterRegister
  <2> HIDE DEF load
  <2>7. Follows(a, d) /\ SameSlots(a, d)
    BY <2>1, <2>4, <2>6, EmitFollows
  <2> QED
    BY <2>5, <2>7, FollowsTrans
<1> QED
  BY <1>2, <1>3

(* Passing an argument, and the call itself.                               *)
LEMMA PassFollows ==
    ASSUME NEW c, ContextOK(c), NEW v \in IRValue, NEW index \in Nat
    PROVE  Follows(c, PassArgument(c, v, index)) /\ SameSlots(c, PassArgument(c, v, index))
<1> DEFINE d == PassArgument(c, v, index)
<1>1. CASE PassedInRegister(index)
  <2>1. HardcodedRegister(param_regs[index + 1], SizeOf(v)) \in Locations(c)
    BY <1>1, ValueKinds, HardcodedKnown DEF PassedInRegister, param_regs, BaseRegister
  <2> QED
    BY <1>1, <2>1, ToLocationFollows DEF PassArgument
<1>2. CASE ~PassedInRegister(index) /\ v.kind = "int"
  <2>1. Ins("PushI", NoOperand, v) \in Instruction(0..(c.tempCounter - 1))
    BY <1>2, ValueKinds, OtherInstructions
  <2> QED
    BY <1>2, <2>1, EmitFollows DEF PassArgument
<1>3. CASE ~PassedInRegister(index) /\ HasSlot(c, v)
  <2> DEFINE r    == InRegister(c, v, SizeOf(v))
             push == Ins("Push", NoOperand, r.reg)
  <2>1. d = Emit(r.after, push)
    BY <1>3 DEF PassArgument, HasSlot
  <2>2. /\ Follows(c, r.after) /\ ContextOK(r.after) /\ SameSlots(c, r.after)
        /\ r.reg \in Known(r.after)
    BY ValueKinds, InRegisterFollows DEF Follows
  <2> HIDE DEF r
  <2>3. push \in Instruction(0..(r.after.tempCounter - 1))
    BY <2>2, Instructions DEF Known
  <2> HIDE DEF push
  <2>4. Follows(r.after, d) /\ SameSlots(r.after, d)
    BY <2>1, <2>2, <2>3, EmitFollows
  <2> QED
    BY <2>2, <2>4, FollowsTrans
<1>4. CASE ~PassedInRegister(index) /\ v.kind # "int" /\ ~HasSlot(c, v)
  BY <1>4, ThrowsFollows DEF PassArgument
<1> QED
  BY <1>1, <1>2, <1>3, <1>4

LEMMA FinishFollows ==
    ASSUME NEW c, ContextOK(c), NEW o \in IROperation, o.op = "Call", Mapped(c, o.dst.id)
    PROVE  Follows(c, FinishCall(c, o)) /\ SameSlots(c, FinishCall(c, o))
<1> DEFINE ax   == HardcodedRegister("AX", SizeOf(o.dst))
           call == Ins("Call", ax, LabelName(o.name))
           e    == Emit(c, call)
           d    == FinishCall(c, o)
<1>1. /\ o.dst \in Temps(TempId) /\ o.dst \in Places(TempId, VarName) /\ o.dst \in IRValue
      /\ o.dst.kind = "temp" /\ o.dst.id \in TempId
      /\ o.name \in STRING
  BY OperationFields DEF Temps, Places, IRValue, Values
<1>2. LocationOf(c, o.dst) \in Known(c)
  BY <1>1, ContextFields DEF LocationOf
<1>3. ax \in Known(c)
  BY <1>1, ValueKinds, HardcodedKnown DEF BaseRegister
<1>4. d = Register_To_Location(e, LocationOf(c, o.dst), ax)
  BY DEF FinishCall
<1>5. call \in Instruction(0..(c.tempCounter - 1))
  BY <1>1, <1>3, Instructions DEF Known, LabelName, LabelNames
<1> HIDE DEF ax, call
<1>6. Follows(c, e) /\ ContextOK(e) /\ SameSlots(c, e)
  BY <1>5, EmitFollows DEF Follows
<1> HIDE DEF e
<1>7. LocationOf(c, o.dst) \in Locations(e) /\ ax \in Known(e)
  BY <1>2, <1>3, <1>6, KnownGrows DEF Locations
<1>8. Follows(e, d) /\ SameSlots(e, d)
  BY <1>4, <1>6, <1>7, RegisterToLocationFollows
<1> QED
  BY <1>6, <1>8, FollowsTrans
-----------------------------------------------------------------------------
(* Slots.  A local begins where those before it end, and a pushed parameter *)
(* has eight bytes, all of them above the return address.                   *)
Offset(c, name) == c.variable_offset[name].offset
Placed(c, name) == c.variable_offset[name] # NoOperand

PlacesOK(c) ==
    /\ c.stackPassedParameterOffset >= 16
    /\ \A name \in VarName :
           Placed(c, name) =>
               \/ Offset(c, name) \in 1..c.stackOffset
               \/ Offset(c, name) <= -16 /\ -c.stackPassedParameterOffset < Offset(c, name) - 7

Below(c, v, w) == Offset(c, v.name) <= Offset(c, w.name) - w.size

Apart(c, vs) ==
    \A v \in vs :
        Placed(c, v.name) =>
            /\ Offset(c, v.name) > 0 => Offset(c, v.name) >= v.size
            /\ \A w \in vs :
                   Placed(c, w.name) /\ v.name # w.name => Below(c, v, w) \/ Below(c, w, v)

SlotsOK(c, f) == PlacesOK(c) /\ (OneSize(f) => Apart(c, VariablesOf(f)))

(* What a step does to the slots.                                          *)
SlotStep(c, d, o) ==
    \/ SameSlots(c, d)
    \/ Target(o).kind = "var" /\ SameSlots(AllocateNewForVariable(c, Target(o)), d)
    \/ o.op = "DefineStackPushed" /\ SameSlots(define_stack_pushed_variable(c, o.name), d)

LEMMA SlotsSame ==
    ASSUME NEW c, NEW d, NEW f, SameSlots(c, d), SlotsOK(c, f)
    PROVE  SlotsOK(d, f)
BY DEF SameSlots, SlotsOK, PlacesOK, Apart, Below, Offset, Placed

LEMMA OffsetType ==
    ASSUME NEW c, ContextOK(c), NEW name \in VarName, Placed(c, name)
    PROVE  Offset(c, name) \in Int
BY ContextFields DEF Placed, Offset, StackLocations

LEMMA SlotsAllocate ==
    ASSUME NEW c, ContextOK(c), NEW f, SlotsOK(c, f), VariablesOf(f) \subseteq Variables(VarName),
           NEW v \in VariablesOf(f)
    PROVE  SlotsOK(AllocateNewForVariable(c, v), f)
<1> DEFINE d == AllocateNewForVariable(c, v)
<1>1. v.name \in VarName /\ v.size \in {4, 8}
  BY DEF Variables
<1>2. CASE Placed(c, v.name)
  BY <1>2 DEF AllocateNewForVariable, Placed
<1>3. CASE ~Placed(c, v.name)
  <2>1. /\ c.variable_offset \in [VarName -> StackLocations \cup {NoOperand}]
        /\ c.stackOffset \in Nat /\ c.stackPassedParameterOffset \in Nat
        /\ c \in Context
    BY ContextFields DEF ContextOK
  <2>2. /\ d.stackOffset = c.stackOffset + v.size
        /\ d.stackPassedParameterOffset = c.stackPassedParameterOffset
        /\ d.variable_offset = [c.variable_offset EXCEPT
                                    ![v.name] = StackLocation(c.stackOffset + v.size)]
    BY <1>3, <2>1 DEF AllocateNewForVariable, Placed, Context
  <2>3. /\ Offset(d, v.name) = c.stackOffset + v.size /\ Placed(d, v.name)
        /\ \A name \in VarName :
               name # v.name => /\ Placed(d, name) <=> Placed(c, name)
                                /\ Offset(d, name) = Offset(c, name)
    BY <1>1, <2>1, <2>2 DEF Offset, Placed, StackLocation, NoOperand
  <2>4. \A name \in VarName :
            Placed(c, name) => Offset(c, name) \in Int /\ Offset(c, name) <= c.stackOffset
    BY <2>1, OffsetType DEF SlotsOK, PlacesOK
  <2>5. PlacesOK(d)
    BY <1>1, <2>1, <2>2, <2>3, <2>4 DEF SlotsOK, PlacesOK
  <2>6. ASSUME OneSize(f), NEW u \in VariablesOf(f), Placed(d, u.name)
        PROVE  /\ Offset(d, u.name) > 0 => Offset(d, u.name) >= u.size
               /\ \A w \in VariablesOf(f) :
                      Placed(d, w.name) /\ u.name # w.name => Below(d, u, w) \/ Below(d, w, u)
    <3>1. /\ \A w \in VariablesOf(f) : w.name \in VarName /\ w.size \in {4, 8}
          /\ \A w \in VariablesOf(f) : w.name = v.name => w.size = v.size
      BY <2>6 DEF OneSize, Variables
    <3>2. Apart(c, VariablesOf(f))
      BY <2>6 DEF SlotsOK
    <3>3. CASE u.name = v.name
      BY <1>1, <2>1, <2>3, <2>4, <3>1, <3>3 DEF Below
    <3>4. CASE u.name # v.name
      <4>1. Placed(c, u.name) /\ Offset(d, u.name) = Offset(c, u.name)
        BY <2>3, <2>6, <3>1, <3>4
      <4>2. Offset(d, u.name) > 0 => Offset(d, u.name) >= u.size
        BY <3>2, <4>1 DEF Apart
      <4>3. ASSUME NEW w \in VariablesOf(f), Placed(d, w.name), u.name # w.name
            PROVE  Below(d, u, w) \/ Below(d, w, u)
        <5>1. CASE w.name = v.name
          BY <1>1, <2>1, <2>3, <2>4, <3>1, <4>1, <5>1 DEF Below
        <5>2. CASE w.name # v.name
          BY <2>3, <3>1, <3>2, <4>1, <4>3, <5>2 DEF Below, Apart
        <5> QED
          BY <5>1, <5>2
      <4> QED
        BY <4>2, <4>3
    <3> QED
      BY <3>3, <3>4
  <2> QED
    BY <2>5, <2>6 DEF SlotsOK, Apart
<1> QED
  BY <1>2, <1>3

LEMMA SlotsDefine ==
    ASSUME NEW c, ContextOK(c), NEW f, SlotsOK(c, f), VariablesOf(f) \subseteq Variables(VarName),
           NEW name \in VarName
    PROVE  SlotsOK(define_stack_pushed_variable(c, name), f)
<1> DEFINE d == define_stack_pushed_variable(c, name)
<1>1. /\ c.variable_offset \in [VarName -> StackLocations \cup {NoOperand}]
      /\ c.stackOffset \in Nat /\ c.stackPassedParameterOffset \in Nat
      /\ c.stackPassedParameterOffset >= 16
      /\ c \in Context
  BY ContextFields DEF ContextOK, SlotsOK, PlacesOK
<1>2. /\ d.stackOffset = c.stackOffset
      /\ d.stackPassedParameterOffset = c.stackPassedParameterOffset + 8
      /\ d.variable_offset = [c.variable_offset EXCEPT
                                  ![name] = StackLocation(-c.stackPassedParameterOffset)]
  BY <1>1 DEF define_stack_pushed_variable, Context
<1>3. /\ Offset(d, name) = -c.stackPassedParameterOffset /\ Placed(d, name)
      /\ \A other \in VarName :
             other # name => /\ Placed(d, other) <=> Placed(c, other)
                             /\ Offset(d, other) = Offset(c, other)
  BY <1>1, <1>2 DEF Offset, Placed, StackLocation, NoOperand
<1>4. \A other \in VarName :
          Placed(c, other) => /\ Offset(c, other) \in Int
                              /\ -c.stackPassedParameterOffset < Offset(c, other) - 7
                                     \/ Offset(c, other) \in 1..c.stackOffset
  BY <1>1, OffsetType DEF SlotsOK, PlacesOK
<1>5. PlacesOK(d)
  BY <1>1, <1>2, <1>3, <1>4 DEF SlotsOK, PlacesOK
<1>6. ASSUME OneSize(f), NEW u \in VariablesOf(f), Placed(d, u.name)
      PROVE  /\ Offset(d, u.name) > 0 => Offset(d, u.name) >= u.size
             /\ \A w \in VariablesOf(f) :
                    Placed(d, w.name) /\ u.name # w.name => Below(d, u, w) \/ Below(d, w, u)
  <2>1. \A w \in VariablesOf(f) : w.name \in VarName /\ w.size \in {4, 8}
    BY <1>6 DEF Variables
  <2>2. Apart(c, VariablesOf(f))
    BY <1>6 DEF SlotsOK
  <2>3. ASSUME NEW w \in VariablesOf(f), w.name # name, Placed(c, w.name)
        PROVE  -c.stackPassedParameterOffset <= Offset(c, w.name) - w.size
    BY <1>1, <1>4, <2>1, <2>2, <2>3 DEF Apart
  <2>4. CASE u.name = name
    BY <1>1, <1>3, <2>1, <2>3, <2>4 DEF Below
  <2>5. CASE u.name # name
    <3>1. Placed(c, u.name) /\ Offset(d, u.name) = Offset(c, u.name)
      BY <1>3, <1>6, <2>1, <2>5
    <3>2. Offset(d, u.name) > 0 => Offset(d, u.name) >= u.size
      BY <2>2, <3>1 DEF Apart
    <3>3. ASSUME NEW w \in VariablesOf(f), Placed(d, w.name), u.name # w.name
          PROVE  Below(d, u, w) \/ Below(d, w, u)
      <4>1. CASE w.name = name
        BY <1>3, <2>1, <2>3, <2>5, <3>1, <4>1 DEF Below
      <4>2. CASE w.name # name
        BY <1>3, <2>1, <2>2, <3>1, <3>3, <4>2 DEF Below, Apart
      <4> QED
        BY <4>1, <4>2
    <3> QED
      BY <3>2, <3>3
  <2> QED
    BY <2>4, <2>5
<1> QED
  BY <1>5, <1>6 DEF SlotsOK, Apart

LEMMA FrameVariables ==
    ASSUME NEW f \in Seq(IROperation)
    PROVE  VariablesOf(f) \subseteq Variables(VarName)
<1>1. ASSUME NEW o \in IROperation, NEW v \in Sources(o) \cup {Target(o)}, v.kind = "var"
      PROVE  v \in Variables(VarName)
  <2>1. v \in IRValue \cup {NoOperand}
    BY <1>1, ValuesReadType, TargetType, PlaceKinds DEF Sources
  <2> QED
    BY <1>1, <2>1, ValueKinds DEF NoOperand
<1> QED
  BY <1>1 DEF VariablesOf

LEMMA SlotsStep ==
    ASSUME NEW c, ContextOK(c), NEW d, NEW f \in Seq(IROperation), SlotsOK(c, f),
           NEW n \in DOMAIN f, SlotStep(c, d, f[n])
    PROVE  SlotsOK(d, f)
<1>1. f[n] \in IROperation
  OBVIOUS
<1>2. VariablesOf(f) \subseteq Variables(VarName)
  BY FrameVariables
<1>3. CASE SameSlots(c, d)
  BY <1>3, SlotsSame
<1>4. CASE /\ Target(f[n]).kind = "var"
           /\ SameSlots(AllocateNewForVariable(c, Target(f[n])), d)
  <2>1. Target(f[n]) \in VariablesOf(f)
    BY <1>4 DEF VariablesOf
  <2> QED
    BY <1>2, <1>4, <2>1, SlotsAllocate, SlotsSame
<1>5. CASE /\ f[n].op = "DefineStackPushed"
           /\ SameSlots(define_stack_pushed_variable(c, f[n].name), d)
  <2>1. f[n].name \in VarName
    BY <1>1, <1>5, OperationFields
  <2> QED
    BY <1>2, <1>5, <2>1, SlotsDefine, SlotsSame
<1> QED
  BY <1>3, <1>4, <1>5 DEF SlotStep
-----------------------------------------------------------------------------
(* The operations as steps.                                                *)
LEMMA PreparedStep ==
    ASSUME NEW c, ContextOK(c), NEW o \in IROperation, NEW d, o.op # "Call",
           o.op \in BinaryOps \cup {"Mov", "MovR"},
           SameSlots(Prepared(c, o.dst), d)
    PROVE  SlotStep(c, d, o)
<1>1. Target(o) = o.dst
  BY DEF Target, MoveOps
<1>2. CASE o.dst = NoOperand
  BY <1>2 DEF Prepared, SlotStep
<1>3. CASE o.dst # NoOperand
  <2>1. o.dst \in Places(TempId, VarName)
    BY <1>1, <1>3, TargetType
  <2>2. Prepared(c, o.dst) = AllocateNew(c, o.dst)
    BY <1>3 DEF Prepared
  <2>3. CASE o.dst.kind = "temp"
    <3>1. SameSlots(c, Prepared(c, o.dst))
      BY <2>1, <2>2, <2>3, AllocateFollows, AllocateTempFollows
    <3> QED
      BY <3>1 DEF SameSlots, SlotStep
  <2>4. CASE o.dst.kind # "temp"
    <3>1. o.dst.kind = "var" /\ Prepared(c, o.dst) = AllocateNewForVariable(c, o.dst)
      BY <2>1, <2>2, <2>4, AllocateFollows, PlaceKinds
    <3> QED
      BY <1>1, <3>1 DEF SlotStep
  <2> QED
    BY <2>3, <2>4
<1> QED
  BY <1>2, <1>3

LEMMA LowerCases ==
    ASSUME NEW c, NEW o
    PROVE  /\ o.op \in {"Mov", "MovR"} => Lower(c, o) = LowerMov(c, o)
           /\ o.op = "Ret" => Lower(c, o) = LowerRet(c, o)
           /\ o.op \in BinaryOps => Lower(c, o) = LowerArth(c, o)
           /\ o.op = "Addr" => Lower(c, o) = LowerAddr(c, o)
           /\ o.op = "Deref" => Lower(c, o) = LowerDeref(c, o)
           /\ o.op = "DerefStore" => Lower(c, o) = LowerDerefStore(c, o)
           /\ o.op = "DefineStackPushed" =>
                  Lower(c, o) = define_stack_pushed_variable(c, o.name)
           /\ o.op = "LabelDef" =>
                  Lower(c, o) = Emit(c, Ins("Label", NoOperand, LabelName(o.label)))
           /\ o.op = "Jump" =>
                  Lower(c, o) = Emit(c, Ins("Jump", NoOperand, LabelName(o.label)))
           /\ o.op \in CondJumps => Lower(c, o) = LowerConditionalJump(c, o)
BY DEF Lower, BinaryOps, CondJumps

LEMMA LowerFollows ==
    ASSUME NEW c, ContextOK(c), NEW o \in IROperation, o.op # "Call"
    PROVE  Follows(c, Lower(c, o)) /\ SlotStep(c, Lower(c, o), o)
<1> DEFINE d == Lower(c, o)
<1>1. CASE o.op \in {"Mov", "MovR"}
  <2>1. d = LowerMov(c, o)
    BY <1>1, LowerCases
  <2>2. Follows(Prepared(c, o.dst), d) /\ SameSlots(Prepared(c, o.dst), d)
    BY <1>1, <2>1, MovFollows
  <2>3. Follows(c, Prepared(c, o.dst))
    BY <1>1, OperationFields, PreparedFollows
  <2> QED
    BY <1>1, <2>2, <2>3, FollowsTrans, PreparedStep
<1>2. CASE o.op \in BinaryOps
  <2>1. d = LowerArth(c, o)
    BY <1>2, LowerCases
  <2>2. Follows(Prepared(c, o.dst), d) /\ SameSlots(Prepared(c, o.dst), d)
    BY <1>2, <2>1, ArthFollows
  <2>3. Follows(c, Prepared(c, o.dst))
    BY <1>2, OperationFields, PreparedFollows
  <2> QED
    BY <1>2, <2>2, <2>3, FollowsTrans, PreparedStep
<1>3. CASE o.op = "Ret"
  BY <1>3, LowerCases, RetFollows DEF SlotStep
<1>4. CASE o.op = "Addr"
  BY <1>4, LowerCases, AddrFollows DEF SlotStep
<1>5. CASE o.op = "Deref"
  BY <1>5, LowerCases, DerefFollows DEF SlotStep
<1>6. CASE o.op = "DerefStore"
  BY <1>6, LowerCases, DerefStoreFollows DEF SlotStep
<1>7. CASE o.op = "DefineStackPushed"
  <2>1. d = define_stack_pushed_variable(c, o.name) /\ o.name \in VarName
    BY <1>7, OperationFields, LowerCases
  <2>2. Follows(c, d) /\ SameSlots(d, d)
    BY <2>1, DefineFollows DEF SameSlots
  <2> QED
    BY <1>7, <2>1, <2>2 DEF SlotStep
<1>8. CASE o.op \in {"LabelDef", "Jump"}
  <2>1. /\ d = Emit(c, Ins(IF o.op = "Jump" THEN "Jump" ELSE "Label",
                           NoOperand, LabelName(o.label)))
        /\ o.label \in STRING
    BY <1>8, OperationFields, LowerCases DEF Labels
  <2> QED
    BY <2>1, JumpFollows DEF LabelOnly, SlotStep
<1>9. CASE o.op \in CondJumps
  <2>1. d = LowerConditionalJump(c, o)
    BY <1>9, LowerCases
  <2> QED
    BY <1>9, <2>1, ConditionalJumpFollows DEF SlotStep
<1> QED
  BY <1>1, <1>2, <1>3, <1>4, <1>5, <1>6, <1>7, <1>8, <1>9, OperationFields

(* The context a frame begins with.                                        *)
LEMMA FreshContext ==
    /\ ContextOK(FreshCtx)
    /\ \A f : VariablesOf(f) \subseteq Variables(VarName) => SlotsOK(FreshCtx, f)
    /\ FreshCtx.thrown = FALSE
    /\ FreshCtx.code = << >>
    /\ \A t \in TempId : ~Mapped(FreshCtx, t)
<1>1. ~IsVirtual(NoOperand)
  BY NotRegisters
<1>2. /\ FreshCtx.variable_offset = [name \in VarName |-> NoOperand]
      /\ FreshCtx.temp_register_mapping = [id \in TempId |-> NoOperand]
      /\ FreshCtx.tempCounter = 0
      /\ FreshCtx.stackPassedParameterOffset = 16
      /\ FreshCtx.code = << >>
      /\ FreshCtx.thrown = FALSE
  BY DEF FreshCtx
<1>3. FreshCtx \in Context
  BY DEF FreshCtx, Context
<1>4. ContextOK(FreshCtx)
  BY <1>1, <1>2, <1>3 DEF ContextOK, Numbered, Mapped
<1>5. ASSUME NEW f PROVE VariablesOf(f) \subseteq Variables(VarName) => SlotsOK(FreshCtx, f)
  BY <1>2 DEF SlotsOK, PlacesOK, Apart, Placed, Variables
<1> QED
  BY <1>2, <1>4, <1>5 DEF Mapped

-----------------------------------------------------------------------------
(* The inductive invariant.                                                *)
LowerInv ==
    /\ irFrames \in IRPrograms
    /\ LowerTypeOK
    /\ ContextOK(ctx)
    /\ passed # NotCalling => Mapped(ctx, operation.dst.id)
    /\ status = "lowering" => SlotsOK(ctx, irFrames[lf])

LEMMA ProgramTypes ==
    ASSUME irFrames \in IRPrograms
    PROVE  /\ irFrames \in Seq(Seq(IROperation))
           /\ \A n \in DOMAIN irFrames :
                  /\ irFrames[n] \in Seq(IROperation)
                  /\ \A k \in DOMAIN irFrames[n] : irFrames[n][k] \in IROperation
                  /\ LinearOperations(irFrames[n])
<1>1. irFrames \in Seq(Seq(IROperation))
  BY IRProgramsAssumption DEF IROperation
<1> QED
  BY <1>1, IRProgramsAssumption

LEMMA LowerInvInit == LowerInit => LowerInv
<1> SUFFICES ASSUME LowerInit PROVE LowerInv
  OBVIOUS
<1> USE DEF LowerInit, LowerStart
<1>1. irFrames \in Seq(Seq(IROperation))
  BY ProgramTypes
<1>2. irFrames # << >> => 1 \in DOMAIN irFrames
  BY <1>1
<1>3. /\ ctx = FreshCtx /\ passed = NotCalling /\ lf = 1 /\ op = 1
      /\ lowered \in Seq([instructions : Seq(Instruction(Nat)), size : Nat])
      /\ status \in {"lowering", "done"}
      /\ status = "lowering" => lf \in DOMAIN irFrames
  BY <1>2
<1> HIDE DEF LowerInit, LowerStart
<1>4. ContextOK(ctx) /\ ctx.thrown = FALSE
  BY <1>3, FreshContext
<1>5. LowerTypeOK
  <2>1. /\ op \in Nat \ {0} /\ lf \in Nat \ {0} /\ status # "throw"
    BY <1>3
  <2>2. ctx \in Context /\ \A t \in TempId : Numbered(ctx, ctx.temp_register_mapping[t])
    BY <1>4 DEF ContextOK
  <2>3. \A n \in DOMAIN ctx.code :
            Numbered(ctx, ctx.code[n].dst) /\ Numbered(ctx, ctx.code[n].src)
    BY <1>4 DEF ContextOK
  <2> QED
    BY <1>3, <1>4, <2>1, <2>2, <2>3 DEF LowerTypeOK
<1>6. status = "lowering" => SlotsOK(ctx, irFrames[lf])
  BY <1>3, FreshContext, FrameVariables, ProgramTypes DEF LowerInit
<1> QED
  BY <1>3, <1>4, <1>5, <1>6 DEF LowerInv, LowerInit

(* What the steps that lower something have in common.                     *)
LEMMA ContinueType ==
    ASSUME LowerInv, AtOperation, NEW c, Follows(ctx, c), Continue(c),
           SlotStep(ctx, c, operation),
           op' \in Nat \ {0}, passed' \in Nat \cup {NotCalling},
           passed' # NotCalling =>
               /\ op' = op
               /\ operation.op = "Call"
               /\ passed' <= Len(operation.args)
               /\ Mapped(c, operation.dst.id)
    PROVE  LowerInv'
<1>1. /\ lf \in DOMAIN irFrames /\ op \in DOMAIN irFrames[lf] /\ status = "lowering"
      /\ irFrames' = irFrames /\ lf' = lf /\ lowered' = lowered /\ ctx' = c
      /\ status' = IF c.thrown THEN "throw" ELSE "lowering"
  BY DEF LowerInv, LowerTypeOK, AtOperation, Continue
<1>2. ContextOK(c)
  BY DEF Follows
<1>3. ContextOK(ctx')
  BY <1>1, <1>2 DEF ContextOK, Mapped, RegisterOf, Numbered
<1>4. ctx'.thrown = (status' = "throw") /\ status' \in {"lowering", "done", "throw"}
  BY <1>1, <1>2, ContextFields
<1>5. passed' # NotCalling => operation' = operation
  BY <1>1 DEF operation
<1>6. LowerTypeOK'
  BY <1>1, <1>3, <1>4, <1>5 DEF LowerInv, LowerTypeOK, ContextOK, operation
<1>7. SlotsOK(c, irFrames[lf])
  <2>1. irFrames[lf] \in Seq(IROperation) /\ operation = irFrames[lf][op]
    BY <1>1, ProgramTypes DEF LowerInv, operation
  <2> QED
    BY <1>1, <2>1, SlotsStep DEF LowerInv
<1>8. status' = "lowering" => SlotsOK(ctx', irFrames'[lf'])
  BY <1>1, <1>7
<1>9. passed' # NotCalling => Mapped(ctx', operation'.dst.id)
  BY <1>1, <1>5
<1> QED
  BY <1>1, <1>3, <1>6, <1>8, <1>9 DEF LowerInv

LEMMA AtOperationType ==
    ASSUME LowerInv, AtOperation
    PROVE  /\ operation \in IROperation
           /\ ContextOK(ctx)
           /\ op \in Nat \ {0} /\ op + 1 \in Nat \ {0}
           /\ operation.op = "Call" =>
                  /\ operation.args \in Seq(IRValue)
                  /\ operation.dst \in Temps(TempId)
                  /\ operation.dst.id \in TempId
                  /\ operation.dst.kind = "temp"
BY ProgramTypes, OperationFields
   DEF LowerInv, LowerTypeOK, AtOperation, operation, Temps

LEMMA LowerInvNext == LowerInv /\ [LowerNext]_lowerVars => LowerInv'
<1> SUFFICES ASSUME LowerInv, [LowerNext]_lowerVars PROVE LowerInv'
  OBVIOUS
<1>1. CASE LowerOperation
  <2>1. /\ AtOperation /\ operation.op # "Call" /\ op' = op + 1 /\ passed' = passed
        /\ Continue(Lower(ctx, operation))
    BY <1>1 DEF LowerOperation
  <2>2. passed = NotCalling
    BY <2>1 DEF LowerInv, LowerTypeOK
  <2>3. Follows(ctx, Lower(ctx, operation)) /\ SlotStep(ctx, Lower(ctx, operation), operation)
    BY <2>1, AtOperationType, LowerFollows
  <2> QED
    BY <2>1, <2>2, <2>3, AtOperationType, ContinueType
<1>2. CASE StartCall
  <2> DEFINE c == AllocateNew(ctx, operation.dst)
  <2>1. /\ AtOperation /\ operation.op = "Call" /\ op' = op /\ passed' = 0
        /\ Continue(c)
    BY <1>2 DEF StartCall
  <2>2. operation.dst \in Places(TempId, VarName)
    BY <2>1, AtOperationType DEF Places
  <2>3. c = AllocateNewForTemp(ctx, operation.dst)
    BY <2>1, <2>2, AtOperationType, AllocateFollows
  <2>4. Follows(ctx, c) /\ SameSlots(ctx, c) /\ Mapped(c, operation.dst.id)
    BY <2>1, <2>3, AtOperationType, AllocateTempFollows
  <2> HIDE DEF c
  <2>5. Len(operation.args) \in Nat
    BY <2>1, AtOperationType
  <2> QED
    BY <2>1, <2>4, <2>5, AtOperationType, ContinueType DEF SlotStep
<1>3. CASE PassNext
  <2> DEFINE v == operation.args[Len(operation.args) - passed]
             c == PassArgument(ctx, v, passed)
  <2>1. /\ AtOperation /\ operation.op = "Call" /\ op' = op /\ passed' = passed + 1
        /\ passed \in 0..(Len(operation.args) - 1)
        /\ Continue(c)
    BY <1>3 DEF PassNext
  <2>2. v \in IRValue /\ passed \in Nat /\ Len(operation.args) \in Nat
    BY <2>1, AtOperationType
  <2> HIDE DEF v
  <2>3. Follows(ctx, c) /\ SameSlots(ctx, c)
    BY <2>1, <2>2, AtOperationType, PassFollows
  <2> HIDE DEF c
  <2>4. Mapped(ctx, operation.dst.id)
    BY <2>1 DEF LowerInv, NotCalling
  <2>5. Mapped(c, operation.dst.id)
    BY <2>1, <2>3, <2>4, AtOperationType DEF Follows, Mapped
  <2> QED
    BY <2>1, <2>2, <2>3, <2>5, AtOperationType, ContinueType DEF SlotStep
<1>4. CASE EndCall
  <2> DEFINE c == FinishCall(ctx, operation)
  <2>1. /\ AtOperation /\ operation.op = "Call" /\ op' = op + 1 /\ passed' = NotCalling
        /\ passed = Len(operation.args)
        /\ Continue(c)
    BY <1>4 DEF EndCall
  <2>2. passed # NotCalling
    BY <2>1, AtOperationType DEF NotCalling
  <2>3. Follows(ctx, c) /\ SameSlots(ctx, c)
    BY <2>1, <2>2, AtOperationType, FinishFollows DEF LowerInv
  <2> HIDE DEF c
  <2> QED
    BY <2>1, <2>3, AtOperationType, ContinueType DEF SlotStep
<1>5. CASE LowerNextFrame
  <2> DEFINE finished == [instructions |-> ctx.code, size |-> ctx.stackOffset]
  <2>1. /\ status = "lowering" /\ op \notin DOMAIN irFrames[lf]
        /\ lowered' = Append(lowered, finished)
        /\ lf' = lf + 1 /\ op' = 1 /\ ctx' = FreshCtx
        /\ status' = AfterLowering
        /\ irFrames' = irFrames /\ passed' = passed
    BY <1>5 DEF LowerNextFrame
  <2>2. passed = NotCalling
    BY <2>1 DEF LowerInv, LowerTypeOK
  <2>3. finished \in [instructions : Seq(Instruction(Nat)), size : Nat]
    BY ContextFields DEF LowerInv
  <2> HIDE DEF finished
  <2>4. lowered' \in Seq([instructions : Seq(Instruction(Nat)), size : Nat])
    BY <2>1, <2>3 DEF LowerInv, LowerTypeOK
  <2>5. ContextOK(ctx') /\ ctx'.thrown = FALSE
    BY <2>1, FreshContext
  <2>6. /\ status' \in {"lowering", "done"}
        /\ status' = "lowering" => lf' \in DOMAIN irFrames'
        /\ lf' \in Nat \ {0}
    BY <2>1 DEF AfterLowering, LowerInv, LowerTypeOK
  <2>7. /\ op' \in Nat \ {0} /\ passed' = NotCalling /\ status' # "throw"
    BY <2>1, <2>2, <2>6
  <2>8. ctx' \in Context /\ \A t \in TempId : Numbered(ctx', ctx'.temp_register_mapping[t])
    BY <2>5 DEF ContextOK
  <2>9. \A n \in DOMAIN ctx'.code :
            Numbered(ctx', ctx'.code[n].dst) /\ Numbered(ctx', ctx'.code[n].src)
    BY <2>5 DEF ContextOK
  <2>10. LowerTypeOK'
    BY <2>4, <2>5, <2>6, <2>7, <2>8, <2>9 DEF LowerTypeOK, Numbered
  <2>11. status' = "lowering" => SlotsOK(ctx', irFrames'[lf'])
    BY <2>1, <2>6, FreshContext, FrameVariables, ProgramTypes DEF LowerInv
  <2> QED
    BY <2>1, <2>2, <2>5, <2>10, <2>11 DEF LowerInv
<1>6. CASE UNCHANGED lowerVars
  BY <1>6 DEF lowerVars, LowerInv, LowerTypeOK, operation, ContextOK, Numbered, Mapped,
              RegisterOf, SlotsOK, PlacesOK, Apart, Below, Offset, Placed
<1> QED
  BY <1>1, <1>2, <1>3, <1>4, <1>5, <1>6 DEF LowerNext

(* Types hold, and the code names only registers the Ctx has numbered, for   *)
(* every program of IR operations.                                         *)
THEOREM LowerTypeCorrect == LowerSpec => []LowerTypeOK
<1>1. LowerInv => LowerTypeOK
  BY DEF LowerInv
<1> QED
  BY <1>1, LowerInvInit, LowerInvNext, PTL DEF LowerSpec

(* Every temporary has a register and every variable bytes of its own, in    *)
(* the frame or above the return address, for every program of IR           *)
(* operations.                                                             *)
THEOREM LocationsDistinctCorrect == LowerSpec => []LocationsDistinct
<1>1. ASSUME LowerInv PROVE LocationsDistinct
  <2> DEFINE f == irFrames[lf]
             placed == {v \in VariablesOf(f) : HasSlot(ctx, v)}
  <2>1. \A t, u \in TempId :
            t # u /\ ctx.temp_register_mapping[t] # NoOperand
                  /\ ctx.temp_register_mapping[u] # NoOperand =>
                ctx.temp_register_mapping[t].id # ctx.temp_register_mapping[u].id
    BY <1>1 DEF LowerInv, ContextOK, Mapped, RegisterOf
  <2>2. ASSUME status = "lowering", OneSize(f)
        PROVE  /\ \A v, w \in placed : v.name # w.name => Slot(v) \cap Slot(w) = {}
               /\ \A v \in placed :
                      Slot(v) \subseteq 1..ctx.stackOffset \/ \A d \in Slot(v) : d < -15
    <3>1. /\ PlacesOK(ctx) /\ Apart(ctx, VariablesOf(f)) /\ ContextOK(ctx)
          /\ f \in Seq(IROperation)
      BY <1>1, <2>2, ProgramTypes DEF LowerInv, LowerTypeOK, SlotsOK
    <3>2. ASSUME NEW v \in placed
          PROVE  /\ v.name \in VarName /\ v.size \in {4, 8}
                 /\ v \in VariablesOf(f) /\ Placed(ctx, v.name)
                 /\ Offset(ctx, v.name) \in Int
                 /\ Slot(v) = (Offset(ctx, v.name) - v.size + 1)..Offset(ctx, v.name)
      <4>1. v \in Variables(VarName)
        BY <3>1, <3>2, FrameVariables DEF HasSlot
      <4> QED
        BY <3>1, <4>1, OffsetType DEF HasSlot, Placed, Offset, Slot, Variables
    <3>3. ASSUME NEW v \in placed, NEW w \in placed, v.name # w.name
          PROVE  Slot(v) \cap Slot(w) = {}
      <4>1. Below(ctx, v, w) \/ Below(ctx, w, v)
        BY <3>1, <3>2, <3>3 DEF Apart
      <4>2. /\ v.size \in {4, 8} /\ Offset(ctx, v.name) \in Int
            /\ Slot(v) = (Offset(ctx, v.name) - v.size + 1)..Offset(ctx, v.name)
            /\ w.size \in {4, 8} /\ Offset(ctx, w.name) \in Int
            /\ Slot(w) = (Offset(ctx, w.name) - w.size + 1)..Offset(ctx, w.name)
        BY <3>2
      <4> QED
        BY <4>1, <4>2 DEF Below
    <3>4. ASSUME NEW v \in placed
          PROVE  Slot(v) \subseteq 1..ctx.stackOffset \/ \A d \in Slot(v) : d < -15
      <4>1. \/ /\ Offset(ctx, v.name) \in 1..ctx.stackOffset
               /\ Offset(ctx, v.name) >= v.size
            \/ Offset(ctx, v.name) <= -16
        BY <3>1, <3>2 DEF PlacesOK, Apart
      <4>2. v.size \in {4, 8} /\ Offset(ctx, v.name) \in Int /\ ctx.stackOffset \in Nat
        BY <3>1, <3>2, ContextFields
      <4>3. Slot(v) = (Offset(ctx, v.name) - v.size + 1)..Offset(ctx, v.name)
        BY <3>2
      <4> QED
        BY <4>1, <4>2, <4>3
    <3> QED
      BY <3>3, <3>4
  <2> QED
    BY <2>1, <2>2 DEF LocationsDistinct
<1> QED
  BY <1>1, LowerInvInit, LowerInvNext, PTL DEF LowerSpec
=============================================================================
