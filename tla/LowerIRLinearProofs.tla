------------------------ MODULE LowerIRLinearProofs ------------------------
(***************************************************************************)
(* The lowering pass keeps its promise to the register allocator:           *)
(* CodeIsLinear, for every program of IR operations.                        *)
(*                                                                         *)
(* The register of a temporary is fresh until the operation that sets it is  *)
(* lowered, ready until the one that reads it, and then left alone.  A       *)
(* lemma for each operator of LowerIR says that linear code stays linear     *)
(* and which registers it touches.                                         *)
(***************************************************************************)
EXTENDS LowerIRProofs

(* No instruction names the virtual register.                              *)
Fresh(code, id) == \A n \in DOMAIN code : ~Occurs(code[n], id)

IsSet(code, id) == \E n \in DOMAIN code : Sets(code[n], id)

(* A Mov the allocator may coalesce.                                       *)
MovesVirtual(i) == i.op = "Mov" /\ IsVirtual(i.src) /\ IsVirtual(i.dst)

(* The virtual register has a value and may be read.                       *)
Ready(code, id) ==
    /\ IsSet(code, id)
    /\ \A n \in DOMAIN code : MovesVirtual(code[n]) => code[n].src.id # id

LeftByCall(code, reg) ==
    /\ code # << >>
    /\ code[Len(code)].op = "Call"
    /\ IsHardcoded(code[Len(code)].dst)
    /\ code[Len(code)].dst.reg = reg

(* Linear, with the ids ranging over the numbers.                          *)
LinearCode(code) ==
    /\ \A n \in DOMAIN code, v \in Nat :
           Reads(code[n], v) => \E m \in 1..(n - 1) : Sets(code[m], v)
    /\ \A n \in DOMAIN code :
           MovesVirtual(code[n]) =>
               /\ \A m \in (n + 1)..Len(code) : ~Occurs(code[m], code[n].src.id)
               /\ \A m \in 1..(n - 1) : ~Occurs(code[m], code[n].dst.id)
    /\ \A n \in DOMAIN code :
           IsHardcoded(code[n].src) /\ ~IsParamReg(code[n].src.reg) =>
               /\ n > 1
               /\ code[n - 1].op = "Call"
               /\ IsHardcoded(code[n - 1].dst)
               /\ code[n - 1].dst.reg = code[n].src.reg

-----------------------------------------------------------------------------
(* Code.                                                                   *)
Keeps(code, longer, id) ==
    /\ Fresh(code, id) => Fresh(longer, id)
    /\ Ready(code, id) => Ready(longer, id)

LEMMA LinearCodeIsLinear ==
    ASSUME NEW code \in Seq(Instruction(Nat)), LinearCode(code)
    PROVE  WellFormed(code) /\ Linear(code)
<1>1. ASSUME NEW n \in DOMAIN code, IsVirtual(code[n].src)
      PROVE  \E m \in 1..(n - 1) : IsVirtual(code[m].dst) /\ code[m].dst.id = code[n].src.id
  <2>1. code[n].src.id \in Nat /\ Reads(code[n], code[n].src.id)
    BY <1>1, InstructionIds DEF Reads
  <2> QED
    BY <2>1 DEF LinearCode, Sets
<1>2. VirtualIds(code) \subseteq Nat
  BY InstructionIds DEF VirtualIds
<1> QED
  BY <1>1, <1>2 DEF WellFormed, Linear, LinearCode, MovesVirtual

LEMMA Appended ==
    ASSUME NEW code \in Seq(Instruction(Nat)), NEW i \in Instruction(Nat)
    PROVE  /\ Append(code, i) \in Seq(Instruction(Nat))
           /\ Len(code) \in Nat
           /\ DOMAIN code = 1..Len(code)
           /\ Len(Append(code, i)) = Len(code) + 1
           /\ DOMAIN Append(code, i) = 1..(Len(code) + 1)
           /\ \A n \in DOMAIN code : Append(code, i)[n] = code[n]
           /\ Append(code, i)[Len(code) + 1] = i
OBVIOUS

LEMMA AppendStatus ==
    ASSUME NEW code \in Seq(Instruction(Nat)), NEW i \in Instruction(Nat), NEW id
    PROVE  /\ Fresh(code, id) /\ ~Occurs(i, id) => Fresh(Append(code, i), id)
           /\ Ready(code, id) /\ (MovesVirtual(i) => i.src.id # id) => Ready(Append(code, i), id)
           /\ Fresh(code, id) /\ Sets(i, id) /\ (MovesVirtual(i) => i.src.id # id) =>
                  Ready(Append(code, i), id)
           /\ ~Occurs(i, id) => Keeps(code, Append(code, i), id)
<1> DEFINE longer == Append(code, i)
<1>1. /\ Len(code) \in Nat
      /\ DOMAIN code = 1..Len(code) /\ DOMAIN longer = 1..(Len(code) + 1)
      /\ \A n \in DOMAIN code : longer[n] = code[n]
      /\ longer[Len(code) + 1] = i
  BY Appended
<1> HIDE DEF longer
<1>2. \A n \in DOMAIN longer : (n \in DOMAIN code /\ longer[n] = code[n]) \/ longer[n] = i
  BY <1>1
<1>3. Fresh(code, id) /\ ~Occurs(i, id) => Fresh(longer, id)
  BY <1>2 DEF Fresh
<1>4. Ready(code, id) /\ (MovesVirtual(i) => i.src.id # id) => Ready(longer, id)
  BY <1>1, <1>2 DEF Ready, IsSet
<1>5. Fresh(code, id) /\ Sets(i, id) /\ (MovesVirtual(i) => i.src.id # id) => Ready(longer, id)
  BY <1>1, <1>2 DEF Fresh, Ready, IsSet, Occurs, MovesVirtual
<1> QED
  BY <1>3, <1>4, <1>5 DEF longer, Keeps, Occurs, MovesVirtual

(* An instruction that may come next.                                      *)
MayCome(code, i) ==
    /\ \A v : Reads(i, v) => Ready(code, v)
    /\ \A v : Sets(i, v) => Fresh(code, v) \/ Ready(code, v)
    /\ MovesVirtual(i) => Fresh(code, i.dst.id)
    /\ IsHardcoded(i.src) => IsParamReg(i.src.reg) \/ LeftByCall(code, i.src.reg)

(* A virtual destination is either read or set.                            *)
LEMMA OccursReadsSets ==
    ASSUME NEW i \in Instruction(Nat), NEW v, Occurs(i, v)
    PROVE  Reads(i, v) \/ Sets(i, v)
BY NotRegisters DEF Occurs, Reads, Sets, WritesDestination, IsRegister, ReadsDestination

LEMMA AppendLinear ==
    ASSUME NEW code \in Seq(Instruction(Nat)), NEW i \in Instruction(Nat),
           LinearCode(code), MayCome(code, i)
    PROVE  LinearCode(Append(code, i))
<1> DEFINE longer == Append(code, i)
<1>1. /\ Len(code) \in Nat /\ Len(longer) = Len(code) + 1
      /\ DOMAIN code = 1..Len(code) /\ DOMAIN longer = 1..(Len(code) + 1)
      /\ \A n \in DOMAIN code : longer[n] = code[n]
      /\ longer[Len(code) + 1] = i
  BY Appended
<1> HIDE DEF longer
<1>2. ASSUME NEW n \in DOMAIN longer, NEW v \in Nat, Reads(longer[n], v)
      PROVE  \E m \in 1..(n - 1) : Sets(longer[m], v)
  <2>1. CASE n \in DOMAIN code
    <3>1. PICK m \in 1..(n - 1) : Sets(code[m], v)
      BY <1>1, <1>2, <2>1 DEF LinearCode
    <3>2. m \in DOMAIN code
      BY <1>1, <2>1
    <3> QED
      BY <1>1, <3>1, <3>2
  <2>2. CASE n = Len(code) + 1
    <3>1. PICK m \in DOMAIN code : Sets(code[m], v)
      BY <1>1, <1>2, <2>2 DEF MayCome, Ready, IsSet
    <3> QED
      BY <1>1, <2>2, <3>1
  <2> QED
    BY <1>1, <2>1, <2>2
<1>3. ASSUME NEW n \in DOMAIN longer, MovesVirtual(longer[n])
      PROVE  /\ \A m \in (n + 1)..Len(longer) : ~Occurs(longer[m], longer[n].src.id)
             /\ \A m \in 1..(n - 1) : ~Occurs(longer[m], longer[n].dst.id)
  <2>1. CASE n \in DOMAIN code
    <3>1. /\ longer[n] = code[n] /\ n \in 1..Len(code)
          /\ \A m \in (n + 1)..Len(code) : ~Occurs(code[m], code[n].src.id)
          /\ \A m \in 1..(n - 1) : ~Occurs(code[m], code[n].dst.id)
      BY <1>1, <1>3, <2>1 DEF LinearCode
    <3>2. \A m \in 1..(n - 1) : m \in DOMAIN code /\ longer[m] = code[m]
      BY <1>1, <3>1
    <3>3. \A m \in (n + 1)..Len(longer) :
              \/ m \in (n + 1)..Len(code) /\ longer[m] = code[m]
              \/ longer[m] = i
      BY <1>1, <3>1
    <3>4. ~Ready(code, code[n].src.id) /\ ~Fresh(code, code[n].src.id)
      BY <1>3, <2>1, <3>1 DEF Ready, Fresh, Occurs, MovesVirtual
    <3>5. ~Occurs(i, code[n].src.id)
      BY <3>4, OccursReadsSets DEF MayCome
    <3> QED
      BY <3>1, <3>2, <3>3, <3>5
  <2>2. CASE n = Len(code) + 1
    <3>1. longer[n] = i /\ Fresh(code, i.dst.id)
      BY <1>1, <1>3, <2>2 DEF MayCome
    <3> QED
      BY <1>1, <2>2, <3>1 DEF Fresh
  <2> QED
    BY <1>1, <2>1, <2>2
<1>4. ASSUME NEW n \in DOMAIN longer,
             IsHardcoded(longer[n].src), ~IsParamReg(longer[n].src.reg)
      PROVE  /\ n > 1
             /\ longer[n - 1].op = "Call"
             /\ IsHardcoded(longer[n - 1].dst)
             /\ longer[n - 1].dst.reg = longer[n].src.reg
  <2>1. CASE n \in DOMAIN code
    <3>1. /\ n > 1
          /\ code[n - 1].op = "Call"
          /\ IsHardcoded(code[n - 1].dst)
          /\ code[n - 1].dst.reg = code[n].src.reg
      BY <1>1, <1>4, <2>1 DEF LinearCode
    <3>2. n - 1 \in DOMAIN code
      BY <1>1, <2>1, <3>1
    <3> QED
      BY <1>1, <2>1, <3>1, <3>2
  <2>2. CASE n = Len(code) + 1
    <3>1. LeftByCall(code, i.src.reg) /\ longer[n] = i
      BY <1>1, <1>4, <2>2 DEF MayCome
    <3>2. Len(code) \in DOMAIN code
      BY <1>1, <3>1 DEF LeftByCall
    <3> QED
      BY <1>1, <2>2, <3>1, <3>2 DEF LeftByCall
  <2> QED
    BY <1>1, <2>1, <2>2
<1> QED
  BY <1>2, <1>3, <1>4 DEF LinearCode, longer

-----------------------------------------------------------------------------
(* Contexts.  d is made of c, and of the registers c has numbered only       *)
(* those with ids from ids were touched.                                   *)
Grows(c, d, ids) ==
    /\ LinearCode(d.code)
    /\ d.temp_register_mapping = c.temp_register_mapping
    /\ \A id \in 0..(c.tempCounter - 1) : id \notin ids => Keeps(c.code, d.code, id)

Ids(x) == IF IsVirtual(x) THEN {x.id} ELSE {}

(* An instruction may read the operand.                                    *)
Usable(c, x) ==
    /\ IsVirtual(x) => Ready(c.code, x.id)
    /\ IsHardcoded(x) => IsParamReg(x.reg)

(* An operation may read the value, and the register it has.               *)
CanRead(c, v) ==
    /\ v.kind = "temp" => Mapped(c, v.id) /\ Ready(c.code, RegisterOf(c, v.id))
    /\ v.kind = "hard" => IsParamReg(v.reg)

ReadIds(c, v) == IF v.kind = "temp" THEN {RegisterOf(c, v.id)} ELSE {}

LEMMA FreshNumber ==
    ASSUME NEW c, ContextOK(c), NEW id \in Nat, id >= c.tempCounter
    PROVE  Fresh(c.code, id)
BY ContextFields DEF ContextOK, Numbered, Fresh, Occurs

LEMMA GrowsSame ==
    ASSUME NEW c, LinearCode(c.code)
    PROVE  Grows(c, c, {})
BY DEF Grows, Keeps

LEMMA GrowsTrans ==
    ASSUME NEW c, NEW d, NEW e, ContextOK(c), Follows(c, d),
           NEW X, NEW Y, NEW Z, Grows(c, d, X), Grows(d, e, Y),
           \A id \in 0..(c.tempCounter - 1) : id \in X \cup Y => id \in Z
    PROVE  Grows(c, e, Z)
<1>1. c.tempCounter \in Nat /\ d.tempCounter \in Nat /\ c.tempCounter <= d.tempCounter
  BY ContextFields DEF Follows
<1>2. \A id \in 0..(c.tempCounter - 1) : id \in 0..(d.tempCounter - 1)
  BY <1>1
<1> QED
  BY <1>2 DEF Grows, Keeps

LEMMA EmitGrows ==
    ASSUME NEW c, ContextOK(c), LinearCode(c.code),
           NEW i \in Instruction(0..(c.tempCounter - 1)), MayCome(c.code, i)
    PROVE  Grows(c, Emit(c, i), Ids(i.dst) \cup Ids(i.src))
<1>1. /\ Emit(c, i).code = Append(c.code, i)
      /\ Emit(c, i).temp_register_mapping = c.temp_register_mapping
  BY EmitFollows
<1>2. i \in Instruction(Nat) /\ c.code \in Seq(Instruction(Nat))
  BY NumberedInstruction, ContextFields
<1>3. LinearCode(Append(c.code, i))
  BY <1>2, AppendLinear
<1>4. ASSUME NEW id, id \notin Ids(i.dst) \cup Ids(i.src)
      PROVE  Keeps(c.code, Append(c.code, i), id)
  <2>1. ~Occurs(i, id)
    BY <1>4 DEF Ids, Occurs
  <2> QED
    BY <1>2, <2>1, AppendStatus
<1> QED
  BY <1>1, <1>3, <1>4 DEF Grows

LEMMA NewRegisterGrows ==
    ASSUME NEW c, ContextOK(c), LinearCode(c.code), NEW size \in {4, 8}
    PROVE  /\ Grows(c, AfterNewRegister(c), {})
           /\ Fresh(AfterNewRegister(c).code, NewRegister(c, size).id)
BY NewRegisterFollows, ContextFields, FreshNumber DEF Grows, Keeps

(* What was not touched is as it was.                                      *)
LEMMA UsableKept ==
    ASSUME NEW c, NEW d, ContextOK(c), NEW X, Grows(c, d, X),
           NEW x \in Known(c) \cup Immediates, Usable(c, x), IsVirtual(x) => x.id \notin X
    PROVE  Usable(d, x)
<1>1. IsVirtual(x) => x.id \in 0..(c.tempCounter - 1)
  BY RegisterKinds, NotRegisters DEF Known
<1> QED
  BY <1>1 DEF Usable, Grows, Keeps

LEMMA CanReadKept ==
    ASSUME NEW c, NEW d, ContextOK(c), NEW X, Grows(c, d, X),
           NEW v \in IRValue, CanRead(c, v), v.kind = "temp" => RegisterOf(c, v.id) \notin X
    PROVE  CanRead(d, v) /\ ReadIds(d, v) = ReadIds(c, v)
<1>1. v.kind = "temp" => RegisterOf(c, v.id) \in 0..(c.tempCounter - 1)
  BY ValueKinds, ContextFields DEF CanRead
<1> QED
  BY <1>1 DEF CanRead, ReadIds, Grows, Keeps, Mapped, RegisterOf

(* An instruction that sets a fresh register makes it ready.                *)
LEMMA SetGrows ==
    ASSUME NEW c, ContextOK(c), LinearCode(c.code),
           NEW i \in Instruction(0..(c.tempCounter - 1)), i.op \notin ReadsDestination,
           IsVirtual(i.src) => Ready(c.code, i.src.id),
           IsHardcoded(i.src) => IsParamReg(i.src.reg) \/ LeftByCall(c.code, i.src.reg),
           IsVirtual(i.dst) => Fresh(c.code, i.dst.id)
    PROVE  /\ Grows(c, Emit(c, i), Ids(i.dst) \cup Ids(i.src))
           /\ IsVirtual(i.dst) => Ready(Emit(c, i).code, i.dst.id)
<1>1. MayCome(c.code, i)
  BY DEF MayCome, Reads, Sets, MovesVirtual
<1>2. Grows(c, Emit(c, i), Ids(i.dst) \cup Ids(i.src))
  BY <1>1, EmitGrows
<1>3. IsVirtual(i.dst) => Ready(Append(c.code, i), i.dst.id)
  <2>1. ASSUME IsVirtual(i.dst), IsVirtual(i.src) PROVE i.src.id # i.dst.id
    BY <2>1 DEF Ready, IsSet, Fresh, Sets, Occurs
  <2>2. IsVirtual(i.dst) => Sets(i, i.dst.id)
    BY DEF Sets, WritesDestination, IsRegister, ReadsDestination
  <2>3. i \in Instruction(Nat) /\ c.code \in Seq(Instruction(Nat))
    BY NumberedInstruction, ContextFields
  <2> QED
    BY <2>1, <2>2, <2>3, AppendStatus DEF MovesVirtual
<1> QED
  BY <1>2, <1>3, EmitFollows

LEMMA RegisterToLocationGrows ==
    ASSUME NEW c, ContextOK(c), LinearCode(c.code), NEW l \in Locations(c), NEW r \in Known(c),
           IsVirtual(r) => Ready(c.code, r.id),
           IsHardcoded(r) => IsParamReg(r.reg) \/ LeftByCall(c.code, r.reg),
           IsVirtual(l) => Fresh(c.code, l.id)
    PROVE  LET d == Register_To_Location(c, l, r)
           IN  /\ Grows(c, d, Ids(l) \cup Ids(r))
               /\ IsVirtual(l) => Ready(d.code, l.id)
<1> DEFINE i == Ins(IF IsRegister(l) THEN "Mov" ELSE "Store", l, r)
<1>1. i \in Instruction(0..(c.tempCounter - 1))
  BY Instructions, RegisterKinds, NotRegisters DEF Locations, Known, RegisterRegister
<1>2. i.dst = l /\ i.src = r /\ i.op \notin ReadsDestination
  BY DEF Ins, ReadsDestination
<1>3. Register_To_Location(c, l, r) = Emit(c, i)
  BY DEF Register_To_Location
<1> HIDE DEF i
<1> QED
  BY <1>1, <1>2, <1>3, SetGrows

-----------------------------------------------------------------------------
(* Moving values.                                                          *)
LEMMA NoIds ==
    ASSUME NEW x, ~IsRegister(x)
    PROVE  Ids(x) = {} /\ ~IsVirtual(x) /\ ~IsHardcoded(x)
BY DEF Ids, IsRegister

LEMMA ToLocationGrows ==
    ASSUME NEW c, ContextOK(c), LinearCode(c.code), NEW l \in Locations(c), NEW v \in IRValue,
           CanRead(c, v), IsVirtual(l) => Fresh(c.code, l.id), ~toLocation(c, l, v).thrown
    PROVE  LET d == toLocation(c, l, v)
           IN  /\ Grows(c, d, Ids(l) \cup ReadIds(c, v))
               /\ IsVirtual(l) => Ready(d.code, l.id)
<1> DEFINE d == toLocation(c, l, v)
<1>1. /\ v.kind \in {"temp", "var", "hard", "int"}
      /\ IsRegister(l) => l \in Known(c)
      /\ ~IsRegister(l) => l \in StackLocations
  BY ValueKinds, RegisterKinds, NotRegisters DEF Locations, Known
<1>2. CASE v.kind = "int"
  <2> DEFINE i == Ins(IF IsRegister(l) THEN "LoadI" ELSE "StoreI", l, v)
  <2>1. i \in Instruction(0..(c.tempCounter - 1))
    BY <1>1, <1>2, ValueKinds, Instructions, OtherInstructions DEF Known, RegisterImmediate
  <2>2. d = Emit(c, i)
    BY <1>2 DEF toLocation, HasSlot
  <2>3. i.dst = l /\ i.src = v /\ i.op \notin ReadsDestination /\ ~IsRegister(v)
    BY <1>2, ValueKinds, NotRegisters DEF Ins, ReadsDestination
  <2> HIDE DEF i
  <2> QED
    BY <1>2, <2>1, <2>2, <2>3, SetGrows, NoIds DEF ReadIds
<1>3. CASE v.kind = "temp"
  <2> DEFINE r == c.temp_register_mapping[v.id]
  <2>1. /\ v \in Temps(TempId) /\ v.id \in TempId
        /\ Mapped(c, v.id) /\ Ready(c.code, r.id)
    BY <1>3, ValueKinds DEF CanRead, RegisterOf
  <2>2. d = Register_To_Location(c, l, r)
    BY <1>3, <2>1 DEF toLocation, HasSlot, AllocateNewForTemp, LocationOf, Mapped
  <2>3. r \in Known(c) /\ IsVirtual(r) /\ ~IsHardcoded(r)
    BY <2>1, ContextFields, RegisterKinds DEF Known
  <2>4. Ids(r) = ReadIds(c, v)
    BY <1>3, <2>3 DEF Ids, ReadIds, RegisterOf
  <2> HIDE DEF r
  <2> QED
    BY <2>1, <2>2, <2>3, <2>4, RegisterToLocationGrows
<1>4. CASE v.kind = "hard"
  <2>1. ~IsRegister(l)
    BY <1>4 DEF toLocation, HasSlot, Throws
  <2>2. d = Register_To_Location(c, l, v)
    BY <1>4, <2>1 DEF toLocation, HasSlot
  <2>3. v \in Known(c) /\ IsHardcoded(v) /\ ~IsVirtual(v) /\ IsParamReg(v.reg)
    BY <1>4, ValueKinds DEF Known, Register, CanRead, IsHardcoded, IsVirtual
  <2>4. Ids(v) = {} /\ ReadIds(c, v) = {}
    BY <1>4, <2>3 DEF Ids, ReadIds
  <2> QED
    BY <2>2, <2>3, <2>4, RegisterToLocationGrows
<1>5. CASE v.kind = "var" /\ HasSlot(c, v) /\ IsRegister(l)
  <2> DEFINE i == Ins("Load", l, LocationOf(c, v))
  <2>1. LocationOf(c, v) \in StackLocations /\ ~IsRegister(LocationOf(c, v))
    BY <1>5, SlotLocation, NotRegisters
  <2>2. i \in Instruction(0..(c.tempCounter - 1))
    BY <1>1, <1>5, <2>1, Instructions DEF Known
  <2>3. d = Emit(c, i)
    BY <1>5 DEF toLocation
  <2>4. i.dst = l /\ i.src = LocationOf(c, v) /\ i.op \notin ReadsDestination
    BY DEF Ins, ReadsDestination
  <2> HIDE DEF i
  <2> QED
    BY <1>5, <2>1, <2>2, <2>3, <2>4, SetGrows, NoIds DEF ReadIds
<1>6. CASE v.kind = "var" /\ HasSlot(c, v) /\ ~IsRegister(l)
  <2> DEFINE reg == NewRegister(c, v.size)
             n   == AfterNewRegister(c)
             i   == Ins("Load", reg, LocationOf(c, v))
             e   == Emit(n, i)
             j   == Ins("Store", l, reg)
  <2>1. /\ Follows(c, n) /\ ContextOK(n)
        /\ Grows(c, n, {}) /\ LinearCode(n.code)
        /\ reg \in Known(n) /\ IsVirtual(reg) /\ reg.id = c.tempCounter
        /\ Fresh(n.code, reg.id)
    BY <1>6, ValueKinds, NewRegisterFollows, NewRegisterGrows DEF Follows, Grows
  <2>2. LocationOf(c, v) \in StackLocations /\ ~IsRegister(LocationOf(c, v))
    BY <1>6, SlotLocation, NotRegisters
  <2>3. i \in Instruction(0..(n.tempCounter - 1))
    BY <2>1, <2>2, Instructions DEF Known
  <2>4. i.dst = reg /\ i.src = LocationOf(c, v) /\ i.op \notin ReadsDestination
    BY DEF Ins, ReadsDestination
  <2>5. d = Emit(e, j)
    BY <1>6 DEF toLocation
  <2>6. Ids(reg) = {c.tempCounter} /\ ReadIds(c, v) = {} /\ Ids(l) = {}
    BY <1>6, <2>1, NoIds DEF Ids, ReadIds
  <2> HIDE DEF n, reg, i
  <2>7. /\ Follows(n, e) /\ ContextOK(e) /\ e.tempCounter = n.tempCounter
        /\ Grows(n, e, {c.tempCounter}) /\ LinearCode(e.code)
        /\ Ready(e.code, reg.id)
    BY <2>1, <2>2, <2>3, <2>4, <2>6, EmitFollows, SetGrows, NoIds DEF Follows, Grows
  <2>8. j \in Instruction(0..(e.tempCounter - 1))
    BY <1>1, <1>6, <2>1, <2>7, Instructions DEF Known
  <2>9. /\ j.dst = l /\ j.src = reg /\ j.op \notin ReadsDestination
        /\ ~IsHardcoded(reg) /\ ~IsVirtual(l)
    BY <1>6, <2>1, NoIds DEF Ins, ReadsDestination, IsVirtual, IsHardcoded
  <2> HIDE DEF j, e
  <2>10. Grows(e, d, {c.tempCounter})
    BY <2>5, <2>6, <2>7, <2>8, <2>9, SetGrows
  <2>11. Follows(c, e) /\ Grows(c, e, {})
    BY <2>1, <2>7, GrowsTrans, FollowsTrans, ContextFields
  <2>12. Grows(c, d, {})
    BY <2>10, <2>11, GrowsTrans, ContextFields
  <2>13. Ids(l) \cup ReadIds(c, v) = {}
    BY <2>6
  <2> QED
    BY <2>9, <2>12, <2>13
<1>7. CASE v.kind = "var" /\ ~HasSlot(c, v)
  BY <1>7, ThrowsFollows DEF toLocation
<1> QED
  BY <1>1, <1>2, <1>3, <1>4, <1>5, <1>6, <1>7

LEMMA InRegisterGrows ==
    ASSUME NEW c, ContextOK(c), LinearCode(c.code), NEW v \in IRValue, NEW size \in {4, 8},
           CanRead(c, v), ~InRegister(c, v, size).after.thrown
    PROVE  LET r == InRegister(c, v, size)
           IN  /\ Grows(c, r.after, ReadIds(c, v))
               /\ Usable(r.after, r.reg)
               /\ IsVirtual(r.reg)
               /\ r.reg.id = c.tempCounter
<1> DEFINE reg == NewRegister(c, size)
           n   == AfterNewRegister(c)
           d   == toLocation(n, reg, v)
<1>1. /\ Follows(c, n) /\ ContextOK(n)
      /\ Grows(c, n, {}) /\ LinearCode(n.code)
      /\ reg \in Known(n) /\ IsVirtual(reg) /\ reg.id = c.tempCounter
      /\ Fresh(n.code, reg.id)
  BY NewRegisterFollows, NewRegisterGrows DEF Follows, Grows
<1>2. CanRead(n, v) /\ ReadIds(n, v) = ReadIds(c, v)
  BY <1>1, CanReadKept
<1>3. InRegister(c, v, size).after = d /\ InRegister(c, v, size).reg = reg
  BY DEF InRegister
<1>4. Ids(reg) = {c.tempCounter} /\ ~IsHardcoded(reg) /\ reg \in Locations(n)
  BY <1>1 DEF Ids, IsVirtual, IsHardcoded, Locations
<1> HIDE DEF n, reg
<1>5. Grows(n, d, {c.tempCounter} \cup ReadIds(c, v)) /\ Ready(d.code, reg.id)
  BY <1>1, <1>2, <1>3, <1>4, ToLocationGrows
<1> HIDE DEF d
<1>6. Grows(c, d, ReadIds(c, v))
  BY <1>1, <1>5, GrowsTrans, ContextFields
<1> QED
  BY <1>1, <1>3, <1>4, <1>5, <1>6 DEF Usable

LEMMA EnsureRegisterGrows ==
    ASSUME NEW c, ContextOK(c), LinearCode(c.code), NEW v \in IRValue,
           CanRead(c, v), ~ensureRegister(c, v).after.thrown
    PROVE  LET r == ensureRegister(c, v)
           IN  /\ Grows(c, r.after, ReadIds(c, v))
               /\ Usable(r.after, r.reg)
               /\ IsVirtual(r.reg) => r.reg.id = c.tempCounter
<1>1. CASE v.kind = "hard"
  <2>1. /\ ensureRegister(c, v) = [reg |-> v, after |-> c]
        /\ ReadIds(c, v) = {} /\ ~IsVirtual(v)
    BY <1>1 DEF ensureRegister, ReadIds, IsVirtual
  <2> QED
    BY <1>1, <2>1, GrowsSame DEF Usable, CanRead
<1>2. CASE v.kind # "hard"
  BY <1>2, ValueKinds, InRegisterGrows DEF ensureRegister
<1> QED
  BY <1>1, <1>2

-----------------------------------------------------------------------------
(* Arithmetic.                                                             *)
LEMMA TwoOperandGrows ==
    ASSUME NEW c, ContextOK(c), LinearCode(c.code), NEW o \in {"Add", "Sub", "Cmp"},
           NEW reg \in Known(c), NEW rhs \in Known(c) \cup Immediates,
           Usable(c, reg), Usable(c, rhs)
    PROVE  LET d == TwoOperand(c, o, reg, rhs)
           IN  /\ Grows(c, d, Ids(reg) \cup Ids(rhs))
               /\ Usable(d, reg)
<1> DEFINE i == Ins(IF IsRegister(rhs) THEN o ELSE ImmediateForm[o], reg, rhs)
<1>1. ImmediateForm[o] \in RegisterImmediate /\ o \in RegisterRegister
  BY DEF ImmediateForm, RegisterImmediate, RegisterRegister
<1>2. i \in Instruction(0..(c.tempCounter - 1))
  BY <1>1, Instructions, RegisterKinds, NotRegisters DEF Known
<1>3. /\ i.dst = reg /\ i.src = rhs
      /\ i.op \in ReadsDestination /\ i.op # "Mov"
  BY DEF Ins, ReadsDestination, ImmediateForm
<1>4. TwoOperand(c, o, reg, rhs) = Emit(c, i)
  BY DEF TwoOperand
<1> HIDE DEF i
<1>5. MayCome(c.code, i)
  BY <1>3 DEF MayCome, Reads, Sets, MovesVirtual, Usable
<1>6. Usable(Emit(c, i), reg)
  <2>1. i \in Instruction(Nat) /\ c.code \in Seq(Instruction(Nat))
    BY <1>2, NumberedInstruction, ContextFields
  <2> QED
    BY <1>2, <1>3, <2>1, AppendStatus, EmitFollows DEF Usable, MovesVirtual
<1> QED
  BY <1>2, <1>3, <1>4, <1>5, <1>6, EmitGrows

LEMMA ToDestinationGrows ==
    ASSUME NEW c, ContextOK(c), LinearCode(c.code), NEW dst, NEW reg \in Known(c),
           Usable(c, reg),
           dst # NoOperand =>
               /\ LocationOf(c, dst) \in Locations(c)
               /\ IsVirtual(LocationOf(c, dst)) => Fresh(c.code, LocationOf(c, dst).id)
    PROVE  LET d == ToDestination(c, dst, reg)
               l == LocationOf(c, dst)
           IN  /\ Grows(c, d, Ids(reg) \cup IF dst = NoOperand THEN {} ELSE Ids(l))
               /\ dst # NoOperand /\ IsVirtual(l) => Ready(d.code, l.id)
<1>1. CASE dst = NoOperand
  BY <1>1, GrowsSame DEF ToDestination, Grows
<1>2. CASE dst # NoOperand
  <2> DEFINE l == LocationOf(c, dst)
  <2>1. Ids(reg) \cup Ids(l) = Ids(l) \cup Ids(reg)
    OBVIOUS
  <2>2. ToDestination(c, dst, reg) = Register_To_Location(c, l, reg)
    BY <1>2 DEF ToDestination
  <2> QED
    BY <1>2, <2>1, <2>2, RegisterToLocationGrows DEF Usable
<1> QED
  BY <1>1, <1>2

(* The location of a destination, when an operation has one.               *)
DestinationIds(c, dst) == IF dst = NoOperand THEN {} ELSE Ids(LocationOf(c, dst))

DestinationOK(c, dst) ==
    dst # NoOperand =>
        /\ dst \in Places(TempId, VarName)
        /\ dst.kind = "temp" => Mapped(c, dst.id)
        /\ LocationOf(c, dst) \in Locations(c)
        /\ IsVirtual(LocationOf(c, dst)) => Fresh(c.code, LocationOf(c, dst).id)

LEMMA DestinationKept ==
    ASSUME NEW c, NEW d, ContextOK(c), Follows(c, d), SameSlots(c, d),
           NEW X, Grows(c, d, X), NEW dst, DestinationOK(c, dst),
           DestinationIds(c, dst) \cap X = {}
    PROVE  DestinationOK(d, dst) /\ DestinationIds(d, dst) = DestinationIds(c, dst)
<1>1. CASE dst = NoOperand
  BY <1>1 DEF DestinationOK, DestinationIds
<1>2. CASE dst # NoOperand
  <2>1. /\ dst \in Places(TempId, VarName)
        /\ dst.kind = "temp" => Mapped(c, dst.id) /\ Mapped(d, dst.id)
        /\ LocationOf(c, dst) \in Locations(c)
    BY <1>2 DEF DestinationOK, Grows, Mapped
  <2>2. /\ LocationOf(d, dst) = LocationOf(c, dst)
        /\ LocationOf(d, dst) \in Locations(d)
    BY <2>1, LocationKept
  <2>3. ASSUME IsVirtual(LocationOf(c, dst))
        PROVE  Fresh(d.code, LocationOf(c, dst).id)
    <3>1. LocationOf(c, dst).id \in 0..(c.tempCounter - 1)
      BY <2>1, <2>3, RegisterKinds, NotRegisters DEF Locations, Known
    <3>2. LocationOf(c, dst).id \notin X
      BY <1>2, <2>3 DEF DestinationIds, Ids
    <3> QED
      BY <1>2, <2>3, <3>1, <3>2 DEF Grows, Keeps, DestinationOK
  <2> QED
    BY <1>2, <2>1, <2>2, <2>3 DEF DestinationOK, DestinationIds
<1> QED
  BY <1>1, <1>2

LEMMA CreateArthGrows ==
    ASSUME NEW c, ContextOK(c), LinearCode(c.code),
           NEW o \in IROperation, o.op \in BinaryOps,
           NEW reg \in Known(c), NEW rhs \in Known(c) \cup Immediates,
           Usable(c, reg), Usable(c, rhs),
           DestinationOK(c, o.dst),
           DestinationIds(c, o.dst) \cap (Ids(reg) \cup Ids(rhs)) = {},
           ~Create_Arth_Instruction(c, o, reg, rhs).thrown
    PROVE  LET d == Create_Arth_Instruction(c, o, reg, rhs)
           IN  /\ Grows(c, d, Ids(reg) \cup Ids(rhs) \cup DestinationIds(c, o.dst))
               /\ \A id \in DestinationIds(c, o.dst) : Ready(d.code, id)
<1> DEFINE d == Create_Arth_Instruction(c, o, reg, rhs)
<1>1. CASE o.op \in {"Add", "Sub"}
  <2> DEFINE e == TwoOperand(c, o.op, reg, rhs)
  <2>1. /\ Follows(c, e) /\ ContextOK(e) /\ SameSlots(c, e)
        /\ Grows(c, e, Ids(reg) \cup Ids(rhs)) /\ LinearCode(e.code)
        /\ Usable(e, reg)
    BY <1>1, TwoOperandFollows, TwoOperandGrows DEF Follows, Grows
  <2>2. d = ToDestination(e, o.dst, reg)
    BY <1>1 DEF Create_Arth_Instruction
  <2> HIDE DEF e, d
  <2>3. reg \in Known(e)
    BY <2>1, KnownGrows
  <2>4. DestinationOK(e, o.dst) /\ DestinationIds(e, o.dst) = DestinationIds(c, o.dst)
    BY <2>1, DestinationKept
  <2>5. /\ Grows(e, d, Ids(reg) \cup DestinationIds(e, o.dst))
        /\ \A id \in DestinationIds(e, o.dst) : Ready(d.code, id)
    BY <2>1, <2>2, <2>3, <2>4, ToDestinationGrows DEF DestinationOK, DestinationIds, Ids
  <2>6. Grows(c, d, Ids(reg) \cup Ids(rhs) \cup DestinationIds(c, o.dst))
    BY <2>1, <2>4, <2>5, GrowsTrans
  <2> QED
    BY <2>4, <2>5, <2>6 DEF d
<1>2. CASE o.op \notin {"Add", "Sub"}
  <2> DEFINE e == TwoOperand(c, "Cmp", reg, rhs)
             newReg == NewRegister(e, 4)
             n   == AfterNewRegister(e)
             i   == Ins(SetInstruction[o.op], newReg, NoOperand)
             s   == Emit(n, i)
  <2>1. /\ Follows(c, e) /\ ContextOK(e) /\ SameSlots(c, e)
        /\ Grows(c, e, Ids(reg) \cup Ids(rhs)) /\ LinearCode(e.code)
        /\ e.tempCounter = c.tempCounter
    BY TwoOperandFollows, TwoOperandGrows DEF Follows, Grows
  <2>2. d = ToDestination(s, o.dst, newReg)
    BY <1>2 DEF Create_Arth_Instruction, Throws
  <2>3. SetInstruction[o.op] \in SetsAl
    BY <1>2 DEF SetInstruction, SetsAl, BinaryOps
  <2> HIDE DEF e
  <2>4. /\ Follows(e, n) /\ ContextOK(n) /\ SameSlots(e, n)
        /\ Grows(e, n, {}) /\ LinearCode(n.code)
        /\ newReg \in Known(n) /\ IsVirtual(newReg) /\ newReg.id = c.tempCounter
        /\ Fresh(n.code, newReg.id)
    BY <2>1, NewRegisterFollows, NewRegisterGrows DEF Follows, Grows
  <2>5. /\ i \in Instruction(0..(n.tempCounter - 1))
        /\ i.dst = newReg /\ i.src = NoOperand /\ i.op \notin ReadsDestination
        /\ ~IsVirtual(i.src) /\ ~IsHardcoded(i.src) /\ Ids(i.src) = {}
        /\ Ids(newReg) = {c.tempCounter} /\ ~IsHardcoded(newReg)
    <3>1. i.dst = newReg /\ i.src = NoOperand /\ i.op = SetInstruction[o.op]
      BY DEF Ins
    <3>2. i \in Instruction(0..(n.tempCounter - 1))
      BY <2>3, <2>4, Instructions DEF Known
    <3>3. ~IsVirtual(NoOperand) /\ ~IsHardcoded(NoOperand) /\ Ids(NoOperand) = {}
      BY NotRegisters, NoIds
    <3>4. Ids(newReg) = {c.tempCounter} /\ ~IsHardcoded(newReg)
      BY <2>4 DEF Ids, IsVirtual, IsHardcoded
    <3> QED
      BY <2>3, <3>1, <3>2, <3>3, <3>4 DEF SetsAl, ReadsDestination
  <2> HIDE DEF n, newReg, i
  <2>6. /\ Follows(n, s) /\ ContextOK(s) /\ SameSlots(n, s)
        /\ Grows(n, s, {c.tempCounter}) /\ LinearCode(s.code)
        /\ Ready(s.code, newReg.id)
    <3>1. Ids(i.dst) \cup Ids(i.src) = {c.tempCounter}
      BY <2>5
    <3> QED
      BY <2>4, <2>5, <3>1, EmitFollows, SetGrows DEF Follows, Grows
  <2> HIDE DEF s, d
  <2>7. /\ Follows(c, n) /\ SameSlots(c, n)
        /\ Grows(c, n, Ids(reg) \cup Ids(rhs))
    BY <2>1, <2>4, FollowsTrans, GrowsTrans
  <2>8. /\ Follows(c, s) /\ SameSlots(c, s)
        /\ Grows(c, s, Ids(reg) \cup Ids(rhs))
    BY <2>6, <2>7, FollowsTrans, GrowsTrans, ContextFields
  <2>9. DestinationOK(s, o.dst) /\ DestinationIds(s, o.dst) = DestinationIds(c, o.dst)
    BY <2>8, DestinationKept
  <2>10. newReg \in Known(s) /\ Usable(s, newReg)
    BY <2>4, <2>5, <2>6, KnownGrows DEF Usable
  <2>11. /\ Grows(s, d, {c.tempCounter} \cup DestinationIds(s, o.dst))
         /\ \A id \in DestinationIds(s, o.dst) : Ready(d.code, id)
    BY <2>2, <2>5, <2>6, <2>9, <2>10, ToDestinationGrows
       DEF DestinationOK, DestinationIds, Ids
  <2>12. Grows(c, d, Ids(reg) \cup Ids(rhs) \cup DestinationIds(c, o.dst))
    BY <2>8, <2>9, <2>11, GrowsTrans, ContextFields
  <2> QED
    BY <2>9, <2>11, <2>12 DEF d
<1> QED
  BY <1>1, <1>2

-----------------------------------------------------------------------------
(* Operations.                                                             *)
Uses(o, t) == IsTemp(Target(o), t) \/ \E v \in Sources(o) : IsTemp(v, t)

(* The operation may be lowered: its temporaries are ready, and the one it   *)
(* sets is fresh.                                                          *)
OperationReady(c, o) ==
    /\ \A v \in Sources(o) : CanRead(c, v)
    /\ \A j, k \in DOMAIN ValuesRead(o) :
           ValuesRead(o)[j].kind = "temp" /\ IsTemp(ValuesRead(o)[k], ValuesRead(o)[j].id) =>
               j = k
    /\ \A t \in TempId :
           IsTemp(Target(o), t) =>
               /\ Mapped(c, t) => Fresh(c.code, RegisterOf(c, t))
               /\ \A v \in Sources(o) : ~IsTemp(v, t)

(* What lowering it does to the temporaries.                               *)
TempKept(c, d, t) ==
    /\ Mapped(d, t) <=> Mapped(c, t)
    /\ Mapped(c, t) => /\ RegisterOf(d, t) = RegisterOf(c, t)
                       /\ Keeps(c.code, d.code, RegisterOf(c, t))

LinearStep(c, d, o) ==
    /\ LinearCode(d.code)
    /\ \A t \in TempId :
           IF IsTemp(Target(o), t) THEN Mapped(d, t) /\ Ready(d.code, RegisterOf(d, t))
                                   ELSE ~Uses(o, t) => TempKept(c, d, t)

LEMMA ReadIdsUsed ==
    ASSUME NEW c, ContextOK(c), NEW v \in IRValue, CanRead(c, v),
           NEW t \in TempId, Mapped(c, t), RegisterOf(c, t) \in ReadIds(c, v)
    PROVE  IsTemp(v, t)
BY ValueKinds DEF CanRead, ReadIds, ContextOK, IsTemp

LEMMA DestinationIdsUsed ==
    ASSUME NEW c, ContextOK(c), NEW dst, DestinationOK(c, dst),
           NEW t \in TempId, Mapped(c, t), RegisterOf(c, t) \in DestinationIds(c, dst)
    PROVE  IsTemp(dst, t)
<1>1. dst # NoOperand /\ IsVirtual(LocationOf(c, dst)) /\ RegisterOf(c, t) = LocationOf(c, dst).id
  BY DEF DestinationIds, Ids
<1>2. dst \in IRValue /\ dst.kind \in {"temp", "var"} /\ LocationOf(c, dst) \in Locations(c)
  BY <1>1, PlaceKinds DEF DestinationOK
<1>3. dst.kind = "temp"
  <2>1. ASSUME dst.kind = "var" PROVE FALSE
    <3>1. LocationOf(c, dst) = c.variable_offset[dst.name] /\ dst.name \in VarName
      BY <1>2, <2>1, ValueKinds DEF LocationOf
    <3> QED
      BY <1>1, <3>1, ContextFields, NotRegisters
  <2> QED
    BY <1>2, <2>1
<1>4. dst.id \in TempId /\ Mapped(c, dst.id) /\ RegisterOf(c, t) = RegisterOf(c, dst.id)
  BY <1>1, <1>2, <1>3, ValueKinds DEF DestinationOK, LocationOf, RegisterOf
<1> QED
  BY <1>3, <1>4 DEF ContextOK, IsTemp

(* The register of a temporary, as a destination.                          *)
LEMMA TempDestination ==
    ASSUME NEW c, ContextOK(c), NEW t \in Temps(TempId), Mapped(c, t.id)
    PROVE  /\ LocationOf(c, t) = c.temp_register_mapping[t.id]
           /\ LocationOf(c, t) \in Known(c) /\ LocationOf(c, t) \in Locations(c)
           /\ IsVirtual(LocationOf(c, t)) /\ LocationOf(c, t).id = RegisterOf(c, t.id)
           /\ DestinationIds(c, t) = {RegisterOf(c, t.id)}
           /\ t # NoOperand /\ t \in Places(TempId, VarName)
           /\ t.kind = "temp" /\ t.id \in TempId
<1>1. t.kind = "temp" /\ t.id \in TempId /\ t # NoOperand /\ t \in Places(TempId, VarName)
  BY DEF Temps, Places, NoOperand
<1>2. LocationOf(c, t) = c.temp_register_mapping[t.id]
  BY <1>1 DEF LocationOf
<1>3. /\ LocationOf(c, t) \in Known(c) /\ LocationOf(c, t) \in Locations(c)
      /\ IsVirtual(LocationOf(c, t))
  BY <1>1, <1>2, ContextFields DEF Locations
<1> QED
  BY <1>1, <1>2, <1>3 DEF RegisterOf, DestinationIds, Ids

LEMMA PreparedGrows ==
    ASSUME NEW c, ContextOK(c), NEW dst \in Places(TempId, VarName) \cup {NoOperand},
           \A t \in TempId : IsTemp(dst, t) /\ Mapped(c, t) => Fresh(c.code, RegisterOf(c, t))
    PROVE  LET a == Prepared(c, dst)
           IN  /\ DestinationOK(a, dst)
               /\ \A t \in TempId :
                      IF IsTemp(dst, t)
                        THEN Mapped(a, t) /\ RegisterOf(a, t) \in DestinationIds(a, dst)
                      ELSE a.temp_register_mapping[t] = c.temp_register_mapping[t]
<1> DEFINE a == Prepared(c, dst)
<1>1. /\ ContextOK(a) /\ a.code = c.code
      /\ dst # NoOperand => /\ LocationOf(a, dst) \in Locations(a)
                            /\ dst \in Places(TempId, VarName)
                            /\ (dst.kind = "temp" => Mapped(a, dst.id))
  BY PreparedFollows
<1>2. CASE dst = NoOperand
  BY <1>2 DEF Prepared, DestinationOK, IsTemp, NoOperand
<1>3. CASE dst # NoOperand /\ dst.kind = "temp"
  <2>1. dst \in Places(TempId, VarName) /\ a = AllocateNew(c, dst)
    BY <1>3 DEF Prepared
  <2>2. dst \in Temps(TempId) /\ a = AllocateNewForTemp(c, dst) /\ dst.id \in TempId
    BY <1>3, <2>1, AllocateFollows DEF Temps
  <2>3. /\ Mapped(a, dst.id) /\ DestinationIds(a, dst) = {RegisterOf(a, dst.id)}
        /\ LocationOf(a, dst).id = RegisterOf(a, dst.id)
    BY <1>1, <1>3, <2>2, TempDestination
  <2>4. Fresh(c.code, RegisterOf(a, dst.id))
    <3>1. CASE Mapped(c, dst.id)
      <4>1. a = c
        BY <2>2, <3>1, AllocateTempFollows
      <4> QED
        BY <1>3, <2>2, <3>1, <4>1 DEF IsTemp
    <3>2. CASE ~Mapped(c, dst.id)
      BY <2>2, <3>2, AllocateTempFollows, FreshNumber, ContextFields
    <3> QED
      BY <3>1, <3>2
  <2>5. DestinationOK(a, dst)
    BY <1>1, <1>3, <2>3, <2>4 DEF DestinationOK
  <2>6. \A u \in TempId :
            u # dst.id => a.temp_register_mapping[u] = c.temp_register_mapping[u]
    BY <2>2, AllocateTempFollows
  <2> QED
    BY <1>3, <2>3, <2>5, <2>6 DEF IsTemp
<1>4. CASE dst # NoOperand /\ dst.kind # "temp"
  <2>1. dst \in Places(TempId, VarName) /\ a = AllocateNew(c, dst)
    BY <1>4 DEF Prepared
  <2>2. dst \in Variables(VarName) /\ a = AllocateNewForVariable(c, dst)
    BY <1>4, <2>1, AllocateFollows
  <2>3. /\ LocationOf(a, dst) \in StackLocations
        /\ a.temp_register_mapping = c.temp_register_mapping
    BY <2>2, AllocateVariableFollows
  <2>4. ~IsVirtual(LocationOf(a, dst))
    BY <2>3, NotRegisters
  <2> QED
    BY <1>1, <1>4, <2>3, <2>4 DEF DestinationOK, IsTemp
<1> QED
  BY <1>2, <1>3, <1>4

(* What the lemmas about the operations have in common: a is the context    *)
(* with a register for the temporary the operation sets.                   *)
LEMMA StepOf ==
    ASSUME NEW c, NEW a, NEW d, NEW o, ContextOK(a), a.code = c.code,
           \A t \in TempId :
               IF IsTemp(Target(o), t) THEN Mapped(a, t) /\ Ready(d.code, RegisterOf(a, t))
               ELSE a.temp_register_mapping[t] = c.temp_register_mapping[t],
           NEW X, Grows(a, d, X),
           \A t \in TempId : Mapped(a, t) /\ RegisterOf(a, t) \in X => Uses(o, t)
    PROVE  LinearStep(c, d, o)
<1>1. LinearCode(d.code) /\ d.temp_register_mapping = a.temp_register_mapping
  BY DEF Grows
<1>2. ASSUME NEW t \in TempId, ~Uses(o, t) PROVE TempKept(c, d, t)
  <2>1. a.temp_register_mapping[t] = c.temp_register_mapping[t]
    BY <1>2 DEF Uses
  <2>2. Mapped(c, t) => RegisterOf(a, t) \in 0..(a.tempCounter - 1) /\ RegisterOf(a, t) \notin X
    BY <1>2, <2>1, ContextFields DEF Mapped
  <2> QED
    BY <1>1, <2>1, <2>2 DEF TempKept, Mapped, RegisterOf, Grows
<1> QED
  BY <1>1, <1>2 DEF LinearStep, Mapped, RegisterOf

(* The values operations read.                                             *)
LEMMA Reading ==
    ASSUME NEW o \in IROperation
    PROVE  /\ o.op \in BinaryOps =>
                  /\ ValuesRead(o) = <<o.left, o.right>>
                  /\ o.left \in Sources(o) /\ o.right \in Sources(o)
           /\ o.op = "DerefStore" =>
                  /\ ValuesRead(o) = <<o.dst, o.src>>
                  /\ o.dst \in Sources(o) /\ o.src \in Sources(o)
           /\ o.op \in {"Mov", "MovR", "Addr", "Deref"} => o.src \in Sources(o)
           /\ o.op = "Ret" => o.value \in Sources(o)
           /\ o.op = "Call" => ValuesRead(o) = o.args
           /\ o.op \in {"Mov", "MovR", "Addr", "Deref", "Call"} \cup BinaryOps => Target(o) = o.dst
           /\ o.op \notin {"Mov", "MovR", "Addr", "Deref", "Call"} \cup BinaryOps =>
                  Target(o) = NoOperand
<1>1. o.op \in BinaryOps => ValuesRead(o) = <<o.left, o.right>>
  BY DEF ValuesRead, MoveOps, BinaryOps
<1>2. o.op = "DerefStore" => ValuesRead(o) = <<o.dst, o.src>>
  BY DEF ValuesRead, MoveOps, BinaryOps
<1>3. o.op \in {"Mov", "MovR", "Addr", "Deref"} => ValuesRead(o) = <<o.src>>
  BY DEF ValuesRead, MoveOps, BinaryOps
<1>4. o.op = "Ret" => ValuesRead(o) = <<o.value>>
  BY DEF ValuesRead, MoveOps, BinaryOps
<1>5. o.op = "Call" => ValuesRead(o) = o.args
  BY DEF ValuesRead, MoveOps, BinaryOps
<1>6. \A x, y : x \in {<<x, y>>[k] : k \in DOMAIN <<x, y>>}
                /\ y \in {<<x, y>>[k] : k \in DOMAIN <<x, y>>}
  <2>1. ASSUME NEW x, NEW y
        PROVE  /\ <<x, y>>[1] = x /\ <<x, y>>[2] = y
               /\ 1 \in DOMAIN <<x, y>> /\ 2 \in DOMAIN <<x, y>>
    OBVIOUS
  <2> QED
    BY <2>1
<1>7. \A x : x \in {<<x>>[k] : k \in DOMAIN <<x>>}
  <2>1. ASSUME NEW x PROVE <<x>>[1] = x /\ 1 \in DOMAIN <<x>>
    OBVIOUS
  <2> QED
    BY <2>1
<1> QED
  BY <1>1, <1>2, <1>3, <1>4, <1>5, <1>6, <1>7 DEF Sources, Target, MoveOps, BinaryOps

LEMMA IdsBelow ==
    ASSUME NEW c, ContextOK(c)
    PROVE  /\ \A v \in IRValue : CanRead(c, v) => ReadIds(c, v) \subseteq 0..(c.tempCounter - 1)
           /\ \A dst : DestinationOK(c, dst) =>
                          DestinationIds(c, dst) \subseteq 0..(c.tempCounter - 1)
<1>1. \A v \in IRValue : CanRead(c, v) => ReadIds(c, v) \subseteq 0..(c.tempCounter - 1)
  BY ValueKinds, ContextFields DEF CanRead, ReadIds
<1>2. ASSUME NEW dst, DestinationOK(c, dst)
      PROVE  DestinationIds(c, dst) \subseteq 0..(c.tempCounter - 1)
  <2>1. dst # NoOperand /\ IsVirtual(LocationOf(c, dst)) =>
            LocationOf(c, dst).id \in 0..(c.tempCounter - 1)
    BY <1>2, RegisterKinds, NotRegisters DEF DestinationOK, Locations, Known
  <2> QED
    BY <2>1 DEF DestinationIds, Ids
<1> QED
  BY <1>1, <1>2

LEMMA PrepareOperation ==
    ASSUME NEW c, ContextOK(c), LinearCode(c.code), NEW o \in IROperation, OperationReady(c, o),
           o.op \in BinaryOps \cup {"Mov", "MovR"}
    PROVE  LET a == Prepared(c, o.dst)
           IN  /\ ContextOK(a) /\ LinearCode(a.code) /\ a.code = c.code
               /\ DestinationOK(a, o.dst)
               /\ \A t \in TempId :
                      IF IsTemp(Target(o), t)
                        THEN Mapped(a, t) /\ RegisterOf(a, t) \in DestinationIds(a, o.dst)
                      ELSE a.temp_register_mapping[t] = c.temp_register_mapping[t]
               /\ \A v \in Sources(o) :
                      v \in IRValue =>
                          CanRead(a, v) /\ ReadIds(a, v) \cap DestinationIds(a, o.dst) = {}
<1> DEFINE a == Prepared(c, o.dst)
<1>1. Target(o) = o.dst /\ o.dst \in Places(TempId, VarName) \cup {NoOperand}
  BY Reading, TargetType
<1>2. \A t \in TempId :
          IsTemp(o.dst, t) => /\ Mapped(c, t) => Fresh(c.code, RegisterOf(c, t))
                              /\ \A v \in Sources(o) : ~IsTemp(v, t)
  BY <1>1 DEF OperationReady
<1>3. ContextOK(a) /\ a.code = c.code
  BY <1>1, PreparedFollows
<1>4. /\ DestinationOK(a, o.dst)
      /\ \A t \in TempId :
             IF IsTemp(o.dst, t)
               THEN Mapped(a, t) /\ RegisterOf(a, t) \in DestinationIds(a, o.dst)
             ELSE a.temp_register_mapping[t] = c.temp_register_mapping[t]
  BY <1>1, <1>2, PreparedGrows
<1> HIDE DEF a
<1>5. ASSUME NEW v \in Sources(o), v \in IRValue
      PROVE  CanRead(a, v) /\ ReadIds(a, v) \cap DestinationIds(a, o.dst) = {}
  <2>1. CanRead(c, v)
    BY <1>5 DEF OperationReady
  <2>2. CASE v.kind = "temp"
    <3>1. v.id \in TempId /\ IsTemp(v, v.id)
      BY <1>5, <2>2, ValueKinds DEF IsTemp
    <3>2. ~IsTemp(o.dst, v.id)
      BY <1>2, <1>5, <3>1
    <3>3. a.temp_register_mapping[v.id] = c.temp_register_mapping[v.id]
      BY <1>4, <3>1, <3>2
    <3>4. CanRead(a, v) /\ Mapped(a, v.id)
      BY <1>3, <2>1, <2>2, <3>3 DEF CanRead, Mapped, RegisterOf
    <3>5. RegisterOf(a, v.id) \notin DestinationIds(a, o.dst)
      BY <1>3, <1>4, <3>1, <3>2, <3>4, DestinationIdsUsed
    <3> QED
      BY <2>2, <3>4, <3>5 DEF ReadIds
  <2>3. CASE v.kind # "temp"
    BY <2>1, <2>3 DEF CanRead, ReadIds
  <2> QED
    BY <2>2, <2>3
<1> QED
  BY <1>1, <1>3, <1>4, <1>5 DEF a

LEMMA MovGrows ==
    ASSUME NEW c, ContextOK(c), LinearCode(c.code), NEW o \in IROperation, OperationReady(c, o),
           o.op \in {"Mov", "MovR"}, ~LowerMov(c, o).thrown
    PROVE  LinearStep(c, LowerMov(c, o), o)
<1> DEFINE a == Prepared(c, o.dst)
           l == LocationOf(a, o.dst)
           d == LowerMov(c, o)
           X == Ids(l) \cup ReadIds(a, o.src)
<1>1. /\ o.dst \in Places(TempId, VarName) /\ o.src \in IRValue /\ o.dst # NoOperand
      /\ o.src \in Sources(o) /\ Target(o) = o.dst
  BY OperationFields, PlaceKinds, Reading
<1>2. d = toLocation(a, l, o.src)
  BY <1>1 DEF LowerMov, Prepared
<1>3. /\ ContextOK(a) /\ LinearCode(a.code) /\ a.code = c.code
      /\ DestinationOK(a, o.dst)
      /\ \A t \in TempId :
             IF IsTemp(Target(o), t)
               THEN Mapped(a, t) /\ RegisterOf(a, t) \in DestinationIds(a, o.dst)
             ELSE a.temp_register_mapping[t] = c.temp_register_mapping[t]
      /\ CanRead(a, o.src)
  BY <1>1, PrepareOperation
<1>4. DestinationIds(a, o.dst) = Ids(l)
  BY <1>1 DEF DestinationIds
<1> HIDE DEF a
<1>5. Grows(a, d, X) /\ \A id \in Ids(l) : Ready(d.code, id)
  BY <1>1, <1>2, <1>3, ToLocationGrows DEF DestinationOK, Ids
<1>6. ASSUME NEW t \in TempId, Mapped(a, t), RegisterOf(a, t) \in X PROVE Uses(o, t)
  BY <1>1, <1>3, <1>4, <1>6, ReadIdsUsed, DestinationIdsUsed DEF Uses
<1> HIDE DEF d, X
<1> QED
  BY <1>3, <1>4, <1>5, <1>6, StepOf DEF d

LEMMA ArthGrows ==
    ASSUME NEW c, ContextOK(c), LinearCode(c.code), NEW o \in IROperation, OperationReady(c, o),
           o.op \in BinaryOps, ~LowerArth(c, o).thrown
    PROVE  LinearStep(c, LowerArth(c, o), o)
<1> DEFINE a == Prepared(c, o.dst)
           l == ensureRegister(a, o.left)
           r == IF o.right.kind = "int" /\ o.left.kind # "int"
                  THEN [reg |-> o.right, after |-> l.after]
                ELSE ensureRegister(l.after, o.right)
           d == LowerArth(c, o)
           X == ReadIds(a, o.left) \cup ReadIds(a, o.right) \cup DestinationIds(a, o.dst)
<1>1. /\ o.dst \in Places(TempId, VarName) \cup {NoOperand}
      /\ o.left \in IRValue /\ o.right \in IRValue
      /\ o.left \in Sources(o) /\ o.right \in Sources(o) /\ Target(o) = o.dst
      /\ ValuesRead(o) = <<o.left, o.right>>
  BY OperationFields, Reading
<1>2. /\ ContextOK(a) /\ LinearCode(a.code) /\ a.code = c.code
      /\ DestinationOK(a, o.dst)
      /\ \A t \in TempId :
             IF IsTemp(Target(o), t)
               THEN Mapped(a, t) /\ RegisterOf(a, t) \in DestinationIds(a, o.dst)
             ELSE a.temp_register_mapping[t] = c.temp_register_mapping[t]
      /\ CanRead(a, o.left) /\ ReadIds(a, o.left) \cap DestinationIds(a, o.dst) = {}
      /\ CanRead(a, o.right) /\ ReadIds(a, o.right) \cap DestinationIds(a, o.dst) = {}
  BY <1>1, PrepareOperation
<1>3. d = Create_Arth_Instruction(r.after, o, l.reg, r.reg)
  BY DEF LowerArth
<1>4. ASSUME o.left.kind = "temp", o.right.kind = "temp"
      PROVE  RegisterOf(a, o.left.id) # RegisterOf(a, o.right.id)
  <2>1. o.left.id # o.right.id
    <3>1. ValuesRead(o)[1] = o.left /\ ValuesRead(o)[2] = o.right
          /\ 1 \in DOMAIN ValuesRead(o) /\ 2 \in DOMAIN ValuesRead(o)
      BY <1>1
    <3> QED
      BY <1>4, <3>1 DEF OperationReady, IsTemp
  <2>2. o.left.id \in TempId /\ o.right.id \in TempId
    BY <1>1, <1>4, ValueKinds
  <2>3. Mapped(a, o.left.id) /\ Mapped(a, o.right.id)
    BY <1>2, <1>4 DEF CanRead
  <2> QED
    BY <1>2, <2>1, <2>2, <2>3 DEF ContextOK
<1>5. /\ \A t \in TempId : Mapped(a, t) /\ RegisterOf(a, t) \in X => Uses(o, t)
  BY <1>1, <1>2, ReadIdsUsed, DestinationIdsUsed DEF Uses
<1> HIDE DEF a
<1>6. Follows(a, l.after) /\ ContextOK(l.after) /\ SameSlots(a, l.after) /\ l.reg \in Known(l.after)
  BY <1>1, <1>2, EnsureRegisterFollows DEF Follows
<1> HIDE DEF l
<1>7. /\ Follows(l.after, r.after) /\ ContextOK(r.after) /\ SameSlots(l.after, r.after)
      /\ r.reg \in Known(r.after) \cup Immediates
  <2>1. CASE o.right.kind = "int" /\ o.left.kind # "int"
    BY <1>1, <1>6, <2>1, FollowsSame, ValueKinds
  <2>2. CASE ~(o.right.kind = "int" /\ o.left.kind # "int")
    BY <1>1, <1>6, <2>2, EnsureRegisterFollows DEF Follows
  <2> QED
    BY <2>1, <2>2
<1> HIDE DEF r
<1>8. /\ Follows(a, r.after) /\ SameSlots(a, r.after) /\ l.reg \in Known(r.after)
  BY <1>2, <1>6, <1>7, FollowsTrans, KnownGrows
<1>9. ~r.after.thrown /\ ~l.after.thrown
  <2>1. \A e : Follows(r.after, e) /\ SameSlots(r.after, e) => Follows(a, e) /\ SameSlots(a, e)
    BY <1>2, <1>8, FollowsTrans
  <2>2. o.dst # NoOperand =>
            \A e : Follows(r.after, e) /\ SameSlots(r.after, e) =>
                       LocationOf(e, o.dst) \in Locations(e)
    BY <1>2, <2>1, LocationKept DEF DestinationOK
  <2>3. Follows(r.after, d)
    BY <1>1, <1>3, <1>7, <1>8, <2>2, CreateArthFollows
  <2> QED
    BY <1>7, <2>3 DEF Follows, d
<1>10. /\ Grows(a, l.after, ReadIds(a, o.left)) /\ LinearCode(l.after.code)
       /\ Usable(l.after, l.reg)
       /\ IsVirtual(l.reg) => l.reg.id = a.tempCounter
  BY <1>1, <1>2, <1>9, EnsureRegisterGrows DEF l, Grows
<1>11. CanRead(l.after, o.right) /\ ReadIds(l.after, o.right) = ReadIds(a, o.right)
  <2>1. o.right.kind = "temp" => RegisterOf(a, o.right.id) \notin ReadIds(a, o.left)
    BY <1>4 DEF ReadIds
  <2> QED
    BY <1>1, <1>2, <1>10, <2>1, CanReadKept
<1>12. /\ Grows(l.after, r.after, ReadIds(a, o.right)) /\ LinearCode(r.after.code)
       /\ Usable(r.after, r.reg)
       /\ IsVirtual(r.reg) => r.reg.id = l.after.tempCounter
  <2>1. CASE o.right.kind = "int" /\ o.left.kind # "int"
    <3>1. /\ r.reg = o.right /\ r.after = l.after
          /\ ~IsVirtual(o.right) /\ ~IsHardcoded(o.right) /\ ReadIds(a, o.right) = {}
      BY <1>1, <2>1, ValueKinds, NotRegisters DEF r, ReadIds
    <3> QED
      BY <1>10, <3>1, GrowsSame DEF Usable
  <2>2. CASE ~(o.right.kind = "int" /\ o.left.kind # "int")
    <3>1. r = ensureRegister(l.after, o.right)
      BY <2>2 DEF r
    <3> QED
      BY <1>1, <1>6, <1>9, <1>10, <1>11, <3>1, EnsureRegisterGrows DEF Grows
  <2> QED
    BY <2>1, <2>2
<1>13. Grows(a, r.after, ReadIds(a, o.left) \cup ReadIds(a, o.right))
  BY <1>2, <1>6, <1>10, <1>12, GrowsTrans
<1>14. DestinationOK(r.after, o.dst) /\ DestinationIds(r.after, o.dst) = DestinationIds(a, o.dst)
  BY <1>2, <1>8, <1>13, DestinationKept
<1>15. /\ DestinationIds(a, o.dst) \subseteq 0..(a.tempCounter - 1)
       /\ ReadIds(a, o.right) \subseteq 0..(a.tempCounter - 1)
       /\ a.tempCounter \in Nat /\ l.after.tempCounter \in Nat
       /\ a.tempCounter <= l.after.tempCounter
  BY <1>1, <1>2, <1>6, IdsBelow, ContextFields DEF Follows
<1>16. Usable(r.after, l.reg)
  BY <1>6, <1>10, <1>12, <1>15, UsableKept
<1>17. Ids(l.reg) \cup Ids(r.reg) \subseteq {a.tempCounter, l.after.tempCounter}
  BY <1>10, <1>12 DEF Ids
<1>18. DestinationIds(r.after, o.dst) \cap (Ids(l.reg) \cup Ids(r.reg)) = {}
  BY <1>14, <1>15, <1>17
<1>19. /\ Grows(r.after, d, Ids(l.reg) \cup Ids(r.reg) \cup DestinationIds(r.after, o.dst))
       /\ \A id \in DestinationIds(r.after, o.dst) : Ready(d.code, id)
  <2>1. ~Create_Arth_Instruction(r.after, o, l.reg, r.reg).thrown
    BY <1>3
  <2> HIDE DEF d
  <2> QED
    BY <1>1, <1>3, <1>7, <1>8, <1>12, <1>14, <1>16, <1>18, <2>1, CreateArthGrows
<1>20. Grows(a, d, X)
  <2>1. \A id \in 0..(a.tempCounter - 1) :
            id \in (ReadIds(a, o.left) \cup ReadIds(a, o.right))
                     \cup (Ids(l.reg) \cup Ids(r.reg) \cup DestinationIds(r.after, o.dst))
                => id \in X
    BY <1>14, <1>15, <1>17
  <2> HIDE DEF d, X
  <2> QED
    BY <1>2, <1>8, <1>13, <1>19, <2>1, GrowsTrans
<1>21. \A t \in TempId :
           IF IsTemp(Target(o), t) THEN Mapped(a, t) /\ Ready(d.code, RegisterOf(a, t))
           ELSE a.temp_register_mapping[t] = c.temp_register_mapping[t]
  BY <1>2, <1>14, <1>19
<1> HIDE DEF d, X
<1> QED
  BY <1>2, <1>5, <1>20, <1>21, StepOf DEF d

(* The operations that set no temporary.                                   *)
LEMMA StepWithout ==
    ASSUME NEW c, NEW d, NEW o, ContextOK(c), Target(o) = NoOperand, NEW X, Grows(c, d, X),
           \A t \in TempId : Mapped(c, t) /\ RegisterOf(c, t) \in X => Uses(o, t)
    PROVE  LinearStep(c, d, o)
<1>1. \A t : ~IsTemp(Target(o), t)
  BY DEF IsTemp, NoOperand
<1> QED
  BY <1>1, StepOf

LEMMA JumpGrows ==
    ASSUME NEW c, ContextOK(c), LinearCode(c.code), NEW o \in LabelOnly,
           NEW name \in STRING \cup {"end"}
    PROVE  Grows(c, Emit(c, Ins(o, NoOperand, LabelName(name))), {})
<1> DEFINE i == Ins(o, NoOperand, LabelName(name))
<1>1. LabelName(name) \in LabelNames
  BY DEF LabelName, LabelNames
<1>2. i \in Instruction(0..(c.tempCounter - 1))
  BY <1>1, OtherInstructions
<1>3. /\ ~IsVirtual(NoOperand) /\ ~IsVirtual(LabelName(name)) /\ ~IsHardcoded(LabelName(name))
      /\ Ids(NoOperand) = {} /\ Ids(LabelName(name)) = {}
  BY <1>1, NotRegisters, NoIds
<1>4. i.dst = NoOperand /\ i.src = LabelName(name) /\ i.op \notin ReadsDestination
  BY DEF Ins, LabelOnly, ReadsDestination
<1>5. Ids(i.dst) \cup Ids(i.src) = {}
  BY <1>3, <1>4
<1> HIDE DEF i
<1> QED
  BY <1>2, <1>3, <1>4, <1>5, SetGrows DEF i

LEMMA LabelsGrow ==
    ASSUME NEW c, ContextOK(c), LinearCode(c.code), NEW o \in IROperation,
           o.op \in {"LabelDef", "Jump"} \cup CondJumps
    PROVE  LinearStep(c, Lower(c, o), o)
<1>1. Target(o) = NoOperand
  BY DEF Target, MoveOps, BinaryOps, CondJumps
<1>2. Grows(c, Lower(c, o), {})
  <2>1. CASE o.op \in {"LabelDef", "Jump"}
    <3>1. /\ o.label \in STRING
          /\ {"Label", "Jump"} \subseteq LabelOnly
      BY <2>1, OperationFields DEF LabelOnly, Labels
    <3>2. Lower(c, o) = Emit(c, Ins(IF o.op = "LabelDef" THEN "Label" ELSE "Jump",
                                    NoOperand, LabelName(o.label)))
      BY <2>1, LowerCases
    <3> QED
      BY <3>1, <3>2, JumpGrows
  <2>2. CASE o.op \in CondJumps
    <3> DEFINE d == Emit(c, Ins(JumpInstruction[o.op], NoOperand, LabelName(o.trueLabel)))
               e == Emit(d, Ins("Jump", NoOperand, LabelName(o.falseLabel)))
    <3>1. /\ o.trueLabel \in STRING /\ o.falseLabel \in STRING
          /\ JumpInstruction[o.op] \in LabelOnly
      BY <2>2, OperationFields DEF CondJumps, JumpInstruction, LabelOnly, Labels
    <3>2. Follows(c, d) /\ ContextOK(d) /\ Grows(c, d, {}) /\ LinearCode(d.code)
      BY <3>1, JumpFollows, JumpGrows DEF Follows, Grows
    <3>3. Lower(c, o) = e
      BY <2>2, LowerCases DEF LowerConditionalJump
    <3> HIDE DEF d
    <3>4. Grows(d, e, {})
      BY <3>1, <3>2, JumpGrows DEF LabelOnly
    <3> HIDE DEF e
    <3> QED
      BY <3>2, <3>3, <3>4, GrowsTrans
  <2> QED
    BY <2>1, <2>2
<1> QED
  BY <1>1, <1>2, StepWithout

LEMMA DefineGrows ==
    ASSUME NEW c, ContextOK(c), LinearCode(c.code), NEW o \in IROperation,
           o.op = "DefineStackPushed"
    PROVE  LinearStep(c, define_stack_pushed_variable(c, o.name), o)
<1>1. Target(o) = NoOperand
  BY Reading DEF BinaryOps
<1>2. Grows(c, define_stack_pushed_variable(c, o.name), {})
  BY OperationFields, DefineFollows DEF Grows, Keeps
<1> QED
  BY <1>1, <1>2, StepWithout

LEMMA RetGrows ==
    ASSUME NEW c, ContextOK(c), LinearCode(c.code), NEW o \in IROperation, OperationReady(c, o),
           o.op = "Ret", ~LowerRet(c, o).thrown
    PROVE  LinearStep(c, LowerRet(c, o), o)
<1> DEFINE ax == HardcodedRegister("AX", SizeOf(o.value))
           m  == toLocation(c, ax, o.value)
           d  == Emit(m, Ins("Jump", NoOperand, LabelName("end")))
<1>1. /\ ax \in Locations(c) /\ ~IsVirtual(ax) /\ o.value \in IRValue /\ CanRead(c, o.value)
      /\ o.value \in Sources(o) /\ Target(o) = NoOperand
  BY OperationFields, ValueKinds, HardcodedKnown, Reading
     DEF BaseRegister, OperationReady, BinaryOps
<1>2. LowerRet(c, o) = d
  BY DEF LowerRet
<1>3. Follows(c, m) /\ ContextOK(m)
  BY <1>1, ToLocationFollows DEF Follows
<1>4. Follows(m, d)
  BY <1>3, JumpFollows DEF LabelOnly
<1>5. Ids(ax) = {} /\ ~m.thrown
  BY <1>1, <1>2, <1>4 DEF Ids, Follows
<1> HIDE DEF ax
<1>6. Grows(c, m, ReadIds(c, o.value)) /\ LinearCode(m.code)
  <2>1. Ids(ax) \cup ReadIds(c, o.value) = ReadIds(c, o.value)
    BY <1>5
  <2> QED
    BY <1>1, <1>5, <2>1, ToLocationGrows DEF Grows
<1> HIDE DEF m
<1>7. Grows(m, d, {})
  BY <1>3, <1>6, JumpGrows DEF LabelOnly
<1> HIDE DEF d
<1>8. Grows(c, d, ReadIds(c, o.value))
  BY <1>3, <1>6, <1>7, GrowsTrans
<1> QED
  BY <1>1, <1>2, <1>8, ReadIdsUsed, StepWithout DEF Uses

LEMMA DerefStoreGrows ==
    ASSUME NEW c, ContextOK(c), LinearCode(c.code), NEW o \in IROperation, OperationReady(c, o),
           o.op = "DerefStore", ~LowerDerefStore(c, o).thrown
    PROVE  LinearStep(c, LowerDerefStore(c, o), o)
<1> DEFINE address == InRegister(c, o.dst, 8)
           value   == InRegister(address.after, o.src, SizeOf(o.src))
           i       == Ins("IndirectStore", address.reg, value.reg)
           d       == LowerDerefStore(c, o)
           X       == ReadIds(c, o.dst) \cup ReadIds(c, o.src)
<1>1. /\ o.dst \in IRValue /\ o.src \in IRValue /\ SizeOf(o.src) \in {4, 8}
      /\ o.dst \in Sources(o) /\ o.src \in Sources(o) /\ Target(o) = NoOperand
      /\ ValuesRead(o) = <<o.dst, o.src>>
      /\ CanRead(c, o.dst) /\ CanRead(c, o.src)
  BY OperationFields, ValueKinds, Reading DEF OperationReady, BinaryOps
<1>2. d = Emit(value.after, i)
  BY DEF LowerDerefStore
<1>3. ASSUME o.dst.kind = "temp", o.src.kind = "temp"
      PROVE  RegisterOf(c, o.dst.id) # RegisterOf(c, o.src.id)
  <2>1. o.dst.id # o.src.id
    <3>1. ValuesRead(o)[1] = o.dst /\ ValuesRead(o)[2] = o.src
          /\ 1 \in DOMAIN ValuesRead(o) /\ 2 \in DOMAIN ValuesRead(o)
      BY <1>1
    <3> QED
      BY <1>3, <3>1 DEF OperationReady, IsTemp
  <2>2. /\ o.dst.id \in TempId /\ o.src.id \in TempId
        /\ Mapped(c, o.dst.id) /\ Mapped(c, o.src.id)
    BY <1>1, <1>3, ValueKinds DEF CanRead
  <2> QED
    BY <2>1, <2>2 DEF ContextOK
<1>4. /\ Follows(c, address.after) /\ ContextOK(address.after)
      /\ address.reg \in Known(address.after)
  BY <1>1, InRegisterFollows DEF Follows
<1> HIDE DEF address
<1>5. /\ Follows(address.after, value.after) /\ ContextOK(value.after)
      /\ value.reg \in Known(value.after)
  <2>1. /\ Follows(address.after, value.after)
        /\ value.reg \in Known(value.after)
    BY <1>1, <1>4, InRegisterFollows
  <2> QED
    BY <2>1 DEF Follows
<1> HIDE DEF value
<1>6. /\ Follows(c, value.after) /\ address.reg \in Known(value.after)
  BY <1>4, <1>5, FollowsTrans, KnownGrows
<1>7. i \in Instruction(0..(value.after.tempCounter - 1))
  BY <1>5, <1>6, Instructions DEF Known, RegisterRegister
<1>8. ~value.after.thrown /\ ~address.after.thrown
  <2>1. Follows(value.after, d)
    BY <1>2, <1>5, <1>7, EmitFollows
  <2> QED
    BY <1>5, <2>1 DEF Follows
<1>9. /\ Grows(c, address.after, ReadIds(c, o.dst)) /\ LinearCode(address.after.code)
      /\ Usable(address.after, address.reg)
      /\ IsVirtual(address.reg) /\ address.reg.id = c.tempCounter
  BY <1>1, <1>8, InRegisterGrows DEF address, Grows
<1>10. CanRead(address.after, o.src) /\ ReadIds(address.after, o.src) = ReadIds(c, o.src)
  <2>1. o.src.kind = "temp" => RegisterOf(c, o.src.id) \notin ReadIds(c, o.dst)
    BY <1>3 DEF ReadIds
  <2> QED
    BY <1>1, <1>9, <2>1, CanReadKept
<1>11. /\ Grows(address.after, value.after, ReadIds(c, o.src)) /\ LinearCode(value.after.code)
       /\ Usable(value.after, value.reg)
       /\ IsVirtual(value.reg) /\ value.reg.id = address.after.tempCounter
  BY <1>1, <1>4, <1>8, <1>9, <1>10, InRegisterGrows DEF value, Grows
<1>12. /\ ReadIds(c, o.src) \subseteq 0..(c.tempCounter - 1)
       /\ c.tempCounter \in Nat /\ address.after.tempCounter \in Nat
       /\ c.tempCounter <= address.after.tempCounter
  BY <1>1, <1>4, IdsBelow, ContextFields DEF Follows
<1>13. Usable(value.after, address.reg)
  BY <1>4, <1>9, <1>11, <1>12, UsableKept
<1>14. i.dst = address.reg /\ i.src = value.reg /\ i.op = "IndirectStore"
  BY DEF Ins
<1> HIDE DEF i
<1>15. MayCome(value.after.code, i)
  BY <1>11, <1>13, <1>14 DEF MayCome, Usable, Reads, Sets, WritesDestination, MovesVirtual
<1>16. Grows(value.after, d, {c.tempCounter, address.after.tempCounter})
  <2>1. Ids(i.dst) \cup Ids(i.src) = {c.tempCounter, address.after.tempCounter}
    BY <1>9, <1>11, <1>14 DEF Ids
  <2> QED
    BY <1>2, <1>5, <1>7, <1>11, <1>15, <2>1, EmitGrows
<1> HIDE DEF d
<1>17. Grows(c, value.after, X)
  BY <1>4, <1>9, <1>11, GrowsTrans
<1>18. Grows(c, d, X)
  <2>1. \A id \in 0..(c.tempCounter - 1) :
            id \in X \cup {c.tempCounter, address.after.tempCounter} => id \in X
    BY <1>12
  <2> HIDE DEF X
  <2> QED
    BY <1>6, <1>16, <1>17, <2>1, GrowsTrans
<1>19. \A t \in TempId : Mapped(c, t) /\ RegisterOf(c, t) \in X => Uses(o, t)
  BY <1>1, ReadIdsUsed DEF Uses
<1> HIDE DEF X
<1> QED
  BY <1>1, <1>18, <1>19, StepWithout DEF d

LEMMA AddrGrows ==
    ASSUME NEW c, ContextOK(c), LinearCode(c.code), NEW o \in IROperation, OperationReady(c, o),
           o.op = "Addr", ~LowerAddr(c, o).thrown
    PROVE  LinearStep(c, LowerAddr(c, o), o)
<1> DEFINE a == AllocateNewForTemp(c, o.dst)
           i == Ins("Lea", LocationOf(a, o.dst), LocationOf(a, o.src))
           d == LowerAddr(c, o)
<1>1. /\ o.dst \in Temps(TempId) /\ o.src \in IRValue /\ Target(o) = o.dst
      /\ o.dst \in Places(TempId, VarName)
  BY OperationFields, Reading DEF Places
<1>2. HasSlot(c, o.src)
  BY ThrowsFollows DEF LowerAddr
<1>3. d = Emit(a, i)
  BY <1>2 DEF LowerAddr
<1>4. a = Prepared(c, o.dst)
  BY <1>1 DEF Prepared, AllocateNew, Temps, NoOperand
<1>5. /\ ContextOK(a) /\ SameSlots(c, a) /\ a.code = c.code
      /\ Mapped(a, o.dst.id)
  BY <1>1, AllocateTempFollows DEF Follows
<1>6. /\ DestinationOK(a, o.dst)
      /\ \A t \in TempId :
             IF IsTemp(Target(o), t)
               THEN Mapped(a, t) /\ RegisterOf(a, t) \in DestinationIds(a, o.dst)
             ELSE a.temp_register_mapping[t] = c.temp_register_mapping[t]
  <2>1. \A t \in TempId : IsTemp(o.dst, t) /\ Mapped(c, t) => Fresh(c.code, RegisterOf(c, t))
    BY <1>1 DEF OperationReady
  <2> HIDE DEF a
  <2> QED
    BY <1>1, <1>4, <2>1, PreparedGrows
<1> HIDE DEF a
<1>7. /\ LocationOf(a, o.dst) \in Known(a) /\ IsVirtual(LocationOf(a, o.dst))
      /\ Fresh(a.code, LocationOf(a, o.dst).id)
      /\ DestinationIds(a, o.dst) = {LocationOf(a, o.dst).id}
  <2>1. /\ LocationOf(a, o.dst) \in Known(a) /\ IsVirtual(LocationOf(a, o.dst))
        /\ DestinationIds(a, o.dst) = {LocationOf(a, o.dst).id}
        /\ o.dst # NoOperand
    BY <1>1, <1>5, TempDestination
  <2> QED
    BY <1>6, <2>1 DEF DestinationOK
<1>8. LocationOf(a, o.src) \in StackLocations /\ ~IsRegister(LocationOf(a, o.src))
  <2>1. HasSlot(a, o.src)
    BY <1>2, <1>5 DEF HasSlot, SameSlots
  <2> QED
    BY <1>1, <1>5, <2>1, SlotLocation, NotRegisters
<1>9. i \in Instruction(0..(a.tempCounter - 1))
  BY <1>7, <1>8, Instructions DEF Known
<1>10. /\ i.dst = LocationOf(a, o.dst) /\ i.src = LocationOf(a, o.src)
       /\ i.op \notin ReadsDestination
  BY DEF Ins, ReadsDestination
<1> HIDE DEF i
<1>11. Ids(i.dst) \cup Ids(i.src) = DestinationIds(a, o.dst)
  BY <1>7, <1>8, <1>10, NoIds DEF Ids
<1>12. /\ Grows(a, d, DestinationIds(a, o.dst))
       /\ \A id \in DestinationIds(a, o.dst) : Ready(d.code, id)
  BY <1>3, <1>5, <1>7, <1>8, <1>9, <1>10, <1>11, SetGrows, NoIds
<1> HIDE DEF d
<1>13. \A t \in TempId :
           Mapped(a, t) /\ RegisterOf(a, t) \in DestinationIds(a, o.dst) => Uses(o, t)
  BY <1>1, <1>5, <1>6, DestinationIdsUsed DEF Uses
<1> QED
  BY <1>5, <1>6, <1>12, <1>13, StepOf DEF d

(* The registers a pointer is followed through.                            *)
LEMMA FollowPointerGrows ==
    ASSUME NEW c, ContextOK(c), LinearCode(c.code), NEW slot \in StackLocations, NEW hops \in Nat
    PROVE  LET d == FollowPointer(c, slot, hops)
           IN  /\ Grows(c, d, {})
               /\ Ready(d.code, Hop(c, hops).id)
<1> DEFINE d == FollowPointer(c, slot, hops)
           k == Len(c.code)
<1>1. /\ c.tempCounter \in Nat /\ k \in Nat /\ DOMAIN c.code = 1..k
      /\ c.code \in Seq(Instruction(Nat))
  BY ContextFields
<1>2. /\ d.temp_register_mapping = c.temp_register_mapping
      /\ DOMAIN d.code = 1..(k + 1 + hops)
      /\ \A n \in 1..k : d.code[n] = c.code[n]
      /\ d.code[k + 1] = Ins("Load", Hop(c, 0), slot)
      /\ \A i \in 1..hops :
             d.code[k + 1 + i] = Ins("IndirectLoad", Hop(c, i), Hop(c, i - 1))
      /\ d.code \in Seq(Instruction(Nat)) /\ Len(d.code) = k + 1 + hops
  <2>1. Follows(c, d) /\ DOMAIN d.code = 1..(k + 1 + hops)
    BY FollowPointerFollows
  <2>2. /\ d.temp_register_mapping = c.temp_register_mapping
        /\ \A n \in 1..k : d.code[n] = c.code[n]
        /\ d.code[k + 1] = Ins("Load", Hop(c, 0), slot)
        /\ \A i \in 1..hops :
               d.code[k + 1 + i] = Ins("IndirectLoad", Hop(c, i), Hop(c, i - 1))
    BY FollowPointerFollows
  <2> HIDE DEF d, k
  <2>3. ContextOK(d)
    BY <2>1 DEF Follows
  <2>4. d.code \in Seq(Instruction(Nat))
    BY <2>3, ContextFields
  <2>5. Len(d.code) = k + 1 + hops
    BY <1>1, <2>1, <2>4
  <2> QED
    BY <2>1, <2>2, <2>4, <2>5
<1>0. k = Len(c.code)
  OBVIOUS
<1> HIDE DEF d, k
<1>3. \A n \in DOMAIN d.code :
          \/ (n \in DOMAIN c.code /\ d.code[n] = c.code[n])
          \/ n = k + 1
          \/ \E i \in 1..hops : n = k + 1 + i
  <2>1. ASSUME NEW n \in DOMAIN d.code, n > k + 1
        PROVE  \E i \in 1..hops : n = k + 1 + i
    <3>1. n \in 1..(k + 1 + hops)
      BY <1>2
    <3>2. n - k - 1 \in 1..hops /\ n = k + 1 + (n - k - 1)
      BY <1>1, <2>1, <3>1
    <3> QED
      BY <3>2
  <2>2. ASSUME NEW n \in DOMAIN d.code, ~(n > k + 1)
        PROVE  (n \in DOMAIN c.code /\ d.code[n] = c.code[n]) \/ n = k + 1
    <3>1. n \in 1..(k + 1 + hops)
      BY <1>2
    <3>2. n \in 1..k \/ n = k + 1
      BY <1>1, <2>2, <3>1
    <3> QED
      BY <1>1, <1>2, <3>2
  <2> QED
    BY <2>1, <2>2
(* The new instructions set what they name, and read what the one before     *)
(* has set.                                                                *)
<1>4. ASSUME NEW i \in 0..hops
      PROVE  LET n == k + 1 + i
             IN  /\ n \in DOMAIN d.code
                 /\ d.code[n].op \in {"Load", "IndirectLoad"}
                 /\ d.code[n].dst = Hop(c, i)
                 /\ IsVirtual(Hop(c, i)) /\ Hop(c, i).id = c.tempCounter + i
                 /\ ~IsHardcoded(d.code[n].src)
                 /\ IsVirtual(d.code[n].src) =>
                        i \in 1..hops /\ d.code[n].src.id = c.tempCounter + (i - 1)
                 /\ \A v : Sets(d.code[n], v) <=> v = c.tempCounter + i
  <2>1. \A j : IsVirtual(Hop(c, j)) /\ ~IsHardcoded(Hop(c, j)) /\ Hop(c, j).id = c.tempCounter + j
    BY DEF Hop, VirtualRegister, IsVirtual, IsHardcoded
  <2>2. ~IsVirtual(slot) /\ ~IsHardcoded(slot)
    BY NotRegisters
  <2>3. CASE i = 0
    <3>1. k + 1 + i = k + 1 /\ k + 1 \in DOMAIN d.code
      BY <1>1, <1>2, <2>3
    <3>2. d.code[k + 1 + i] = Ins("Load", Hop(c, 0), slot)
      BY <1>2, <3>1
    <3> QED
      BY <2>1, <2>2, <2>3, <3>1, <3>2 DEF Ins, Sets, WritesDestination, IsRegister
  <2>4. CASE i # 0
    <3>1. i \in 1..hops /\ k + 1 + i \in DOMAIN d.code
      BY <1>1, <1>2, <2>4
    <3>2. d.code[k + 1 + i] = Ins("IndirectLoad", Hop(c, i), Hop(c, i - 1))
      BY <1>2, <3>1
    <3> QED
      BY <2>1, <3>1, <3>2 DEF Ins, Sets, WritesDestination, IsRegister
  <2> QED
    BY <2>3, <2>4
<1>5. \A n \in DOMAIN d.code :
          (n \in DOMAIN c.code /\ d.code[n] = c.code[n]) \/ \E i \in 0..hops : n = k + 1 + i
  <2>1. k + 1 = k + 1 + 0 /\ 0 \in 0..hops /\ \A i \in 1..hops : i \in 0..hops
    BY <1>1
  <2> QED
    BY <1>3, <2>1
<1>6. ASSUME NEW n \in DOMAIN d.code, NEW v \in Nat, Reads(d.code[n], v)
      PROVE  \E m \in 1..(n - 1) : Sets(d.code[m], v)
  <2>1. CASE n \in DOMAIN c.code /\ d.code[n] = c.code[n]
    <3>1. PICK m \in 1..(n - 1) : Sets(c.code[m], v)
      BY <1>6, <2>1 DEF LinearCode
    <3>2. m \in 1..k
      BY <1>1, <2>1
    <3> QED
      BY <1>2, <3>1, <3>2
  <2>2. CASE \E i \in 0..hops : n = k + 1 + i
    <3>1. PICK i \in 0..hops : n = k + 1 + i
      BY <2>2
    <3>2. i \in 1..hops /\ v = c.tempCounter + (i - 1)
      BY <1>4, <1>6, <3>1 DEF Reads, ReadsDestination
    <3>3. i - 1 \in 0..hops /\ k + 1 + (i - 1) \in 1..(n - 1)
      BY <1>1, <3>1, <3>2
    <3>4. Sets(d.code[k + 1 + (i - 1)], v)
      BY <1>4, <3>2, <3>3
    <3> QED
      BY <3>3, <3>4
  <2> QED
    BY <1>5, <2>1, <2>2
<1>7. ASSUME NEW id \in 0..(c.tempCounter - 1), NEW i \in 0..hops
      PROVE  ~Occurs(d.code[k + 1 + i], id)
  <2>1. id # c.tempCounter + i /\ (i \in 1..hops => id # c.tempCounter + (i - 1))
    BY <1>1
  <2> QED
    BY <1>4, <2>1 DEF Occurs
<1>8. \A i \in 0..hops : /\ ~MovesVirtual(d.code[k + 1 + i])
                         /\ ~IsHardcoded(d.code[k + 1 + i].src)
  BY <1>4 DEF MovesVirtual
<1>9. ASSUME NEW n \in DOMAIN d.code, MovesVirtual(d.code[n])
      PROVE  /\ \A m \in (n + 1)..Len(d.code) : ~Occurs(d.code[m], d.code[n].src.id)
             /\ \A m \in 1..(n - 1) : ~Occurs(d.code[m], d.code[n].dst.id)
  <2>1. n \in 1..k /\ d.code[n] = c.code[n]
    BY <1>1, <1>5, <1>8, <1>9
  <2>2. d.code[n].src.id \in 0..(c.tempCounter - 1)
    <3>1. IsVirtual(c.code[n].src) /\ c.code[n] \in Instruction(Nat) /\ Numbered(c, c.code[n].src)
      BY <1>1, <1>9, <2>1 DEF MovesVirtual, ContextOK
    <3> QED
      BY <1>1, <2>1, <3>1, InstructionIds DEF Numbered
  <2>3. ASSUME NEW m \in (n + 1)..Len(d.code) PROVE ~Occurs(d.code[m], d.code[n].src.id)
    <3>1. m \in DOMAIN d.code
      BY <1>1, <1>2, <2>1
    <3>2. CASE m \in DOMAIN c.code /\ d.code[m] = c.code[m]
      <4>1. m \in (n + 1)..Len(c.code)
        BY <1>0, <1>1, <1>2, <2>1, <3>2
      <4> QED
        BY <1>1, <1>9, <2>1, <3>2, <4>1 DEF LinearCode
    <3>3. CASE \E i \in 0..hops : m = k + 1 + i
      BY <1>7, <2>2, <3>3
    <3> QED
      BY <1>5, <3>1, <3>2, <3>3
  <2>4. ASSUME NEW m \in 1..(n - 1) PROVE ~Occurs(d.code[m], d.code[n].dst.id)
    <3>1. m \in 1..k
      BY <1>1, <2>1
    <3> QED
      BY <1>1, <1>2, <1>9, <2>1, <3>1 DEF LinearCode
  <2> QED
    BY <2>3, <2>4
<1>10. ASSUME NEW n \in DOMAIN d.code,
              IsHardcoded(d.code[n].src), ~IsParamReg(d.code[n].src.reg)
       PROVE  /\ n > 1
              /\ d.code[n - 1].op = "Call"
              /\ IsHardcoded(d.code[n - 1].dst)
              /\ d.code[n - 1].dst.reg = d.code[n].src.reg
  <2>1. n \in 1..k /\ d.code[n] = c.code[n]
    BY <1>1, <1>5, <1>8, <1>10
  <2>2. /\ n > 1
        /\ c.code[n - 1].op = "Call"
        /\ IsHardcoded(c.code[n - 1].dst)
        /\ c.code[n - 1].dst.reg = c.code[n].src.reg
    BY <1>1, <1>10, <2>1 DEF LinearCode
  <2>3. n - 1 \in 1..k
    BY <1>1, <2>1, <2>2
  <2> QED
    BY <1>2, <2>1, <2>2, <2>3
<1>11. LinearCode(d.code)
  BY <1>6, <1>9, <1>10 DEF LinearCode
<1>12. ASSUME NEW id \in 0..(c.tempCounter - 1) PROVE Keeps(c.code, d.code, id)
  <2>1. Fresh(c.code, id) => Fresh(d.code, id)
    BY <1>5, <1>7, <1>12 DEF Fresh
  <2>2. IsSet(c.code, id) => IsSet(d.code, id)
    BY <1>1, <1>2 DEF IsSet
  <2>3. Ready(c.code, id) => Ready(d.code, id)
    BY <1>5, <1>8, <2>2 DEF Ready
  <2> QED
    BY <2>1, <2>3 DEF Keeps
<1>13. Ready(d.code, Hop(c, hops).id)
  <2>1. hops \in 0..hops
    OBVIOUS
  <2>2. IsSet(d.code, Hop(c, hops).id)
    BY <1>4, <2>1 DEF IsSet
  <2>3. ASSUME NEW n \in DOMAIN d.code, MovesVirtual(d.code[n])
        PROVE  d.code[n].src.id # Hop(c, hops).id
    <3>1. n \in DOMAIN c.code /\ d.code[n] = c.code[n]
      BY <1>5, <1>8, <2>3
    <3>2. Numbered(c, c.code[n].src) /\ IsVirtual(c.code[n].src) /\ c.code[n] \in Instruction(Nat)
      BY <1>1, <2>3, <3>1 DEF MovesVirtual, ContextOK
    <3>3. c.code[n].src.id < c.tempCounter /\ c.code[n].src.id \in Nat
      BY <3>2, InstructionIds DEF Numbered
    <3> QED
      BY <1>1, <1>4, <2>1, <3>1, <3>3
  <2> QED
    BY <2>2, <2>3 DEF Ready
<1> QED
  BY <1>2, <1>11, <1>12, <1>13 DEF Grows, d

LEMMA DerefGrows ==
    ASSUME NEW c, ContextOK(c), LinearCode(c.code), NEW o \in IROperation, OperationReady(c, o),
           o.op = "Deref", ~LowerDeref(c, o).thrown
    PROVE  LinearStep(c, LowerDeref(c, o), o)
<1> DEFINE hops == IF o.depth > 1 THEN o.depth - 1 ELSE 0
           f    == FollowPointer(c, LocationOf(c, o.src), hops)
           a    == AllocateNewForTemp(f, o.dst)
           reg  == LocationOf(a, o.dst)
           i    == Ins("IndirectLoad", reg, Hop(c, hops))
           d    == LowerDeref(c, o)
<1>1. /\ o.dst \in Temps(TempId) /\ o.src \in IRValue /\ hops \in Nat /\ Target(o) = o.dst
      /\ o.dst.id \in TempId /\ o.dst.kind = "temp"
      /\ c.tempCounter \in Nat
  BY OperationFields, Reading, ContextFields DEF Temps
<1>2. HasSlot(c, o.src)
  BY ThrowsFollows DEF LowerDeref
<1>3. d = Emit(a, i)
  BY <1>2 DEF LowerDeref
<1>4. LocationOf(c, o.src) \in StackLocations
  BY <1>1, <1>2, SlotLocation
<1>5. \A t : IsTemp(Target(o), t) <=> t = o.dst.id
  BY <1>1 DEF IsTemp
<1>6. /\ IsVirtual(Hop(c, hops)) /\ Hop(c, hops).id = c.tempCounter + hops
      /\ ~IsHardcoded(Hop(c, hops))
  BY DEF Hop, VirtualRegister, IsVirtual, IsHardcoded
<1> HIDE DEF hops
<1>7. /\ Follows(c, f) /\ f.tempCounter = c.tempCounter + hops + 1
      /\ f.temp_register_mapping = c.temp_register_mapping
      /\ Hop(c, hops) \in Known(f)
  <2>1. /\ Follows(c, f) /\ f.tempCounter = c.tempCounter + hops + 1
        /\ f.temp_register_mapping = c.temp_register_mapping
        /\ \A j \in 0..hops : Hop(c, j) \in Known(f)
    BY <1>1, <1>4, FollowPointerFollows
  <2>2. hops \in 0..hops
    BY <1>1
  <2> QED
    BY <2>1, <2>2
<1>8. Grows(c, f, {}) /\ Ready(f.code, Hop(c, hops).id)
  BY <1>1, <1>4, FollowPointerGrows
<1> HIDE DEF f
<1>9. ContextOK(f) /\ LinearCode(f.code)
  BY <1>7, <1>8 DEF Follows, Grows
<1>10. /\ Follows(f, a) /\ a.code = f.code /\ Mapped(a, o.dst.id)
       /\ \A u \in TempId :
              u # o.dst.id => a.temp_register_mapping[u] = f.temp_register_mapping[u]
       /\ Mapped(f, o.dst.id) => a = f
       /\ ~Mapped(f, o.dst.id) => RegisterOf(a, o.dst.id) = f.tempCounter
  BY <1>1, <1>9, AllocateTempFollows
<1> HIDE DEF a
<1>11. ContextOK(a)
  BY <1>10 DEF Follows
<1>12. /\ reg \in Known(a) /\ IsVirtual(reg) /\ reg.id = RegisterOf(a, o.dst.id)
  BY <1>1, <1>10, <1>11, TempDestination
(* The register of the temporary is fresh: the hops have not named it.       *)
<1>13. Fresh(a.code, reg.id)
  <2>1. CASE Mapped(f, o.dst.id)
    <3>1. Mapped(c, o.dst.id) /\ RegisterOf(a, o.dst.id) = RegisterOf(c, o.dst.id)
      BY <1>7, <1>10, <2>1 DEF Mapped, RegisterOf
    <3>2. RegisterOf(c, o.dst.id) \in 0..(c.tempCounter - 1)
      BY <1>1, <3>1, ContextFields
    <3>3. Fresh(c.code, RegisterOf(c, o.dst.id))
      BY <1>1, <1>5, <3>1 DEF OperationReady
    <3> QED
      BY <1>8, <1>10, <1>12, <3>1, <3>2, <3>3 DEF Grows, Keeps
  <2>2. CASE ~Mapped(f, o.dst.id)
    <3>1. reg.id = f.tempCounter /\ f.tempCounter \in Nat
      BY <1>9, <1>10, <1>12, <2>2, ContextFields
    <3> QED
      BY <1>9, <1>10, <3>1, FreshNumber
  <2> QED
    BY <2>1, <2>2
<1>14. Hop(c, hops) \in Known(a) /\ Ready(a.code, Hop(c, hops).id)
  BY <1>7, <1>8, <1>9, <1>10, KnownGrows
<1>15. i \in Instruction(0..(a.tempCounter - 1))
  BY <1>12, <1>14, Instructions DEF Known, RegisterRegister
<1>16. i.dst = reg /\ i.src = Hop(c, hops) /\ i.op \notin ReadsDestination
  BY DEF Ins, ReadsDestination
<1> HIDE DEF i, reg
<1>17. /\ Grows(a, d, Ids(reg) \cup Ids(Hop(c, hops)))
       /\ Ready(d.code, reg.id)
  BY <1>3, <1>6, <1>9, <1>10, <1>11, <1>12, <1>13, <1>14, <1>15, <1>16, SetGrows
<1>18. /\ Ids(reg) = {RegisterOf(a, o.dst.id)}
       /\ Ids(Hop(c, hops)) = {c.tempCounter + hops}
  BY <1>6, <1>12 DEF Ids
<1>19. d.temp_register_mapping = a.temp_register_mapping /\ LinearCode(d.code)
  BY <1>17 DEF Grows
<1>20. ASSUME NEW t \in TempId, ~Uses(o, t) PROVE TempKept(c, d, t)
  <2>1. t # o.dst.id
    BY <1>5, <1>20 DEF Uses
  <2>2. d.temp_register_mapping[t] = c.temp_register_mapping[t]
    BY <1>7, <1>10, <1>19, <2>1
  <2>3. ASSUME Mapped(c, t) PROVE Keeps(c.code, d.code, RegisterOf(c, t))
    <3>1. RegisterOf(c, t) \in 0..(c.tempCounter - 1)
      BY <2>3, ContextFields
    <3>2. Keeps(c.code, f.code, RegisterOf(c, t))
      BY <1>8, <3>1 DEF Grows
    <3>3. Mapped(a, t) /\ RegisterOf(a, t) = RegisterOf(c, t)
      BY <1>19, <2>2, <2>3 DEF Mapped, RegisterOf
    <3>4. RegisterOf(c, t) # RegisterOf(a, o.dst.id)
      BY <1>1, <1>10, <1>11, <2>1, <3>3 DEF ContextOK
    <3>5. RegisterOf(c, t) # c.tempCounter + hops
      BY <1>1, <3>1
    <3>6. RegisterOf(c, t) \in 0..(a.tempCounter - 1)
      BY <1>11, <3>3, ContextFields
    <3>7. Keeps(a.code, d.code, RegisterOf(c, t))
      BY <1>17, <1>18, <3>4, <3>5, <3>6 DEF Grows
    <3> QED
      BY <1>10, <3>2, <3>7 DEF Keeps
  <2> QED
    BY <2>2, <2>3 DEF TempKept, Mapped, RegisterOf
<1>21. Mapped(d, o.dst.id) /\ Ready(d.code, RegisterOf(d, o.dst.id))
  BY <1>10, <1>12, <1>17, <1>19 DEF Mapped, RegisterOf
<1> QED
  BY <1>5, <1>19, <1>20, <1>21 DEF LinearStep

LEMMA LowerGrows ==
    ASSUME NEW c, ContextOK(c), LinearCode(c.code), NEW o \in IROperation, OperationReady(c, o),
           o.op # "Call", ~Lower(c, o).thrown
    PROVE  LinearStep(c, Lower(c, o), o)
<1>1. CASE o.op \in {"Mov", "MovR"}
  BY <1>1, LowerCases, MovGrows
<1>2. CASE o.op \in BinaryOps
  BY <1>2, LowerCases, ArthGrows
<1>3. CASE o.op = "Ret"
  BY <1>3, LowerCases, RetGrows
<1>4. CASE o.op = "Addr"
  BY <1>4, LowerCases, AddrGrows
<1>5. CASE o.op = "Deref"
  BY <1>5, LowerCases, DerefGrows
<1>6. CASE o.op = "DerefStore"
  BY <1>6, LowerCases, DerefStoreGrows
<1>7. CASE o.op = "DefineStackPushed"
  BY <1>7, LowerCases, DefineGrows
<1>8. CASE o.op \in {"LabelDef", "Jump"} \cup CondJumps
  BY <1>8, LabelsGrow
<1> QED
  BY <1>1, <1>2, <1>3, <1>4, <1>5, <1>6, <1>7, <1>8, OperationFields

-----------------------------------------------------------------------------
(* Calls.                                                                  *)
LEMMA PassGrows ==
    ASSUME NEW c, ContextOK(c), LinearCode(c.code), NEW v \in IRValue, NEW index \in Nat,
           CanRead(c, v), ~PassArgument(c, v, index).thrown
    PROVE  Grows(c, PassArgument(c, v, index), ReadIds(c, v))
<1> DEFINE d == PassArgument(c, v, index)
<1>1. CASE PassedInRegister(index)
  <2> DEFINE l == HardcodedRegister(param_regs[index + 1], SizeOf(v))
  <2>1. l \in Locations(c) /\ ~IsVirtual(l)
    BY <1>1, ValueKinds, HardcodedKnown DEF PassedInRegister, param_regs, BaseRegister
  <2>2. Ids(l) \cup ReadIds(c, v) = ReadIds(c, v)
    BY <2>1 DEF Ids
  <2>3. d = toLocation(c, l, v)
    BY <1>1 DEF PassArgument
  <2> HIDE DEF l
  <2> QED
    BY <2>1, <2>2, <2>3, ToLocationGrows
<1>2. CASE ~PassedInRegister(index) /\ v.kind = "int"
  <2> DEFINE i == Ins("PushI", NoOperand, v)
  <2>1. i \in Instruction(0..(c.tempCounter - 1))
    BY <1>2, ValueKinds, OtherInstructions
  <2>2. d = Emit(c, i)
    BY <1>2 DEF PassArgument
  <2>3. i.dst = NoOperand /\ i.src = v /\ i.op \notin ReadsDestination
    BY DEF Ins, ReadsDestination
  <2>4. ~IsRegister(NoOperand) /\ ~IsRegister(v)
    BY <1>2, ValueKinds, NotRegisters
  <2>5. Ids(i.dst) \cup Ids(i.src) = ReadIds(c, v)
    BY <1>2, <2>3, <2>4, NoIds DEF ReadIds
  <2> HIDE DEF i
  <2> QED
    BY <2>1, <2>2, <2>3, <2>4, <2>5, SetGrows, NoIds
<1>3. CASE ~PassedInRegister(index) /\ HasSlot(c, v)
  <2> DEFINE r == InRegister(c, v, SizeOf(v))
             i == Ins("Push", NoOperand, r.reg)
  <2>1. d = Emit(r.after, i)
    BY <1>3 DEF PassArgument, HasSlot
  <2>2. Follows(c, r.after) /\ r.reg \in Known(r.after)
    BY ValueKinds, InRegisterFollows
  <2> HIDE DEF r
  <2>3. ContextOK(r.after)
    BY <2>2 DEF Follows
  <2>4. i \in Instruction(0..(r.after.tempCounter - 1))
    BY <2>2, Instructions DEF Known
  <2>5. ~r.after.thrown
    <3>1. Follows(r.after, d)
      BY <2>1, <2>3, <2>4, EmitFollows
    <3> QED
      BY <2>3, <3>1 DEF Follows
  <2>6. /\ Grows(c, r.after, ReadIds(c, v)) /\ LinearCode(r.after.code)
        /\ Usable(r.after, r.reg)
        /\ IsVirtual(r.reg) /\ r.reg.id = c.tempCounter
    BY <2>5, ValueKinds, InRegisterGrows DEF r, Grows
  <2>7. /\ i.dst = NoOperand /\ i.src = r.reg /\ i.op \notin ReadsDestination
        /\ ~IsVirtual(NoOperand) /\ Ids(NoOperand) = {} /\ Ids(r.reg) = {c.tempCounter}
    BY <2>6, NotRegisters, NoIds DEF Ins, ReadsDestination, Ids
  <2> HIDE DEF i, d
  <2>8. Grows(r.after, d, {c.tempCounter})
    <3>1. Ids(i.dst) \cup Ids(i.src) = {c.tempCounter}
      BY <2>7
    <3> QED
      BY <2>1, <2>3, <2>4, <2>6, <2>7, <3>1, SetGrows DEF Usable
  <2> QED
    BY <2>2, <2>6, <2>8, GrowsTrans, ContextFields DEF d
<1>4. CASE ~PassedInRegister(index) /\ v.kind # "int" /\ ~HasSlot(c, v)
  BY <1>4, ThrowsFollows DEF PassArgument
<1> QED
  BY <1>1, <1>2, <1>3, <1>4

(* The result is read where the call has left it.                          *)
LEMMA FinishGrows ==
    ASSUME NEW c, ContextOK(c), LinearCode(c.code), NEW o \in IROperation, o.op = "Call",
           Mapped(c, o.dst.id), Fresh(c.code, RegisterOf(c, o.dst.id))
    PROVE  /\ Grows(c, FinishCall(c, o), {RegisterOf(c, o.dst.id)})
           /\ Ready(FinishCall(c, o).code, RegisterOf(c, o.dst.id))
<1> DEFINE ax   == HardcodedRegister("AX", SizeOf(o.dst))
           l    == LocationOf(c, o.dst)
           call == Ins("Call", ax, LabelName(o.name))
           e    == Emit(c, call)
           d    == FinishCall(c, o)
<1>1. /\ o.dst \in Temps(TempId) /\ o.dst \in IRValue /\ o.name \in STRING
      /\ SizeOf(o.dst) \in {4, 8}
  <2>1. o.dst \in Temps(TempId) /\ o.dst \in IRValue /\ o.name \in STRING
    BY OperationFields DEF IRValue, Values, Places
  <2> QED
    BY <2>1, ValueKinds
<1>2. /\ l \in Known(c) /\ IsVirtual(l) /\ l.id = RegisterOf(c, o.dst.id)
  BY <1>1, TempDestination
<1>3. /\ ax \in Known(c) /\ IsHardcoded(ax) /\ ~IsVirtual(ax) /\ ax.reg = "AX"
  BY <1>1, HardcodedKnown DEF BaseRegister, HardcodedRegister
<1>4. d = Register_To_Location(e, l, ax)
  BY DEF FinishCall
<1> HIDE DEF ax, l
<1>5. LabelName(o.name) \in LabelNames
  BY <1>1 DEF LabelName, LabelNames
<1>6. call \in Instruction(0..(c.tempCounter - 1))
  BY <1>3, <1>5, Instructions DEF Known
<1>7. /\ call.dst = ax /\ call.src = LabelName(o.name) /\ call.op = "Call"
      /\ call.op \notin ReadsDestination /\ ~IsRegister(LabelName(o.name))
      /\ Ids(ax) = {} /\ Ids(LabelName(o.name)) = {}
  BY <1>3, <1>5, NotRegisters, NoIds DEF Ins, ReadsDestination, Ids
<1> HIDE DEF call
<1>8. Follows(c, e) /\ ContextOK(e) /\ e.code = Append(c.code, call)
  BY <1>6, EmitFollows DEF Follows
<1>9. Grows(c, e, {}) /\ LinearCode(e.code)
  <2>1. Ids(call.dst) \cup Ids(call.src) = {}
    BY <1>7
  <2> QED
    BY <1>3, <1>6, <1>7, <2>1, SetGrows, NoIds DEF Grows
<1>10. Fresh(e.code, l.id)
  <2>1. l.id \in 0..(c.tempCounter - 1)
    BY <1>2, RegisterKinds DEF Known
  <2> QED
    BY <1>2, <1>9, <2>1 DEF Grows, Keeps
<1>11. LeftByCall(e.code, "AX")
  <2>1. /\ c.code \in Seq(Instruction(Nat)) /\ call \in Instruction(Nat)
    BY <1>6, NumberedInstruction, ContextFields
  <2>2. e.code # << >> /\ e.code[Len(e.code)] = call
    BY <1>8, <2>1
  <2> QED
    BY <1>3, <1>7, <2>2 DEF LeftByCall
<1> HIDE DEF e, d
<1>12. l \in Locations(e) /\ ax \in Known(e)
  BY <1>2, <1>3, <1>8, KnownGrows DEF Locations
<1>13. Ids(l) \cup Ids(ax) = {RegisterOf(c, o.dst.id)}
  BY <1>2, <1>7 DEF Ids
<1>14. Grows(e, d, {RegisterOf(c, o.dst.id)}) /\ Ready(d.code, l.id)
  <2>1. /\ IsVirtual(l) => Fresh(e.code, l.id)
        /\ IsVirtual(ax) => Ready(e.code, ax.id)
        /\ IsHardcoded(ax) => IsParamReg(ax.reg) \/ LeftByCall(e.code, ax.reg)
    BY <1>3, <1>10, <1>11
  <2>2. /\ Grows(e, Register_To_Location(e, l, ax), Ids(l) \cup Ids(ax))
        /\ IsVirtual(l) => Ready(Register_To_Location(e, l, ax).code, l.id)
    BY <1>8, <1>9, <1>12, <2>1, RegisterToLocationGrows
  <2> QED
    BY <1>2, <1>4, <1>13, <2>2
<1>15. Grows(c, d, {RegisterOf(c, o.dst.id)})
  BY <1>8, <1>9, <1>14, GrowsTrans
<1> QED
  BY <1>2, <1>14, <1>15 DEF d

-----------------------------------------------------------------------------
(* Where the temporaries of a frame stand, before operation n of f, or after *)
(* p arguments of the call there.  They are passed one by one, the last one  *)
(* first.                                                                  *)
SetBefore(f, n, t) == \E m \in 1..(n - 1) : IsTemp(Target(f[m]), t)

ReadBefore(f, n, p, t) ==
    \E m \in DOMAIN f : \E k \in DOMAIN ValuesRead(f[m]) :
        /\ IsTemp(ValuesRead(f[m])[k], t)
        /\ m < n \/ (m = n /\ p # NotCalling /\ k > Len(ValuesRead(f[m])) - p)

TempsOK(c, f, n, p) ==
    \A t \in TempId :
        /\ SetBefore(f, n, t) /\ ~ReadBefore(f, n, p, t) =>
               Mapped(c, t) /\ Ready(c.code, RegisterOf(c, t))
        /\ ~SetBefore(f, n, t) /\ Mapped(c, t) => Fresh(c.code, RegisterOf(c, t))

LinearFrame(f) == f \in Seq(IROperation) /\ LinearOperations(f)

LEMMA ReadIsSet ==
    ASSUME NEW f, LinearFrame(f), NEW n \in DOMAIN f, NEW k \in DOMAIN ValuesRead(f[n])
    PROVE  LET v == ValuesRead(f[n])[k]
           IN  /\ f[n] \in IROperation
               /\ v \in IRValue
               /\ v \in Sources(f[n])
               /\ v.kind = "hard" => IsParamReg(v.reg)
               /\ v.kind = "temp" => SetBefore(f, n, v.id) /\ v.id \in TempId
<1> DEFINE v == ValuesRead(f[n])[k]
<1>1. f[n] \in IROperation
  BY DEF LinearFrame
<1>2. v \in IRValue /\ v \in Sources(f[n])
  BY <1>1, ValuesReadType DEF Sources
<1>3. /\ v.kind = "hard" => IsParamReg(v.reg)
      /\ v.kind = "temp" => SetBefore(f, n, v.id)
  BY DEF LinearFrame, LinearOperations, SetBefore, IsTemp
<1> QED
  BY <1>1, <1>2, <1>3, ValueKinds

(* A value an operation is about to read may be read.                       *)
LEMMA ReadIsReady ==
    ASSUME NEW c, NEW f, LinearFrame(f), NEW n \in DOMAIN f, NEW p, TempsOK(c, f, n, p),
           NEW k \in DOMAIN ValuesRead(f[n]),
           ~(p # NotCalling /\ k > Len(ValuesRead(f[n])) - p)
    PROVE  CanRead(c, ValuesRead(f[n])[k])
<1> DEFINE v == ValuesRead(f[n])[k]
<1>1. /\ v.kind = "hard" => IsParamReg(v.reg)
      /\ v.kind = "temp" => SetBefore(f, n, v.id) /\ v.id \in TempId
  BY ReadIsSet
<1>2. v.kind = "temp" => ~ReadBefore(f, n, p, v.id)
  <2>1. ASSUME v.kind = "temp"
        PROVE  \A m \in DOMAIN f : \A j \in DOMAIN ValuesRead(f[m]) :
                   IsTemp(ValuesRead(f[m])[j], v.id) => m = n /\ j = k
    BY <2>1 DEF LinearFrame, LinearOperations
  <2>2. ~(n < n)
    BY DEF LinearFrame
  <2> QED
    BY <2>1, <2>2 DEF ReadBefore
<1> QED
  BY <1>1, <1>2 DEF CanRead, TempsOK

LEMMA TargetIsNew ==
    ASSUME NEW f, LinearFrame(f), NEW n \in DOMAIN f, NEW t \in TempId, IsTemp(Target(f[n]), t)
    PROVE  /\ ~SetBefore(f, n, t)
           /\ \A v \in Sources(f[n]) : ~IsTemp(v, t)
<1>1. ~SetBefore(f, n, t)
  <2>1. ASSUME NEW m \in 1..(n - 1), IsTemp(Target(f[m]), t) PROVE FALSE
    <3>1. m \in DOMAIN f /\ m # n
      BY DEF LinearFrame
    <3>2. /\ Target(f[n]).kind = "temp"
          /\ IsTemp(Target(f[m]), Target(f[n]).id)
      BY <2>1 DEF IsTemp
    <3> QED
      BY <3>1, <3>2 DEF LinearFrame, LinearOperations
  <2> QED
    BY <2>1 DEF SetBefore
<1>2. ASSUME NEW v \in Sources(f[n]), IsTemp(v, t) PROVE FALSE
  <2>1. PICK k \in DOMAIN ValuesRead(f[n]) : v = ValuesRead(f[n])[k]
    BY DEF Sources
  <2>2. SetBefore(f, n, t)
    BY <1>2, <2>1, ReadIsSet DEF IsTemp
  <2> QED
    BY <1>1, <2>2
<1> QED
  BY <1>1, <1>2

LEMMA OperationIsReady ==
    ASSUME NEW c, NEW f, LinearFrame(f), NEW n \in DOMAIN f, TempsOK(c, f, n, NotCalling)
    PROVE  OperationReady(c, f[n])
<1>1. ASSUME NEW v \in Sources(f[n]) PROVE CanRead(c, v)
  BY ReadIsReady DEF Sources
<1>2. ASSUME NEW j \in DOMAIN ValuesRead(f[n]), NEW k \in DOMAIN ValuesRead(f[n]),
             ValuesRead(f[n])[j].kind = "temp",
             IsTemp(ValuesRead(f[n])[k], ValuesRead(f[n])[j].id)
      PROVE  j = k
  BY <1>2 DEF LinearFrame, LinearOperations
<1>3. ASSUME NEW t \in TempId, IsTemp(Target(f[n]), t)
      PROVE  /\ Mapped(c, t) => Fresh(c.code, RegisterOf(c, t))
             /\ \A v \in Sources(f[n]) : ~IsTemp(v, t)
  BY <1>3, TargetIsNew DEF TempsOK
<1> QED
  BY <1>1, <1>2, <1>3 DEF OperationReady

(* What an operation reads and sets, it has read and set.                   *)
LEMMA AfterOperation ==
    ASSUME NEW f, LinearFrame(f), NEW n \in DOMAIN f, NEW t \in TempId
    PROVE  /\ SetBefore(f, n + 1, t) <=> SetBefore(f, n, t) \/ IsTemp(Target(f[n]), t)
           /\ \A p : ReadBefore(f, n, p, t) => ReadBefore(f, n + 1, NotCalling, t)
           /\ (\E v \in Sources(f[n]) : IsTemp(v, t)) =>
                  ReadBefore(f, n + 1, NotCalling, t) /\ SetBefore(f, n, t)
<1>1. n \in Nat \ {0} /\ DOMAIN f \subseteq Nat
  BY DEF LinearFrame
<1>2. 1..(n + 1 - 1) = 1..(n - 1) \cup {n}
  BY <1>1
<1>3. SetBefore(f, n + 1, t) <=> SetBefore(f, n, t) \/ IsTemp(Target(f[n]), t)
  BY <1>2 DEF SetBefore
<1>4. \A m \in DOMAIN f : m < n \/ m = n => m < n + 1
  BY <1>1
<1>5. \A p : ReadBefore(f, n, p, t) => ReadBefore(f, n + 1, NotCalling, t)
  BY <1>4 DEF ReadBefore
<1>6. ASSUME NEW v \in Sources(f[n]), IsTemp(v, t)
      PROVE  ReadBefore(f, n + 1, NotCalling, t) /\ SetBefore(f, n, t)
  <2>1. PICK k \in DOMAIN ValuesRead(f[n]) : v = ValuesRead(f[n])[k]
    BY DEF Sources
  <2>2. n < n + 1
    BY <1>1
  <2> QED
    BY <1>6, <2>1, <2>2, ReadIsSet DEF IsTemp, ReadBefore
<1> QED
  BY <1>3, <1>5, <1>6

LEMMA TempsStep ==
    ASSUME NEW c, NEW d, NEW f, LinearFrame(f), NEW n \in DOMAIN f,
           TempsOK(c, f, n, NotCalling), LinearStep(c, d, f[n])
    PROVE  TempsOK(d, f, n + 1, NotCalling)
<1> SUFFICES ASSUME NEW t \in TempId
             PROVE  /\ SetBefore(f, n + 1, t) /\ ~ReadBefore(f, n + 1, NotCalling, t) =>
                           Mapped(d, t) /\ Ready(d.code, RegisterOf(d, t))
                    /\ ~SetBefore(f, n + 1, t) /\ Mapped(d, t) => Fresh(d.code, RegisterOf(d, t))
  BY DEF TempsOK
<1>1. CASE IsTemp(Target(f[n]), t)
  BY <1>1, AfterOperation DEF LinearStep
<1>2. CASE ~IsTemp(Target(f[n]), t) /\ \E v \in Sources(f[n]) : IsTemp(v, t)
  BY <1>2, AfterOperation
<1>3. CASE ~Uses(f[n], t)
  <2>1. TempKept(c, d, t) /\ ~IsTemp(Target(f[n]), t)
    BY <1>3 DEF LinearStep, Uses
  <2> QED
    BY <2>1, AfterOperation DEF TempsOK, TempKept, Keeps
<1> QED
  BY <1>1, <1>2, <1>3 DEF Uses

LEMMA TempsStart ==
    ASSUME NEW c, ContextOK(c), NEW f, LinearFrame(f), NEW n \in DOMAIN f, f[n].op = "Call",
           TempsOK(c, f, n, NotCalling)
    PROVE  TempsOK(AllocateNewForTemp(c, f[n].dst), f, n, 0)
<1> DEFINE o == f[n]
           d == AllocateNewForTemp(c, o.dst)
<1>1. /\ o.dst \in Temps(TempId) /\ o.dst.kind = "temp" /\ o.dst.id \in TempId
      /\ o.args \in Seq(IRValue) /\ Target(o) = o.dst /\ ValuesRead(o) = o.args
  <2>1. o \in IROperation
    BY DEF LinearFrame
  <2> QED
    BY <2>1, OperationFields, Reading DEF Temps
<1>2. IsTemp(Target(o), o.dst.id) /\ ~SetBefore(f, n, o.dst.id)
  BY <1>1, TargetIsNew DEF IsTemp
<1>3. \A t \in TempId : ReadBefore(f, n, NotCalling, t) => ReadBefore(f, n, 0, t)
  BY DEF ReadBefore
<1>4. /\ d.code = c.code
      /\ \A u \in TempId :
             u # o.dst.id => d.temp_register_mapping[u] = c.temp_register_mapping[u]
      /\ Mapped(c, o.dst.id) => d = c
      /\ ~Mapped(c, o.dst.id) => RegisterOf(d, o.dst.id) = c.tempCounter
  BY <1>1, AllocateTempFollows
<1> HIDE DEF d
<1>5. Fresh(d.code, RegisterOf(d, o.dst.id))
  <2>1. CASE Mapped(c, o.dst.id)
    BY <1>1, <1>2, <1>4, <2>1 DEF TempsOK
  <2>2. CASE ~Mapped(c, o.dst.id)
    BY <1>4, <2>2, FreshNumber, ContextFields
  <2> QED
    BY <2>1, <2>2
<1> QED
  BY <1>2, <1>3, <1>4, <1>5 DEF TempsOK, Mapped, RegisterOf, d

LEMMA TempsPass ==
    ASSUME NEW c, ContextOK(c), NEW d, NEW f, LinearFrame(f), NEW n \in DOMAIN f,
           f[n].op = "Call", NEW p \in 0..(Len(f[n].args) - 1), TempsOK(c, f, n, p),
           Grows(c, d, ReadIds(c, f[n].args[Len(f[n].args) - p]))
    PROVE  TempsOK(d, f, n, p + 1)
<1> DEFINE args == f[n].args
           k    == Len(args) - p
           v    == args[k]
<1>1. args \in Seq(IRValue) /\ ValuesRead(f[n]) = args
  <2>1. f[n] \in IROperation
    BY DEF LinearFrame
  <2> QED
    BY <2>1, OperationFields, Reading
<1>2. /\ k \in DOMAIN args /\ p \in Nat /\ p + 1 # NotCalling /\ p # NotCalling
      /\ k > Len(args) - (p + 1) /\ ~(k > Len(args) - p)
      /\ \A j \in DOMAIN args : j > Len(args) - p => j > Len(args) - (p + 1)
  BY <1>1 DEF NotCalling
<1>3. v \in IRValue /\ CanRead(c, v) /\ (v.kind = "temp" => v.id \in TempId)
  BY <1>1, <1>2, ReadIsReady, ReadIsSet
<1> HIDE DEF k, args
<1>4. \A t \in TempId : ReadBefore(f, n, p, t) => ReadBefore(f, n, p + 1, t)
  BY <1>1, <1>2 DEF ReadBefore
<1>5. \A t \in TempId : IsTemp(v, t) => ReadBefore(f, n, p + 1, t) /\ SetBefore(f, n, t)
  BY <1>1, <1>2, ReadIsSet DEF ReadBefore, IsTemp
<1>6. ASSUME NEW t \in TempId, ~IsTemp(v, t), Mapped(c, t)
      PROVE  Keeps(c.code, d.code, RegisterOf(c, t))
  <2>1. RegisterOf(c, t) \in 0..(c.tempCounter - 1) /\ RegisterOf(c, t) \notin ReadIds(c, v)
    BY <1>3, <1>6, ContextFields, ReadIdsUsed
  <2> QED
    BY <2>1 DEF Grows, k, args
<1>7. d.temp_register_mapping = c.temp_register_mapping
  BY DEF Grows
<1> HIDE DEF v
<1> QED
  BY <1>4, <1>5, <1>6, <1>7 DEF TempsOK, Mapped, RegisterOf, Keeps

LEMMA TempsFinish ==
    ASSUME NEW c, ContextOK(c), NEW d, NEW f, LinearFrame(f), NEW n \in DOMAIN f,
           f[n].op = "Call", NEW p, TempsOK(c, f, n, p), Mapped(c, f[n].dst.id),
           Grows(c, d, {RegisterOf(c, f[n].dst.id)}),
           Ready(d.code, RegisterOf(c, f[n].dst.id))
    PROVE  TempsOK(d, f, n + 1, NotCalling)
<1> DEFINE o == f[n]
<1>1. /\ o.dst.kind = "temp" /\ o.dst.id \in TempId /\ Target(o) = o.dst
  <2>1. o \in IROperation
    BY DEF LinearFrame
  <2> QED
    BY <2>1, OperationFields, Reading DEF Temps
<1>2. \A t : IsTemp(Target(o), t) <=> t = o.dst.id
  BY <1>1 DEF IsTemp
<1>3. d.temp_register_mapping = c.temp_register_mapping
  BY DEF Grows
<1>4. ASSUME NEW t \in TempId, t # o.dst.id, Mapped(c, t)
      PROVE  Keeps(c.code, d.code, RegisterOf(c, t))
  <2>1. RegisterOf(c, t) \in 0..(c.tempCounter - 1) /\ RegisterOf(c, t) # RegisterOf(c, o.dst.id)
    BY <1>1, <1>4, ContextFields DEF ContextOK
  <2> QED
    BY <2>1 DEF Grows
<1> SUFFICES ASSUME NEW t \in TempId
             PROVE  /\ SetBefore(f, n + 1, t) /\ ~ReadBefore(f, n + 1, NotCalling, t) =>
                           Mapped(d, t) /\ Ready(d.code, RegisterOf(d, t))
                    /\ ~SetBefore(f, n + 1, t) /\ Mapped(d, t) => Fresh(d.code, RegisterOf(d, t))
  BY DEF TempsOK
<1>5. CASE t = o.dst.id
  <2>1. Mapped(d, t) /\ Ready(d.code, RegisterOf(d, t)) /\ SetBefore(f, n + 1, t)
    BY <1>1, <1>2, <1>3, <1>5, AfterOperation DEF Mapped, RegisterOf
  <2> QED
    BY <2>1
<1>6. CASE t # o.dst.id
  BY <1>2, <1>3, <1>4, <1>6, AfterOperation DEF TempsOK, Mapped, RegisterOf, Keeps
<1> QED
  BY <1>5, <1>6

-----------------------------------------------------------------------------
(* The inductive invariant: LowerInv, linear code so far, and every          *)
(* temporary fresh, ready or read.  After an exception nothing is promised.  *)
LinearInv ==
    /\ LowerInv
    /\ CodeIsLinear
    /\ status = "lowering" =>
           LinearCode(ctx.code) /\ TempsOK(ctx, irFrames[lf], op, passed)

LEMMA StartOfFrame ==
    ASSUME NEW f
    PROVE  LinearCode(FreshCtx.code) /\ TempsOK(FreshCtx, f, 1, NotCalling)
<1>1. FreshCtx.code = << >> /\ \A t \in TempId : ~Mapped(FreshCtx, t)
  BY FreshContext
<1>2. \A t : ~SetBefore(f, 1, t)
  BY DEF SetBefore
<1> QED
  BY <1>1, <1>2 DEF LinearCode, TempsOK

LEMMA LinearInvInit == LowerInit => LinearInv
<1> SUFFICES ASSUME LowerInit PROVE LinearInv
  OBVIOUS
<1>1. LowerInv
  BY LowerInvInit
<1>2. ctx = FreshCtx /\ op = 1 /\ passed = NotCalling /\ lowered = << >>
  BY DEF LowerInit, LowerStart
<1>3. CodeIsLinear
  BY <1>2 DEF CodeIsLinear
<1> QED
  BY <1>1, <1>2, <1>3, StartOfFrame DEF LinearInv

LEMMA AtOperationLinear ==
    ASSUME LinearInv, AtOperation
    PROVE  /\ LinearFrame(irFrames[lf])
           /\ op \in DOMAIN irFrames[lf] /\ operation = irFrames[lf][op]
           /\ operation \in IROperation
           /\ ContextOK(ctx) /\ LinearCode(ctx.code)
           /\ TempsOK(ctx, irFrames[lf], op, passed)
<1>1. irFrames \in IRPrograms /\ lf \in DOMAIN irFrames /\ status = "lowering"
  BY DEF LinearInv, LowerInv, LowerTypeOK, AtOperation
<1> QED
  BY <1>1, ProgramTypes, AtOperationType DEF LinearInv, LinearFrame, AtOperation, operation

(* What the steps that lower something have in common.                     *)
LEMMA ContinueLinear ==
    ASSUME LinearInv, AtOperation, LowerInv', NEW c, Continue(c),
           ~c.thrown => LinearCode(c.code) /\ TempsOK(c, irFrames[lf], op', passed')
    PROVE  LinearInv'
<1>1. /\ ctx' = c /\ status' = IF c.thrown THEN "throw" ELSE status
      /\ irFrames' = irFrames /\ lf' = lf /\ lowered' = lowered
  BY DEF Continue
<1>2. CodeIsLinear'
  BY <1>1 DEF LinearInv, CodeIsLinear
<1>3. status' = "lowering" =>
          LinearCode(ctx'.code) /\ TempsOK(ctx', irFrames'[lf'], op', passed')
  BY <1>1
<1> QED
  BY <1>2, <1>3 DEF LinearInv

LEMMA LinearInvNext == LinearInv /\ [LowerNext]_lowerVars => LinearInv'
<1> SUFFICES ASSUME LinearInv, [LowerNext]_lowerVars PROVE LinearInv'
  OBVIOUS
<1>0. LowerInv /\ LowerInv'
  BY LowerInvNext DEF LinearInv
<1> DEFINE f == irFrames[lf]
<1>1. CASE LowerOperation
  <2> DEFINE c == Lower(ctx, operation)
  <2>1. /\ AtOperation /\ operation.op # "Call" /\ op' = op + 1 /\ passed' = passed
        /\ Continue(c)
    BY <1>1 DEF LowerOperation
  <2>2. passed = NotCalling
    BY <1>0, <2>1 DEF LowerInv, LowerTypeOK
  <2>3. OperationReady(ctx, operation)
    BY <2>1, <2>2, AtOperationLinear, OperationIsReady
  <2>4. ~c.thrown => LinearStep(ctx, c, operation)
    BY <2>1, <2>3, AtOperationLinear, LowerGrows
  <2> HIDE DEF c
  <2>5. ~c.thrown => LinearCode(c.code) /\ TempsOK(c, f, op', passed')
    BY <2>1, <2>2, <2>4, AtOperationLinear, TempsStep DEF LinearStep
  <2> QED
    BY <1>0, <2>1, <2>5, ContinueLinear
<1>2. CASE StartCall
  <2> DEFINE c == AllocateNew(ctx, operation.dst)
  <2>1. /\ AtOperation /\ operation.op = "Call" /\ passed = NotCalling
        /\ op' = op /\ passed' = 0 /\ Continue(c)
    BY <1>2 DEF StartCall
  <2>2. operation.dst \in Temps(TempId) /\ operation.dst.kind = "temp"
    BY <1>0, <2>1, AtOperationType
  <2>3. c = AllocateNewForTemp(ctx, operation.dst)
    BY <2>2 DEF AllocateNew
  <2>4. TempsOK(c, f, op, 0)
    BY <2>1, <2>3, AtOperationLinear, TempsStart
  <2>5. c.code = ctx.code
    BY <2>1, <2>2, <2>3, AtOperationLinear, AllocateTempFollows
  <2> HIDE DEF c
  <2> QED
    BY <1>0, <2>1, <2>4, <2>5, AtOperationLinear, ContinueLinear
<1>3. CASE PassNext
  <2> DEFINE v == operation.args[Len(operation.args) - passed]
             c == PassArgument(ctx, v, passed)
  <2>1. /\ AtOperation /\ operation.op = "Call" /\ op' = op /\ passed' = passed + 1
        /\ passed \in 0..(Len(operation.args) - 1)
        /\ Continue(c)
    BY <1>3 DEF PassNext
  <2>2. operation.args \in Seq(IRValue) /\ ValuesRead(operation) = operation.args
    BY <1>0, <2>1, AtOperationType, Reading
  <2>3. /\ Len(operation.args) - passed \in DOMAIN operation.args
        /\ ~(Len(operation.args) - passed > Len(operation.args) - passed)
        /\ passed \in Nat /\ v \in IRValue
    BY <2>1, <2>2
  <2>4. CanRead(ctx, v)
    BY <2>1, <2>2, <2>3, AtOperationLinear, ReadIsReady
  <2>5. ~c.thrown => Grows(ctx, c, ReadIds(ctx, v))
    BY <2>1, <2>3, <2>4, AtOperationLinear, PassGrows
  <2> HIDE DEF c
  <2>6. ~c.thrown => LinearCode(c.code) /\ TempsOK(c, f, op, passed + 1)
    BY <2>1, <2>5, AtOperationLinear, TempsPass DEF Grows
  <2> QED
    BY <1>0, <2>1, <2>6, ContinueLinear
<1>4. CASE EndCall
  <2> DEFINE c == FinishCall(ctx, operation)
             t == operation.dst.id
  <2>1. /\ AtOperation /\ operation.op = "Call" /\ op' = op + 1 /\ passed' = NotCalling
        /\ passed = Len(operation.args)
        /\ Continue(c)
    BY <1>4 DEF EndCall
  <2>2. passed # NotCalling
    BY <1>0, <2>1, AtOperationType DEF NotCalling
  <2>3. Mapped(ctx, t)
    BY <1>0, <2>2 DEF LowerInv
  <2>4. t \in TempId /\ IsTemp(Target(operation), t)
    BY <1>0, <2>1, AtOperationType, Reading DEF IsTemp
  <2>5. Fresh(ctx.code, RegisterOf(ctx, t))
    <3>1. ~SetBefore(f, op, t)
      BY <2>1, <2>4, AtOperationLinear, TargetIsNew
    <3> QED
      BY <2>1, <2>3, <2>4, <3>1, AtOperationLinear DEF TempsOK
  <2>6. Grows(ctx, c, {RegisterOf(ctx, t)}) /\ Ready(c.code, RegisterOf(ctx, t))
    BY <2>1, <2>3, <2>5, AtOperationLinear, FinishGrows
  <2> HIDE DEF c
  <2>7. LinearCode(c.code) /\ TempsOK(c, f, op + 1, NotCalling)
    BY <2>1, <2>3, <2>6, AtOperationLinear, TempsFinish DEF Grows
  <2> QED
    BY <1>0, <2>1, <2>7, ContinueLinear
<1>5. CASE LowerNextFrame
  <2> DEFINE finished == [instructions |-> ctx.code, size |-> ctx.stackOffset]
  <2>1. /\ status = "lowering" /\ op \notin DOMAIN f
        /\ lowered' = Append(lowered, finished)
        /\ op' = 1 /\ ctx' = FreshCtx /\ passed' = passed
    BY <1>5 DEF LowerNextFrame
  <2>2. passed = NotCalling
    BY <1>0, <2>1 DEF LowerInv, LowerTypeOK
  <2>3. WellFormed(ctx.code) /\ Linear(ctx.code)
    BY <1>0, <2>1, LinearCodeIsLinear, ContextFields DEF LinearInv, LowerInv
  <2>4. finished.instructions = ctx.code
    OBVIOUS
  <2> HIDE DEF finished
  <2>5. CodeIsLinear'
    <3>1. lowered \in Seq([instructions : Seq(Instruction(Nat)), size : Nat])
      BY <1>0 DEF LowerInv, LowerTypeOK
    <3>2. \A n \in DOMAIN lowered' :
              (n \in DOMAIN lowered /\ lowered'[n] = lowered[n]) \/ lowered'[n] = finished
      BY <2>1, <3>1
    <3> QED
      BY <2>3, <2>4, <3>2 DEF LinearInv, CodeIsLinear
  <2>6. LinearCode(ctx'.code) /\ TempsOK(ctx', irFrames'[lf'], op', passed')
    BY <2>1, <2>2, StartOfFrame
  <2> QED
    BY <1>0, <2>5, <2>6 DEF LinearInv
<1>6. CASE UNCHANGED lowerVars
  <2>1. /\ irFrames' = irFrames /\ lf' = lf /\ op' = op /\ passed' = passed /\ ctx' = ctx
        /\ lowered' = lowered /\ status' = status
    BY <1>6 DEF lowerVars
  <2>2. CodeIsLinear'
    BY <2>1 DEF LinearInv, CodeIsLinear
  <2> QED
    BY <1>0, <2>1, <2>2 DEF LinearInv
<1> QED
  BY <1>1, <1>2, <1>3, <1>4, <1>5, <1>6 DEF LowerNext

(* Every finished frame is what the register allocator relies on, for every  *)
(* program of linear IR operations (LowerIR, whose frames Allocate gets).    *)
THEOREM CodeIsLinearCorrect == LowerSpec => []CodeIsLinear
<1>1. LinearInv => CodeIsLinear
  BY DEF LinearInv
<1> QED
  BY <1>1, LinearInvInit, LinearInvNext, PTL DEF LowerSpec
=============================================================================
