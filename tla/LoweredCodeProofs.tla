------------------------- MODULE LoweredCodeProofs -------------------------
(***************************************************************************)
(* What the instructions do that each operator of LowerIR appends: the      *)
(* value they move arrives where it is to go, and they write no register     *)
(* but new ones and their destination.                                     *)
(***************************************************************************)
EXTENDS LowerIRLinearProofs, MachineProofs

Machine(c) == Run(X86Start, c.code)

LEMMA MachineEmit ==
    ASSUME NEW c, ContextOK(c)
    PROVE  /\ IsMachine(Machine(c))
           /\ \A i \in Instruction(Nat) : Machine(Emit(c, i)) = Execute(Machine(c), i)
<1>1. c.code \in Seq(Instruction(Nat))
  BY ContextFields
<1>2. IsMachine(Machine(c))
  BY <1>1, RunIsMachine DEF Machine
<1>3. ASSUME NEW i \in Instruction(Nat)
      PROVE  Machine(Emit(c, i)) = Execute(Machine(c), i)
  <2>1. Emit(c, i).code = Append(c.code, i)
    BY DEF Emit, ContextOK, Context
  <2> QED
    BY <1>1, <2>1, RunAppend DEF Machine
<1> QED
  BY <1>2, <1>3

(* The registers that may hold something: those the Ctx has numbered, and   *)
(* those that carry parameters.                                            *)
OldCells(c) == {VirtCell(id) : id \in 0..(c.tempCounter - 1)}
               \cup {BaseCell(param_regs[k]) : k \in 1..6}

(* n differs from m in registers of X, new ones, and the flags only.        *)
SameRegisters(c, m, n, X) ==
    \A cell \in OldCells(c) \ X : Lookup(n.regs, cell) = Lookup(m.regs, cell)

OnlyRegisters(m, n) ==
    /\ n.bytes = m.bytes
    /\ n.outside = m.outside
    /\ n.trace = m.trace
    /\ n.pushed = m.pushed

Quiet(c, m, n, X) == IsMachine(n) /\ OnlyRegisters(m, n) /\ SameRegisters(c, m, n, X)

LEMMA ParamRegisters ==
    /\ DOMAIN param_regs = 1..6
    /\ Len(param_regs) = 6
    /\ \A k \in 1..6 : param_regs[k] \in BaseRegister /\ IsParamReg(param_regs[k])
    /\ \A j, k \in 1..6 : param_regs[j] = param_regs[k] => j = k
    /\ \A reg : IsParamReg(reg) <=> \E k \in 1..6 : param_regs[k] = reg
    /\ ~IsParamReg("AX")
BY DEF param_regs, BaseRegister, IsParamReg

LEMMA Cells ==
    /\ \A i, j : VirtCell(i) = VirtCell(j) <=> i = j
    /\ \A i, j : BaseCell(i) = BaseCell(j) <=> i = j
    /\ \A i, j : VirtCell(i) # BaseCell(j)
BY DEF VirtCell, BaseCell

LEMMA RegisterCells ==
    ASSUME NEW c, ContextOK(c)
    PROVE  /\ \A x \in Known(c) :
                  /\ IsVirtual(x) => /\ CellOf(x) = VirtCell(x.id)
                                     /\ CellOf(x) \in OldCells(c)
                  /\ ~IsVirtual(x) => /\ CellOf(x) = BaseCell(x.reg)
                                      /\ IsHardcoded(x)
                                      /\ IsParamReg(x.reg) => CellOf(x) \in OldCells(c)
                  /\ x.kind # "int"
           /\ \A id \in Nat : id >= c.tempCounter => VirtCell(id) \notin OldCells(c)
           /\ BaseCell("AX") \notin OldCells(c)
           /\ \A reg : IsParamReg(reg) <=> BaseCell(reg) \in OldCells(c)
<1>1. c.tempCounter \in Nat
  BY ContextFields
<1>2. ASSUME NEW x \in Known(c)
      PROVE  /\ IsVirtual(x) => /\ CellOf(x) = VirtCell(x.id)
                                /\ CellOf(x) \in OldCells(c)
             /\ ~IsVirtual(x) => /\ CellOf(x) = BaseCell(x.reg)
                                 /\ IsHardcoded(x)
                                 /\ IsParamReg(x.reg) => CellOf(x) \in OldCells(c)
             /\ x.kind # "int"
  <2>1. /\ IsVirtual(x) => x.id \in 0..(c.tempCounter - 1)
        /\ IsVirtual(x) \/ IsHardcoded(x)
    BY RegisterKinds DEF Known, IsRegister
  <2> QED
    BY <2>1, ParamRegisters DEF CellOf, OldCells, IsVirtual, IsHardcoded
<1>3. \A id \in Nat : id >= c.tempCounter => VirtCell(id) \notin OldCells(c)
  BY <1>1, Cells DEF OldCells
<1>4. \A reg : IsParamReg(reg) <=> BaseCell(reg) \in OldCells(c)
  BY ParamRegisters, Cells DEF OldCells
<1> QED
  BY <1>2, <1>3, <1>4, ParamRegisters

LEMMA OldCellsGrow ==
    ASSUME NEW c, NEW d, ContextOK(c), ContextOK(d), c.tempCounter <= d.tempCounter
    PROVE  OldCells(c) \subseteq OldCells(d)
<1>1. c.tempCounter \in Nat /\ d.tempCounter \in Nat
  BY ContextFields
<1> QED
  BY <1>1 DEF OldCells

LEMMA QuietSame ==
    ASSUME NEW c, NEW m, IsMachine(m), NEW X
    PROVE  Quiet(c, m, m, X)
BY DEF Quiet, OnlyRegisters, SameRegisters

LEMMA QuietTrans ==
    ASSUME NEW c, NEW d, ContextOK(c), ContextOK(d), c.tempCounter <= d.tempCounter,
           NEW m, NEW n, NEW k, NEW X, NEW Y, NEW Z, Quiet(c, m, n, X), Quiet(d, n, k, Y),
           \A cell \in OldCells(c) : cell \in X \cup Y => cell \in Z
    PROVE  Quiet(c, m, k, Z)
<1>1. OldCells(c) \subseteq OldCells(d)
  BY OldCellsGrow
<1>2. OnlyRegisters(m, k)
  BY DEF Quiet, OnlyRegisters
<1>3. SameRegisters(c, m, k, Z)
  BY <1>1 DEF Quiet, SameRegisters
<1> QED
  BY <1>2, <1>3 DEF Quiet

(* Setting a register.                                                     *)
LEMMA SetQuiet ==
    ASSUME NEW c, NEW m, IsMachine(m), NEW x, x.kind # "int", NEW value
    PROVE  /\ Quiet(c, m, Set(m, x, value), {CellOf(x)})
           /\ Set(m, x, value).flags = m.flags
           /\ Lookup(Set(m, x, value).regs, CellOf(x)) = value
           /\ Content(Set(m, x, value), x) = value
<1> DEFINE n == Set(m, x, value)
<1>1. /\ IsMachine(n)
      /\ n.regs = Put(m.regs, CellOf(x), value)
      /\ n.bytes = m.bytes /\ n.flags = m.flags /\ n.outside = m.outside
      /\ n.pushed = m.pushed /\ n.trace = m.trace
  BY SetFields
<1> HIDE DEF n
<1>2. /\ Lookup(n.regs, CellOf(x)) = value
      /\ \A y : y # CellOf(x) => Lookup(n.regs, y) = Lookup(m.regs, y)
  BY <1>1 DEF Put, Lookup
<1>3. Quiet(c, m, n, {CellOf(x)}) /\ Content(n, x) = value
  BY <1>1, <1>2 DEF Quiet, OnlyRegisters, SameRegisters, Content
<1> QED
  BY <1>1, <1>2, <1>3 DEF n

LEMMA ContentKept ==
    ASSUME NEW c, ContextOK(c), NEW m, NEW n, NEW X, SameRegisters(c, m, n, X),
           NEW x \in Known(c) \cup Immediates,
           IsHardcoded(x) => IsParamReg(x.reg),
           IsRegister(x) => CellOf(x) \notin X
    PROVE  Content(n, x) = Content(m, x)
<1>1. CASE x \in Known(c)
  BY <1>1, RegisterCells, RegisterKinds DEF Content, SameRegisters, Known, IsRegister
<1>2. CASE x \in Immediates
  BY <1>2 DEF Content, Immediates
<1> QED
  BY <1>1, <1>2

-----------------------------------------------------------------------------
(* Values and the places they arrive in.                                   *)

(* The code may read the value.                                            *)
HasPlace(c, v) ==
    /\ v.kind = "temp" => Mapped(c, v.id)
    /\ v.kind = "hard" => IsParamReg(v.reg)

(* What the place of a value holds: its register, or its slot.             *)
PlaceContent(c, m, v) ==
    CASE v.kind = "int" -> Number(v.value)
      [] v.kind = "temp" -> Lookup(m.regs, VirtCell(RegisterOf(c, v.id)))
      [] v.kind = "var" -> Read(m.bytes, Offset(c, v.name), v.size)
      [] OTHER -> Lookup(m.regs, BaseCell(v.reg))

(* Its cell, if it is in a register.                                       *)
PlaceCells(c, v) ==
    CASE v.kind = "temp" -> {VirtCell(RegisterOf(c, v.id))}
      [] v.kind = "hard" -> {BaseCell(v.reg)}
      [] OTHER -> {}

(* n is m after the value has been put in the location.                    *)
Arrived(c, m, n, X, l, size, value) ==
    /\ IsMachine(n)
    /\ n.outside = m.outside
    /\ n.trace = m.trace
    /\ n.pushed = m.pushed
    /\ IF IsRegister(l)
         THEN /\ n.bytes = m.bytes
              /\ Lookup(n.regs, CellOf(l)) = value
              /\ SameRegisters(c, m, n, X \cup {CellOf(l)})
       ELSE /\ n.bytes = Write(m.bytes, l.offset, size, value)
            /\ SameRegisters(c, m, n, X)

LEMMA HasPlaceKept ==
    ASSUME NEW c, NEW d, ContextOK(d), Follows(c, d), NEW v \in IRValue, HasPlace(c, v)
    PROVE  HasPlace(d, v)
BY ValueKinds DEF Follows, HasPlace, Mapped

LEMMA PlaceCellsOld ==
    ASSUME NEW c, ContextOK(c), NEW v \in IRValue, HasPlace(c, v)
    PROVE  PlaceCells(c, v) \subseteq OldCells(c)
<1>1. c.tempCounter \in Nat
  BY ContextFields
<1>2. CASE v.kind = "temp"
  <2>1. RegisterOf(c, v.id) \in 0..(c.tempCounter - 1)
    BY <1>2, ValueKinds, ContextFields DEF HasPlace
  <2> QED
    BY <1>2, <2>1 DEF PlaceCells, OldCells
<1>3. CASE v.kind = "hard"
  BY <1>3, RegisterCells DEF PlaceCells, HasPlace
<1> QED
  BY <1>2, <1>3 DEF PlaceCells

LEMMA PlaceContentKept ==
    ASSUME NEW c, NEW d, ContextOK(c), Follows(c, d), SameSlots(c, d),
           NEW m, NEW n, NEW X, Quiet(c, m, n, X), NEW v \in IRValue, HasPlace(c, v),
           PlaceCells(c, v) \cap X = {}
    PROVE  PlaceContent(d, n, v) = PlaceContent(c, m, v)
<1>1. PlaceCells(c, v) \subseteq OldCells(c)
  BY PlaceCellsOld
<1>2. v.kind \in {"temp", "var", "hard", "int"}
  BY ValueKinds
<1>3. CASE v.kind = "int"
  BY <1>3 DEF PlaceContent
<1>4. CASE v.kind = "var"
  <2>1. Offset(d, v.name) = Offset(c, v.name)
    BY DEF SameSlots, Offset
  <2>2. n.bytes = m.bytes
    BY DEF Quiet, OnlyRegisters
  <2> QED
    BY <1>4, <2>1, <2>2 DEF PlaceContent
<1>5. CASE v.kind = "temp"
  <2>1. RegisterOf(d, v.id) = RegisterOf(c, v.id)
    BY <1>5, ValueKinds DEF HasPlace, Follows, RegisterOf
  <2>2. VirtCell(RegisterOf(c, v.id)) \in OldCells(c) \ X
    BY <1>1, <1>5 DEF PlaceCells
  <2>3. PlaceContent(c, m, v) = Lookup(m.regs, VirtCell(RegisterOf(c, v.id)))
    BY <1>5 DEF PlaceContent
  <2>4. PlaceContent(d, n, v) = Lookup(n.regs, VirtCell(RegisterOf(d, v.id)))
    BY <1>5 DEF PlaceContent
  <2> QED
    BY <2>1, <2>2, <2>3, <2>4 DEF Quiet, SameRegisters
<1>6. CASE v.kind = "hard"
  <2>1. BaseCell(v.reg) \in OldCells(c) \ X
    BY <1>1, <1>6 DEF PlaceCells
  <2>2. PlaceContent(c, m, v) = Lookup(m.regs, BaseCell(v.reg))
    BY <1>6 DEF PlaceContent
  <2>3. PlaceContent(d, n, v) = Lookup(n.regs, BaseCell(v.reg))
    BY <1>6 DEF PlaceContent
  <2> QED
    BY <2>1, <2>2, <2>3 DEF Quiet, SameRegisters
<1> QED
  BY <1>2, <1>3, <1>4, <1>5, <1>6

LEMMA ArrivedAfterQuiet ==
    ASSUME NEW c, NEW d, ContextOK(c), ContextOK(d), c.tempCounter <= d.tempCounter,
           NEW m, NEW n, NEW k, NEW X, NEW Y, NEW Z, NEW l, NEW size, NEW value,
           Quiet(c, m, n, X), Arrived(d, n, k, Y, l, size, value),
           \A cell \in OldCells(c) : cell \in X \cup Y => cell \in Z
    PROVE  Arrived(c, m, k, Z, l, size, value)
<1>1. OldCells(c) \subseteq OldCells(d)
  BY OldCellsGrow
<1>2. /\ k.outside = m.outside /\ k.trace = m.trace /\ k.pushed = m.pushed
      /\ n.bytes = m.bytes
  BY DEF Quiet, OnlyRegisters, Arrived
<1>3. CASE IsRegister(l)
  <2>1. SameRegisters(c, m, k, Z \cup {CellOf(l)})
    BY <1>1, <1>3 DEF Quiet, Arrived, SameRegisters
  <2> QED
    BY <1>2, <1>3, <2>1 DEF Arrived
<1>4. CASE ~IsRegister(l)
  <2>1. SameRegisters(c, m, k, Z)
    BY <1>1, <1>4 DEF Quiet, Arrived, SameRegisters
  <2> QED
    BY <1>2, <1>4, <2>1 DEF Arrived
<1> QED
  BY <1>3, <1>4

LEMMA ArrivedIsQuiet ==
    ASSUME NEW c, NEW m, NEW n, NEW X, NEW l, NEW size, NEW value,
           Arrived(c, m, n, X, l, size, value), IsRegister(l)
    PROVE  Quiet(c, m, n, X \cup {CellOf(l)})
BY DEF Arrived, Quiet, OnlyRegisters
-----------------------------------------------------------------------------
(* The machine after an instruction.                                       *)
LEMMA SameCode ==
    ASSUME NEW c, NEW d, d.code = c.code
    PROVE  Machine(d) = Machine(c)
BY DEF Machine

LEMMA NumberedOperands ==
    ASSUME NEW c, ContextOK(c)
    PROVE  /\ Known(c) \subseteq Register(Nat)
           /\ c.tempCounter \in Nat
<1>1. c.tempCounter \in Nat
  BY ContextFields
<1> QED
  BY <1>1, MoreRegisters DEF Known

LEMMA SetArrives ==
    ASSUME NEW c, ContextOK(c), NEW m, IsMachine(m), NEW l \in Known(c), NEW value, NEW size
    PROVE  /\ Arrived(c, m, Set(m, l, value), {}, l, size, value)
           /\ Set(m, l, value).flags = m.flags
<1>1. l.kind # "int" /\ IsRegister(l)
  BY RegisterCells, RegisterKinds DEF Known
<1>2. /\ Quiet(c, m, Set(m, l, value), {CellOf(l)})
      /\ Set(m, l, value).flags = m.flags
      /\ Lookup(Set(m, l, value).regs, CellOf(l)) = value
  BY <1>1, SetQuiet
<1>3. {} \cup {CellOf(l)} = {CellOf(l)}
  OBVIOUS
<1> QED
  BY <1>1, <1>2, <1>3 DEF Arrived, Quiet, OnlyRegisters

LEMMA WriteArrives ==
    ASSUME NEW c, NEW m, IsMachine(m), NEW l \in StackLocations, NEW value, NEW size
    PROVE  LET n == [m EXCEPT !.bytes = Write(@, l.offset, size, value)]
           IN  Arrived(c, m, n, {}, l, size, value) /\ n.flags = m.flags
<1> DEFINE n == [m EXCEPT !.bytes = Write(@, l.offset, size, value)]
<1>1. /\ IsMachine(n)
      /\ n.bytes = Write(m.bytes, l.offset, size, value)
      /\ n.regs = m.regs /\ n.flags = m.flags /\ n.outside = m.outside
      /\ n.pushed = m.pushed /\ n.trace = m.trace
  BY DEF IsMachine
<1>2. ~IsRegister(l)
  BY NotRegisters
<1> HIDE DEF n
<1>3. Arrived(c, m, n, {}, l, size, value)
  BY <1>1, <1>2 DEF Arrived, SameRegisters
<1> QED
  BY <1>1, <1>3 DEF n

LEMMA RegisterToLocationArrives ==
    ASSUME NEW c, ContextOK(c), NEW l \in Locations(c), NEW reg \in Known(c)
    PROVE  LET d == Register_To_Location(c, l, reg)
           IN  /\ Arrived(c, Machine(c), Machine(d), {}, l, reg.size, Content(Machine(c), reg))
               /\ Machine(d).flags = Machine(c).flags
<1> DEFINE m == Machine(c)
<1>1. IsMachine(m) /\ \A i \in Instruction(Nat) : Machine(Emit(c, i)) = Execute(m, i)
  BY MachineEmit
<1>2. Known(c) \subseteq Register(Nat)
  BY NumberedOperands
<1> HIDE DEF m
<1>3. CASE l \in Known(c)
  <2>1. Ins("Mov", l, reg) \in Instruction(Nat)
    BY <1>2, <1>3, Instructions DEF RegisterRegister
  <2>2. Register_To_Location(c, l, reg) = Emit(c, Ins("Mov", l, reg))
    BY <1>3, RegisterKinds DEF Register_To_Location, Known
  <2>3. Machine(Emit(c, Ins("Mov", l, reg))) = Set(m, l, Content(m, reg))
    <3>1. Machine(Emit(c, Ins("Mov", l, reg))) = Execute(m, Ins("Mov", l, reg))
      BY <1>1, <2>1
    <3>2. Execute(m, Ins("Mov", l, reg)) = Set(m, l, Content(m, reg))
      BY DEF Execute, Ins, SetsAl, JumpCondition
    <3> QED
      BY <3>1, <3>2
  <2> QED
    BY <1>1, <1>3, <2>2, <2>3, SetArrives DEF m
<1>4. CASE l \in StackLocations
  <2>1. Ins("Store", l, reg) \in Instruction(Nat)
    BY <1>2, <1>4, Instructions
  <2>2. Register_To_Location(c, l, reg) = Emit(c, Ins("Store", l, reg))
    BY <1>4, NotRegisters DEF Register_To_Location
  <2>3. Machine(Emit(c, Ins("Store", l, reg)))
            = [m EXCEPT !.bytes = Write(@, l.offset, reg.size, Content(m, reg))]
    <3>1. Machine(Emit(c, Ins("Store", l, reg))) = Execute(m, Ins("Store", l, reg))
      BY <1>1, <2>1
    <3>2. Execute(m, Ins("Store", l, reg))
              = [m EXCEPT !.bytes = Write(@, l.offset, reg.size, Content(m, reg))]
      BY DEF Execute, Ins, SetsAl, JumpCondition
    <3> QED
      BY <3>1, <3>2
  <2> DEFINE n == [m EXCEPT !.bytes = Write(@, l.offset, reg.size, Content(m, reg))]
  <2>4. Arrived(c, m, n, {}, l, reg.size, Content(m, reg)) /\ n.flags = m.flags
    BY <1>1, <1>4, WriteArrives
  <2> QED
    BY <2>2, <2>3, <2>4 DEF m
<1> QED
  BY <1>3, <1>4 DEF Locations

(* Loading an immediate, or a variable from its slot, into a register.      *)
LEMMA LoadArrives ==
    ASSUME NEW c, ContextOK(c), NEW l \in Known(c), NEW size
    PROVE  /\ \A v \in Immediates :
                  /\ Arrived(c, Machine(c), Machine(Emit(c, Ins("LoadI", l, v))), {}, l, size,
                             Number(v.value))
                  /\ Machine(Emit(c, Ins("LoadI", l, v))).flags = Machine(c).flags
           /\ \A s \in StackLocations :
                  /\ Arrived(c, Machine(c), Machine(Emit(c, Ins("Load", l, s))), {}, l, size,
                             Read(Machine(c).bytes, s.offset, l.size))
                  /\ Machine(Emit(c, Ins("Load", l, s))).flags = Machine(c).flags
           /\ \A s \in StackLocations :
                  /\ Arrived(c, Machine(c), Machine(Emit(c, Ins("Lea", l, s))), {}, l, size,
                             Address(s.offset))
                  /\ Machine(Emit(c, Ins("Lea", l, s))).flags = Machine(c).flags
<1> DEFINE m == Machine(c)
<1>1. IsMachine(m) /\ \A i \in Instruction(Nat) : Machine(Emit(c, i)) = Execute(m, i)
  BY MachineEmit
<1>2. l \in Register(Nat)
  BY NumberedOperands
<1> HIDE DEF m
<1>3. ASSUME NEW v \in Immediates
      PROVE  Machine(Emit(c, Ins("LoadI", l, v))) = Set(m, l, Number(v.value))
  <2>1. Ins("LoadI", l, v) \in Instruction(Nat)
    BY <1>2, Instructions DEF RegisterImmediate
  <2>2. Content(m, v) = Number(v.value)
    BY DEF Content, Immediates
  <2>3. Machine(Emit(c, Ins("LoadI", l, v))) = Execute(m, Ins("LoadI", l, v))
    BY <1>1, <2>1
  <2>4. Execute(m, Ins("LoadI", l, v)) = Set(m, l, Content(m, v))
    BY DEF Execute, Ins, SetsAl, JumpCondition
  <2> QED
    BY <2>2, <2>3, <2>4
<1>4. ASSUME NEW s \in StackLocations
      PROVE  /\ Machine(Emit(c, Ins("Load", l, s))) = Set(m, l, Read(m.bytes, s.offset, l.size))
             /\ Machine(Emit(c, Ins("Lea", l, s))) = Set(m, l, Address(s.offset))
  <2>1. Ins("Load", l, s) \in Instruction(Nat) /\ Ins("Lea", l, s) \in Instruction(Nat)
    BY <1>2, Instructions
  <2>2. /\ Machine(Emit(c, Ins("Load", l, s))) = Execute(m, Ins("Load", l, s))
        /\ Machine(Emit(c, Ins("Lea", l, s))) = Execute(m, Ins("Lea", l, s))
    BY <1>1, <2>1
  <2>3. Execute(m, Ins("Load", l, s)) = Set(m, l, Read(m.bytes, s.offset, l.size))
    BY DEF Execute, Ins, SetsAl, JumpCondition
  <2>4. Execute(m, Ins("Lea", l, s)) = Set(m, l, Address(s.offset))
    BY DEF Execute, Ins, SetsAl, JumpCondition
  <2> QED
    BY <2>2, <2>3, <2>4
<1>5. \A value : /\ Arrived(c, m, Set(m, l, value), {}, l, size, value)
                 /\ Set(m, l, value).flags = m.flags
  BY <1>1, SetArrives
<1> QED
  BY <1>3, <1>4, <1>5 DEF m
-----------------------------------------------------------------------------
(* Moving values.                                                          *)

(* The sizes a move relies on: a variable is read with the size of the       *)
(* register it goes to, and a temporary is stored with that of its own.     *)
SizeFits(c, l, v) ==
    /\ v.kind = "var" /\ IsRegister(l) => l.size = v.size
    /\ v.kind = "temp" /\ ~IsRegister(l) => c.temp_register_mapping[v.id].size = v.size

LEMMA ToLocationArrives ==
    ASSUME NEW c, ContextOK(c), NEW l \in Locations(c), NEW v \in IRValue, HasPlace(c, v),
           SizeFits(c, l, v), ~toLocation(c, l, v).thrown
    PROVE  LET d == toLocation(c, l, v)
           IN  /\ Arrived(c, Machine(c), Machine(d), {}, l, SizeOf(v),
                          PlaceContent(c, Machine(c), v))
               /\ Machine(d).flags = Machine(c).flags
<1> DEFINE d == toLocation(c, l, v)
           m == Machine(c)
           value == PlaceContent(c, m, v)
<1>1. /\ v.kind \in {"temp", "var", "hard", "int"}
      /\ IsRegister(l) => l \in Known(c)
      /\ ~IsRegister(l) => l \in StackLocations
      /\ IsMachine(m)
  BY ValueKinds, RegisterKinds, NotRegisters, MachineEmit DEF Locations, Known
<1>2. CASE v.kind = "int" /\ IsRegister(l)
  <2>1. d = Emit(c, Ins("LoadI", l, v))
    BY <1>2 DEF toLocation, HasSlot
  <2>2. value = Number(v.value) /\ v \in Immediates
    BY <1>2, ValueKinds DEF PlaceContent
  <2> QED
    BY <1>1, <1>2, <2>1, <2>2, LoadArrives
<1>3. CASE v.kind = "int" /\ ~IsRegister(l)
  <2>1. d = Emit(c, Ins("StoreI", l, v))
    BY <1>3 DEF toLocation, HasSlot
  <2>2. value = Number(v.value) /\ v \in Immediates /\ SizeOf(v) = 4
    BY <1>3, ValueKinds DEF PlaceContent, SizeOf
  <2>3. Ins("StoreI", l, v) \in Instruction(Nat)
    BY <1>1, <1>3, <2>2, OtherInstructions
  <2>4. Machine(d) = Execute(m, Ins("StoreI", l, v))
    BY <2>1, <2>3, MachineEmit
  <2>5. Content(m, v) = value
    BY <1>3, <2>2 DEF Content
  <2>6. Execute(m, Ins("StoreI", l, v))
            = [m EXCEPT !.bytes = Write(@, l.offset, 4, Content(m, v))]
    BY DEF Execute, Ins, SetsAl, JumpCondition
  <2> DEFINE n == [m EXCEPT !.bytes = Write(@, l.offset, 4, value)]
  <2>7. Arrived(c, m, n, {}, l, 4, value) /\ n.flags = m.flags
    BY <1>1, <1>3, WriteArrives
  <2>8. Machine(d) = n
    BY <2>4, <2>5, <2>6
  <2> HIDE DEF n, m, d, value
  <2>9. Arrived(c, m, Machine(d), {}, l, SizeOf(v), value) /\ Machine(d).flags = m.flags
    BY <2>2, <2>7, <2>8
  <2> QED
    BY <2>9 DEF m, d, value
<1>4. CASE v.kind = "temp"
  <2> DEFINE reg == c.temp_register_mapping[v.id]
  <2>1. v \in Temps(TempId) /\ v.id \in TempId /\ Mapped(c, v.id)
    BY <1>4, ValueKinds DEF HasPlace
  <2>2. AllocateNewForTemp(c, v) = c /\ LocationOf(c, v) = reg /\ reg \in Known(c)
        /\ IsVirtual(reg)
    BY <1>4, <2>1, ContextFields DEF AllocateNewForTemp, Mapped, LocationOf
  <2>3. d = Register_To_Location(c, l, reg)
    BY <1>4, <2>2 DEF toLocation, HasSlot
  <2>4. Content(m, reg) = value
    BY <1>4, <2>2 DEF Content, CellOf, PlaceContent, RegisterOf, IsVirtual
  <2>5. ~IsRegister(l) => reg.size = SizeOf(v)
    BY <1>4 DEF SizeFits, SizeOf
  <2>6. /\ Arrived(c, m, Machine(d), {}, l, reg.size, value)
        /\ Machine(d).flags = m.flags
    BY <2>2, <2>3, <2>4, RegisterToLocationArrives
  <2> HIDE DEF m, d, value, reg
  <2>7. Arrived(c, m, Machine(d), {}, l, SizeOf(v), value)
    BY <2>5, <2>6 DEF Arrived
  <2> QED
    BY <2>6, <2>7 DEF m, d, value
<1>5. CASE v.kind = "hard" /\ IsRegister(l)
  <2>1. d = Throws(c)
    BY <1>5 DEF toLocation, HasSlot
  <2> QED
    BY <2>1, ThrowsFollows
<1>6. CASE v.kind = "hard" /\ ~IsRegister(l)
  <2>1. v \in Known(c) /\ SizeOf(v) = v.size
    BY <1>6, ValueKinds DEF Known, Register, SizeOf
  <2>2. d = Register_To_Location(c, l, v)
    BY <1>6 DEF toLocation, HasSlot
  <2>3. Content(m, v) = value
    BY <1>6 DEF Content, CellOf, PlaceContent, IsVirtual
  <2> QED
    BY <2>1, <2>2, <2>3, RegisterToLocationArrives
<1>7. CASE v.kind = "var" /\ ~HasSlot(c, v)
  <2>1. d = Throws(c)
    BY <1>7 DEF toLocation
  <2> QED
    BY <2>1, ThrowsFollows
<1>8. CASE v.kind = "var" /\ HasSlot(c, v) /\ IsRegister(l)
  <2> DEFINE s == LocationOf(c, v)
  <2>1. d = Emit(c, Ins("Load", l, s)) /\ s \in StackLocations
    BY <1>8, SlotLocation DEF toLocation
  <2>2. value = Read(m.bytes, s.offset, l.size)
    BY <1>8 DEF PlaceContent, LocationOf, Offset, SizeFits
  <2> QED
    BY <1>1, <1>8, <2>1, <2>2, LoadArrives
<1>9. CASE v.kind = "var" /\ HasSlot(c, v) /\ ~IsRegister(l)
  <2> DEFINE s   == LocationOf(c, v)
             reg == NewRegister(c, v.size)
             n   == AfterNewRegister(c)
             e   == Emit(n, Ins("Load", reg, s))
  <2>1. /\ ContextOK(n) /\ Follows(c, n) /\ n.code = c.code /\ n.tempCounter = c.tempCounter + 1
        /\ reg \in Known(n) /\ IsVirtual(reg) /\ reg.id = c.tempCounter
        /\ reg.size = v.size /\ v.size \in {4, 8}
    BY <1>9, ValueKinds, NewRegisterFollows DEF Follows, NewRegister, VirtualRegister
  <2>2. d = Emit(e, Ins("Store", l, reg)) /\ s \in StackLocations
    BY <1>9, SlotLocation DEF toLocation
  <2>3. Ins("Load", reg, s) \in Instruction(0..(n.tempCounter - 1))
    BY <2>1, <2>2, Instructions DEF Known
  <2>4. ContextOK(e) /\ e.tempCounter = n.tempCounter /\ reg \in Known(e)
    BY <2>1, <2>3, EmitFollows DEF Follows, Known
  <2>5. d = Register_To_Location(e, l, reg)
    BY <1>9, <2>2 DEF Register_To_Location
  <2>6. value = Read(m.bytes, s.offset, reg.size) /\ SizeOf(v) = reg.size
    BY <1>9, <2>1 DEF PlaceContent, LocationOf, Offset, SizeOf
  <2>7. Machine(n) = m
    BY <2>1, SameCode
  <2>8. /\ Arrived(n, m, Machine(e), {}, reg, reg.size, value)
        /\ Machine(e).flags = m.flags
    BY <2>1, <2>2, <2>6, <2>7, LoadArrives
  <2>9. /\ Arrived(e, Machine(e), Machine(d), {}, l, reg.size, Content(Machine(e), reg))
        /\ Machine(d).flags = Machine(e).flags
    BY <1>1, <1>9, <2>4, <2>5, RegisterToLocationArrives DEF Locations
  <2>10. Content(Machine(e), reg) = value /\ CellOf(reg) = VirtCell(c.tempCounter)
    BY <2>1, <2>8, RegisterKinds DEF Arrived, Content, Known, CellOf, IsVirtual
  <2>11. Quiet(n, m, Machine(e), {} \cup {CellOf(reg)})
    BY <2>1, <2>8, RegisterKinds, ArrivedIsQuiet DEF Known
  <2>12. CellOf(reg) \notin OldCells(c) /\ c.tempCounter \in Nat
    BY <2>10, ContextFields, RegisterCells
  <2> HIDE DEF m, d, e, n, reg, value, s
  <2>13. OldCells(c) \subseteq OldCells(n)
    BY <2>1, <2>12, OldCellsGrow
  <2>14. Quiet(c, m, Machine(e), {})
    BY <2>11, <2>12, <2>13 DEF Quiet, SameRegisters
  <2>15. Arrived(c, m, Machine(d), {}, l, SizeOf(v), value)
    BY <2>1, <2>4, <2>6, <2>9, <2>10, <2>12, <2>14, ArrivedAfterQuiet
  <2> QED
    BY <2>8, <2>9, <2>15 DEF m, d, value
<1> QED
  BY <1>1, <1>2, <1>3, <1>4, <1>5, <1>6, <1>7, <1>8, <1>9
-----------------------------------------------------------------------------
(* A value in a new register.                                              *)
NothingElse(c, d) ==
    /\ Quiet(c, Machine(c), Machine(d), {})
    /\ Machine(d).flags = Machine(c).flags

LEMMA NothingElseTrans ==
    ASSUME NEW c, NEW d, NEW e, ContextOK(c), ContextOK(d), c.tempCounter <= d.tempCounter,
           NothingElse(c, d), NothingElse(d, e)
    PROVE  NothingElse(c, e)
<1>1. Quiet(c, Machine(c), Machine(e), {})
  BY QuietTrans DEF NothingElse
<1> QED
  BY <1>1 DEF NothingElse

LEMMA NothingElseSame ==
    ASSUME NEW c, NEW d, ContextOK(c), d.code = c.code
    PROVE  NothingElse(c, d)
<1>1. Machine(d) = Machine(c) /\ IsMachine(Machine(c))
  BY SameCode, MachineEmit
<1> QED
  BY <1>1, QuietSame DEF NothingElse

LEMMA InRegisterMoves ==
    ASSUME NEW c, ContextOK(c), NEW v \in IRValue, HasPlace(c, v), NEW size \in {4, 8},
           v.kind = "var" => v.size = size, ~InRegister(c, v, size).after.thrown
    PROVE  LET r == InRegister(c, v, size)
           IN  /\ NothingElse(c, r.after)
               /\ Content(Machine(r.after), r.reg) = PlaceContent(c, Machine(c), v)
<1> DEFINE reg == NewRegister(c, size)
           n   == AfterNewRegister(c)
           d   == toLocation(n, reg, v)
           value == PlaceContent(c, Machine(c), v)
<1>1. /\ ContextOK(n) /\ Follows(c, n) /\ SameSlots(c, n)
      /\ n.code = c.code /\ n.tempCounter = c.tempCounter + 1
      /\ reg \in Known(n) /\ IsVirtual(reg) /\ reg.id = c.tempCounter
      /\ reg.size = size /\ IsRegister(reg) /\ reg.kind # "int"
      /\ n.temp_register_mapping = c.temp_register_mapping
  BY NewRegisterFollows DEF Follows, NewRegister, VirtualRegister, IsRegister, IsVirtual
<1>2. InRegister(c, v, size).reg = reg /\ InRegister(c, v, size).after = d
  BY DEF InRegister
<1>3. NothingElse(c, n) /\ Machine(n) = Machine(c) /\ c.tempCounter <= n.tempCounter
  BY <1>1, NothingElseSame, SameCode DEF Follows
<1>4. PlaceContent(n, Machine(n), v) = value
  BY <1>1, <1>3, PlaceContentKept DEF NothingElse
<1>5. HasPlace(n, v) /\ SizeFits(n, reg, v)
  BY <1>1 DEF HasPlace, Mapped, RegisterOf, SizeFits
<1>6. /\ Arrived(n, Machine(n), Machine(d), {}, reg, SizeOf(v), value)
      /\ Machine(d).flags = Machine(n).flags
  BY <1>1, <1>2, <1>4, <1>5, ToLocationArrives DEF Locations
<1>7. CellOf(reg) = VirtCell(c.tempCounter) /\ CellOf(reg) \notin OldCells(c)
  <2>1. CellOf(reg) = VirtCell(c.tempCounter)
    BY <1>1 DEF CellOf
  <2> QED
    BY <2>1, ContextFields, RegisterCells
<1>8. OldCells(c) \subseteq OldCells(n)
  BY <1>1, <1>3, OldCellsGrow
<1>9. Content(Machine(d), reg) = value
  BY <1>1, <1>6 DEF Arrived, Content
<1>10. Quiet(n, Machine(n), Machine(d), {} \cup {CellOf(reg)})
  BY <1>1, <1>6, ArrivedIsQuiet
<1> HIDE DEF n, d, reg, value
<1>11. NothingElse(c, d)
  BY <1>3, <1>6, <1>7, <1>8, <1>10 DEF Quiet, SameRegisters, NothingElse
<1> QED
  BY <1>2, <1>9, <1>11 DEF value

LEMMA EnsureRegisterMoves ==
    ASSUME NEW c, ContextOK(c), NEW v \in IRValue, HasPlace(c, v),
           ~ensureRegister(c, v).after.thrown
    PROVE  LET r == ensureRegister(c, v)
           IN  /\ NothingElse(c, r.after)
               /\ Content(Machine(r.after), r.reg) = PlaceContent(c, Machine(c), v)
               /\ r.reg.size = SizeOf(v)
               /\ IF v.kind = "hard" THEN r.reg = v ELSE CellOf(r.reg) \notin OldCells(c)
<1>1. CASE v.kind = "hard"
  <2>1. ensureRegister(c, v).reg = v /\ ensureRegister(c, v).after = c
    BY <1>1 DEF ensureRegister
  <2>2. Content(Machine(c), v) = PlaceContent(c, Machine(c), v) /\ SizeOf(v) = v.size
    BY <1>1 DEF Content, CellOf, PlaceContent, IsVirtual, SizeOf
  <2>3. NothingElse(c, c)
    BY NothingElseSame
  <2> QED
    BY <1>1, <2>1, <2>2, <2>3
<1>2. CASE v.kind # "hard"
  <2> DEFINE size == SizeOf(v)
             r == InRegister(c, v, size)
  <2>1. size \in {4, 8} /\ ensureRegister(c, v) = r /\ (v.kind = "var" => v.size = size)
    BY <1>2, ValueKinds DEF ensureRegister, SizeOf
  <2>2. r.reg = VirtualRegister(c.tempCounter, size)
    BY DEF InRegister, NewRegister
  <2>3. r.reg.size = size /\ CellOf(r.reg) = VirtCell(c.tempCounter)
    BY <2>2 DEF VirtualRegister, CellOf, IsVirtual
  <2>4. CellOf(r.reg) \notin OldCells(c)
    BY <2>3, ContextFields, RegisterCells
  <2>5. /\ NothingElse(c, r.after)
        /\ Content(Machine(r.after), r.reg) = PlaceContent(c, Machine(c), v)
    BY <2>1, InRegisterMoves
  <2> HIDE DEF r, size
  <2>6. ensureRegister(c, v).reg = r.reg /\ ensureRegister(c, v).after = r.after
    BY <2>1
  <2> QED
    BY <1>2, <2>3, <2>4, <2>5, <2>6 DEF size
<1> QED
  BY <1>1, <1>2

-----------------------------------------------------------------------------
(* Arithmetic and comparisons.                                             *)
LEMMA TwoOperandMoves ==
    ASSUME NEW c, ContextOK(c), NEW o \in {"Add", "Sub", "Cmp"}, NEW reg \in Known(c),
           NEW rhs \in Known(c) \cup Immediates
    PROVE  LET d == TwoOperand(c, o, reg, rhs)
               x == Content(Machine(c), reg)
               y == Content(Machine(c), rhs)
           IN  /\ IF o = "Cmp"
                    THEN /\ Quiet(c, Machine(c), Machine(d), {})
                         /\ Machine(d).flags = <<x, y>>
                  ELSE /\ Quiet(c, Machine(c), Machine(d), {CellOf(reg)})
                       /\ Content(Machine(d), reg) = <<o, x, y>>
<1> DEFINE m == Machine(c)
           name == IF IsRegister(rhs) THEN o ELSE ImmediateForm[o]
           i == Ins(name, reg, rhs)
           d == TwoOperand(c, o, reg, rhs)
           x == Content(m, reg)
           y == Content(m, rhs)
<1>1. /\ reg \in Register(Nat) /\ IsRegister(reg) /\ reg.kind # "int"
      /\ rhs \in Known(c) => rhs \in Register(Nat) /\ IsRegister(rhs)
      /\ rhs \in Immediates => ~IsRegister(rhs)
      /\ IsMachine(m)
  BY NumberedOperands, RegisterKinds, RegisterCells, NotRegisters, MachineEmit DEF Known
<1>2. i \in Instruction(Nat)
  BY <1>1, Instructions DEF RegisterRegister, RegisterImmediate, ImmediateForm
<1>3. Machine(d) = Execute(m, i)
  <2>1. d = Emit(c, i)
    BY DEF TwoOperand
  <2> HIDE DEF i, d
  <2> QED
    BY <1>2, <2>1, MachineEmit
<1>4. name \in IF o = "Cmp" THEN {"Cmp", "CmpI"} ELSE {o, ImmediateForm[o]}
  BY DEF ImmediateForm
<1> HIDE DEF m, d
<1>5. CASE o = "Cmp"
  <2>1. Execute(m, i) = [m EXCEPT !.flags = <<x, y>>]
    BY <1>4, <1>5 DEF Execute, Ins, SetsAl, JumpCondition
  <2> HIDE DEF i, name, x, y
  <2>2. /\ IsMachine(Machine(d)) /\ Machine(d).flags = <<x, y>>
        /\ Machine(d).regs = m.regs /\ Machine(d).bytes = m.bytes
        /\ Machine(d).outside = m.outside /\ Machine(d).pushed = m.pushed
        /\ Machine(d).trace = m.trace
    BY <1>1, <1>3, <2>1 DEF IsMachine
  <2>3. Quiet(c, m, Machine(d), {})
    BY <2>2 DEF Quiet, OnlyRegisters, SameRegisters
  <2> QED
    BY <1>5, <2>2, <2>3 DEF m, d, x, y
<1>6. CASE o # "Cmp"
  <2> DEFINE n == Set(m, reg, <<o, x, y>>)
  <2>1. name \in {"Add", "AddI", "Sub", "SubI"} /\ Arithmetic(name) = o
    BY <1>4, <1>6 DEF ImmediateForm, Arithmetic
  <2>2. Execute(m, i) = [n EXCEPT !.flags = Undefined]
    BY <2>1 DEF Execute, Ins, SetsAl, JumpCondition
  <2>3. Quiet(c, m, n, {CellOf(reg)}) /\ Content(n, reg) = <<o, x, y>>
    BY <1>1, SetQuiet
  <2> HIDE DEF i, name, x, y, n
  <2>4. /\ IsMachine(Machine(d))
        /\ Machine(d).regs = n.regs /\ Machine(d).bytes = n.bytes
        /\ Machine(d).outside = n.outside /\ Machine(d).pushed = n.pushed
        /\ Machine(d).trace = n.trace
    BY <1>3, <2>2, <2>3 DEF IsMachine, Quiet
  <2>5. Quiet(c, m, Machine(d), {CellOf(reg)})
    BY <2>3, <2>4 DEF Quiet, OnlyRegisters, SameRegisters
  <2>6. Content(Machine(d), reg) = <<o, x, y>>
    BY <1>1, <2>3, <2>4 DEF Content
  <2> QED
    BY <1>6, <2>5, <2>6 DEF m, d, x, y
<1> QED
  BY <1>5, <1>6
LEMMA SetConditionMoves ==
    ASSUME NEW c, ContextOK(c), NEW o \in SetsAl, NEW x, NEW y,
           Machine(c).flags = <<x, y>>
    PROVE  LET reg == NewRegister(c, 4)
               d == Emit(AfterNewRegister(c), Ins(o, reg, NoOperand))
           IN  /\ NothingElse(c, d)
               /\ Content(Machine(d), reg) = <<Condition[o], x, y>>
<1> DEFINE reg == NewRegister(c, 4)
           n == AfterNewRegister(c)
           i == Ins(o, reg, NoOperand)
           d == Emit(n, i)
           m == Machine(c)
           k == [m EXCEPT !.regs = Put(@, BaseCell("AX"), Undefined)]
           value == <<Condition[o], x, y>>
<1>1. /\ ContextOK(n) /\ n.code = c.code
      /\ reg \in Known(n) /\ IsVirtual(reg) /\ reg.id = c.tempCounter /\ reg.kind # "int"
  BY NewRegisterFollows DEF Follows, IsVirtual
<1>2. IsMachine(m) /\ Machine(n) = m
  BY <1>1, MachineEmit, SameCode
<1>3. i \in Instruction(Nat)
  BY <1>1, NumberedOperands, Instructions
<1>4. Machine(d) = Execute(m, i)
  <2> HIDE DEF i
  <2> QED
    BY <1>1, <1>2, <1>3, MachineEmit
<1>5. Execute(m, i) = Set(k, reg, value)
  BY DEF Execute, Ins, SetsAl, JumpCondition
<1>6. CellOf(reg) \notin OldCells(c)
  BY <1>1, ContextFields, RegisterCells DEF CellOf
<1>7. BaseCell("AX") \notin OldCells(c)
  BY RegisterCells
<1>8. /\ IsMachine(k) /\ k.flags = m.flags /\ k.bytes = m.bytes /\ k.outside = m.outside
      /\ k.trace = m.trace /\ k.pushed = m.pushed
      /\ \A cell : cell # BaseCell("AX") => Lookup(k.regs, cell) = Lookup(m.regs, cell)
  BY <1>2 DEF IsMachine, Put, Lookup
<1> HIDE DEF k, reg, i, d, m, value
<1>9. Quiet(c, m, k, {})
  BY <1>7, <1>8 DEF Quiet, OnlyRegisters, SameRegisters
<1>10. /\ Quiet(c, k, Machine(d), {CellOf(reg)}) /\ Machine(d).flags = k.flags
       /\ Content(Machine(d), reg) = value
  BY <1>1, <1>4, <1>5, <1>8, SetQuiet
<1>11. c.tempCounter <= c.tempCounter
  BY ContextFields
<1>12. Quiet(c, m, Machine(d), {})
  BY <1>6, <1>9, <1>10, <1>11, QuietTrans
<1> QED
  BY <1>8, <1>10, <1>12 DEF NothingElse, m, d, reg, i, value

(* Where the location of a destination is not changed by the code between.  *)
LEMMA ToDestinationArrives ==
    ASSUME NEW c, ContextOK(c), NEW dst, dst # NoOperand, LocationOf(c, dst) \in Locations(c),
           NEW reg \in Known(c)
    PROVE  LET d == ToDestination(c, dst, reg)
           IN  Arrived(c, Machine(c), Machine(d), {}, LocationOf(c, dst), reg.size,
                       Content(Machine(c), reg))
BY RegisterToLocationArrives DEF ToDestination

(* The value a comparison or an addition leaves.                           *)
ArthCells(c, o, reg) == IF o.op \in {"Add", "Sub"} THEN {CellOf(reg)} ELSE {}

LEMMA CreateArthMoves ==
    ASSUME NEW c, ContextOK(c), NEW o \in IROperation, o.op \in BinaryOps,
           NEW reg \in Known(c), NEW rhs \in Known(c) \cup Immediates,
           o.dst # NoOperand =>
               /\ o.dst \in Places(TempId, VarName)
               /\ LocationOf(c, o.dst) \in Locations(c)
               /\ o.dst.kind = "temp" => Mapped(c, o.dst.id),
           ~Create_Arth_Instruction(c, o, reg, rhs).thrown
    PROVE  LET d == Create_Arth_Instruction(c, o, reg, rhs)
               x == Content(Machine(c), reg)
               y == Content(Machine(c), rhs)
           IN  IF o.op = "Compare"
                 THEN /\ Quiet(c, Machine(c), Machine(d), {})
                      /\ Machine(d).flags = <<x, y>>
               ELSE Arrived(c, Machine(c), Machine(d), ArthCells(c, o, reg),
                            LocationOf(c, o.dst),
                            IF o.op \in {"Add", "Sub"} THEN reg.size ELSE 4,
                            <<o.op, x, y>>)
<1> DEFINE d == Create_Arth_Instruction(c, o, reg, rhs)
           x == Content(Machine(c), reg)
           y == Content(Machine(c), rhs)
           l == LocationOf(c, o.dst)
<1>1. IF o.op = "Compare" THEN o.dst = NoOperand
      ELSE o.dst # NoOperand /\ o.dst \in Places(TempId, VarName)
  BY OperationFields, PlaceKinds
<1>2. CASE o.op \in {"Add", "Sub"}
  <2> DEFINE e == TwoOperand(c, o.op, reg, rhs)
  <2>1. d = ToDestination(e, o.dst, reg) /\ o.op # "Compare"
    BY <1>2 DEF Create_Arth_Instruction
  <2>2. /\ ContextOK(e) /\ Follows(c, e) /\ SameSlots(c, e) /\ e.tempCounter = c.tempCounter
        /\ reg \in Known(e)
    BY <1>2, TwoOperandFollows DEF Follows, Known
  <2>3. LocationOf(e, o.dst) = l /\ l \in Locations(e)
    BY <1>1, <2>1, <2>2, LocationKept
  <2>4. /\ Quiet(c, Machine(c), Machine(e), {CellOf(reg)})
        /\ Content(Machine(e), reg) = <<o.op, x, y>>
    BY <1>2, TwoOperandMoves
  <2> HIDE DEF e, d, x, y
  <2>5. Arrived(e, Machine(e), Machine(d), {}, l, reg.size, <<o.op, x, y>>)
    BY <1>1, <2>1, <2>2, <2>3, <2>4, ToDestinationArrives
  <2>6. c.tempCounter <= e.tempCounter /\ ArthCells(c, o, reg) = {CellOf(reg)}
    BY <1>2, <2>2, ContextFields DEF ArthCells
  <2>7. Arrived(c, Machine(c), Machine(d), {CellOf(reg)}, l, reg.size, <<o.op, x, y>>)
    BY <2>2, <2>4, <2>5, <2>6, ArrivedAfterQuiet
  <2> QED
    BY <1>2, <2>1, <2>6, <2>7 DEF d, x, y
<1>3. CASE o.op \notin {"Add", "Sub"}
  <2> DEFINE compared == TwoOperand(c, "Cmp", reg, rhs)
             newReg   == NewRegister(compared, 4)
             name     == SetInstruction[o.op]
             e        == Emit(AfterNewRegister(compared), Ins(name, newReg, NoOperand))
  <2>1. /\ ContextOK(compared) /\ Follows(c, compared) /\ SameSlots(c, compared)
        /\ compared.tempCounter = c.tempCounter
    BY TwoOperandFollows DEF Follows
  <2>2. d = ToDestination(e, o.dst, newReg)
    <3>1. CASE o.op = "NotEqual" /\ ~IsRegister(rhs)
      <4>1. d = Throws(compared)
        BY <1>3, <3>1 DEF Create_Arth_Instruction
      <4> QED
        BY <2>1, <4>1, ThrowsFollows
    <3>2. CASE ~(o.op = "NotEqual" /\ ~IsRegister(rhs))
      BY <1>3, <3>2 DEF Create_Arth_Instruction
    <3> QED
      BY <3>1, <3>2
  <2>3. /\ Quiet(c, Machine(c), Machine(compared), {})
        /\ Machine(compared).flags = <<x, y>>
    BY TwoOperandMoves
  <2>4. /\ name \in SetsAl
        /\ o.op # "Compare" => Condition[name] = o.op
    BY <1>3 DEF SetInstruction, SetsAl, Condition, BinaryOps
  <2>5. /\ NothingElse(compared, e)
        /\ Content(Machine(e), newReg) = <<Condition[name], x, y>>
    BY <2>1, <2>3, <2>4, SetConditionMoves
  <2>6. /\ ContextOK(e) /\ Follows(compared, e) /\ SameSlots(compared, e)
        /\ newReg \in Known(e) /\ newReg.size = 4
    <3> DEFINE n == AfterNewRegister(compared)
    <3>1. /\ ContextOK(n) /\ Follows(compared, n) /\ SameSlots(compared, n)
          /\ newReg \in Known(n) /\ newReg.size = 4
      BY <2>1, NewRegisterFollows DEF Follows, NewRegister, VirtualRegister
    <3>2. Ins(name, newReg, NoOperand) \in Instruction(0..(n.tempCounter - 1))
      BY <2>4, <3>1, Instructions DEF Known
    <3>3. Follows(n, e) /\ SameSlots(n, e) /\ e.tempCounter = n.tempCounter
      BY <3>1, <3>2, EmitFollows
    <3>4. Follows(compared, e) /\ SameSlots(compared, e)
      BY <2>1, <3>1, <3>3, FollowsTrans
    <3> QED
      BY <3>1, <3>3, <3>4 DEF Follows, Known
  <2> HIDE DEF compared, newReg, name, e, d, x, y
  <2>7. Follows(c, e) /\ SameSlots(c, e) /\ c.tempCounter <= e.tempCounter
    BY <2>1, <2>6, FollowsTrans DEF Follows
  <2>8. Quiet(c, Machine(c), Machine(e), {}) /\ Machine(e).flags = <<x, y>>
    <3>1. c.tempCounter <= compared.tempCounter
      BY <2>1 DEF Follows
    <3> QED
      BY <2>1, <2>3, <2>5, <3>1, QuietTrans DEF NothingElse
  <2>9. CASE o.op = "Compare"
    <3>1. d = e
      BY <1>1, <2>2, <2>9 DEF ToDestination
    <3> QED
      BY <2>8, <2>9, <3>1 DEF d, x, y
  <2>10. CASE o.op # "Compare"
    <3>1. LocationOf(e, o.dst) = l /\ l \in Locations(e)
      BY <1>1, <2>7, <2>10, LocationKept
    <3>2. Arrived(e, Machine(e), Machine(d), {}, l, 4, <<o.op, x, y>>)
      BY <1>1, <2>2, <2>4, <2>5, <2>6, <2>10, <3>1, ToDestinationArrives
    <3>3. Arrived(c, Machine(c), Machine(d), {}, l, 4, <<o.op, x, y>>)
      BY <2>6, <2>7, <2>8, <3>2, ArrivedAfterQuiet
    <3>4. ArthCells(c, o, reg) = {}
      BY <1>3 DEF ArthCells
    <3> QED
      BY <1>3, <2>10, <3>3, <3>4 DEF d, x, y
  <2> QED
    BY <2>9, <2>10
<1> QED
  BY <1>2, <1>3
LEMMA NothingElseKeeps ==
    ASSUME NEW c, NEW d, ContextOK(c), Follows(c, d), SameSlots(c, d), NothingElse(c, d),
           NEW v \in IRValue, HasPlace(c, v)
    PROVE  PlaceContent(d, Machine(d), v) = PlaceContent(c, Machine(c), v)
BY PlaceContentKept DEF NothingElse

(* The register of a parameter that is added to or subtracted from.         *)
Overwritten(o) ==
    IF o.op \in {"Add", "Sub"} /\ o.left.kind = "hard" THEN {BaseCell(o.left.reg)} ELSE {}

LEMMA ArthMoves ==
    ASSUME NEW c, ContextOK(c), NEW o \in IROperation, o.op \in BinaryOps,
           HasPlace(c, o.left), HasPlace(c, o.right), ~LowerArth(c, o).thrown
    PROVE  LET a == Prepared(c, o.dst)
               d == LowerArth(c, o)
               x == PlaceContent(a, Machine(c), o.left)
               y == PlaceContent(a, Machine(c), o.right)
           IN  IF o.op = "Compare"
                 THEN /\ Quiet(a, Machine(c), Machine(d), {})
                      /\ Machine(d).flags = <<x, y>>
               ELSE Arrived(a, Machine(c), Machine(d), Overwritten(o), LocationOf(a, o.dst),
                            IF o.op \in {"Add", "Sub"} THEN SizeOf(o.left) ELSE 4,
                            <<o.op, x, y>>)
<1> DEFINE a == Prepared(c, o.dst)
           l == ensureRegister(a, o.left)
           r == IF o.right.kind = "int" /\ o.left.kind # "int"
                  THEN [reg |-> o.right, after |-> l.after]
                ELSE ensureRegister(l.after, o.right)
           d == LowerArth(c, o)
           e == r.after
           x == PlaceContent(a, Machine(c), o.left)
           y == PlaceContent(a, Machine(c), o.right)
<1>1. /\ o.left \in IRValue /\ o.right \in IRValue
      /\ o.dst \in Places(TempId, VarName) \cup {NoOperand}
      /\ o.op # "Compare" => o.dst # NoOperand
  BY OperationFields, PlaceKinds
<1>2. d = Create_Arth_Instruction(r.after, o, l.reg, r.reg) /\ ~d.thrown
  BY DEF LowerArth
<1> HIDE DEF d
<1>3. /\ ContextOK(a) /\ Follows(c, a) /\ a.code = c.code
      /\ o.dst # NoOperand => /\ LocationOf(a, o.dst) \in Locations(a)
                              /\ o.dst \in Places(TempId, VarName)
                              /\ (o.dst.kind = "temp" => Mapped(a, o.dst.id))
      /\ \A k : Follows(a, k) /\ SameSlots(a, k) /\ o.dst # NoOperand =>
                    /\ LocationOf(k, o.dst) = LocationOf(a, o.dst)
                    /\ LocationOf(k, o.dst) \in Locations(k)
  BY <1>1, PreparedFollows
<1> HIDE DEF a
<1>4. Machine(a) = Machine(c)
  BY <1>3, SameCode
<1>5. HasPlace(a, o.left) /\ HasPlace(a, o.right)
  BY <1>1, <1>3, HasPlaceKept
<1>6. Follows(a, l.after) /\ SameSlots(a, l.after) /\ l.reg \in Known(l.after)
      /\ ContextOK(l.after)
  BY <1>1, <1>3, EnsureRegisterFollows DEF Follows
<1>7. /\ Follows(l.after, e) /\ SameSlots(l.after, e) /\ ContextOK(e)
      /\ r.reg \in Known(e) \cup Immediates
  <2>1. CASE o.right.kind = "int" /\ o.left.kind # "int"
    <3>1. r.reg = o.right /\ e = l.after /\ o.right \in Immediates
      BY <1>1, <2>1, ValueKinds
    <3> QED
      BY <1>6, <3>1, FollowsSame
  <2>2. CASE ~(o.right.kind = "int" /\ o.left.kind # "int")
    <3>1. r = ensureRegister(l.after, o.right)
      BY <2>2
    <3> HIDE DEF l, r
    <3> QED
      BY <1>1, <1>6, <3>1, EnsureRegisterFollows DEF Follows
  <2> QED
    BY <2>1, <2>2
<1>8. Follows(a, e) /\ SameSlots(a, e)
  <2> HIDE DEF l, r
  <2> QED
    BY <1>3, <1>6, <1>7, FollowsTrans
<1>9. l.reg \in Known(e)
  <2> HIDE DEF l, r
  <2> QED
    BY <1>6, <1>7, KnownGrows
<1>10. ~e.thrown /\ ~l.after.thrown
  <2> HIDE DEF l, r
  <2>1. \A k : Follows(e, k) /\ SameSlots(e, k) /\ o.dst # NoOperand =>
                   LocationOf(k, o.dst) \in Locations(k)
    BY <1>3, <1>7, <1>8, FollowsTrans
  <2>2. Follows(e, d)
    BY <1>2, <1>7, <1>9, <2>1, CreateArthFollows
  <2> QED
    BY <1>2, <1>7, <2>2 DEF Follows
<1>11. /\ NothingElse(a, l.after)
       /\ Content(Machine(l.after), l.reg) = x
       /\ l.reg.size = SizeOf(o.left)
       /\ IF o.left.kind = "hard" THEN l.reg = o.left ELSE CellOf(l.reg) \notin OldCells(a)
  BY <1>1, <1>3, <1>4, <1>5, <1>10, EnsureRegisterMoves
<1>12. HasPlace(l.after, o.right) /\ PlaceContent(l.after, Machine(l.after), o.right) = y
  BY <1>1, <1>3, <1>4, <1>5, <1>6, <1>11, HasPlaceKept, NothingElseKeeps
<1>13. NothingElse(l.after, e) /\ Content(Machine(e), r.reg) = y
  <2>1. CASE o.right.kind = "int" /\ o.left.kind # "int"
    <3>1. r.reg = o.right /\ e = l.after
      BY <2>1
    <3>2. \A m : Content(m, o.right) = y
      BY <2>1 DEF Content, PlaceContent
    <3> HIDE DEF l, r
    <3> QED
      BY <1>6, <3>1, <3>2, NothingElseSame
  <2>2. CASE ~(o.right.kind = "int" /\ o.left.kind # "int")
    <3>1. r = ensureRegister(l.after, o.right)
      BY <2>2
    <3> HIDE DEF l, r, y
    <3> QED
      BY <1>1, <1>6, <1>10, <1>12, <3>1, EnsureRegisterMoves
  <2> QED
    BY <2>1, <2>2
<1> HIDE DEF l, r, x, y
<1>14. Content(Machine(e), l.reg) = x
  <2>1. IsHardcoded(l.reg) => IsParamReg(l.reg.reg)
    <3>1. CASE o.left.kind = "hard"
      BY <1>5, <1>11, <3>1 DEF HasPlace
    <3>2. CASE o.left.kind # "hard"
      <4>1. IsVirtual(l.reg)
        <5>1. l.reg = VirtualRegister(a.tempCounter, SizeOf(o.left))
          BY <3>2 DEF l, ensureRegister, InRegister, NewRegister
        <5> QED
          BY <5>1 DEF VirtualRegister, IsVirtual
      <4> QED
        BY <4>1 DEF IsVirtual, IsHardcoded
    <3> QED
      BY <3>1, <3>2
  <2> QED
    BY <1>6, <1>11, <1>13, <2>1, ContentKept DEF NothingElse, Quiet
<1>15. NothingElse(a, e) /\ a.tempCounter <= e.tempCounter
  BY <1>3, <1>6, <1>8, <1>11, <1>13, NothingElseTrans DEF Follows
<1>16. o.dst # NoOperand => /\ LocationOf(e, o.dst) = LocationOf(a, o.dst)
                            /\ LocationOf(e, o.dst) \in Locations(e)
                            /\ o.dst \in Places(TempId, VarName)
                            /\ o.dst.kind = "temp" => Mapped(e, o.dst.id)
  <2>1. o.dst # NoOperand /\ o.dst.kind = "temp" => Mapped(e, o.dst.id)
    BY <1>3, <1>8, PlaceKinds, ValueKinds DEF Follows, Mapped
  <2> QED
    BY <1>3, <1>8, <2>1
<1>17. IF o.op = "Compare"
         THEN /\ Quiet(e, Machine(e), Machine(d), {})
              /\ Machine(d).flags = <<x, y>>
       ELSE Arrived(e, Machine(e), Machine(d), ArthCells(e, o, l.reg), LocationOf(e, o.dst),
                    IF o.op \in {"Add", "Sub"} THEN l.reg.size ELSE 4, <<o.op, x, y>>)
  BY <1>2, <1>7, <1>9, <1>13, <1>14, <1>16, CreateArthMoves
<1>18. CASE o.op = "Compare"
  <2>1. Quiet(a, Machine(c), Machine(d), {})
    BY <1>3, <1>4, <1>7, <1>15, <1>17, <1>18, QuietTrans DEF NothingElse
  <2> QED
    BY <1>17, <1>18, <2>1 DEF a, d, x, y
<1>19. CASE o.op # "Compare"
  <2> DEFINE Z == Overwritten(o)
             size == IF o.op \in {"Add", "Sub"} THEN SizeOf(o.left) ELSE 4
  <2>1. \A cell \in OldCells(a) : cell \in {} \cup ArthCells(e, o, l.reg) => cell \in Z
    <3>1. CASE o.left.kind = "hard" /\ o.op \in {"Add", "Sub"}
      <4>1. CellOf(l.reg) = BaseCell(o.left.reg)
        BY <1>11, <3>1 DEF CellOf, IsVirtual
      <4> QED
        BY <3>1, <4>1 DEF ArthCells, Overwritten
    <3>2. CASE ~(o.left.kind = "hard" /\ o.op \in {"Add", "Sub"})
      BY <1>11, <3>2 DEF ArthCells
    <3> QED
      BY <3>1, <3>2
  <2>2. Arrived(e, Machine(e), Machine(d), ArthCells(e, o, l.reg), LocationOf(a, o.dst),
                size, <<o.op, x, y>>)
    BY <1>1, <1>11, <1>16, <1>17, <1>19
  <2> HIDE DEF Z, size
  <2>3. Arrived(a, Machine(c), Machine(d), Z, LocationOf(a, o.dst), size, <<o.op, x, y>>)
    BY <1>3, <1>4, <1>7, <1>15, <2>1, <2>2, ArrivedAfterQuiet DEF NothingElse
  <2> QED
    BY <1>19, <2>3 DEF a, d, x, y, Z, size
<1> QED
  BY <1>18, <1>19
-----------------------------------------------------------------------------
(* The other operations.                                                   *)
LEMMA MovMoves ==
    ASSUME NEW c, ContextOK(c), NEW o \in IROperation, o.op \in {"Mov", "MovR"},
           HasPlace(c, o.src), ~LowerMov(c, o).thrown,
           SizeFits(AllocateNew(c, o.dst), LocationOf(AllocateNew(c, o.dst), o.dst), o.src)
    PROVE  LET a == AllocateNew(c, o.dst)
               d == LowerMov(c, o)
           IN  /\ Arrived(a, Machine(c), Machine(d), {}, LocationOf(a, o.dst), SizeOf(o.src),
                          PlaceContent(a, Machine(c), o.src))
               /\ Machine(d).flags = Machine(c).flags
<1> DEFINE a == AllocateNew(c, o.dst)
           d == LowerMov(c, o)
<1>1. o.dst \in Places(TempId, VarName) /\ o.src \in IRValue
  BY OperationFields
<1>2. /\ ContextOK(a) /\ Follows(c, a) /\ a.code = c.code
      /\ LocationOf(a, o.dst) \in Locations(a)
  BY <1>1, AllocateFollows DEF Follows
<1>3. d = toLocation(a, LocationOf(a, o.dst), o.src)
  BY DEF LowerMov
<1>4. Machine(a) = Machine(c) /\ HasPlace(a, o.src)
  BY <1>1, <1>2, SameCode, HasPlaceKept
<1> HIDE DEF a, d
<1>5. SizeFits(a, LocationOf(a, o.dst), o.src) /\ ~d.thrown
  BY DEF a, d
<1>6. /\ Arrived(a, Machine(a), Machine(d), {}, LocationOf(a, o.dst), SizeOf(o.src),
                 PlaceContent(a, Machine(a), o.src))
      /\ Machine(d).flags = Machine(a).flags
  BY <1>1, <1>2, <1>3, <1>4, <1>5, ToLocationArrives
<1> QED
  BY <1>4, <1>6 DEF a, d

LEMMA RetMoves ==
    ASSUME NEW c, ContextOK(c), NEW o \in IROperation, o.op = "Ret",
           HasPlace(c, o.value), ~LowerRet(c, o).thrown
    PROVE  \E n : /\ Quiet(c, Machine(c), n, {})
                  /\ n.flags = Machine(c).flags
                  /\ Machine(LowerRet(c, o))
                         = Record(n, <<"Return", PlaceContent(c, Machine(c), o.value)>>)
<1> DEFINE ax == HardcodedRegister("AX", SizeOf(o.value))
           e  == toLocation(c, ax, o.value)
           i  == Ins("Jump", NoOperand, LabelName("end"))
           d  == LowerRet(c, o)
           n  == Machine(e)
           value == PlaceContent(c, Machine(c), o.value)
<1>1. o.value \in IRValue /\ SizeOf(o.value) \in {4, 8}
  BY OperationFields, ValueKinds
<1>2. /\ ax \in Known(c) /\ ax \in Locations(c) /\ IsRegister(ax) /\ CellOf(ax) = BaseCell("AX")
      /\ ax.size = SizeOf(o.value)
  <2>1. "AX" \in BaseRegister
    BY DEF BaseRegister
  <2>2. ax \in Known(c) /\ ax \in Locations(c)
    BY <1>1, <2>1, HardcodedKnown
  <2> QED
    BY <2>2 DEF HardcodedRegister, IsRegister, IsHardcoded, IsVirtual, CellOf
<1>3. SizeFits(c, ax, o.value)
  BY <1>2 DEF SizeFits, SizeOf
<1>4. /\ d = Emit(e, i)
      /\ ~d.thrown
  BY DEF LowerRet
<1>5. ContextOK(e) /\ Follows(c, e)
  BY <1>1, <1>2, ToLocationFollows DEF Follows
<1>6. i \in Instruction(Nat) /\ i \in Instruction(0..(e.tempCounter - 1))
  BY OtherInstructions DEF LabelOnly, LabelNames, LabelName
<1>7. ~e.thrown
  <2> HIDE DEF e, i
  <2> QED
    BY <1>4, <1>5, <1>6, EmitFollows
<1>8. Arrived(c, Machine(c), n, {}, ax, SizeOf(o.value), value) /\ n.flags = Machine(c).flags
  BY <1>1, <1>2, <1>3, <1>7, ToLocationArrives
<1>9. Machine(d) = Execute(n, i)
  <2> HIDE DEF e, i
  <2> QED
    BY <1>4, <1>5, <1>6, MachineEmit
<1>10. Execute(n, i) = Record(n, <<"Return", Lookup(n.regs, BaseCell("AX"))>>)
  BY DEF Execute, Ins, SetsAl, JumpCondition, LabelName
<1> HIDE DEF n, d, value, i, e, ax
<1>11. Lookup(n.regs, BaseCell("AX")) = value
  BY <1>2, <1>8 DEF Arrived
<1>12. Quiet(c, Machine(c), n, {} \cup {BaseCell("AX")})
  BY <1>2, <1>8, ArrivedIsQuiet
<1>13. Quiet(c, Machine(c), n, {})
  BY <1>12, RegisterCells DEF Quiet, SameRegisters
<1> QED
  BY <1>8, <1>9, <1>10, <1>11, <1>13 DEF d, value

LEMMA AddrMoves ==
    ASSUME NEW c, ContextOK(c), NEW o \in IROperation, o.op = "Addr", ~LowerAddr(c, o).thrown
    PROVE  LET a == AllocateNewForTemp(c, o.dst)
               d == LowerAddr(c, o)
           IN  /\ HasSlot(c, o.src)
               /\ Follows(a, d) /\ SameSlots(a, d)
               /\ Arrived(a, Machine(c), Machine(d), {}, LocationOf(a, o.dst), 8,
                          Address(LocationOf(d, o.src).offset))
               /\ Machine(d).flags = Machine(c).flags
<1> DEFINE a == AllocateNewForTemp(c, o.dst)
           d == LowerAddr(c, o)
           s == LocationOf(a, o.src)
           i == Ins("Lea", LocationOf(a, o.dst), s)
<1>1. o.dst \in Temps(TempId) /\ o.src \in IRValue
  BY OperationFields
<1>2. HasSlot(c, o.src)
  <2>1. CASE ~HasSlot(c, o.src)
    <3>1. d = Throws(c)
      BY <2>1 DEF LowerAddr
    <3> QED
      BY <3>1, ThrowsFollows
  <2> QED
    BY <2>1
<1>3. d = Emit(a, i)
  BY <1>2 DEF LowerAddr
<1>4. /\ ContextOK(a) /\ Follows(c, a) /\ SameSlots(c, a) /\ a.code = c.code
      /\ LocationOf(a, o.dst) \in Known(a)
  BY <1>1, AllocateTempFollows DEF Follows
<1>5. s = LocationOf(c, o.src) /\ s \in StackLocations
  BY <1>1, <1>2, <1>4, SlotLocation DEF SameSlots, LocationOf, HasSlot
<1>6. Machine(a) = Machine(c)
  BY <1>4, SameCode
<1>7. i \in Instruction(0..(a.tempCounter - 1))
  BY <1>4, <1>5, Instructions DEF Known
<1> HIDE DEF a, d
<1>8. Follows(a, d) /\ SameSlots(a, d)
  BY <1>3, <1>4, <1>7, EmitFollows
<1>9. LocationOf(d, o.src) = s
  BY <1>2, <1>8 DEF SameSlots, LocationOf, HasSlot
<1>10. /\ Arrived(a, Machine(a), Machine(d), {}, LocationOf(a, o.dst), 8, Address(s.offset))
       /\ Machine(d).flags = Machine(a).flags
  BY <1>3, <1>4, <1>5, LoadArrives
<1> QED
  BY <1>2, <1>6, <1>8, <1>9, <1>10 DEF a, d

LEMMA DerefStoreMoves ==
    ASSUME NEW c, ContextOK(c), NEW o \in IROperation, o.op = "DerefStore",
           HasPlace(c, o.dst), HasPlace(c, o.src), SizeOf(o.dst) = 8,
           ~LowerDerefStore(c, o).thrown
    PROVE  \E n : /\ Quiet(c, Machine(c), n, {})
                  /\ n.flags = Machine(c).flags
                  /\ Machine(LowerDerefStore(c, o))
                         = StoreAt(n, PlaceContent(c, Machine(c), o.dst), SizeOf(o.src),
                                   PlaceContent(c, Machine(c), o.src))
<1> DEFINE p == InRegister(c, o.dst, 8)
           q == InRegister(p.after, o.src, SizeOf(o.src))
           e == q.after
           i == Ins("IndirectStore", p.reg, q.reg)
           d == LowerDerefStore(c, o)
           address == PlaceContent(c, Machine(c), o.dst)
           value   == PlaceContent(c, Machine(c), o.src)
<1>1. /\ o.dst \in IRValue /\ o.src \in IRValue /\ SizeOf(o.src) \in {4, 8}
      /\ o.dst.kind = "var" => o.dst.size = 8
      /\ o.src.kind = "var" => o.src.size = SizeOf(o.src)
  BY OperationFields, ValueKinds DEF SizeOf
<1>2. d = Emit(e, i) /\ ~d.thrown
  BY DEF LowerDerefStore
<1>3. /\ Follows(c, p.after) /\ ContextOK(p.after) /\ SameSlots(c, p.after)
      /\ p.reg \in Known(p.after) \ HardRegisters
  BY <1>1, InRegisterFollows DEF Follows
<1>4. /\ Follows(p.after, e) /\ ContextOK(e) /\ SameSlots(p.after, e)
      /\ q.reg \in Known(e) \ HardRegisters
      /\ q.reg = NewRegister(p.after, SizeOf(o.src))
  <2> HIDE DEF p
  <2>1. Follows(p.after, q.after) /\ SameSlots(p.after, q.after)
    BY <1>1, <1>3, InRegisterFollows
  <2>2. q.reg \in Known(q.after) \ HardRegisters
    BY <1>1, <1>3, InRegisterFollows
  <2>3. q.reg = NewRegister(p.after, SizeOf(o.src))
    BY DEF InRegister
  <2> HIDE DEF q
  <2> QED
    BY <2>1, <2>2, <2>3 DEF Follows
<1>5. q.reg.size = SizeOf(o.src)
  BY <1>4 DEF NewRegister, VirtualRegister
<1> HIDE DEF p, q
<1>6. p.reg \in Known(e)
  BY <1>3, <1>4, KnownGrows
<1>7. i \in Instruction(Nat) /\ i \in Instruction(0..(e.tempCounter - 1))
  BY <1>4, <1>6, NumberedOperands, Instructions DEF RegisterRegister, Known
<1>8. ~e.thrown /\ ~p.after.thrown
  <2>1. ~e.thrown
    <3> HIDE DEF e, i
    <3> QED
      BY <1>2, <1>4, <1>7, EmitFollows
  <2> QED
    BY <1>4, <2>1 DEF Follows
<1>9. NothingElse(c, p.after) /\ Content(Machine(p.after), p.reg) = address
  BY <1>1, <1>8, InRegisterMoves DEF p
<1>10. HasPlace(p.after, o.src) /\ PlaceContent(p.after, Machine(p.after), o.src) = value
  BY <1>1, <1>3, <1>9, HasPlaceKept, NothingElseKeeps
<1>11. NothingElse(p.after, e) /\ Content(Machine(e), q.reg) = value
  BY <1>1, <1>3, <1>8, <1>10, InRegisterMoves DEF q
<1>12. Content(Machine(e), p.reg) = address
  <2>1. ~IsHardcoded(p.reg)
    BY <1>3, RegisterKinds DEF Known
  <2> QED
    BY <1>3, <1>9, <1>11, <2>1, ContentKept DEF NothingElse, Quiet
<1>13. NothingElse(c, e)
  BY <1>3, <1>9, <1>11, NothingElseTrans DEF Follows
<1>14. Machine(d) = Execute(Machine(e), i)
  <2> HIDE DEF e, i
  <2> QED
    BY <1>2, <1>4, <1>7, MachineEmit
<1>15. Execute(Machine(e), i)
           = StoreAt(Machine(e), Content(Machine(e), p.reg), q.reg.size,
                     Content(Machine(e), q.reg))
  BY DEF Execute, Ins, SetsAl, JumpCondition
<1> HIDE DEF d, e, i, address, value
<1>16. Machine(d) = StoreAt(Machine(e), address, SizeOf(o.src), value)
  BY <1>5, <1>11, <1>12, <1>14, <1>15
<1> QED
  BY <1>13, <1>16 DEF NothingElse, d, address, value
-----------------------------------------------------------------------------
(* Following a pointer: chain is what the pointer is after each hop.       *)
LEMMA ChainMoves ==
    ASSUME NEW c, ContextOK(c), NEW slot \in StackLocations, NEW hops \in Nat, NEW chain,
           chain[0] = Read(Machine(c).bytes, slot.offset, 8),
           \A k \in 1..hops : chain[k] = LoadAt(Machine(c), chain[k - 1], 8)
    PROVE  LET d == FollowPointer(c, slot, hops)
           IN  /\ NothingElse(c, d)
               /\ Content(Machine(d), Hop(c, hops)) = chain[hops]
<1> DEFINE d == FollowPointer(c, slot, hops)
           L == Len(c.code)
           m == Machine(c)
           n(k) == After(X86Start, d.code)[L + 1 + k]
           S == {k \in 0..hops : /\ Quiet(c, m, n(k), {})
                                 /\ n(k).flags = m.flags
                                 /\ Lookup(n(k).regs, VirtCell(c.tempCounter + k)) = chain[k]}
<1>1. /\ c.code \in Seq(Instruction(Nat)) /\ L \in Nat /\ c.tempCounter \in Nat
      /\ IsMachine(m)
  BY ContextFields, MachineEmit
<1>2. /\ d.code \in Seq(Instruction(Nat))
      /\ Len(d.code) = L + 1 + hops
      /\ \A k \in 1..L : d.code[k] = c.code[k]
      /\ d.code[L + 1] = Ins("Load", Hop(c, 0), slot)
      /\ \A k \in 1..hops :
             d.code[L + 1 + k] = Ins("IndirectLoad", Hop(c, k), Hop(c, k - 1))
  <2>1. ContextOK(d)
    BY FollowPointerFollows DEF Follows
  <2>2. d.code \in Seq(Instruction(Nat))
    BY <2>1, ContextFields
  <2>4. Len(d.code) = L + 1 + hops
    BY FollowPointerFollows
  <2> HIDE DEF d
  <2> QED
    BY <2>2, <2>4, FollowPointerFollows DEF d
<1>3. \A k \in 0..hops : /\ Hop(c, k).kind = "virt" /\ Hop(c, k).size = 8
                         /\ CellOf(Hop(c, k)) = VirtCell(c.tempCounter + k)
                         /\ VirtCell(c.tempCounter + k) \notin OldCells(c)
  BY <1>1, RegisterCells DEF Hop, VirtualRegister, CellOf, IsVirtual
<1> HIDE DEF d
<1>4. After(X86Start, d.code)[L] = m
  <2>1. After(X86Start, d.code)[L] = After(X86Start, c.code)[L]
    BY <1>1, <1>2, AfterPrefix
  <2> QED
    BY <2>1, RunIsAfter DEF Machine
<1>5. \A k \in 1..(L + 1 + hops) :
          After(X86Start, d.code)[k] = Execute(After(X86Start, d.code)[k - 1], d.code[k])
  BY <1>1, <1>2, AfterSteps
<1> HIDE DEF m, L
<1>6. 0 \in S
  <2>1. L + 1 \in 1..(L + 1 + hops) /\ (L + 1) - 1 = L /\ L + 1 + 0 = L + 1
        /\ c.tempCounter + 0 = c.tempCounter /\ 0 \in 0..hops
    BY <1>1
  <2>2. n(0) = Execute(m, Ins("Load", Hop(c, 0), slot))
    BY <1>2, <1>4, <1>5, <2>1
  <2>3. Execute(m, Ins("Load", Hop(c, 0), slot)) = Set(m, Hop(c, 0), chain[0])
    <3>1. Execute(m, Ins("Load", Hop(c, 0), slot))
              = Set(m, Hop(c, 0), Read(m.bytes, slot.offset, Hop(c, 0).size))
      BY DEF Execute, Ins, SetsAl, JumpCondition
    <3> QED
      BY <1>3, <2>1, <3>1 DEF m
  <2>4. /\ Quiet(c, m, n(0), {CellOf(Hop(c, 0))}) /\ n(0).flags = m.flags
        /\ Lookup(n(0).regs, CellOf(Hop(c, 0))) = chain[0]
    <3>1. Hop(c, 0).kind # "int"
      BY <1>3, <2>1
    <3> HIDE DEF n
    <3> QED
      BY <1>1, <2>2, <2>3, <3>1, SetQuiet
  <2>5. CellOf(Hop(c, 0)) = VirtCell(c.tempCounter + 0)
        /\ CellOf(Hop(c, 0)) \notin OldCells(c)
    BY <1>3, <2>1
  <2>6. Quiet(c, m, n(0), {})
    BY <2>4, <2>5 DEF Quiet, SameRegisters
  <2> HIDE DEF n
  <2> QED
    BY <2>1, <2>4, <2>5, <2>6
<1>7. ASSUME NEW k \in 0..(hops - 1), k \in S PROVE k + 1 \in S
  <2> DEFINE from == Hop(c, k)
             to   == Hop(c, k + 1)
  <2>1. /\ L + 1 + (k + 1) \in 1..(L + 1 + hops) /\ (L + 1 + (k + 1)) - 1 = L + 1 + k
        /\ k + 1 \in 1..hops /\ k + 1 \in 0..hops /\ (k + 1) - 1 = k /\ k \in 0..hops
    BY <1>1
  <2>2. d.code[L + 1 + (k + 1)] = Ins("IndirectLoad", to, from)
    BY <1>2, <2>1
  <2>3. n(k + 1) = Execute(n(k), Ins("IndirectLoad", to, from))
    BY <1>5, <2>1, <2>2
  <2>4. /\ Quiet(c, m, n(k), {}) /\ n(k).flags = m.flags
        /\ Lookup(n(k).regs, VirtCell(c.tempCounter + k)) = chain[k]
    BY <1>7
  <2>5. Content(n(k), from) = chain[k]
    BY <1>3, <2>1, <2>4 DEF Content
  <2> HIDE DEF n
  <2>6. LoadAt(n(k), chain[k], 8) = chain[k + 1]
    <3>1. n(k).bytes = m.bytes /\ n(k).outside = m.outside
      BY <2>4 DEF Quiet, OnlyRegisters
    <3>2. LoadAt(n(k), chain[k], 8) = LoadAt(m, chain[k], 8)
      BY <3>1 DEF LoadAt
    <3> QED
      BY <2>1, <3>2 DEF m
  <2>7. Execute(n(k), Ins("IndirectLoad", to, from)) = Set(n(k), to, chain[k + 1])
    <3>1. Execute(n(k), Ins("IndirectLoad", to, from))
              = Set(n(k), to, LoadAt(n(k), Content(n(k), from), to.size))
      <4> HIDE DEF from, to
      <4> QED
        BY DEF Execute, Ins, SetsAl, JumpCondition
    <3>2. to.size = 8
      BY <1>3, <2>1
    <3> QED
      BY <2>5, <2>6, <3>1, <3>2
  <2>8. to.kind # "int" /\ IsMachine(n(k))
    BY <1>3, <2>1, <2>4 DEF Quiet
  <2>9. CellOf(to) = VirtCell(c.tempCounter + (k + 1)) /\ CellOf(to) \notin OldCells(c)
    BY <1>3, <2>1
  <2> HIDE DEF to, from
  <2>10. /\ Quiet(c, n(k), n(k + 1), {CellOf(to)}) /\ n(k + 1).flags = n(k).flags
         /\ Lookup(n(k + 1).regs, CellOf(to)) = chain[k + 1]
    BY <2>3, <2>7, <2>8, SetQuiet
  <2>11. Quiet(c, m, n(k + 1), {})
    BY <2>4, <2>9, <2>10 DEF Quiet, SameRegisters, OnlyRegisters
  <2> QED
    BY <2>1, <2>4, <2>9, <2>10, <2>11
<1> HIDE DEF S
<1>8. 0..hops \subseteq S
  BY <1>6, <1>7, RangeInduction
<1>9. hops \in S /\ hops \in 0..hops
  BY <1>8
<1>10. n(hops) = Machine(d)
  BY <1>2, RunIsAfter DEF Machine
<1>11. /\ Quiet(c, m, n(hops), {}) /\ n(hops).flags = m.flags
       /\ Lookup(n(hops).regs, VirtCell(c.tempCounter + hops)) = chain[hops]
  <2> HIDE DEF n
  <2> QED
    BY <1>9 DEF S
<1> HIDE DEF n
<1>12. Content(Machine(d), Hop(c, hops)) = chain[hops]
  BY <1>3, <1>9, <1>10, <1>11 DEF Content
<1> QED
  BY <1>10, <1>11, <1>12 DEF NothingElse, m, d
LEMMA DerefMoves ==
    ASSUME NEW c, ContextOK(c), NEW o \in IROperation, o.op = "Deref",
           ~LowerDeref(c, o).thrown, NEW chain,
           chain[0] = Read(Machine(c).bytes, LocationOf(c, o.src).offset, 8),
           \A k \in 1..Hops(o.depth) : chain[k] = LoadAt(Machine(c), chain[k - 1], 8)
    PROVE  LET e == FollowPointer(c, LocationOf(c, o.src), Hops(o.depth))
               a == AllocateNewForTemp(e, o.dst)
               d == LowerDeref(c, o)
               l == LocationOf(a, o.dst)
           IN  /\ HasSlot(c, o.src)
               /\ Follows(e, a)
               /\ Follows(a, d) /\ SameSlots(c, d)
               /\ e.temp_register_mapping = c.temp_register_mapping
               /\ ContextOK(e)
               /\ Arrived(c, Machine(c), Machine(d), {}, l, l.size,
                          LoadAt(Machine(c), chain[Hops(o.depth)], l.size))
               /\ Machine(d).flags = Machine(c).flags
<1> DEFINE hops == Hops(o.depth)
           s == LocationOf(c, o.src)
           e == FollowPointer(c, s, hops)
           a == AllocateNewForTemp(e, o.dst)
           l == LocationOf(a, o.dst)
           i == Ins("IndirectLoad", l, Hop(c, hops))
           d == LowerDeref(c, o)
           value == LoadAt(Machine(c), chain[hops], l.size)
<1>1. o.dst \in Temps(TempId) /\ o.src \in IRValue /\ hops \in Nat
  BY OperationFields DEF Hops
<1>2. HasSlot(c, o.src)
  <2>1. CASE ~HasSlot(c, o.src)
    <3>1. d = Throws(c)
      BY <2>1 DEF LowerDeref
    <3> QED
      BY <3>1, ThrowsFollows
  <2> QED
    BY <2>1
<1>3. d = Emit(a, i)
  BY <1>2 DEF LowerDeref, Hops
<1>4. s \in StackLocations
  BY <1>1, <1>2, SlotLocation
<1> HIDE DEF s
<1>5. /\ ContextOK(e) /\ Follows(c, e) /\ SameSlots(c, e)
      /\ e.temp_register_mapping = c.temp_register_mapping
      /\ e.tempCounter = c.tempCounter + hops + 1
      /\ Hop(c, hops) \in Known(e)
  BY <1>1, <1>4, FollowPointerFollows DEF Follows
<1>6. NothingElse(c, e) /\ Content(Machine(e), Hop(c, hops)) = chain[hops]
  BY <1>1, <1>4, ChainMoves DEF s
<1> HIDE DEF e
<1>7. /\ ContextOK(a) /\ Follows(e, a) /\ SameSlots(e, a) /\ a.code = e.code
      /\ l \in Known(a)
  BY <1>1, <1>5, AllocateTempFollows DEF Follows
<1>8. Machine(a) = Machine(e)
  BY <1>7, SameCode
<1> HIDE DEF a
<1>9. Hop(c, hops) \in Known(a)
  BY <1>5, <1>7, KnownGrows
<1>10. i \in Instruction(Nat) /\ i \in Instruction(0..(a.tempCounter - 1))
  BY <1>7, <1>9, NumberedOperands, Instructions DEF RegisterRegister, Known
<1> HIDE DEF l, d
<1>11. Follows(a, d) /\ SameSlots(a, d)
  <2> HIDE DEF i
  <2> QED
    BY <1>3, <1>7, <1>10, EmitFollows
<1>12. Follows(c, a) /\ SameSlots(c, a)
  BY <1>5, <1>7, FollowsTrans
<1>13. Follows(c, d) /\ SameSlots(c, d)
  BY <1>7, <1>11, <1>12, FollowsTrans
<1>14. Machine(d) = Execute(Machine(e), i)
  <2> HIDE DEF i
  <2> QED
    BY <1>3, <1>7, <1>8, <1>10, MachineEmit
<1>15. Execute(Machine(e), i)
           = Set(Machine(e), l, LoadAt(Machine(e), Content(Machine(e), Hop(c, hops)), l.size))
  BY DEF Execute, Ins, SetsAl, JumpCondition
<1>16. LoadAt(Machine(e), chain[hops], l.size) = value
  BY <1>6 DEF NothingElse, Quiet, OnlyRegisters, LoadAt
<1> HIDE DEF i, value
<1>17. Machine(d) = Set(Machine(e), l, value)
  BY <1>6, <1>14, <1>15, <1>16
<1>18. /\ Arrived(a, Machine(e), Machine(d), {}, l, l.size, value)
       /\ Machine(d).flags = Machine(e).flags
  BY <1>6, <1>7, <1>17, SetArrives DEF NothingElse, Quiet
<1>19. c.tempCounter <= a.tempCounter
  BY <1>12 DEF Follows
<1>20. Arrived(c, Machine(c), Machine(d), {}, l, l.size, value)
  BY <1>6, <1>7, <1>18, <1>19, ArrivedAfterQuiet DEF NothingElse
<1> QED
  BY <1>2, <1>5, <1>6, <1>7, <1>11, <1>13, <1>18, <1>20
     DEF NothingElse, d, l, a, e, s, value

-----------------------------------------------------------------------------
(* Labels and jumps.                                                       *)
LEMMA LabelsMove ==
    ASSUME NEW c, ContextOK(c), NEW o \in IROperation
    PROVE  /\ o.op = "LabelDef" =>
                  Machine(Lower(c, o)) = Record(Machine(c), <<"Label", o.label>>)
           /\ o.op = "Jump" =>
                  Machine(Lower(c, o)) = Record(Machine(c), <<"Jump", o.label>>)
           /\ o.op \in CondJumps =>
                  Machine(Lower(c, o))
                      = Record(Record(Machine(c), <<o.op, Machine(c).flags, o.trueLabel>>),
                               <<"Jump", o.falseLabel>>)
<1>1. ASSUME NEW d, ContextOK(d), NEW i \in LabelOnly, NEW name \in Labels
      PROVE  LET e == Emit(d, Ins(i, NoOperand, LabelName(name)))
             IN  /\ ContextOK(e)
                 /\ Machine(e) = Execute(Machine(d), Ins(i, NoOperand, LabelName(name)))
                 /\ i = "Label" => Machine(e) = Record(Machine(d), <<"Label", name>>)
                 /\ i = "Jump" => Machine(e) = Record(Machine(d), <<"Jump", name>>)
                 /\ i \in DOMAIN JumpCondition =>
                        Machine(e) = Record(Machine(d),
                                            <<JumpCondition[i], Machine(d).flags, name>>)
  <2> DEFINE x == Ins(i, NoOperand, LabelName(name))
             e == Emit(d, x)
             m == Machine(d)
  <2>1. name \in STRING /\ name # "end"
    BY DEF Labels
  <2>2. x \in Instruction(Nat) /\ x \in Instruction(0..(d.tempCounter - 1))
    BY <2>1, OtherInstructions DEF LabelNames, LabelName
  <2>3. ContextOK(e) /\ Machine(e) = Execute(m, x)
    <3> HIDE DEF x
    <3> QED
      BY <1>1, <2>2, EmitFollows, MachineEmit DEF Follows
  <2> HIDE DEF m
  <2>4. i = "Label" => Execute(m, x) = Record(m, <<"Label", name>>)
    BY DEF Execute, Ins, SetsAl, JumpCondition, LabelName
  <2>5. i = "Jump" => Execute(m, x) = Record(m, <<"Jump", name>>)
    BY <2>1 DEF Execute, Ins, SetsAl, JumpCondition, LabelName
  <2>6. i \in DOMAIN JumpCondition =>
            Execute(m, x) = Record(m, <<JumpCondition[i], m.flags, name>>)
    BY DEF Execute, Ins, SetsAl, JumpCondition, LabelName
  <2> QED
    BY <2>3, <2>4, <2>5, <2>6 DEF m
<1>2. ASSUME o.op = "LabelDef"
      PROVE  Machine(Lower(c, o)) = Record(Machine(c), <<"Label", o.label>>)
  <2>1. o.label \in Labels /\ "Label" \in LabelOnly
    BY <1>2, OperationFields DEF LabelOnly
  <2>2. Lower(c, o) = Emit(c, Ins("Label", NoOperand, LabelName(o.label)))
    BY <1>2, LowerCases
  <2>3. Machine(Emit(c, Ins("Label", NoOperand, LabelName(o.label))))
            = Record(Machine(c), <<"Label", o.label>>)
    BY <1>1, <2>1
  <2> QED
    BY <2>2, <2>3
<1>3. ASSUME o.op = "Jump"
      PROVE  Machine(Lower(c, o)) = Record(Machine(c), <<"Jump", o.label>>)
  <2>1. o.label \in Labels /\ "Jump" \in LabelOnly
    BY <1>3, OperationFields DEF LabelOnly
  <2>2. Lower(c, o) = Emit(c, Ins("Jump", NoOperand, LabelName(o.label)))
    BY <1>3, LowerCases
  <2>3. Machine(Emit(c, Ins("Jump", NoOperand, LabelName(o.label))))
            = Record(Machine(c), <<"Jump", o.label>>)
    BY <1>1, <2>1
  <2> QED
    BY <2>2, <2>3
<1>4. ASSUME o.op \in CondJumps
      PROVE  Machine(Lower(c, o))
                 = Record(Record(Machine(c), <<o.op, Machine(c).flags, o.trueLabel>>),
                          <<"Jump", o.falseLabel>>)
  <2> DEFINE i == JumpInstruction[o.op]
             e == Emit(c, Ins(i, NoOperand, LabelName(o.trueLabel)))
             d == Emit(e, Ins("Jump", NoOperand, LabelName(o.falseLabel)))
  <2>1. /\ o.trueLabel \in Labels /\ o.falseLabel \in Labels
        /\ "Jump" \in LabelOnly /\ i \in LabelOnly
        /\ i \in DOMAIN JumpCondition /\ JumpCondition[i] = o.op
    BY <1>4, OperationFields DEF LabelOnly, CondJumps, JumpInstruction, JumpCondition
  <2>2. Lower(c, o) = d
    BY <1>4, LowerCases DEF LowerConditionalJump
  <2> HIDE DEF i
  <2>3. /\ ContextOK(e)
        /\ Machine(e) = Record(Machine(c), <<o.op, Machine(c).flags, o.trueLabel>>)
    BY <1>1, <2>1
  <2> HIDE DEF e
  <2>4. Machine(d) = Record(Machine(e), <<"Jump", o.falseLabel>>)
    BY <1>1, <2>1, <2>3
  <2> QED
    BY <2>2, <2>3, <2>4
<1> QED
  BY <1>2, <1>3, <1>4

-----------------------------------------------------------------------------
(* Calls.                                                                  *)
LEMMA PassMoves ==
    ASSUME NEW c, ContextOK(c), NEW v \in IRValue, HasPlace(c, v), NEW index \in Nat,
           ~PassArgument(c, v, index).thrown
    PROVE  LET d == PassArgument(c, v, index)
               m == Machine(c)
               value == PlaceContent(c, m, v)
           IN  IF index < 6
                 THEN LET l == HardcodedRegister(param_regs[index + 1], SizeOf(v)) IN
                      Arrived(c, m, Machine(d), {}, l, SizeOf(v), value)
               ELSE \E n : /\ Quiet(c, m, n, {})
                           /\ Machine(d) = [n EXCEPT !.pushed = <<value>> \o @]
<1> DEFINE d == PassArgument(c, v, index)
           m == Machine(c)
           value == PlaceContent(c, m, v)
<1>0. ~d.thrown /\ v.kind \in {"temp", "var", "hard", "int"} /\ SizeOf(v) \in {4, 8}
  BY ValueKinds
<1>1. CASE index < 6
  <2> DEFINE l == HardcodedRegister(param_regs[index + 1], SizeOf(v))
  <2>1. d = toLocation(c, l, v)
    BY <1>1 DEF PassArgument, PassedInRegister
  <2>2. param_regs[index + 1] \in BaseRegister
    BY <1>1, ParamRegisters
  <2>3. l \in Locations(c) /\ SizeFits(c, l, v)
    <3>1. l \in Locations(c) /\ IsRegister(l)
      BY <1>0, <2>2, HardcodedKnown DEF IsRegister
    <3>2. l.size = SizeOf(v)
      BY DEF HardcodedRegister
    <3> QED
      BY <3>1, <3>2 DEF SizeFits, SizeOf
  <2> HIDE DEF l
  <2>4. Arrived(c, m, Machine(d), {}, l, SizeOf(v), value)
    BY <1>0, <2>1, <2>3, ToLocationArrives
  <2> QED
    BY <1>1, <2>4 DEF l
<1>2. CASE ~(index < 6) /\ v.kind = "int"
  <2> DEFINE i == Ins("PushI", NoOperand, v)
  <2>1. d = Emit(c, i)
    BY <1>2 DEF PassArgument, PassedInRegister
  <2>2. i \in Instruction(Nat)
    BY <1>2, ValueKinds, OtherInstructions
  <2>3. Machine(d) = Execute(m, i)
    <3> HIDE DEF i, d
    <3> QED
      BY <2>1, <2>2, MachineEmit
  <2>4. Content(m, v) = value
    BY <1>2 DEF Content, PlaceContent
  <2>5. Execute(m, i) = [m EXCEPT !.pushed = <<Content(m, v)>> \o @]
    BY DEF Execute, Ins, SetsAl, JumpCondition
  <2>6. Quiet(c, m, m, {})
    BY MachineEmit, QuietSame
  <2> HIDE DEF i, d, value
  <2>7. Machine(d) = [m EXCEPT !.pushed = <<value>> \o @]
    BY <2>3, <2>4, <2>5
  <2> QED
    BY <1>2, <2>6, <2>7 DEF d, value
<1>3. CASE ~(index < 6) /\ HasSlot(c, v)
  <2> DEFINE r == InRegister(c, v, SizeOf(v))
             e == r.after
             i == Ins("Push", NoOperand, r.reg)
  <2>1. d = Emit(e, i) /\ v.kind = "var"
    BY <1>3 DEF PassArgument, PassedInRegister, HasSlot
  <2>2. /\ ContextOK(e) /\ r.reg \in Known(e) \ HardRegisters
    BY <1>0, InRegisterFollows DEF Follows
  <2>3. i \in Instruction(Nat) /\ i \in Instruction(0..(e.tempCounter - 1))
    <3> HIDE DEF r
    <3> QED
      BY <2>2, NumberedOperands, Instructions DEF Known
  <2>4. ~e.thrown
    <3> HIDE DEF e, i, d
    <3> QED
      BY <1>0, <2>1, <2>2, <2>3, EmitFollows
  <2>5. NothingElse(c, e) /\ Content(Machine(e), r.reg) = value
    <3>1. v.kind = "var" => v.size = SizeOf(v)
      BY DEF SizeOf
    <3> QED
      BY <1>0, <2>4, <3>1, InRegisterMoves
  <2>6. Machine(d) = Execute(Machine(e), i)
    <3> HIDE DEF i, e, d
    <3> QED
      BY <2>1, <2>2, <2>3, MachineEmit
  <2>7. Execute(Machine(e), i)
            = [Machine(e) EXCEPT !.pushed = <<Content(Machine(e), r.reg)>> \o @]
    <3> HIDE DEF r
    <3> QED
      BY DEF Execute, Ins, SetsAl, JumpCondition
  <2> HIDE DEF i, d, value, e, r
  <2>8. Machine(d) = [Machine(e) EXCEPT !.pushed = <<value>> \o @]
    BY <2>5, <2>6, <2>7
  <2> QED
    BY <1>3, <2>5, <2>8 DEF d, value, NothingElse
<1>4. CASE ~(index < 6) /\ v.kind # "int" /\ ~HasSlot(c, v)
  <2>1. d = Throws(c)
    BY <1>4 DEF PassArgument, PassedInRegister
  <2> QED
    BY <1>0, <2>1, ThrowsFollows
<1> QED
  BY <1>1, <1>2, <1>3, <1>4

LEMMA FinishMoves ==
    ASSUME NEW c, ContextOK(c), NEW o \in IROperation, o.op = "Call", Mapped(c, o.dst.id)
    PROVE  LET d == FinishCall(c, o)
               m == Machine(c)
               n == Machine(d)
               cell == VirtCell(RegisterOf(c, o.dst.id))
           IN  /\ IsMachine(n)
               /\ n.bytes = m.bytes /\ n.outside = m.outside /\ n.pushed = << >>
               /\ n.trace = Append(m.trace,
                                   <<"Call", o.name,
                                     [k \in 1..6 |-> Lookup(m.regs, BaseCell(param_regs[k]))],
                                     m.pushed>>)
               /\ Lookup(n.regs, cell) = <<"result", Len(m.trace) + 1>>
               /\ \A id : VirtCell(id) # cell =>
                      Lookup(n.regs, VirtCell(id)) = Lookup(m.regs, VirtCell(id))
<1> DEFINE ax == HardcodedRegister("AX", SizeOf(o.dst))
           i == Ins("Call", ax, LabelName(o.name))
           e == Emit(c, i)
           l == LocationOf(c, o.dst)
           d == FinishCall(c, o)
           m == Machine(c)
           k == Machine(e)
           n == Machine(d)
           cell == VirtCell(RegisterOf(c, o.dst.id))
           value == <<"result", Len(m.trace) + 1>>
           event == <<"Call", o.name,
                      [j \in 1..6 |-> Lookup(m.regs, BaseCell(param_regs[j]))], m.pushed>>
<1>1. /\ o.dst \in Temps(TempId) /\ o.dst.id \in TempId /\ o.dst.kind = "temp"
      /\ SizeOf(o.dst) \in {4, 8} /\ o.name \in STRING
  BY OperationFields DEF Temps, SizeOf
<1>2. /\ l \in Known(c) /\ IsVirtual(l) /\ CellOf(l) = cell /\ l.id = RegisterOf(c, o.dst.id)
      /\ l \in Locations(c)
  BY <1>1, ContextFields DEF LocationOf, CellOf, RegisterOf, Locations
<1>3. ax \in Known(c) /\ CellOf(ax) = BaseCell("AX")
  <2>1. "AX" \in BaseRegister
    BY DEF BaseRegister
  <2>2. ax \in Known(c)
    BY <1>1, <2>1, HardcodedKnown
  <2> QED
    BY <2>2 DEF HardcodedRegister, CellOf, IsVirtual
<1> HIDE DEF ax
<1>4. i \in Instruction(Nat) /\ i \in Instruction(0..(c.tempCounter - 1))
  BY <1>1, <1>3, NumberedOperands, Instructions DEF LabelNames, LabelName, Known
<1>5. k = Execute(m, i) /\ IsMachine(m)
  <2> HIDE DEF i
  <2> QED
    BY <1>4, MachineEmit
<1>6. /\ ContextOK(e) /\ ax \in Known(e) /\ l \in Known(e)
      /\ d = Register_To_Location(e, l, ax)
  <2>1. d = Register_To_Location(e, l, ax)
    BY DEF FinishCall, ax
  <2> HIDE DEF i, d
  <2> QED
    BY <1>2, <1>3, <1>4, <2>1, EmitFollows DEF Follows, Known
<1>7. Execute(m, i) = AfterCall(m, i)
  BY DEF Execute, Ins, SetsAl, JumpCondition
<1> DEFINE virt == [x \in {y \in DOMAIN m.regs : y[1] = "virt"} |-> m.regs[x]]
           regs == Put(virt, BaseCell("AX"), value)
<1>8. AfterCall(m, i) = [Record(m, event) EXCEPT !.regs = regs, !.flags = Undefined,
                                                 !.pushed = << >>]
  <2>1. i.dst = ax /\ i.src.name = o.name
    BY DEF Ins, LabelName
  <2>2. DOMAIN param_regs = 1..6
    BY ParamRegisters
  <2> HIDE DEF i, m
  <2> QED
    BY <1>3, <1>5, <2>1, <2>2 DEF AfterCall, Record, IsMachine
<1> HIDE DEF i, m, k, regs, event
<1>9. /\ IsMachine(k) /\ k.regs = regs /\ k.bytes = m.bytes /\ k.outside = m.outside
      /\ k.pushed = << >> /\ k.trace = Append(m.trace, event)
  BY <1>5, <1>7, <1>8 DEF IsMachine, Record
<1>10. /\ Lookup(regs, BaseCell("AX")) = value
       /\ \A id : Lookup(regs, VirtCell(id)) = Lookup(m.regs, VirtCell(id))
  <2>1. Lookup(regs, BaseCell("AX")) = value
    BY DEF regs, Put, Lookup
  <2>2. ASSUME NEW id PROVE Lookup(regs, VirtCell(id)) = Lookup(m.regs, VirtCell(id))
    <3>1. VirtCell(id) # BaseCell("AX") /\ VirtCell(id)[1] = "virt"
      BY DEF VirtCell, BaseCell
    <3>2. Lookup(regs, VirtCell(id)) = Lookup(virt, VirtCell(id))
      <4> HIDE DEF virt
      <4> QED
        BY <3>1 DEF regs, Put, Lookup
    <3>3. Lookup(virt, VirtCell(id)) = Lookup(m.regs, VirtCell(id))
      BY <3>1 DEF Lookup
    <3> QED
      BY <3>2, <3>3
  <2> QED
    BY <2>1, <2>2
<1>11. Content(k, ax) = value
  <2>1. ax.kind # "int"
    BY <1>3, RegisterCells
  <2> QED
    BY <1>3, <1>9, <1>10, <2>1 DEF Content
<1>12. n = Set(k, l, value)
  <2>1. Ins("Mov", l, ax) \in Instruction(Nat)
    BY <1>6, NumberedOperands, Instructions DEF RegisterRegister
  <2>2. d = Emit(e, Ins("Mov", l, ax))
    BY <1>2, <1>6 DEF Register_To_Location, IsRegister
  <2>3. n = Execute(k, Ins("Mov", l, ax))
    <3> HIDE DEF e, d
    <3> QED
      BY <1>6, <2>1, <2>2, MachineEmit DEF k
  <2>4. Execute(k, Ins("Mov", l, ax)) = Set(k, l, Content(k, ax))
    BY DEF Execute, Ins, SetsAl, JumpCondition
  <2> QED
    BY <1>11, <2>3, <2>4
<1> HIDE DEF n, d, l, value, cell, e
<1>13. /\ IsMachine(n) /\ n.regs = Put(k.regs, cell, value) /\ n.bytes = k.bytes
       /\ n.outside = k.outside /\ n.pushed = k.pushed /\ n.trace = k.trace
  BY <1>2, <1>9, <1>12, SetFields
<1>14. /\ Lookup(n.regs, cell) = value
       /\ \A id : VirtCell(id) # cell => Lookup(n.regs, VirtCell(id)) = Lookup(m.regs, VirtCell(id))
  <2>1. /\ Lookup(n.regs, cell) = value
        /\ \A x : x # cell => Lookup(n.regs, x) = Lookup(k.regs, x)
    BY <1>13 DEF Put, Lookup
  <2> QED
    BY <1>9, <1>10, <2>1
<1> QED
  BY <1>9, <1>13, <1>14 DEF n, d, m, event, cell, value
=============================================================================
