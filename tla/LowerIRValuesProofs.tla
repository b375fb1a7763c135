------------------------ MODULE LowerIRValuesProofs ------------------------
(***************************************************************************)
(* The lowered code computes what the operations compute: StateSimulated,   *)
(* TraceSimulated, ArgumentsDelivered and StaysInFrame, for every program of *)
(* linear IR operations.                                                   *)
(*                                                                         *)
(* The proof is a forward simulation.  Simulated relates the context, the   *)
(* state of ir and that of the machine after the code so far: every register *)
(* and every byte the Ctx has given out holds what ir holds.  For each       *)
(* operation that goes right there is a lemma that lowering it keeps the     *)
(* relation; during a call, Passing also says where the arguments are.      *)
(***************************************************************************)
EXTENDS LoweredCodeProofs, FiniteSetTheorems

IsIR(r) == DOMAIN r = {"temps", "vars", "flags", "params", "outside", "trace",
                       "pushed", "defined"}

TempsHeld(c, r, m) ==
    \A t \in DOMAIN r.temps :
        /\ t \in TempId
        /\ Mapped(c, t)
        /\ Lookup(m.regs, VirtCell(RegisterOf(c, t))) = r.temps[t]

VarsHeld(c, r, m, f) ==
    \A v \in VariablesOf(f) :
        v.name \in DOMAIN r.vars =>
            /\ Placed(c, v.name)
            /\ Holds(m.bytes, Offset(c, v.name), v.size, r.vars[v.name])

(* The bytes of the caller, and where the frame ends.                      *)
FrameKept(c, r, m) ==
    /\ \A d \in DOMAIN m.bytes :
           d \in Int /\ PushedOffset(PushedOnEntry) < d /\ d <= c.stackOffset
    /\ \A d \in Saved : d \in DOMAIN m.bytes /\ m.bytes[d] = SavedByte(d)
    /\ r.pushed \in 0..PushedOnEntry
    /\ c.stackPassedParameterOffset = 16 + 8 * r.pushed
    /\ \A k \in r.pushed..(PushedOnEntry - 1) :
           Holds(m.bytes, PushedOffset(k), 8, <<"pushed", k>>)

State(c, r, m, f) ==
    /\ IsIR(r)
    /\ IsMachine(m)
    /\ TempsHeld(c, r, m)
    /\ VarsHeld(c, r, m, f)
    /\ m.outside = r.outside
    /\ FrameKept(c, r, m)

ParamsHeld(r, m) ==
    \A reg \in r.params :
        IsParamReg(reg) /\ Lookup(m.regs, BaseCell(reg)) = <<"parameter", reg>>

(* What holds between operations only.                                     *)
Between(r, m) ==
    /\ ParamsHeld(r, m)
    /\ r.flags # Undefined => m.flags = r.flags
    /\ m.pushed = << >>

(* A temporary's register has its size.                                    *)
SizesOK(c, f) ==
    \A n \in DOMAIN f :
        LET t == Target(f[n]) IN
        t.kind = "temp" /\ Mapped(c, t.id) => c.temp_register_mapping[t.id].size = t.size

-----------------------------------------------------------------------------
(* Traces.                                                                 *)
Listed(s) == s \in Seq({s[n] : n \in DOMAIN s})

(* The parameters hold the arguments: the last six in registers, the last    *)
(* of them in the first, the others pushed in their order.                 *)
Delivered(args, regs, pushed) ==
    /\ Listed(args) /\ Listed(regs) /\ Listed(pushed)
    /\ Len(regs) = 6
    /\ Len(pushed) = IF Len(args) > 6 THEN Len(args) - 6 ELSE 0
    /\ \A j \in 1..6 : j <= Len(args) => regs[j] = args[Len(args) + 1 - j]
    /\ \A k \in 1..Len(pushed) : pushed[k] = args[k]

EventsAgree(e, x) ==
    IF IsCall(e) THEN IsCall(x) /\ x[2] = e[2] /\ Delivered(e[3], x[3], x[4]) ELSE x = e

TracesAgree(s, t) ==
    /\ Listed(s) /\ Listed(t)
    /\ Len(t) = Len(s)
    /\ \A n \in 1..Len(s) : EventsAgree(s[n], t[n])

LEMMA ListedFunction ==
    ASSUME NEW n \in Nat, NEW s, s = [k \in 1..n |-> s[k]]
    PROVE  Listed(s) /\ Len(s) = n /\ DOMAIN s = 1..n
<1> DEFINE S == {s[k] : k \in DOMAIN s}
<1>1. s \in [1..n -> S]
  OBVIOUS
<1> HIDE DEF S
<1>2. s \in Seq(S)
  BY <1>1, SeqDef, Zenon
<1>3. Len(s) = n /\ DOMAIN s = 1..n
  BY <1>1, <1>2
<1> QED
  BY <1>2, <1>3 DEF Listed, S

LEMMA ListedAppend ==
    ASSUME NEW s, Listed(s), NEW e
    PROVE  /\ Listed(Append(s, e))
           /\ Len(s) \in Nat /\ DOMAIN s = 1..Len(s)
           /\ Len(Append(s, e)) = Len(s) + 1
           /\ \A n \in 1..Len(s) : Append(s, e)[n] = s[n]
           /\ Append(s, e)[Len(s) + 1] = e
<1> DEFINE S == {s[k] : k \in DOMAIN s} \cup {e}
           t == Append(s, e)
<1>1. s \in Seq(S)
  <2>1. s \in Seq({s[k] : k \in DOMAIN s})
    BY DEF Listed
  <2> DEFINE R == {s[k] : k \in DOMAIN s}
  <2>2. R \subseteq S
    OBVIOUS
  <2> HIDE DEF R, S
  <2>3. s \in Seq(R)
    BY <2>1 DEF R
  <2> QED
    BY <2>2, <2>3
<1>2. e \in S
  OBVIOUS
<1> HIDE DEF S
<1>3. /\ t \in Seq(S) /\ Len(s) \in Nat /\ DOMAIN s = 1..Len(s) /\ Len(t) = Len(s) + 1
      /\ \A n \in 1..Len(s) : t[n] = s[n]
      /\ t[Len(s) + 1] = e
  BY <1>1, <1>2
<1>4. t = [k \in 1..(Len(s) + 1) |-> t[k]]
  <2> HIDE DEF t
  <2> QED
    BY <1>3
<1>5. Listed(t)
  <2> HIDE DEF t
  <2> QED
    BY <1>3, <1>4, ListedFunction
<1> QED
  BY <1>3, <1>5

LEMMA ListedEmpty == Listed(<< >>)
BY DEF Listed

LEMMA TracesAppend ==
    ASSUME NEW s, NEW t, TracesAgree(s, t), NEW e, NEW x, EventsAgree(e, x)
    PROVE  TracesAgree(Append(s, e), Append(t, x))
<1>1. /\ Listed(Append(s, e)) /\ Len(s) \in Nat
      /\ Len(Append(s, e)) = Len(s) + 1
      /\ \A n \in 1..Len(s) : Append(s, e)[n] = s[n]
      /\ Append(s, e)[Len(s) + 1] = e
  BY ListedAppend DEF TracesAgree
<1>2. /\ Listed(Append(t, x))
      /\ Len(Append(t, x)) = Len(t) + 1
      /\ \A n \in 1..Len(t) : Append(t, x)[n] = t[n]
      /\ Append(t, x)[Len(t) + 1] = x
  BY ListedAppend DEF TracesAgree
<1>3. Len(t) = Len(s) /\ \A n \in 1..Len(s) : EventsAgree(s[n], t[n])
  BY DEF TracesAgree
<1> DEFINE u == Append(s, e)
           w == Append(t, x)
<1> HIDE DEF u, w
<1>4. ASSUME NEW n \in 1..Len(u) PROVE EventsAgree(u[n], w[n])
  <2>1. n \in 1..Len(s) \/ n = Len(s) + 1
    BY <1>1 DEF u
  <2> QED
    BY <1>1, <1>2, <1>3, <2>1 DEF u, w
<1> QED
  BY <1>1, <1>2, <1>3, <1>4 DEF TracesAgree, u, w
-----------------------------------------------------------------------------
(* What an operation does to the state of ir.                              *)
LEMMA AssignFields ==
    ASSUME NEW r, IsIR(r), NEW dst, NEW value
    PROVE  LET q == Assign(r, dst, value)
           IN  /\ IsIR(q)
               /\ q.flags = r.flags /\ q.params = r.params /\ q.outside = r.outside
               /\ q.trace = r.trace /\ q.pushed = r.pushed /\ q.defined = r.defined
               /\ dst.kind = "temp" =>
                      q.temps = Put(r.temps, dst.id, value) /\ q.vars = r.vars
               /\ dst.kind # "temp" =>
                      q.vars = Put(r.vars, dst.name, value) /\ q.temps = r.temps
<1>1. CASE dst.kind = "temp"
  BY <1>1 DEF Assign, IsIR
<1>2. CASE dst.kind # "temp"
  BY <1>2 DEF Assign, IsIR
<1> QED
  BY <1>1, <1>2

LEMMA RecordIR ==
    ASSUME NEW r, IsIR(r), NEW event
    PROVE  LET q == Record(r, event)
           IN  /\ IsIR(q)
               /\ q.temps = r.temps /\ q.vars = r.vars /\ q.flags = r.flags
               /\ q.params = r.params /\ q.outside = r.outside /\ q.pushed = r.pushed
               /\ q.defined = r.defined
               /\ q.trace = Append(r.trace, event)
BY DEF Record, IsIR

LEMMA AfterBinaryIR ==
    ASSUME NEW r, IsIR(r), NEW o
    PROVE  LET q == AfterBinary(r, o)
           IN  /\ IsIR(q)
               /\ q.temps = r.temps /\ q.vars = r.vars /\ q.trace = r.trace
               /\ q.outside = r.outside /\ q.pushed = r.pushed /\ q.defined = r.defined
               /\ q.flags = Undefined
               /\ q.params \subseteq r.params
               /\ \A reg \in q.params : BaseCell(reg) \notin Overwritten(o)
<1>1. CASE o.op \in {"Add", "Sub"} /\ o.left.kind = "hard"
  BY <1>1, Cells DEF AfterBinary, IsIR, Overwritten
<1>2. CASE ~(o.op \in {"Add", "Sub"} /\ o.left.kind = "hard")
  BY <1>2 DEF AfterBinary, IsIR, Overwritten
<1> QED
  BY <1>1, <1>2

(* Effect, case by case.                                                   *)
LEMMA MovEffect ==
    ASSUME NEW r, NEW c, NEW o, o.op \in {"Mov", "MovR"}
    PROVE  Effect(r, c, o) = Assign(r, o.dst, ValueOf(r, o.src))
BY DEF Effect, BinaryOps, CondJumps

LEMMA ArthEffect ==
    ASSUME NEW r, NEW c, NEW o, o.op \in BinaryOps \ {"Compare"}
    PROVE  Effect(r, c, o) = Assign(AfterBinary(r, o), o.dst,
                                    <<o.op, ValueOf(r, o.left), ValueOf(r, o.right)>>)
BY DEF Effect, BinaryOps, CondJumps

LEMMA CompareEffect ==
    ASSUME NEW r, NEW c, NEW o, o.op = "Compare"
    PROVE  Effect(r, c, o) = [r EXCEPT !.flags = <<ValueOf(r, o.left), ValueOf(r, o.right)>>]
BY DEF Effect, BinaryOps, CondJumps

LEMMA AddrEffect ==
    ASSUME NEW r, NEW c, NEW o, o.op = "Addr"
    PROVE  Effect(r, c, o) = Assign(r, o.dst, Address(LocationOf(c, o.src).offset))
BY DEF Effect, BinaryOps, CondJumps

LEMMA DerefEffect ==
    ASSUME NEW r, NEW c, NEW o, o.op = "Deref"
    PROVE  Effect(r, c, o)
               = Assign(r, o.dst, At(r, c, Followed(r, c, o.src, Hops(o.depth))[Hops(o.depth)],
                                     o.dst.size))
BY DEF Effect, BinaryOps, CondJumps

LEMMA DerefStoreEffect ==
    ASSUME NEW r, NEW c, NEW o, o.op = "DerefStore"
    PROVE  Effect(r, c, o) = StoreThrough(r, c, ValueOf(r, o.dst), o.src)
BY DEF Effect, BinaryOps, CondJumps

LEMMA DefineEffect ==
    ASSUME NEW r, NEW c, NEW o, o.op = "DefineStackPushed"
    PROVE  Effect(r, c, o) = [r EXCEPT !.vars = Put(@, o.name, <<"pushed", r.pushed>>),
                                       !.pushed = @ + 1]
BY DEF Effect, BinaryOps, CondJumps

CallEvent(r, o) == <<"Call", o.name, [n \in DOMAIN o.args |-> ValueOf(r, o.args[n])]>>
AfterEvent(r, event) == [Record(r, event) EXCEPT !.params = {}, !.flags = Undefined]

LEMMA CallEffect ==
    ASSUME NEW r, NEW c, NEW o, o.op = "Call"
    PROVE  Effect(r, c, o)
               = Assign(AfterEvent(r, CallEvent(r, o)), o.dst, <<"result", Len(r.trace) + 1>>)
BY DEF Effect, BinaryOps, CondJumps, AfterEvent, CallEvent

LEMMA LabelEffect ==
    ASSUME NEW r, NEW c, NEW o
    PROVE  /\ o.op = "Ret" => Effect(r, c, o) = Record(r, <<"Return", ValueOf(r, o.value)>>)
           /\ o.op = "LabelDef" => Effect(r, c, o) = Record(r, <<"Label", o.label>>)
           /\ o.op = "Jump" => Effect(r, c, o) = Record(r, <<"Jump", o.label>>)
BY DEF Effect, BinaryOps, CondJumps

LEMMA JumpEffect ==
    ASSUME NEW r, NEW c, NEW o, o.op \in CondJumps
    PROVE  Effect(r, c, o) = Record(Record(r, <<o.op, r.flags, o.trueLabel>>),
                                    <<"Jump", o.falseLabel>>)
BY DEF Effect, BinaryOps, CondJumps

LEMMA AfterEventIR ==
    ASSUME NEW r, IsIR(r), NEW event
    PROVE  LET q == AfterEvent(r, event)
           IN  /\ IsIR(q)
               /\ q.temps = r.temps /\ q.vars = r.vars /\ q.outside = r.outside
               /\ q.pushed = r.pushed /\ q.defined = r.defined
               /\ q.flags = Undefined /\ q.params = {}
               /\ q.trace = Append(r.trace, event)
BY DEF AfterEvent, Record, IsIR

LEMMA StoreThroughFields ==
    ASSUME NEW r, IsIR(r), NEW c, NEW address, NEW src
    PROVE  LET q == StoreThrough(r, c, address, src)
           IN  IsIR(q) /\ q.defined = r.defined
<1>1. CASE IsAddress(address)
  BY <1>1, AssignFields DEF StoreThrough
<1>2. CASE ~IsAddress(address)
  BY <1>2 DEF StoreThrough, IsIR
<1> QED
  BY <1>1, <1>2

(* An operation that does not go wrong leaves defined as it was.            *)
LEMMA EffectFields ==
    ASSUME NEW r, IsIR(r), NEW c, NEW o \in IROperation
    PROVE  IsIR(Effect(r, c, o)) /\ Effect(r, c, o).defined = r.defined
<1>1. \A q, dst, value : IsIR(q) /\ q.defined = r.defined =>
          IsIR(Assign(q, dst, value)) /\ Assign(q, dst, value).defined = r.defined
  BY AssignFields
<1>2. CASE o.op \in {"Mov", "MovR"}
  BY <1>1, <1>2, MovEffect
<1>3. CASE o.op = "Addr"
  BY <1>1, <1>3, AddrEffect
<1>4. CASE o.op = "Deref"
  BY <1>1, <1>4, DerefEffect
<1>5. CASE o.op \in BinaryOps \ {"Compare"}
  <2> DEFINE q == AfterBinary(r, o)
             value == <<o.op, ValueOf(r, o.left), ValueOf(r, o.right)>>
  <2>1. IsIR(q) /\ q.defined = r.defined
    BY AfterBinaryIR
  <2>2. Effect(r, c, o) = Assign(q, o.dst, value)
    BY <1>5, ArthEffect
  <2> HIDE DEF q, value
  <2> QED
    BY <1>1, <2>1, <2>2
<1>6. CASE o.op = "Compare"
  <2> DEFINE value == <<ValueOf(r, o.left), ValueOf(r, o.right)>>
  <2>1. Effect(r, c, o) = [r EXCEPT !.flags = value]
    BY <1>6, CompareEffect
  <2> HIDE DEF value
  <2> QED
    BY <2>1 DEF IsIR
<1>7. CASE o.op = "DerefStore"
  BY <1>7, StoreThroughFields, DerefStoreEffect
<1>8. CASE o.op = "DefineStackPushed"
  <2> DEFINE vars == Put(r.vars, o.name, <<"pushed", r.pushed>>)
  <2>1. Effect(r, c, o) = [r EXCEPT !.vars = vars, !.pushed = @ + 1]
    BY <1>8, DefineEffect
  <2> HIDE DEF vars
  <2> QED
    BY <2>1 DEF IsIR
<1>9. CASE o.op = "Call"
  <2> DEFINE q == AfterEvent(r, CallEvent(r, o))
             value == <<"result", Len(r.trace) + 1>>
  <2>1. IsIR(q) /\ q.defined = r.defined
    BY AfterEventIR
  <2>2. Effect(r, c, o) = Assign(q, o.dst, value)
    BY <1>9, CallEffect
  <2> HIDE DEF q, value
  <2> QED
    BY <1>1, <2>1, <2>2
<1>10. CASE o.op \in {"Ret", "LabelDef", "Jump"}
  <2>1. \A event : IsIR(Record(r, event)) /\ Record(r, event).defined = r.defined
    BY RecordIR
  <2> QED
    BY <1>10, <2>1, LabelEffect
<1>11. CASE o.op \in CondJumps
  <2> DEFINE q == Record(r, <<o.op, r.flags, o.trueLabel>>)
  <2>1. IsIR(q) /\ q.defined = r.defined
    BY RecordIR
  <2>2. Effect(r, c, o) = Record(q, <<"Jump", o.falseLabel>>)
    BY <1>11, JumpEffect
  <2> HIDE DEF q
  <2>3. IsIR(Record(q, <<"Jump", o.falseLabel>>))
        /\ Record(q, <<"Jump", o.falseLabel>>).defined = q.defined
    BY <2>1, RecordIR
  <2> QED
    BY <2>1, <2>2, <2>3
<1> QED
  BY <1>2, <1>3, <1>4, <1>5, <1>6, <1>7, <1>8, <1>9, <1>10, <1>11, OperationFields

LEMMA EvaluateDefined ==
    ASSUME NEW r, IsIR(r), NEW c, NEW o \in IROperation
    PROVE  LET q == Evaluate(r, c, o)
           IN  /\ IsIR(q)
               /\ q.defined => /\ GoesRight(r, c, o)
                               /\ r.defined
                               /\ q = Effect(r, c, o)
<1>1. CASE GoesRight(r, c, o)
  BY <1>1, EffectFields DEF Evaluate
<1>2. CASE ~GoesRight(r, c, o)
  BY <1>2 DEF Evaluate, IsIR
<1> QED
  BY <1>1, <1>2
-----------------------------------------------------------------------------
(* Reading what ir reads.                                                  *)
LEMMA FrameVariable ==
    ASSUME NEW f \in Seq(IROperation), NEW v \in VariablesOf(f)
    PROVE  /\ v \in Variables(VarName) /\ v \in IRValue /\ v.kind = "var"
           /\ v.name \in VarName /\ v.size \in {4, 8}
<1>1. v \in Variables(VarName)
  BY FrameVariables
<1> QED
  BY <1>1 DEF Variables, IRValue, Values, Places

LEMMA HeldVariable ==
    ASSUME NEW c, ContextOK(c), NEW r, NEW m, NEW f \in Seq(IROperation), VarsHeld(c, r, m, f),
           NEW v \in VariablesOf(f), v.name \in DOMAIN r.vars
    PROVE  Read(m.bytes, Offset(c, v.name), v.size) = r.vars[v.name]
<1>1. v.name \in VarName /\ v.size \in {4, 8}
  BY FrameVariable
<1>2. Placed(c, v.name) /\ Holds(m.bytes, Offset(c, v.name), v.size, r.vars[v.name])
  BY DEF VarsHeld
<1>3. Offset(c, v.name) \in Int
  BY <1>1, <1>2, OffsetType
<1> QED
  BY <1>1, <1>2, <1>3, ReadHolds

LEMMA ReadPlace ==
    ASSUME NEW c, ContextOK(c), NEW r, NEW m, NEW f \in Seq(IROperation),
           TempsHeld(c, r, m), VarsHeld(c, r, m, f),
           NEW v \in IRValue, Readable(r, v),
           v.kind = "var" => v \in VariablesOf(f),
           v.kind = "hard" => Lookup(m.regs, BaseCell(v.reg)) = <<"parameter", v.reg>>
    PROVE  PlaceContent(c, m, v) = ValueOf(r, v)
<1>1. CASE v.kind = "int"
  BY <1>1 DEF PlaceContent, ValueOf
<1>2. CASE v.kind = "temp"
  <2>1. v.id \in DOMAIN r.temps
    BY <1>2 DEF Readable
  <2>2. Lookup(m.regs, VirtCell(RegisterOf(c, v.id))) = Lookup(r.temps, v.id)
    BY <2>1 DEF TempsHeld, Lookup
  <2>3. PlaceContent(c, m, v) = Lookup(m.regs, VirtCell(RegisterOf(c, v.id)))
    BY <1>2 DEF PlaceContent
  <2>4. ValueOf(r, v) = Lookup(r.temps, v.id)
    BY <1>2 DEF ValueOf
  <2> QED
    BY <2>2, <2>3, <2>4
<1>3. CASE v.kind = "var"
  <2>1. v.name \in DOMAIN r.vars /\ v \in VariablesOf(f)
    BY <1>3 DEF Readable
  <2>2. Read(m.bytes, Offset(c, v.name), v.size) = r.vars[v.name]
    BY <2>1, HeldVariable
  <2>3. PlaceContent(c, m, v) = Read(m.bytes, Offset(c, v.name), v.size)
    BY <1>3 DEF PlaceContent
  <2>4. ValueOf(r, v) = r.vars[v.name]
    BY <1>3, <2>1 DEF ValueOf, Lookup
  <2> QED
    BY <2>2, <2>3, <2>4
<1>4. CASE v.kind = "hard"
  <2>1. PlaceContent(c, m, v) = Lookup(m.regs, BaseCell(v.reg))
    BY <1>4 DEF PlaceContent
  <2>2. ValueOf(r, v) = <<"parameter", v.reg>>
    BY <1>4 DEF ValueOf
  <2> QED
    BY <1>4, <2>1, <2>2
<1> QED
  BY <1>1, <1>2, <1>3, <1>4, ValueKinds

-----------------------------------------------------------------------------
(* Keeping the state.                                                      *)

(* Slots are only added.                                                   *)
SlotsGrow(c, d) ==
    /\ c.stackOffset <= d.stackOffset
    /\ d.stackPassedParameterOffset = c.stackPassedParameterOffset
    /\ \A name \in VarName :
           Placed(c, name) => d.variable_offset[name] = c.variable_offset[name]

LEMMA SameSlotsGrow ==
    ASSUME NEW c, ContextOK(c), NEW d, SameSlots(c, d)
    PROVE  SlotsGrow(c, d)
<1>1. c.stackOffset \in Nat
  BY ContextFields
<1> QED
  BY <1>1 DEF SameSlots, SlotsGrow

LEMMA AllocatedSlotsGrow ==
    ASSUME NEW c, ContextOK(c), NEW v \in Places(TempId, VarName)
    PROVE  SlotsGrow(c, AllocateNew(c, v))
<1> DEFINE d == AllocateNew(c, v)
<1> SUFFICES SlotsGrow(c, d)
  OBVIOUS
<1>1. c.stackOffset \in Nat
  BY ContextFields
<1>2. CASE v.kind = "temp"
  <2>1. d = AllocateNewForTemp(c, v) /\ v \in Temps(TempId)
    BY <1>2, AllocateFollows
  <2>2. SameSlots(c, d)
    BY <2>1, AllocateTempFollows
  <2> QED
    BY <2>2, SameSlotsGrow
<1>3. CASE v.kind # "temp"
  <2>1. d = AllocateNewForVariable(c, v) /\ v \in Variables(VarName)
    BY <1>3, AllocateFollows
  <2>2. v.name \in VarName /\ v.size \in {4, 8}
    BY <2>1 DEF Variables
  <2>3. CASE Placed(c, v.name)
    <3>1. d = c
      BY <2>1, <2>3 DEF AllocateNewForVariable, Placed
    <3> HIDE DEF d
    <3> QED
      BY <1>1, <3>1 DEF SlotsGrow
  <2>4. CASE ~Placed(c, v.name)
    <3>1. c \in Context
      BY DEF ContextOK
    <3>2. /\ d.stackOffset = c.stackOffset + v.size
          /\ d.stackPassedParameterOffset = c.stackPassedParameterOffset
          /\ d.variable_offset
                 = [c.variable_offset EXCEPT ![v.name] = StackLocation(c.stackOffset + v.size)]
      BY <2>1, <2>4, <3>1 DEF AllocateNewForVariable, Placed, Context
    <3> HIDE DEF d
    <3>3. \A name \in VarName :
              Placed(c, name) => d.variable_offset[name] = c.variable_offset[name]
      BY <2>4, <3>2, ContextFields
    <3> QED
      BY <1>1, <2>2, <3>2, <3>3 DEF SlotsGrow
  <2> QED
    BY <2>3, <2>4
<1> QED
  BY <1>2, <1>3

LEMMA TempsHeldKept ==
    ASSUME NEW c, NEW d, Follows(c, d), NEW r, NEW q, NEW m, NEW n, TempsHeld(c, r, m),
           q.temps = r.temps,
           \A t \in DOMAIN r.temps :
               Lookup(n.regs, VirtCell(RegisterOf(c, t))) = Lookup(m.regs, VirtCell(RegisterOf(c, t)))
    PROVE  TempsHeld(d, q, n)
<1> SUFFICES ASSUME NEW t \in DOMAIN r.temps
             PROVE  /\ t \in TempId
                    /\ Mapped(d, t)
                    /\ Lookup(n.regs, VirtCell(RegisterOf(d, t))) = r.temps[t]
  BY DEF TempsHeld
<1>1. t \in TempId /\ Mapped(c, t) /\ Lookup(m.regs, VirtCell(RegisterOf(c, t))) = r.temps[t]
  BY DEF TempsHeld
<1>2. Mapped(d, t) /\ RegisterOf(d, t) = RegisterOf(c, t)
  BY <1>1 DEF Follows, Mapped, RegisterOf
<1> QED
  BY <1>1, <1>2

(* The temporary gets a register, or has one, and a value there.            *)
LEMMA TempAssigned ==
    ASSUME NEW c, NEW d, Follows(c, d), NEW r, NEW q, NEW m, NEW n, TempsHeld(c, r, m),
           NEW t \in TempId, Mapped(d, t), NEW value, q.temps = Put(r.temps, t, value),
           Lookup(n.regs, VirtCell(RegisterOf(d, t))) = value,
           \A u \in DOMAIN r.temps :
               u # t => Lookup(n.regs, VirtCell(RegisterOf(c, u)))
                            = Lookup(m.regs, VirtCell(RegisterOf(c, u)))
    PROVE  TempsHeld(d, q, n)
<1>1. ASSUME NEW u \in DOMAIN q.temps
      PROVE  /\ u \in TempId
             /\ Mapped(d, u)
             /\ Lookup(n.regs, VirtCell(RegisterOf(d, u))) = q.temps[u]
  <2>1. CASE u = t
    <3>1. q.temps[u] = value
      BY <1>1, <2>1 DEF Put
    <3> QED
      BY <2>1, <3>1
  <2>2. CASE u # t
    <3>1. u \in DOMAIN r.temps /\ q.temps[u] = r.temps[u]
      BY <1>1, <2>2 DEF Put
    <3>2. u \in TempId /\ Mapped(c, u) /\ Lookup(m.regs, VirtCell(RegisterOf(c, u))) = r.temps[u]
      BY <3>1 DEF TempsHeld
    <3>3. Mapped(d, u) /\ RegisterOf(d, u) = RegisterOf(c, u)
      BY <3>2 DEF Follows, Mapped, RegisterOf
    <3> QED
      BY <2>2, <3>1, <3>2, <3>3
  <2> QED
    BY <2>1, <2>2
<1> QED
  BY <1>1 DEF TempsHeld

LEMMA VarsHeldKept ==
    ASSUME NEW c, NEW d, SlotsGrow(c, d), NEW r, NEW q, NEW m, NEW n, NEW f \in Seq(IROperation),
           VarsHeld(c, r, m, f), q.vars = r.vars, n.bytes = m.bytes
    PROVE  VarsHeld(d, q, n, f)
<1> SUFFICES ASSUME NEW v \in VariablesOf(f), v.name \in DOMAIN r.vars
             PROVE  /\ Placed(d, v.name)
                    /\ Holds(m.bytes, Offset(d, v.name), v.size, r.vars[v.name])
  BY DEF VarsHeld
<1>1. Placed(c, v.name) /\ Holds(m.bytes, Offset(c, v.name), v.size, r.vars[v.name])
  BY DEF VarsHeld
<1>2. d.variable_offset[v.name] = c.variable_offset[v.name]
  BY <1>1, FrameVariable DEF SlotsGrow
<1> QED
  BY <1>1, <1>2 DEF Placed, Offset

LEMMA FrameKeptKept ==
    ASSUME NEW c, ContextOK(c), NEW d, ContextOK(d), SlotsGrow(c, d), NEW r, NEW q, NEW m, NEW n,
           FrameKept(c, r, m), q.pushed = r.pushed, n.bytes = m.bytes
    PROVE  FrameKept(d, q, n)
<1>1. c.stackOffset \in Nat /\ d.stackOffset \in Nat /\ c.stackOffset <= d.stackOffset
  BY ContextFields DEF SlotsGrow
<1>2. \A x \in DOMAIN n.bytes :
          x \in Int /\ PushedOffset(PushedOnEntry) < x /\ x <= d.stackOffset
  BY <1>1 DEF FrameKept
<1>3. d.stackPassedParameterOffset = 16 + 8 * q.pushed
  BY DEF FrameKept, SlotsGrow
<1> QED
  BY <1>2, <1>3 DEF FrameKept

(* What changes registers of no temporary keeps the state.                 *)
LEMMA StateKept ==
    ASSUME NEW c, ContextOK(c), NEW d, Follows(c, d), SlotsGrow(c, d), NEW r, NEW q, NEW m, NEW n,
           NEW f \in Seq(IROperation), State(c, r, m, f),
           IsIR(q), q.temps = r.temps, q.vars = r.vars, q.pushed = r.pushed,
           IsMachine(n), n.bytes = m.bytes, n.outside = q.outside,
           \A t \in DOMAIN r.temps :
               Lookup(n.regs, VirtCell(RegisterOf(c, t))) = Lookup(m.regs, VirtCell(RegisterOf(c, t)))
    PROVE  State(d, q, n, f)
<1>1. ContextOK(d)
  BY DEF Follows
<1>2. TempsHeld(d, q, n)
  BY TempsHeldKept DEF State
<1>3. VarsHeld(d, q, n, f)
  BY VarsHeldKept DEF State
<1>4. FrameKept(d, q, n)
  BY <1>1, FrameKeptKept DEF State
<1> QED
  BY <1>2, <1>3, <1>4 DEF State

LEMMA StateTempAssigned ==
    ASSUME NEW c, ContextOK(c), NEW d, Follows(c, d), SlotsGrow(c, d), NEW r, NEW q, NEW m, NEW n,
           NEW f \in Seq(IROperation), State(c, r, m, f),
           NEW t \in TempId, Mapped(d, t), NEW value,
           IsIR(q), q.temps = Put(r.temps, t, value), q.vars = r.vars, q.pushed = r.pushed,
           IsMachine(n), n.bytes = m.bytes, n.outside = q.outside,
           Lookup(n.regs, VirtCell(RegisterOf(d, t))) = value,
           \A u \in DOMAIN r.temps :
               u # t => Lookup(n.regs, VirtCell(RegisterOf(c, u)))
                            = Lookup(m.regs, VirtCell(RegisterOf(c, u)))
    PROVE  State(d, q, n, f)
<1>1. ContextOK(d)
  BY DEF Follows
<1>2. TempsHeld(d, q, n)
  BY TempAssigned DEF State
<1>3. VarsHeld(d, q, n, f)
  BY VarsHeldKept DEF State
<1>4. FrameKept(d, q, n)
  BY <1>1, FrameKeptKept DEF State
<1> QED
  BY <1>2, <1>3, <1>4 DEF State
(* The bytes of a variable: in the frame, or among the parameters that have  *)
(* been defined, and no other variable's.                                  *)
LEMMA SlotPlace ==
    ASSUME NEW c, ContextOK(c), NEW f \in Seq(IROperation), SlotsOK(c, f), OneSize(f),
           NEW v \in VariablesOf(f), Placed(c, v.name)
    PROVE  LET o == Offset(c, v.name)
           IN  /\ o \in Int /\ v.size \in {4, 8}
               /\ \/ o \in v.size..c.stackOffset
                  \/ o <= -16 /\ -c.stackPassedParameterOffset < o - 7
<1> DEFINE o == Offset(c, v.name)
<1>1. v.name \in VarName /\ v.size \in {4, 8}
  BY FrameVariable
<1>2. o \in Int /\ c.stackOffset \in Nat
  BY <1>1, OffsetType, ContextFields
<1>3. o \in 1..c.stackOffset \/ (o <= -16 /\ -c.stackPassedParameterOffset < o - 7)
  BY <1>1 DEF SlotsOK, PlacesOK
<1>4. o > 0 => o >= v.size
  BY DEF SlotsOK, Apart
<1> HIDE DEF o
<1>5. o \in 1..c.stackOffset => o \in v.size..c.stackOffset
  BY <1>1, <1>2, <1>4
<1> QED
  BY <1>1, <1>2, <1>3, <1>5 DEF o

LEMMA SlotsApart ==
    ASSUME NEW c, ContextOK(c), NEW f \in Seq(IROperation), SlotsOK(c, f), OneSize(f),
           NEW v \in VariablesOf(f), Placed(c, v.name),
           NEW w \in VariablesOf(f), Placed(c, w.name), w.name # v.name
    PROVE  Bytes(Offset(c, w.name), w.size) \cap Bytes(Offset(c, v.name), v.size) = {}
<1>1. Offset(c, v.name) \in Int /\ v.size \in {4, 8}
  BY SlotPlace
<1>2. Offset(c, w.name) \in Int /\ w.size \in {4, 8}
  BY SlotPlace
<1>3. Below(c, v, w) \/ Below(c, w, v)
  BY DEF SlotsOK, Apart
<1> QED
  BY <1>1, <1>2, <1>3 DEF Below, Bytes

LEMMA VarAssigned ==
    ASSUME NEW c, NEW d, ContextOK(d), SlotsGrow(c, d), NEW r, NEW q, NEW m, NEW n,
           NEW f \in Seq(IROperation), VarsHeld(c, r, m, f), SlotsOK(d, f), OneSize(f),
           NEW v \in VariablesOf(f), Placed(d, v.name), NEW value,
           q.vars = Put(r.vars, v.name, value),
           n.bytes = Write(m.bytes, Offset(d, v.name), v.size, value)
    PROVE  VarsHeld(d, q, n, f)
<1>1. Offset(d, v.name) \in Int /\ v.size \in {4, 8}
  BY SlotPlace
<1>2. /\ Holds(n.bytes, Offset(d, v.name), v.size, value)
      /\ \A o, s, w :
             Holds(m.bytes, o, s, w) /\ Bytes(o, s) \cap Bytes(Offset(d, v.name), v.size) = {} =>
                 Holds(n.bytes, o, s, w)
  BY <1>1, WriteHolds
<1> SUFFICES ASSUME NEW w \in VariablesOf(f), w.name \in DOMAIN q.vars
             PROVE  /\ Placed(d, w.name)
                    /\ Holds(n.bytes, Offset(d, w.name), w.size, q.vars[w.name])
  BY DEF VarsHeld
<1>3. CASE w.name = v.name
  <2>1. w.size = v.size
    BY <1>3 DEF OneSize
  <2>2. q.vars[w.name] = value
    BY <1>3 DEF Put
  <2> QED
    BY <1>2, <1>3, <2>1, <2>2
<1>4. CASE w.name # v.name
  <2>1. w.name \in DOMAIN r.vars /\ q.vars[w.name] = r.vars[w.name]
    BY <1>4 DEF Put
  <2>2. Placed(c, w.name) /\ Holds(m.bytes, Offset(c, w.name), w.size, r.vars[w.name])
    BY <2>1 DEF VarsHeld
  <2>3. Placed(d, w.name) /\ Offset(d, w.name) = Offset(c, w.name)
    BY <2>2, FrameVariable DEF SlotsGrow, Placed, Offset
  <2>4. Bytes(Offset(d, w.name), w.size) \cap Bytes(Offset(d, v.name), v.size) = {}
    BY <1>4, <2>3, SlotsApart
  <2> QED
    BY <1>2, <2>1, <2>2, <2>3, <2>4
<1> QED
  BY <1>3, <1>4

LEMMA FrameAssigned ==
    ASSUME NEW c, ContextOK(c), NEW d, ContextOK(d), SlotsGrow(c, d), NEW r, NEW q, NEW m, NEW n,
           NEW f \in Seq(IROperation), FrameKept(c, r, m), SlotsOK(d, f), OneSize(f),
           NEW v \in VariablesOf(f), Placed(d, v.name), NEW value,
           q.pushed = r.pushed,
           n.bytes = Write(m.bytes, Offset(d, v.name), v.size, value)
    PROVE  FrameKept(d, q, n)
<1> DEFINE o == Offset(d, v.name)
<1>1. /\ o \in Int /\ v.size \in {4, 8}
      /\ o \in v.size..d.stackOffset \/ (o <= -16 /\ -d.stackPassedParameterOffset < o - 7)
  BY SlotPlace
<1>2. /\ c.stackOffset \in Nat /\ d.stackOffset \in Nat /\ c.stackOffset <= d.stackOffset
      /\ d.stackPassedParameterOffset = 16 + 8 * r.pushed
      /\ r.pushed \in 0..PushedOnEntry /\ PushedOnEntry \in Nat
  BY ContextFields, PushedAssumption DEF SlotsGrow, FrameKept
<1>3. \A k, s, w :
          Holds(m.bytes, k, s, w) /\ Bytes(k, s) \cap Bytes(o, v.size) = {} =>
              Holds(n.bytes, k, s, w)
  BY <1>1, WriteHolds
<1>4. /\ DOMAIN n.bytes = DOMAIN m.bytes \cup Bytes(o, v.size)
      /\ \A x \in DOMAIN m.bytes : x \notin Bytes(o, v.size) => n.bytes[x] = m.bytes[x]
  BY DEF Write
<1> HIDE DEF o
<1>5. ASSUME NEW x \in DOMAIN n.bytes
      PROVE  x \in Int /\ PushedOffset(PushedOnEntry) < x /\ x <= d.stackOffset
  <2>1. CASE x \in DOMAIN m.bytes
    <3>1. x \in Int /\ PushedOffset(PushedOnEntry) < x /\ x <= c.stackOffset
      BY <2>1 DEF FrameKept
    <3> QED
      BY <1>2, <3>1
  <2>2. CASE x \in Bytes(o, v.size)
    <3>1. x \in Int /\ o - 7 <= x /\ x <= o
      BY <1>1, <2>2 DEF Bytes
    <3>2. PushedOffset(PushedOnEntry) < o - 7
      BY <1>1, <1>2 DEF PushedOffset
    <3>3. PushedOffset(PushedOnEntry) \in Int
      BY <1>2 DEF PushedOffset
    <3> QED
      BY <1>1, <1>2, <3>1, <3>2, <3>3
  <2> QED
    BY <1>4, <2>1, <2>2
<1>6. ASSUME NEW x \in Saved PROVE x \in DOMAIN n.bytes /\ n.bytes[x] = SavedByte(x)
  <2>1. x \in DOMAIN m.bytes /\ m.bytes[x] = SavedByte(x)
    BY DEF FrameKept
  <2>2. x \notin Bytes(o, v.size)
    BY <1>1, <1>2 DEF Saved, Bytes
  <2> QED
    BY <1>4, <2>1, <2>2
<1>7. ASSUME NEW k \in r.pushed..(PushedOnEntry - 1)
      PROVE  Holds(n.bytes, PushedOffset(k), 8, <<"pushed", k>>)
  <2>1. Holds(m.bytes, PushedOffset(k), 8, <<"pushed", k>>)
    BY DEF FrameKept
  <2>2. PushedOffset(k) \in Int /\ PushedOffset(k) <= -16 - 8 * r.pushed
    BY <1>2 DEF PushedOffset
  <2>3. Bytes(PushedOffset(k), 8) \cap Bytes(o, v.size) = {}
    <3>1. -16 - 8 * r.pushed < o - v.size + 1
      BY <1>1, <1>2
    <3>2. ASSUME NEW x \in Bytes(o, v.size)
          PROVE  x \in Int /\ -16 - 8 * r.pushed < x
      <4> DEFINE low == o - v.size + 1
      <4>1. low \in Int /\ x \in low..o
        BY <1>1 DEF Bytes
      <4>2. -16 - 8 * r.pushed < low /\ r.pushed \in Nat
        BY <1>2, <3>1
      <4> HIDE DEF low
      <4> QED
        BY <1>1, <4>1, <4>2
    <3>3. ASSUME NEW x \in Bytes(PushedOffset(k), 8)
          PROVE  x \in Int /\ x <= -16 - 8 * r.pushed
      <4>1. x \in Int /\ x <= PushedOffset(k)
        BY <2>2 DEF Bytes
      <4> QED
        BY <1>2, <2>2, <4>1
    <3> QED
      BY <1>2, <3>2, <3>3
  <2> QED
    BY <1>3, <2>1, <2>3
<1> QED
  BY <1>2, <1>5, <1>6, <1>7 DEF FrameKept

(* The variable has a slot, and gets a value there.                        *)
LEMMA StateVarAssigned ==
    ASSUME NEW c, ContextOK(c), NEW d, Follows(c, d), SlotsGrow(c, d), NEW r, NEW q, NEW m, NEW n,
           NEW f \in Seq(IROperation), State(c, r, m, f), SlotsOK(d, f), OneSize(f),
           NEW v \in VariablesOf(f), Placed(d, v.name), NEW value,
           IsIR(q), q.temps = r.temps, q.vars = Put(r.vars, v.name, value), q.pushed = r.pushed,
           IsMachine(n), n.bytes = Write(m.bytes, Offset(d, v.name), v.size, value),
           n.outside = q.outside,
           \A t \in DOMAIN r.temps :
               Lookup(n.regs, VirtCell(RegisterOf(c, t))) = Lookup(m.regs, VirtCell(RegisterOf(c, t)))
    PROVE  State(d, q, n, f)
<1>1. ContextOK(d)
  BY DEF Follows
<1>2. TempsHeld(d, q, n)
  BY TempsHeldKept DEF State
<1>3. VarsHeld(d, q, n, f)
  BY <1>1, VarAssigned DEF State
<1>4. FrameKept(d, q, n)
  BY <1>1, FrameAssigned DEF State
<1> QED
  BY <1>2, <1>3, <1>4 DEF State

(* A pushed parameter becomes a variable: its value is there.              *)
LEMMA StateDefined ==
    ASSUME NEW c, ContextOK(c), NEW name \in VarName, NEW r, NEW q, NEW m,
           NEW f \in Seq(IROperation), State(c, r, m, f), r.pushed < PushedOnEntry,
           IsIR(q), q.temps = r.temps, q.vars = Put(r.vars, name, <<"pushed", r.pushed>>),
           q.pushed = r.pushed + 1, q.outside = r.outside
    PROVE  State(define_stack_pushed_variable(c, name), q, m, f)
<1> DEFINE d == define_stack_pushed_variable(c, name)
<1> SUFFICES State(d, q, m, f)
  OBVIOUS
<1>1. /\ c.stackPassedParameterOffset = 16 + 8 * r.pushed
      /\ r.pushed \in 0..PushedOnEntry /\ PushedOnEntry \in Nat
  BY PushedAssumption DEF State, FrameKept
<1>2. c \in Context /\ Follows(c, d)
  BY DefineFollows DEF ContextOK
<1>3. /\ d.stackOffset = c.stackOffset
      /\ d.stackPassedParameterOffset = 16 + 8 * q.pushed
      /\ d.variable_offset[name] = StackLocation(PushedOffset(r.pushed))
      /\ \A other \in VarName :
             other # name => d.variable_offset[other] = c.variable_offset[other]
  <2>1. /\ d.stackOffset = c.stackOffset
        /\ d.stackPassedParameterOffset = c.stackPassedParameterOffset + 8
        /\ d.variable_offset = [c.variable_offset EXCEPT ![name] =
                                    StackLocation(-c.stackPassedParameterOffset)]
    BY <1>2 DEF define_stack_pushed_variable, Context
  <2> HIDE DEF d
  <2>2. /\ d.variable_offset[name] = StackLocation(-c.stackPassedParameterOffset)
        /\ \A other \in VarName :
               other # name => d.variable_offset[other] = c.variable_offset[other]
    BY <2>1, ContextFields
  <2>3. -c.stackPassedParameterOffset = PushedOffset(r.pushed)
    BY <1>1 DEF PushedOffset
  <2>4. d.stackPassedParameterOffset = 16 + 8 * q.pushed
    BY <1>1, <2>1
  <2> QED
    BY <2>1, <2>2, <2>3, <2>4
<1> HIDE DEF d
<1>4. TempsHeld(d, q, m)
  BY <1>2, TempsHeldKept DEF State
<1>5. Holds(m.bytes, PushedOffset(r.pushed), 8, <<"pushed", r.pushed>>)
  <2>1. r.pushed \in r.pushed..(PushedOnEntry - 1)
    BY <1>1
  <2> QED
    BY <2>1 DEF State, FrameKept
<1>6. VarsHeld(d, q, m, f)
  <2> SUFFICES ASSUME NEW v \in VariablesOf(f), v.name \in DOMAIN q.vars
               PROVE  /\ Placed(d, v.name)
                      /\ Holds(m.bytes, Offset(d, v.name), v.size, q.vars[v.name])
    BY DEF VarsHeld
  <2>1. CASE v.name = name
    <3>1. Placed(d, v.name) /\ Offset(d, v.name) = PushedOffset(r.pushed)
      BY <1>3, <2>1 DEF Placed, Offset, StackLocation, NoOperand
    <3>2. q.vars[v.name] = <<"pushed", r.pushed>>
      BY <2>1 DEF Put
    <3>3. Bytes(PushedOffset(r.pushed), v.size) \subseteq Bytes(PushedOffset(r.pushed), 8)
      BY <1>1, FrameVariable DEF Bytes, PushedOffset
    <3> QED
      BY <1>5, <3>1, <3>2, <3>3 DEF Holds
  <2>2. CASE v.name # name
    <3>1. v.name \in DOMAIN r.vars /\ q.vars[v.name] = r.vars[v.name]
      BY <2>2 DEF Put
    <3>2. Placed(c, v.name) /\ Holds(m.bytes, Offset(c, v.name), v.size, r.vars[v.name])
      BY <3>1 DEF State, VarsHeld
    <3>3. d.variable_offset[v.name] = c.variable_offset[v.name]
      BY <1>3, <2>2, FrameVariable
    <3> QED
      BY <3>1, <3>2, <3>3 DEF Placed, Offset
  <2> QED
    BY <2>1, <2>2
<1>7. FrameKept(d, q, m)
  <2>1. q.pushed \in 0..PushedOnEntry
    BY <1>1
  <2>2. \A k \in q.pushed..(PushedOnEntry - 1) : k \in r.pushed..(PushedOnEntry - 1)
    BY <1>1
  <2> QED
    BY <1>3, <2>1, <2>2 DEF State, FrameKept
<1> QED
  BY <1>4, <1>6, <1>7 DEF State
(* The machine after a value has arrived where ir assigns it.              *)
LEMMA ArrivedState ==
    ASSUME NEW c, ContextOK(c), NEW d, Follows(c, d), SlotsGrow(c, d), NEW r, NEW m, NEW n,
           NEW f \in Seq(IROperation), State(c, r, m, f), SlotsOK(d, f), OneSize(f),
           NEW dst \in Places(TempId, VarName),
           dst.kind = "temp" => Mapped(d, dst.id),
           dst.kind = "var" => dst \in VariablesOf(f) /\ Placed(d, dst.name),
           NEW X, \A id : VirtCell(id) \notin X,
           NEW value, Arrived(c, m, n, X, LocationOf(d, dst), dst.size, value),
           NEW s, IsIR(s), s.temps = r.temps, s.vars = r.vars, s.outside = r.outside,
           s.pushed = r.pushed
    PROVE  State(d, Assign(s, dst, value), n, f)
<1> DEFINE q == Assign(s, dst, value)
           l == LocationOf(d, dst)
<1> SUFFICES State(d, q, n, f)
  OBVIOUS
<1>1. ContextOK(d)
  BY DEF Follows
<1>2. IsMachine(n) /\ n.outside = r.outside
  BY DEF Arrived, State
<1>3. ASSUME NEW u \in DOMAIN r.temps
      PROVE  /\ u \in TempId /\ Mapped(c, u)
             /\ VirtCell(RegisterOf(c, u)) \in OldCells(c)
  <2>1. u \in TempId /\ Mapped(c, u)
    BY <1>3 DEF State, TempsHeld
  <2>2. RegisterOf(c, u) \in 0..(c.tempCounter - 1)
    BY <2>1, ContextFields
  <2> QED
    BY <2>1, <2>2 DEF OldCells
<1>4. CASE dst.kind = "temp"
  <2>1. dst.id \in TempId /\ Mapped(d, dst.id)
    BY <1>4, PlaceKinds, ValueKinds
  <2>2. l = d.temp_register_mapping[dst.id]
    BY <1>4 DEF LocationOf
  <2>3. IsVirtual(l) /\ CellOf(l) = VirtCell(RegisterOf(d, dst.id)) /\ IsRegister(l)
    <3>1. IsVirtual(d.temp_register_mapping[dst.id])
      BY <1>1, <2>1, ContextFields
    <3> QED
      BY <2>2, <3>1 DEF CellOf, VirtCell, RegisterOf, IsRegister
  <2> HIDE DEF l
  <2>4. /\ n.bytes = m.bytes
        /\ Lookup(n.regs, CellOf(l)) = value
        /\ SameRegisters(c, m, n, X \cup {CellOf(l)})
    BY <2>3 DEF Arrived, l
  <2>5. ASSUME NEW u \in DOMAIN r.temps, u # dst.id
        PROVE  Lookup(n.regs, VirtCell(RegisterOf(c, u))) = Lookup(m.regs, VirtCell(RegisterOf(c, u)))
    <3>1. u \in TempId /\ Mapped(c, u) /\ VirtCell(RegisterOf(c, u)) \in OldCells(c)
      BY <1>3, <2>5
    <3>2. Mapped(d, u) /\ RegisterOf(d, u) = RegisterOf(c, u)
      BY <3>1 DEF Follows, Mapped, RegisterOf
    <3>3. RegisterOf(d, u) # RegisterOf(d, dst.id)
      BY <1>1, <2>1, <2>5, <3>1, <3>2 DEF ContextOK
    <3>4. VirtCell(RegisterOf(c, u)) # CellOf(l)
      BY <2>3, <3>2, <3>3, Cells
    <3> QED
      BY <2>4, <3>1, <3>4 DEF SameRegisters
  <2>6. /\ IsIR(q) /\ q.temps = Put(r.temps, dst.id, value) /\ q.vars = r.vars
        /\ q.pushed = r.pushed /\ q.outside = r.outside
    BY <1>4, AssignFields
  <2> HIDE DEF q
  <2>7. Lookup(n.regs, VirtCell(RegisterOf(d, dst.id))) = value /\ n.outside = q.outside
    BY <1>2, <2>3, <2>4, <2>6
  <2> QED
    BY <1>2, <2>1, <2>4, <2>5, <2>6, <2>7, StateTempAssigned
<1>5. CASE dst.kind = "var"
  <2>1. dst \in VariablesOf(f) /\ Placed(d, dst.name) /\ dst.name \in VarName
    BY <1>5, FrameVariable
  <2>2. l = d.variable_offset[dst.name] /\ l \in StackLocations
    BY <1>1, <1>5, <2>1, ContextFields DEF LocationOf, Placed
  <2>3. ~IsRegister(l) /\ l.offset = Offset(d, dst.name)
    BY <2>2, NotRegisters DEF Offset
  <2> HIDE DEF l
  <2>4. /\ n.bytes = Write(m.bytes, l.offset, dst.size, value)
        /\ SameRegisters(c, m, n, X)
    BY <2>3 DEF Arrived, l
  <2>5. \A u \in DOMAIN r.temps :
            Lookup(n.regs, VirtCell(RegisterOf(c, u))) = Lookup(m.regs, VirtCell(RegisterOf(c, u)))
    BY <1>3, <2>4 DEF SameRegisters
  <2>6. /\ IsIR(q) /\ q.vars = Put(r.vars, dst.name, value) /\ q.temps = r.temps
        /\ q.pushed = r.pushed /\ q.outside = r.outside
    BY <1>5, AssignFields
  <2> HIDE DEF q
  <2>7. n.bytes = Write(m.bytes, Offset(d, dst.name), dst.size, value) /\ n.outside = q.outside
    BY <1>2, <2>3, <2>4, <2>6
  <2> QED
    BY <1>2, <2>1, <2>5, <2>6, <2>7, StateVarAssigned
<1> QED
  BY <1>4, <1>5, PlaceKinds

LEMMA QuietState ==
    ASSUME NEW c, ContextOK(c), NEW d, Follows(c, d), SlotsGrow(c, d), NEW r, NEW q, NEW m, NEW n,
           NEW f \in Seq(IROperation), State(c, r, m, f),
           IsIR(q), q.temps = r.temps, q.vars = r.vars, q.outside = r.outside,
           q.pushed = r.pushed,
           NEW X, \A id : VirtCell(id) \notin X,
           IsMachine(n), n.bytes = m.bytes, n.outside = m.outside, SameRegisters(c, m, n, X)
    PROVE  State(d, q, n, f)
<1>1. ASSUME NEW u \in DOMAIN r.temps
      PROVE  Lookup(n.regs, VirtCell(RegisterOf(c, u))) = Lookup(m.regs, VirtCell(RegisterOf(c, u)))
  <2>1. u \in TempId /\ Mapped(c, u)
    BY <1>1 DEF State, TempsHeld
  <2>2. VirtCell(RegisterOf(c, u)) \in OldCells(c)
    BY <2>1, ContextFields DEF OldCells
  <2> QED
    BY <2>2 DEF SameRegisters
<1>2. n.outside = q.outside
  BY DEF State
<1> QED
  BY <1>1, <1>2, StateKept

-----------------------------------------------------------------------------
(* The relation between operations.                                        *)
Simulated(c, r, m, f) ==
    /\ State(c, r, m, f)
    /\ TracesAgree(r.trace, m.trace)
    /\ Between(r, m)

LEMMA BetweenKept ==
    ASSUME NEW c, ContextOK(c), NEW r, NEW q, NEW m, NEW n, Between(r, m),
           NEW X, SameRegisters(c, m, n, X),
           q.params \subseteq r.params, \A reg \in q.params : BaseCell(reg) \notin X,
           q.flags # Undefined => n.flags = q.flags,
           n.pushed = m.pushed
    PROVE  Between(q, n)
<1>1. ASSUME NEW reg \in q.params
      PROVE  IsParamReg(reg) /\ Lookup(n.regs, BaseCell(reg)) = <<"parameter", reg>>
  <2>1. IsParamReg(reg) /\ Lookup(m.regs, BaseCell(reg)) = <<"parameter", reg>>
    BY <1>1 DEF Between, ParamsHeld
  <2>2. BaseCell(reg) \in OldCells(c)
    BY <2>1, RegisterCells
  <2> QED
    BY <1>1, <2>1, <2>2 DEF SameRegisters
<1> QED
  BY <1>1 DEF Between, ParamsHeld

(* More places are given out.                                              *)
LEMMA PlacedSimulated ==
    ASSUME NEW c, ContextOK(c), NEW a, Follows(c, a), SlotsGrow(c, a), NEW r, NEW m,
           NEW f \in Seq(IROperation), Simulated(c, r, m, f)
    PROVE  Simulated(a, r, m, f)
<1>1. State(c, r, m, f) /\ IsIR(r) /\ IsMachine(m) /\ m.outside = r.outside
  BY DEF Simulated, State
<1>2. State(a, r, m, f)
  BY <1>1, StateKept
<1> QED
  BY <1>2 DEF Simulated

LEMMA ArrivedSimulated ==
    ASSUME NEW c, ContextOK(c), NEW d, Follows(c, d), SlotsGrow(c, d), NEW r, NEW m, NEW n,
           NEW f \in Seq(IROperation), Simulated(c, r, m, f), SlotsOK(d, f), OneSize(f),
           NEW dst \in Places(TempId, VarName),
           dst.kind = "temp" => Mapped(d, dst.id),
           dst.kind = "var" => dst \in VariablesOf(f) /\ Placed(d, dst.name),
           NEW X, \A id : VirtCell(id) \notin X,
           NEW value, Arrived(c, m, n, X, LocationOf(d, dst), dst.size, value),
           NEW s, IsIR(s), s.temps = r.temps, s.vars = r.vars, s.outside = r.outside,
           s.pushed = r.pushed, s.trace = r.trace, s.params \subseteq r.params,
           \A reg \in s.params : BaseCell(reg) \notin X,
           s.flags # Undefined => n.flags = s.flags
    PROVE  Simulated(d, Assign(s, dst, value), n, f)
<1> DEFINE q == Assign(s, dst, value)
           l == LocationOf(d, dst)
<1>1. State(d, q, n, f)
  BY ArrivedState DEF Simulated
<1>2. q.trace = r.trace /\ q.params = s.params /\ q.flags = s.flags
  BY AssignFields
<1> HIDE DEF q
<1>3. n.trace = m.trace /\ n.pushed = m.pushed
  BY DEF Arrived
<1>4. Between(q, n)
  <2>1. CASE IsRegister(l)
    <3>1. SameRegisters(c, m, n, X \cup {CellOf(l)})
      BY <2>1 DEF Arrived
    <3>2. dst.kind = "temp" /\ dst.id \in TempId
      <4>1. ASSUME dst.kind = "var" PROVE FALSE
        <5>1. dst.name \in VarName /\ Placed(d, dst.name)
          BY <4>1, FrameVariable
        <5>2. l \in StackLocations
          BY <4>1, <5>1, ContextFields DEF LocationOf, Placed, Follows
        <5> QED
          BY <2>1, <5>2, NotRegisters
      <4> QED
        BY <4>1, PlaceKinds, ValueKinds
    <3>3. IsVirtual(l)
      BY <3>2, ContextFields DEF LocationOf, Follows
    <3>4. \A reg \in q.params : BaseCell(reg) \notin X \cup {CellOf(l)}
      BY <1>2, <3>3, Cells DEF CellOf, VirtCell
    <3> QED
      BY <1>2, <1>3, <3>1, <3>4, BetweenKept DEF Simulated
  <2>2. CASE ~IsRegister(l)
    <3>1. SameRegisters(c, m, n, X)
      BY <2>2 DEF Arrived
    <3> QED
      BY <1>2, <1>3, <3>1, BetweenKept DEF Simulated
  <2> QED
    BY <2>1, <2>2
<1> QED
  BY <1>1, <1>2, <1>3, <1>4 DEF Simulated, q
-----------------------------------------------------------------------------
(* Operation n of the frame is about to be lowered.                        *)
Setting(c, r, f, n) ==
    /\ f = irFrames[lf]
    /\ LinearFrame(f) /\ OneSize(f)
    /\ n \in DOMAIN f
    /\ ContextOK(c) /\ OperationReady(c, f[n])
    /\ SlotsOK(c, f) /\ SizesOK(c, f)
    /\ Simulated(c, r, Machine(c), f)

(* The register of the temporary the operation sets has its size.           *)
TargetSized(d, o) ==
    Target(o).kind = "temp" =>
        Mapped(d, Target(o).id) /\ d.temp_register_mapping[Target(o).id].size = Target(o).size

LEMMA SettingSource ==
    ASSUME NEW c, NEW r, NEW f, NEW n, Setting(c, r, f, n), NEW v \in Sources(f[n])
    PROVE  /\ v \in IRValue
           /\ HasPlace(c, v)
           /\ v.kind = "var" => v \in VariablesOf(f)
           /\ v.kind = "temp" => c.temp_register_mapping[v.id].size = v.size
<1>1. LinearFrame(f) /\ n \in DOMAIN f /\ CanRead(c, v)
  BY DEF Setting, OperationReady
<1>2. PICK k \in DOMAIN ValuesRead(f[n]) : v = ValuesRead(f[n])[k]
  BY DEF Sources
<1>3. v \in IRValue
  BY <1>1, <1>2, ReadIsSet
<1>4. v.kind = "var" => v \in VariablesOf(f)
  BY <1>1 DEF VariablesOf
<1>5. v.kind = "temp" => c.temp_register_mapping[v.id].size = v.size
  <2> SUFFICES ASSUME v.kind = "temp" PROVE c.temp_register_mapping[v.id].size = v.size
    OBVIOUS
  <2>1. PICK m \in 1..(n - 1) : Target(f[m]) = v
    BY <1>1, <1>2 DEF LinearFrame, LinearOperations
  <2>2. m \in DOMAIN f
    BY <1>1, <2>1 DEF LinearFrame
  <2>3. Mapped(c, v.id)
    BY <1>1 DEF CanRead
  <2> QED
    BY <2>1, <2>2, <2>3 DEF Setting, SizesOK
<1> QED
  BY <1>1, <1>3, <1>4, <1>5 DEF HasPlace, CanRead

(* The code finds what the operation reads.                                *)
LEMMA SettingReads ==
    ASSUME NEW c, NEW r, NEW f, NEW n, Setting(c, r, f, n), NEW v \in Sources(f[n]),
           Readable(r, v),
           NEW a, ContextOK(a), Simulated(a, r, Machine(c), f)
    PROVE  PlaceContent(a, Machine(c), v) = ValueOf(r, v)
<1>1. v \in IRValue /\ (v.kind = "var" => v \in VariablesOf(f))
  BY SettingSource
<1>2. f \in Seq(IROperation)
  BY DEF Setting, LinearFrame
<1>3. v.kind = "hard" => Lookup(Machine(c).regs, BaseCell(v.reg)) = <<"parameter", v.reg>>
  BY DEF Simulated, Between, ParamsHeld, Readable
<1> QED
  BY <1>1, <1>2, <1>3, ReadPlace DEF Simulated, State

LEMMA TempSized ==
    ASSUME NEW c, ContextOK(c), NEW t \in Temps(TempId),
           Mapped(c, t.id) => c.temp_register_mapping[t.id].size = t.size
    PROVE  AllocateNewForTemp(c, t).temp_register_mapping[t.id].size = t.size
<1>1. t.id \in TempId
  BY DEF Temps
<1>2. CASE Mapped(c, t.id)
  BY <1>2, AllocateTempFollows
<1>3. CASE ~Mapped(c, t.id)
  <2>1. c \in Context
    BY DEF ContextOK
  <2> QED
    BY <1>1, <1>3, <2>1
       DEF AllocateNewForTemp, Mapped, AfterNewRegister, NewRegister, VirtualRegister, Context
<1> QED
  BY <1>2, <1>3

LEMMA SettingTarget ==
    ASSUME NEW c, NEW r, NEW f, NEW n, Setting(c, r, f, n), Target(f[n]) # NoOperand
    PROVE  LET dst == Target(f[n])
           IN  /\ dst \in Places(TempId, VarName)
               /\ dst.kind = "temp" => /\ dst \in Temps(TempId)
                                       /\ Mapped(c, dst.id) =>
                                              c.temp_register_mapping[dst.id].size = dst.size
               /\ dst.kind = "var" => dst \in VariablesOf(f) /\ dst \in Variables(VarName)
<1> DEFINE dst == Target(f[n])
<1>1. n \in DOMAIN f /\ f[n] \in IROperation
  BY DEF Setting, LinearFrame
<1>2. dst \in Places(TempId, VarName)
  BY <1>1, TargetType
<1>3. dst.kind = "temp" /\ Mapped(c, dst.id) => c.temp_register_mapping[dst.id].size = dst.size
  BY <1>1 DEF Setting, SizesOK
<1>4. dst.kind = "var" => dst \in VariablesOf(f)
  BY <1>1 DEF VariablesOf
<1> HIDE DEF dst
<1>5. /\ dst.kind = "temp" => dst \in Temps(TempId)
      /\ dst.kind = "var" => dst \in Variables(VarName)
  BY <1>2, PlaceKinds, ValueKinds
<1> QED
  BY <1>2, <1>3, <1>4, <1>5 DEF dst

(* The context that has given the destination its place.                   *)
LEMMA PreparedSetting ==
    ASSUME NEW c, NEW r, NEW f, NEW n, Setting(c, r, f, n),
           f[n].op \in BinaryOps \cup {"Mov", "MovR"}, Target(f[n]) # NoOperand
    PROVE  LET dst == Target(f[n])
               a == AllocateNew(c, dst)
           IN  /\ ContextOK(a) /\ Follows(c, a) /\ a = Prepared(c, dst)
               /\ Simulated(a, r, Machine(c), f)
               /\ SlotsOK(a, f)
               /\ dst \in Places(TempId, VarName)
               /\ dst.kind = "temp" => /\ Mapped(a, dst.id)
                                       /\ a.temp_register_mapping[dst.id].size = dst.size
               /\ dst.kind = "var" => dst \in VariablesOf(f) /\ Placed(a, dst.name)
               /\ LocationOf(a, dst) \in Locations(a)
<1> DEFINE dst == Target(f[n])
           a == AllocateNew(c, dst)
<1>1. /\ n \in DOMAIN f /\ f[n] \in IROperation /\ ContextOK(c) /\ f \in Seq(IROperation)
      /\ SlotsOK(c, f) /\ Simulated(c, r, Machine(c), f)
  BY DEF Setting, LinearFrame
<1>2. /\ dst \in Places(TempId, VarName)
      /\ dst.kind = "temp" => /\ dst \in Temps(TempId)
                              /\ Mapped(c, dst.id) =>
                                     c.temp_register_mapping[dst.id].size = dst.size
      /\ dst.kind = "var" => dst \in VariablesOf(f) /\ dst \in Variables(VarName)
  BY SettingTarget
<1>3. f[n].dst = dst /\ f[n].op # "Call" /\ dst # NoOperand
  BY <1>1, Reading DEF BinaryOps
<1>4. a = Prepared(c, dst)
  BY <1>3 DEF Prepared
<1>5. SameSlots(a, a)
  BY DEF SameSlots
<1> HIDE DEF dst
<1>6. /\ Follows(c, a) /\ LocationOf(a, dst) \in Locations(a)
      /\ IF dst.kind = "temp" THEN a = AllocateNewForTemp(c, dst)
                              ELSE a = AllocateNewForVariable(c, dst)
      /\ SlotsGrow(c, a)
  BY <1>1, <1>2, AllocateFollows, AllocatedSlotsGrow
<1>7. SlotsOK(a, f)
  <2>1. SlotStep(c, a, f[n])
    BY <1>1, <1>3, <1>4, <1>5, PreparedStep
  <2> QED
    BY <1>1, <2>1, SlotsStep
<1> HIDE DEF a
<1>8. Simulated(a, r, Machine(c), f)
  BY <1>1, <1>6, PlacedSimulated
<1>9. dst.kind = "temp" => Mapped(a, dst.id) /\ a.temp_register_mapping[dst.id].size = dst.size
  BY <1>1, <1>2, <1>6, TempSized, AllocateTempFollows
<1>10. dst.kind = "var" => Placed(a, dst.name)
  <2> SUFFICES ASSUME dst.kind = "var" PROVE Placed(a, dst.name)
    OBVIOUS
  <2>1. LocationOf(a, dst) = a.variable_offset[dst.name]
    BY DEF LocationOf
  <2>2. NoOperand \notin Locations(a)
    BY RegisterKinds DEF Locations, Known, StackLocations, NoOperand
  <2> QED
    BY <1>6, <2>1, <2>2 DEF Placed
<1> QED
  BY <1>2, <1>4, <1>6, <1>7, <1>8, <1>9, <1>10 DEF dst, a, Follows

(* What the operations that assign have in common.                         *)
LEMMA PreparedArrived ==
    ASSUME NEW c, NEW r, NEW f, NEW n, Setting(c, r, f, n),
           f[n].op \in BinaryOps \cup {"Mov", "MovR"}, Target(f[n]) # NoOperand,
           NEW d, Follows(AllocateNew(c, Target(f[n])), d),
           SameSlots(AllocateNew(c, Target(f[n])), d),
           NEW X, \A id : VirtCell(id) \notin X,
           NEW value,
           Arrived(AllocateNew(c, Target(f[n])), Machine(c), Machine(d), X,
                   LocationOf(AllocateNew(c, Target(f[n])), Target(f[n])), Target(f[n]).size, value),
           NEW s, IsIR(s), s.temps = r.temps, s.vars = r.vars, s.outside = r.outside,
           s.pushed = r.pushed, s.trace = r.trace, s.params \subseteq r.params,
           \A reg \in s.params : BaseCell(reg) \notin X,
           s.flags # Undefined => Machine(d).flags = s.flags
    PROVE  /\ Simulated(d, Assign(s, Target(f[n]), value), Machine(d), f)
           /\ TargetSized(d, f[n])
<1> DEFINE dst == Target(f[n])
           a == AllocateNew(c, dst)
<1>1. /\ ContextOK(a) /\ Simulated(a, r, Machine(c), f) /\ SlotsOK(a, f)
      /\ dst \in Places(TempId, VarName)
      /\ dst.kind = "temp" => /\ Mapped(a, dst.id)
                              /\ a.temp_register_mapping[dst.id].size = dst.size
      /\ dst.kind = "var" => dst \in VariablesOf(f) /\ Placed(a, dst.name)
      /\ LocationOf(a, dst) \in Locations(a)
  BY PreparedSetting
<1>2. /\ Follows(a, d) /\ SameSlots(a, d)
      /\ Arrived(a, Machine(c), Machine(d), X, LocationOf(a, dst), dst.size, value)
      /\ f \in Seq(IROperation) /\ OneSize(f)
  BY DEF Setting, LinearFrame
<1> HIDE DEF a
<1> SUFFICES /\ Simulated(d, Assign(s, dst, value), Machine(d), f)
             /\ dst.kind = "temp" =>
                    Mapped(d, dst.id) /\ d.temp_register_mapping[dst.id].size = dst.size
  BY DEF TargetSized
<1> HIDE DEF dst
<1>3. SlotsGrow(a, d) /\ SlotsOK(d, f)
  BY <1>1, <1>2, SameSlotsGrow, SlotsSame
<1>4. LocationOf(d, dst) = LocationOf(a, dst)
  BY <1>1, <1>2, LocationKept
<1>5. dst.kind = "temp" =>
          Mapped(d, dst.id) /\ d.temp_register_mapping[dst.id].size = dst.size
  BY <1>1, <1>2, PlaceKinds, ValueKinds DEF Follows, Mapped
<1>6. dst.kind = "var" => Placed(d, dst.name)
  BY <1>1, <1>2 DEF SameSlots, Placed
<1>7. Simulated(d, Assign(s, dst, value), Machine(d), f)
  BY <1>1, <1>2, <1>3, <1>4, <1>5, <1>6, ArrivedSimulated
<1> QED
  BY <1>5, <1>7
-----------------------------------------------------------------------------
(* Each operation, when it does not go wrong, is simulated by the code it    *)
(* is lowered to.                                                          *)
LEMMA MovSimulated ==
    ASSUME NEW c, NEW r, NEW f, NEW n, Setting(c, r, f, n), f[n].op \in {"Mov", "MovR"},
           ~Lower(c, f[n]).thrown, GoesRight(r, Lower(c, f[n]), f[n])
    PROVE  LET d == Lower(c, f[n])
           IN  /\ Simulated(d, Effect(r, d, f[n]), Machine(d), f)
               /\ TargetSized(d, f[n])
<1> DEFINE o == f[n]
           d == Lower(c, o)
           a == AllocateNew(c, o.dst)
           l == LocationOf(a, o.dst)
           value == ValueOf(r, o.src)
<1>1. /\ o \in IROperation /\ ContextOK(c) /\ f \in Seq(IROperation)
      /\ State(c, r, Machine(c), f) /\ Simulated(c, r, Machine(c), f)
  BY DEF Setting, LinearFrame, Simulated
<1>2. /\ Target(o) = o.dst /\ o.src \in Sources(o) /\ o.dst \in Places(TempId, VarName)
      /\ o.dst # NoOperand
  BY <1>1, Reading, OperationFields, PlaceKinds
<1>3. d = LowerMov(c, o)
  BY LowerCases
<1>4. /\ ContextOK(a) /\ Follows(c, a) /\ a = Prepared(c, o.dst)
      /\ Simulated(a, r, Machine(c), f)
      /\ o.dst.kind = "temp" => /\ Mapped(a, o.dst.id)
                                /\ a.temp_register_mapping[o.dst.id].size = o.dst.size
      /\ o.dst.kind = "var" => Placed(a, o.dst.name) /\ o.dst \in VariablesOf(f)
  BY <1>2, PreparedSetting
<1>5. /\ \A v \in Sources(o) : Readable(r, v)
      /\ o.dst.size = SizeOf(o.src)
  BY DEF GoesRight
<1>6. PlaceContent(a, Machine(c), o.src) = value
  BY <1>2, <1>4, <1>5, SettingReads
<1>7. /\ o.src \in IRValue /\ HasPlace(c, o.src)
      /\ o.src.kind = "temp" =>
             Mapped(c, o.src.id) /\ c.temp_register_mapping[o.src.id].size = o.src.size
  BY <1>2, SettingSource DEF HasPlace
<1>8. Follows(a, d) /\ SameSlots(a, d)
  BY <1>1, <1>3, <1>4, MovFollows
<1>9. SizeFits(a, l, o.src)
  <2>1. ASSUME o.src.kind = "var", IsRegister(l) PROVE l.size = o.src.size
    <3>1. o.dst.kind = "temp"
      <4>1. ASSUME o.dst.kind = "var" PROVE FALSE
        <5>1. l \in StackLocations
          BY <1>4, <4>1, FrameVariable, <1>1, ContextFields DEF LocationOf, Placed
        <5> QED
          BY <2>1, <5>1, NotRegisters
      <4> QED
        BY <1>2, <4>1, PlaceKinds
    <3>2. l.size = o.dst.size
      BY <1>4, <3>1 DEF LocationOf
    <3> QED
      BY <1>5, <2>1, <3>2 DEF SizeOf
  <2>2. ASSUME o.src.kind = "temp" PROVE a.temp_register_mapping[o.src.id].size = o.src.size
    <3>1. o.src.id \in TempId
      BY <1>7, <2>2, ValueKinds
    <3> QED
      BY <1>4, <1>7, <2>2, <3>1 DEF Follows
  <2> QED
    BY <2>1, <2>2 DEF SizeFits
<1>10. /\ Arrived(a, Machine(c), Machine(d), {}, l, SizeOf(o.src), PlaceContent(a, Machine(c), o.src))
       /\ Machine(d).flags = Machine(c).flags
  BY <1>1, <1>3, <1>7, <1>9, MovMoves
<1>11. Effect(r, d, o) = Assign(r, o.dst, value)
  BY MovEffect
<1>12. /\ Arrived(a, Machine(c), Machine(d), {}, l, o.dst.size, value)
       /\ IsIR(r)
       /\ r.flags # Undefined => Machine(d).flags = r.flags
  BY <1>1, <1>5, <1>6, <1>10 DEF Simulated, Between, State
<1> HIDE DEF o, d, value
<1> SUFFICES Simulated(d, Effect(r, d, o), Machine(d), f) /\ TargetSized(d, o)
  BY DEF o, d
<1>13. Setting(c, r, f, n) /\ f[n].op \in {"Mov", "MovR"} /\ Target(f[n]) = o.dst
  BY <1>2 DEF o
<1>14. Simulated(d, Assign(r, o.dst, value), Machine(d), f) /\ TargetSized(d, f[n])
  BY <1>2, <1>8, <1>12, <1>13, PreparedArrived
<1> QED
  BY <1>11, <1>14 DEF o

LEMMA ArthSimulated ==
    ASSUME NEW c, NEW r, NEW f, NEW n, Setting(c, r, f, n), f[n].op \in BinaryOps \ {"Compare"},
           ~Lower(c, f[n]).thrown, GoesRight(r, Lower(c, f[n]), f[n])
    PROVE  LET d == Lower(c, f[n])
           IN  /\ Simulated(d, Effect(r, d, f[n]), Machine(d), f)
               /\ TargetSized(d, f[n])
<1> DEFINE o == f[n]
           d == Lower(c, o)
           a == AllocateNew(c, o.dst)
           s == AfterBinary(r, o)
           value == <<o.op, ValueOf(r, o.left), ValueOf(r, o.right)>>
<1>1. /\ o \in IROperation /\ ContextOK(c) /\ f \in Seq(IROperation)
      /\ State(c, r, Machine(c), f) /\ IsIR(r)
  BY DEF Setting, LinearFrame, Simulated, State
<1>2. /\ Target(o) = o.dst /\ o.left \in Sources(o) /\ o.right \in Sources(o)
      /\ o.dst \in Places(TempId, VarName) /\ o.dst # NoOperand
  BY <1>1, Reading, OperationFields, PlaceKinds
<1>3. d = LowerArth(c, o)
  BY LowerCases
<1>4. ContextOK(a) /\ a = Prepared(c, o.dst) /\ Simulated(a, r, Machine(c), f)
  BY <1>2, PreparedSetting
<1>5. /\ \A v \in Sources(o) : Readable(r, v)
      /\ IF o.op \in {"Add", "Sub"} THEN o.dst.size = SizeOf(o.left) ELSE o.dst.size = 4
  <2>1. /\ o.op # "Addr"
        /\ o.op \notin {"Add", "Sub"} => o.op \in BinaryOps \ {"Add", "Sub", "Compare"}
    BY DEF BinaryOps
  <2>2. /\ o.op # "Addr" => \A v \in Sources(o) : Readable(r, v)
        /\ o.op \in {"Add", "Sub"} => o.dst.size = SizeOf(o.left)
        /\ o.op \in BinaryOps \ {"Add", "Sub", "Compare"} => o.dst.size = 4
    BY DEF GoesRight
  <2> QED
    BY <2>1, <2>2
<1>6. /\ PlaceContent(a, Machine(c), o.left) = ValueOf(r, o.left)
      /\ PlaceContent(a, Machine(c), o.right) = ValueOf(r, o.right)
  BY <1>2, <1>4, <1>5, SettingReads
<1>7. HasPlace(c, o.left) /\ HasPlace(c, o.right)
  BY <1>2, SettingSource
<1>8. Follows(a, d) /\ SameSlots(a, d)
  BY <1>1, <1>3, <1>4, ArthFollows
<1>9. Arrived(a, Machine(c), Machine(d), Overwritten(o), LocationOf(a, o.dst),
              IF o.op \in {"Add", "Sub"} THEN SizeOf(o.left) ELSE 4,
              <<o.op, PlaceContent(a, Machine(c), o.left), PlaceContent(a, Machine(c), o.right)>>)
  BY <1>1, <1>3, <1>4, <1>7, ArthMoves
<1>10. Arrived(a, Machine(c), Machine(d), Overwritten(o), LocationOf(a, o.dst), o.dst.size, value)
  BY <1>5, <1>6, <1>9
<1>11. Effect(r, d, o) = Assign(s, o.dst, value)
  BY ArthEffect
<1>12. \A id : VirtCell(id) \notin Overwritten(o)
  BY Cells DEF Overwritten
<1>13. /\ IsIR(s) /\ s.temps = r.temps /\ s.vars = r.vars /\ s.trace = r.trace
       /\ s.outside = r.outside /\ s.pushed = r.pushed /\ s.flags = Undefined
       /\ s.params \subseteq r.params
       /\ \A reg \in s.params : BaseCell(reg) \notin Overwritten(o)
  BY <1>1, AfterBinaryIR
<1> HIDE DEF o, d, value, s
<1> SUFFICES Simulated(d, Effect(r, d, o), Machine(d), f) /\ TargetSized(d, o)
  BY DEF o, d
<1>14. Setting(c, r, f, n) /\ f[n].op \in BinaryOps /\ Target(f[n]) = o.dst
  BY <1>2 DEF o
<1>15. Simulated(d, Assign(s, o.dst, value), Machine(d), f) /\ TargetSized(d, f[n])
  BY <1>2, <1>8, <1>10, <1>12, <1>13, <1>14, PreparedArrived
<1> QED
  BY <1>11, <1>15 DEF o
(* The operations that assign nothing.                                     *)
LEMMA CompareSimulated ==
    ASSUME NEW c, NEW r, NEW f, NEW n, Setting(c, r, f, n), f[n].op = "Compare",
           ~Lower(c, f[n]).thrown, GoesRight(r, Lower(c, f[n]), f[n])
    PROVE  LET d == Lower(c, f[n])
           IN  /\ Simulated(d, Effect(r, d, f[n]), Machine(d), f)
               /\ TargetSized(d, f[n])
<1> DEFINE o == f[n]
           d == Lower(c, o)
           flags == <<ValueOf(r, o.left), ValueOf(r, o.right)>>
           q == [r EXCEPT !.flags = flags]
<1>1. /\ o \in IROperation /\ ContextOK(c) /\ f \in Seq(IROperation)
      /\ Simulated(c, r, Machine(c), f) /\ State(c, r, Machine(c), f) /\ IsIR(r)
      /\ o.op \in BinaryOps
  BY DEF Setting, LinearFrame, Simulated, State, BinaryOps
<1>2. /\ Target(o) = NoOperand /\ o.left \in Sources(o) /\ o.right \in Sources(o)
      /\ o.dst = NoOperand
  BY <1>1, Reading, OperationFields
<1>3. d = LowerArth(c, o) /\ Prepared(c, o.dst) = c
  BY <1>1, <1>2, LowerCases DEF Prepared
<1>4. \A v \in Sources(o) : Readable(r, v)
  BY DEF GoesRight
<1>5. /\ PlaceContent(c, Machine(c), o.left) = ValueOf(r, o.left)
      /\ PlaceContent(c, Machine(c), o.right) = ValueOf(r, o.right)
  BY <1>1, <1>2, <1>4, SettingReads
<1>6. HasPlace(c, o.left) /\ HasPlace(c, o.right)
  BY <1>2, SettingSource
<1>7. Follows(c, d) /\ SameSlots(c, d)
  BY <1>1, <1>3, ArthFollows
<1>8. /\ Quiet(c, Machine(c), Machine(d), {})
      /\ Machine(d).flags = <<PlaceContent(c, Machine(c), o.left),
                              PlaceContent(c, Machine(c), o.right)>>
  BY <1>1, <1>3, <1>6, ArthMoves
<1>9. Effect(r, d, o) = q
  BY CompareEffect
<1>10. Machine(d).flags = flags
  BY <1>5, <1>8
<1>11. Target(o).kind # "temp"
  BY <1>2 DEF NoOperand
<1> HIDE DEF o, d, flags
<1>12. /\ IsIR(q) /\ q.temps = r.temps /\ q.vars = r.vars /\ q.outside = r.outside
       /\ q.pushed = r.pushed /\ q.trace = r.trace /\ q.params = r.params /\ q.flags = flags
  BY <1>1 DEF IsIR
<1> HIDE DEF q
<1> SUFFICES Simulated(d, q, Machine(d), f) /\ TargetSized(d, o)
  BY <1>9 DEF o, d
<1>13. SlotsGrow(c, d)
  BY <1>1, <1>7, SameSlotsGrow
<1>14. State(d, q, Machine(d), f)
  BY <1>1, <1>7, <1>8, <1>12, <1>13, QuietState DEF Quiet, OnlyRegisters
<1>15. Between(q, Machine(d))
  BY <1>1, <1>8, <1>10, <1>12, BetweenKept DEF Simulated, Quiet, OnlyRegisters
<1> QED
  BY <1>1, <1>8, <1>11, <1>12, <1>14, <1>15
     DEF Simulated, Quiet, OnlyRegisters, TargetSized

LEMMA DefineSimulated ==
    ASSUME NEW c, NEW r, NEW f, NEW n, Setting(c, r, f, n), f[n].op = "DefineStackPushed",
           GoesRight(r, Lower(c, f[n]), f[n])
    PROVE  LET d == Lower(c, f[n])
           IN  /\ Simulated(d, Effect(r, d, f[n]), Machine(d), f)
               /\ TargetSized(d, f[n])
<1> DEFINE o == f[n]
           d == Lower(c, o)
           value == <<"pushed", r.pushed>>
           vars == Put(r.vars, o.name, value)
           q == [r EXCEPT !.vars = vars, !.pushed = @ + 1]
<1>1. /\ o \in IROperation /\ ContextOK(c) /\ f \in Seq(IROperation)
      /\ Simulated(c, r, Machine(c), f) /\ State(c, r, Machine(c), f) /\ IsIR(r)
  BY DEF Setting, LinearFrame, Simulated, State
<1>2. o.name \in VarName /\ Target(o) = NoOperand
  BY <1>1, OperationFields, Reading DEF BinaryOps
<1>3. d = define_stack_pushed_variable(c, o.name) /\ d.code = c.code
  BY <1>1, <1>2, LowerCases, DefineFollows
<1>4. r.pushed < PushedOnEntry
  BY DEF GoesRight
<1>5. Effect(r, d, o) = q
  BY DefineEffect
<1>6. Target(o).kind # "temp"
  BY <1>2 DEF NoOperand
<1> HIDE DEF d, o, vars
<1>7. /\ IsIR(q) /\ q.temps = r.temps /\ q.vars = vars /\ q.outside = r.outside
      /\ q.pushed = r.pushed + 1 /\ q.trace = r.trace /\ q.params = r.params
      /\ q.flags = r.flags
  BY <1>1 DEF IsIR
<1> HIDE DEF q
<1> SUFFICES Simulated(d, q, Machine(d), f) /\ TargetSized(d, o)
  BY <1>5 DEF o, d
<1>8. Machine(d) = Machine(c)
  BY <1>3, SameCode
<1>9. State(d, q, Machine(c), f)
  BY <1>1, <1>2, <1>3, <1>4, <1>7, StateDefined DEF vars
<1>10. Between(q, Machine(c))
  BY <1>1, <1>7 DEF Simulated, Between, ParamsHeld
<1> QED
  BY <1>1, <1>6, <1>7, <1>8, <1>9, <1>10 DEF Simulated, TargetSized
LEMMA RecordSimulated ==
    ASSUME NEW c, ContextOK(c), NEW d, Follows(c, d), SlotsGrow(c, d), NEW r, NEW m, NEW n,
           NEW f \in Seq(IROperation), Simulated(c, r, m, f),
           Quiet(c, m, n, {}), n.flags = m.flags,
           NEW event, ~IsCall(event)
    PROVE  Simulated(d, Record(r, event), Record(n, event), f)
<1> DEFINE q == Record(r, event)
           k == Record(n, event)
<1>1. /\ State(c, r, m, f) /\ IsIR(r) /\ IsMachine(n)
      /\ n.bytes = m.bytes /\ n.outside = m.outside /\ n.trace = m.trace
      /\ n.pushed = m.pushed
  BY DEF Simulated, State, Quiet, OnlyRegisters
<1>2. /\ IsIR(q) /\ q.temps = r.temps /\ q.vars = r.vars /\ q.flags = r.flags
      /\ q.params = r.params /\ q.outside = r.outside /\ q.pushed = r.pushed
      /\ q.trace = Append(r.trace, event)
  BY <1>1, RecordIR
<1>3. /\ IsMachine(k) /\ k.regs = n.regs /\ k.bytes = n.bytes /\ k.flags = n.flags
      /\ k.outside = n.outside /\ k.pushed = n.pushed /\ k.trace = Append(n.trace, event)
  BY <1>1, RecordFields
<1> HIDE DEF q, k
<1>4. SameRegisters(c, m, k, {})
  BY <1>3 DEF Quiet, SameRegisters
<1>5. State(d, q, k, f)
  BY <1>1, <1>2, <1>3, <1>4, QuietState
<1>6. Between(q, k)
  BY <1>1, <1>2, <1>3, <1>4, BetweenKept DEF Simulated, Between
<1>7. TracesAgree(q.trace, k.trace)
  <2>1. EventsAgree(event, event)
    BY DEF EventsAgree
  <2> QED
    BY <1>1, <1>2, <1>3, <2>1, TracesAppend DEF Simulated
<1> QED
  BY <1>5, <1>6, <1>7 DEF Simulated, q, k

LEMMA RetSimulated ==
    ASSUME NEW c, NEW r, NEW f, NEW n, Setting(c, r, f, n), f[n].op = "Ret",
           ~Lower(c, f[n]).thrown, GoesRight(r, Lower(c, f[n]), f[n])
    PROVE  LET d == Lower(c, f[n])
           IN  /\ Simulated(d, Effect(r, d, f[n]), Machine(d), f)
               /\ TargetSized(d, f[n])
<1> DEFINE o == f[n]
           d == Lower(c, o)
           event == <<"Return", ValueOf(r, o.value)>>
<1>1. /\ o \in IROperation /\ ContextOK(c) /\ f \in Seq(IROperation)
      /\ Simulated(c, r, Machine(c), f)
  BY DEF Setting, LinearFrame
<1>2. /\ Target(o) = NoOperand /\ o.value \in Sources(o)
  BY <1>1, Reading DEF BinaryOps
<1>3. d = LowerRet(c, o)
  BY LowerCases
<1>4. \A v \in Sources(o) : Readable(r, v)
  BY DEF GoesRight
<1>5. PlaceContent(c, Machine(c), o.value) = ValueOf(r, o.value)
  BY <1>1, <1>2, <1>4, SettingReads
<1>6. HasPlace(c, o.value)
  BY <1>2, SettingSource
<1>7. Follows(c, d) /\ SlotsGrow(c, d)
  BY <1>1, <1>3, RetFollows, SameSlotsGrow
<1>8. PICK k : /\ Quiet(c, Machine(c), k, {})
               /\ k.flags = Machine(c).flags
               /\ Machine(d) = Record(k, event)
  BY <1>1, <1>3, <1>5, <1>6, RetMoves
<1>9. Effect(r, d, o) = Record(r, event)
  BY LabelEffect
<1>10. Target(o).kind # "temp"
  BY <1>2 DEF NoOperand
<1>11. ~IsCall(event)
  BY DEF IsCall
<1> HIDE DEF o, d, event
<1>12. Simulated(d, Record(r, event), Machine(d), f)
  BY <1>1, <1>7, <1>8, <1>11, RecordSimulated
<1> QED
  BY <1>9, <1>10, <1>12 DEF TargetSized, o, d

LEMMA LabelsSimulated ==
    ASSUME NEW c, NEW r, NEW f, NEW n, Setting(c, r, f, n),
           f[n].op \in {"LabelDef", "Jump"} \cup CondJumps,
           GoesRight(r, Lower(c, f[n]), f[n])
    PROVE  LET d == Lower(c, f[n])
           IN  /\ Simulated(d, Effect(r, d, f[n]), Machine(d), f)
               /\ TargetSized(d, f[n])
<1> DEFINE o == f[n]
           d == Lower(c, o)
           m == Machine(c)
<1>1. /\ o \in IROperation /\ ContextOK(c) /\ f \in Seq(IROperation)
      /\ Simulated(c, r, m, f) /\ IsMachine(m)
  BY DEF Setting, LinearFrame, Simulated, State
<1>2. o.op \notin {"Mov", "MovR", "Addr", "Deref", "Call"} \cup BinaryOps
  BY DEF BinaryOps, CondJumps
<1>3. Target(o).kind # "temp"
  BY <1>1, <1>2, Reading DEF NoOperand
<1>4. Follows(c, d) /\ SameSlots(c, d)
  <2>1. CASE o.op = "LabelDef"
    <3>1. d = Emit(c, Ins("Label", NoOperand, LabelName(o.label)))
      BY <2>1, LowerCases
    <3>2. o.label \in STRING \cup {"end"}
      BY <1>1, <2>1, OperationFields DEF Labels
    <3> HIDE DEF d
    <3> QED
      BY <1>1, <3>1, <3>2, JumpFollows DEF LabelOnly
  <2>2. CASE o.op = "Jump"
    <3>1. d = Emit(c, Ins("Jump", NoOperand, LabelName(o.label)))
      BY <2>2, LowerCases
    <3>2. o.label \in STRING \cup {"end"}
      BY <1>1, <2>2, OperationFields DEF Labels
    <3> HIDE DEF d
    <3> QED
      BY <1>1, <3>1, <3>2, JumpFollows DEF LabelOnly
  <2>3. CASE o.op \in CondJumps
    BY <1>1, <2>3, LowerCases, ConditionalJumpFollows
  <2> QED
    BY <2>1, <2>2, <2>3
<1>5. SlotsGrow(c, d) /\ Follows(c, c) /\ SlotsGrow(c, c) /\ Quiet(c, m, m, {})
  BY <1>1, <1>4, SameSlotsGrow, FollowsSame, QuietSame
<1>6. CASE o.op = "LabelDef"
  <2> DEFINE event == <<"Label", o.label>>
  <2>1. Machine(d) = Record(m, event)
    BY <1>1, <1>6, LabelsMove
  <2>2. Effect(r, d, o) = Record(r, event)
    BY <1>6, LabelEffect
  <2>3. ~IsCall(event)
    BY DEF IsCall
  <2> HIDE DEF o, d, m, event
  <2>4. Simulated(d, Record(r, event), Record(m, event), f)
    BY <1>1, <1>4, <1>5, <2>3, RecordSimulated
  <2> QED
    BY <1>3, <2>1, <2>2, <2>4 DEF TargetSized, o, d
<1>7. CASE o.op = "Jump"
  <2> DEFINE event == <<"Jump", o.label>>
  <2>1. Machine(d) = Record(m, event)
    BY <1>1, <1>7, LabelsMove
  <2>2. Effect(r, d, o) = Record(r, event)
    BY <1>7, LabelEffect
  <2>3. ~IsCall(event)
    BY DEF IsCall
  <2> HIDE DEF o, d, m, event
  <2>4. Simulated(d, Record(r, event), Record(m, event), f)
    BY <1>1, <1>4, <1>5, <2>3, RecordSimulated
  <2> QED
    BY <1>3, <2>1, <2>2, <2>4 DEF TargetSized, o, d
<1>8. CASE o.op \in CondJumps
  <2> DEFINE first == <<o.op, r.flags, o.trueLabel>>
             second == <<"Jump", o.falseLabel>>
  <2>1. m.flags = r.flags
    BY <1>1, <1>8 DEF GoesRight, Simulated, Between
  <2>2. Machine(d) = Record(Record(m, first), second)
    BY <1>1, <1>8, <2>1, LabelsMove
  <2>3. Effect(r, d, o) = Record(Record(r, first), second)
    BY <1>8, JumpEffect
  <2>4. ~IsCall(first) /\ ~IsCall(second)
    BY <1>8 DEF IsCall, CondJumps
  <2> HIDE DEF o, d, m, first, second
  <2>5. Simulated(c, Record(r, first), Record(m, first), f)
    BY <1>1, <1>5, <2>4, RecordSimulated
  <2>6. Quiet(c, Record(m, first), Record(m, first), {})
    BY <1>1, RecordFields, QuietSame
  <2> DEFINE q == Record(r, first)
             k == Record(m, first)
  <2> HIDE DEF q, k
  <2>7. Simulated(d, Record(q, second), Record(k, second), f)
    BY <1>1, <1>4, <1>5, <2>4, <2>5, <2>6, RecordSimulated DEF q, k
  <2> QED
    BY <1>3, <2>2, <2>3, <2>7 DEF TargetSized, o, d, q, k
<1> QED
  BY <1>6, <1>7, <1>8
-----------------------------------------------------------------------------
(* Pointers.                                                               *)
LEMMA TempArrived ==
    ASSUME NEW c, NEW r, NEW f, NEW n, Setting(c, r, f, n),
           NEW a, ContextOK(a), Follows(c, a), SameSlots(c, a),
           NEW d, Follows(a, d), SameSlots(a, d),
           NEW dst \in Temps(TempId), Mapped(d, dst.id),
           NEW size, NEW value,
           Arrived(a, Machine(c), Machine(d), {}, LocationOf(d, dst), size, value),
           Machine(d).flags = Machine(c).flags
    PROVE  Simulated(d, Assign(r, dst, value), Machine(d), f)
<1> DEFINE m == Machine(c)
           k == Machine(d)
           l == LocationOf(d, dst)
<1>1. /\ ContextOK(c) /\ f \in Seq(IROperation) /\ SlotsOK(c, f) /\ OneSize(f)
      /\ Simulated(c, r, m, f) /\ IsIR(r)
  BY DEF Setting, LinearFrame, Simulated, State
<1>2. ContextOK(d)
  BY DEF Follows
<1>3. SlotsOK(d, f) /\ SlotsGrow(c, a) /\ SlotsGrow(a, d)
  <2>1. SlotsOK(a, f)
    BY <1>1, SlotsSame
  <2> QED
    BY <1>1, <2>1, SlotsSame, SameSlotsGrow
<1>4. Simulated(a, r, m, f)
  BY <1>1, <1>3, PlacedSimulated
<1>5. dst \in Places(TempId, VarName) /\ dst.kind = "temp" /\ IsRegister(l)
  BY <1>2, TempDestination DEF IsRegister
<1>6. Arrived(a, m, k, {}, l, dst.size, value)
  BY <1>5 DEF Arrived
<1>7. r.flags # Undefined => k.flags = r.flags
  BY <1>1 DEF Simulated, Between
<1> DEFINE X == {}
<1>8. /\ Arrived(a, m, k, X, l, dst.size, value)
      /\ \A id : VirtCell(id) \notin X
      /\ r.params \subseteq r.params /\ \A reg \in r.params : BaseCell(reg) \notin X
      /\ dst.kind # "var"
  BY <1>5, <1>6
<1> HIDE DEF m, k, X
<1> SUFFICES Simulated(d, Assign(r, dst, value), k, f)
  BY DEF k
<1> QED
  BY <1>1, <1>3, <1>4, <1>5, <1>7, <1>8, ArrivedSimulated

LEMMA AddrSimulated ==
    ASSUME NEW c, NEW r, NEW f, NEW n, Setting(c, r, f, n), f[n].op = "Addr",
           ~Lower(c, f[n]).thrown
    PROVE  LET d == Lower(c, f[n])
           IN  /\ Simulated(d, Effect(r, d, f[n]), Machine(d), f)
               /\ TargetSized(d, f[n])
<1> DEFINE o == f[n]
           d == Lower(c, o)
           a == AllocateNewForTemp(c, o.dst)
           value == Address(LocationOf(d, o.src).offset)
<1>1. /\ o \in IROperation /\ ContextOK(c)
  BY DEF Setting, LinearFrame
<1>2. Target(o) = o.dst /\ o.dst \in Temps(TempId)
  BY <1>1, Reading, OperationFields
<1>3. d = LowerAddr(c, o)
  BY LowerCases
<1>4. /\ Follows(a, d) /\ SameSlots(a, d)
      /\ Arrived(a, Machine(c), Machine(d), {}, LocationOf(a, o.dst), 8, value)
      /\ Machine(d).flags = Machine(c).flags
  BY <1>1, <1>3, AddrMoves
<1>5. /\ Follows(c, a) /\ SameSlots(c, a) /\ Mapped(a, o.dst.id) /\ ContextOK(a)
      /\ LocationOf(a, o.dst) = a.temp_register_mapping[o.dst.id]
  BY <1>1, <1>2, AllocateTempFollows DEF Follows
<1>6. a.temp_register_mapping[o.dst.id].size = o.dst.size
  <2>1. Target(o) # NoOperand /\ Target(o).kind = "temp"
    BY <1>2 DEF Temps, NoOperand
  <2>2. Mapped(c, o.dst.id) => c.temp_register_mapping[o.dst.id].size = o.dst.size
    BY <1>2, <2>1, SettingTarget
  <2> QED
    BY <1>1, <1>2, <2>2, TempSized
<1>7. Effect(r, d, o) = Assign(r, o.dst, value)
  BY AddrEffect
<1> HIDE DEF d, a, value
<1>8. o.dst.id \in TempId /\ o.dst.kind = "temp"
  BY <1>2 DEF Temps
<1>9. d.temp_register_mapping[o.dst.id] = a.temp_register_mapping[o.dst.id]
  BY <1>4, <1>5, <1>8 DEF Follows
<1>10. Mapped(d, o.dst.id) /\ LocationOf(d, o.dst) = LocationOf(a, o.dst)
  BY <1>5, <1>8, <1>9 DEF Mapped, LocationOf
<1>11. TargetSized(d, o)
  BY <1>2, <1>6, <1>9, <1>10 DEF TargetSized
<1>12. Simulated(d, Assign(r, o.dst, value), Machine(d), f)
  BY <1>2, <1>4, <1>5, <1>10, TempArrived
<1> QED
  BY <1>7, <1>11, <1>12 DEF d

(* Where ir can follow an address, the bytes there are a variable's.        *)
LEMMA PointeeIs ==
    ASSUME NEW d, NEW address, NEW size, PointedTo(d, address, size) # {}
    PROVE  LET p == Pointee(d, address, size)
           IN  /\ p \in VariablesOf(irFrames[lf]) /\ p.kind = "var" /\ p.size = size
               /\ Placed(d, p.name) /\ Offset(d, p.name) = address[2]
<1> DEFINE p == Pointee(d, address, size)
<1>1. p \in PointedTo(d, address, size)
  BY DEF Pointee
<1> HIDE DEF p
<1>2. /\ p \in VariablesOf(irFrames[lf]) /\ p.size = size
      /\ LocationOf(d, p) = StackLocation(address[2]) /\ p.kind = "var"
  BY <1>1 DEF PointedTo, VariablesOf
<1>3. d.variable_offset[p.name] = StackLocation(address[2])
  BY <1>2 DEF LocationOf
<1> QED
  BY <1>2, <1>3 DEF p, Placed, Offset, StackLocation, NoOperand

LEMMA FollowLoads ==
    ASSUME NEW c, ContextOK(c), NEW r, NEW m, NEW f \in Seq(IROperation), f = irFrames[lf],
           State(c, r, m, f), NEW d, d.variable_offset = c.variable_offset,
           NEW address, NEW size, CanFollow(r, d, address, size)
    PROVE  LoadAt(m, address, size) = At(r, d, address, size)
<1>1. CASE IsAddress(address)
  <2> DEFINE p == Pointee(d, address, size)
  <2>1. PointedTo(d, address, size) # {} /\ Readable(r, p)
    BY <1>1 DEF CanFollow
  <2>2. /\ p \in VariablesOf(f) /\ p.kind = "var" /\ p.size = size
        /\ Offset(d, p.name) = address[2]
    BY <2>1, PointeeIs
  <2> HIDE DEF p
  <2>3. p.name \in DOMAIN r.vars
    BY <2>1, <2>2 DEF Readable
  <2>4. Read(m.bytes, Offset(c, p.name), p.size) = r.vars[p.name]
    BY <2>2, <2>3, HeldVariable DEF State
  <2>5. LoadAt(m, address, size) = r.vars[p.name]
    BY <1>1, <2>2, <2>4 DEF LoadAt, Offset
  <2>6. At(r, d, address, size) = r.vars[p.name]
    BY <1>1, <2>2, <2>3 DEF At, ValueOf, Lookup, p
  <2> QED
    BY <2>5, <2>6
<1>2. CASE ~IsAddress(address)
  BY <1>2 DEF LoadAt, At, State
<1> QED
  BY <1>1, <1>2

LEMMA DerefSimulated ==
    ASSUME NEW c, NEW r, NEW f, NEW n, Setting(c, r, f, n), f[n].op = "Deref",
           ~Lower(c, f[n]).thrown, GoesRight(r, Lower(c, f[n]), f[n])
    PROVE  LET d == Lower(c, f[n])
           IN  /\ Simulated(d, Effect(r, d, f[n]), Machine(d), f)
               /\ TargetSized(d, f[n])
<1> DEFINE o == f[n]
           d == Lower(c, o)
           hops == Hops(o.depth)
           chain == Followed(r, d, o.src, hops)
           slot == LocationOf(c, o.src)
           e == FollowPointer(c, slot, hops)
           a == AllocateNewForTemp(e, o.dst)
           l == LocationOf(a, o.dst)
           m == Machine(c)
<1>1. /\ o \in IROperation /\ ContextOK(c) /\ f \in Seq(IROperation) /\ f = irFrames[lf]
      /\ State(c, r, m, f) /\ Simulated(c, r, m, f)
  BY DEF Setting, LinearFrame, Simulated
<1>2. /\ Target(o) = o.dst /\ o.dst \in Temps(TempId) /\ o.src \in Sources(o)
      /\ o.src \in IRValue /\ o.depth \in Nat
  BY <1>1, Reading, OperationFields
<1>3. d = LowerDeref(c, o) /\ hops \in Nat
  BY <1>2, LowerCases DEF Hops
<1>4. HasSlot(c, o.src)
  BY <1>3 DEF LowerDeref, Throws, HasSlot
<1>5. SameSlots(c, d)
  BY <1>1, <1>3, DerefFollows
<1>6. /\ \A v \in Sources(o) : Readable(r, v)
      /\ o.src.size = 8
      /\ \A k \in 0..(hops - 1) : CanFollow(r, d, chain[k], 8)
      /\ CanFollow(r, d, chain[hops], o.dst.size)
  BY DEF GoesRight
<1>7. chain[0] = Read(m.bytes, slot.offset, 8)
  <2>1. PlaceContent(c, m, o.src) = ValueOf(r, o.src)
    BY <1>1, <1>2, <1>6, SettingReads
  <2>2. PlaceContent(c, m, o.src) = Read(m.bytes, slot.offset, 8)
    BY <1>4, <1>6 DEF HasSlot, PlaceContent, Offset, LocationOf
  <2>3. chain[0] = ValueOf(r, o.src)
    BY <1>3, FollowedSteps
  <2> QED
    BY <2>1, <2>2, <2>3
<1>8. ASSUME NEW k \in 1..hops PROVE chain[k] = LoadAt(m, chain[k - 1], 8)
  <2>1. chain[k] = At(r, d, chain[k - 1], 8)
    BY <1>3, FollowedSteps
  <2>2. CanFollow(r, d, chain[k - 1], 8)
    <3>1. k - 1 \in 0..(hops - 1)
      BY <1>3
    <3> QED
      BY <1>6, <3>1
  <2>3. LoadAt(m, chain[k - 1], 8) = At(r, d, chain[k - 1], 8)
    BY <1>1, <1>5, <2>2, FollowLoads DEF SameSlots
  <2> QED
    BY <2>1, <2>3
<1> HIDE DEF chain
<1>9. /\ Follows(e, a) /\ Follows(a, d)
      /\ e.temp_register_mapping = c.temp_register_mapping
      /\ ContextOK(e)
      /\ Arrived(c, m, Machine(d), {}, l, l.size, LoadAt(m, chain[hops], l.size))
      /\ Machine(d).flags = m.flags
  BY <1>1, <1>3, <1>7, <1>8, DerefMoves
<1> HIDE DEF e
<1>10. a.temp_register_mapping[o.dst.id].size = o.dst.size
  <2>1. Target(o) # NoOperand /\ Target(o).kind = "temp"
    BY <1>2 DEF Temps, NoOperand
  <2>2. Mapped(c, o.dst.id) => c.temp_register_mapping[o.dst.id].size = o.dst.size
    BY <1>2, <2>1, SettingTarget
  <2>3. Mapped(e, o.dst.id) => e.temp_register_mapping[o.dst.id].size = o.dst.size
    BY <1>9, <2>2 DEF Mapped
  <2> QED
    BY <1>2, <1>9, <2>3, TempSized
<1>11. Mapped(a, o.dst.id) /\ l = a.temp_register_mapping[o.dst.id]
  BY <1>2, <1>9, AllocateTempFollows
<1>12. Follows(c, d)
  BY <1>1, <1>3, DerefFollows
<1> DEFINE value == At(r, d, chain[hops], o.dst.size)
<1>13. LoadAt(m, chain[hops], l.size) = value
  BY <1>1, <1>5, <1>6, <1>10, <1>11, FollowLoads DEF SameSlots
<1>14. Effect(r, d, o) = Assign(r, o.dst, value)
  BY DerefEffect DEF chain
<1> HIDE DEF d, a, value, l
<1>15. o.dst.id \in TempId /\ o.dst.kind = "temp"
  BY <1>2 DEF Temps
<1>16. d.temp_register_mapping[o.dst.id] = a.temp_register_mapping[o.dst.id]
  BY <1>9, <1>11, <1>15 DEF Follows
<1>17. Mapped(d, o.dst.id) /\ LocationOf(d, o.dst) = l
  BY <1>11, <1>15, <1>16 DEF Mapped, LocationOf
<1>18. TargetSized(d, o)
  BY <1>2, <1>10, <1>16, <1>17 DEF TargetSized
<1>19. Simulated(d, Assign(r, o.dst, value), Machine(d), f)
  BY <1>1, <1>2, <1>5, <1>9, <1>12, <1>13, <1>17, FollowsSame, TempArrived
<1> QED
  BY <1>14, <1>18, <1>19 DEF d

(* A store through a pointer, as both machines do it: to the variable the   *)
(* address is of, or to the memory outside the frame.                      *)
LEMMA StoreSimulated ==
    ASSUME NEW c, ContextOK(c), NEW d, Follows(c, d), SameSlots(c, d),
           NEW f \in Seq(IROperation), f = irFrames[lf], SlotsOK(c, f), OneSize(f),
           NEW r, NEW m, Simulated(c, r, m, f),
           NEW k, Quiet(c, m, k, {}), k.flags = m.flags,
           NEW address, NEW src, NEW size, size = SizeOf(src),
           NEW value, value = ValueOf(r, src),
           IsAddress(address) => PointedTo(d, address, size) # {}
    PROVE  Simulated(d, StoreThrough(r, d, address, src), StoreAt(k, address, size, value), f)
<1> DEFINE q == StoreThrough(r, d, address, src)
           w == StoreAt(k, address, size, value)
<1> SUFFICES Simulated(d, q, w, f)
  OBVIOUS
<1>1. State(c, r, m, f) /\ IsIR(r)
  BY DEF Simulated, State
<1>2. SlotsGrow(c, d) /\ SlotsOK(d, f) /\ ContextOK(d)
  BY SameSlotsGrow, SlotsSame DEF Follows
<1>3. /\ IsMachine(k) /\ k.bytes = m.bytes /\ k.outside = m.outside /\ k.trace = m.trace
      /\ k.pushed = m.pushed /\ SameRegisters(c, m, k, {})
  BY DEF Quiet, OnlyRegisters
<1>4. /\ m.outside = r.outside /\ TracesAgree(r.trace, m.trace)
      /\ r.flags # Undefined => m.flags = r.flags
  BY DEF Simulated, State, Between
<1>5. \A u \in DOMAIN r.temps :
          Lookup(k.regs, VirtCell(RegisterOf(c, u))) = Lookup(m.regs, VirtCell(RegisterOf(c, u)))
  <2> SUFFICES ASSUME NEW u \in DOMAIN r.temps
               PROVE  VirtCell(RegisterOf(c, u)) \in OldCells(c) \ {}
    BY <1>3 DEF SameRegisters
  <2>1. u \in TempId /\ Mapped(c, u)
    BY <1>1 DEF State, TempsHeld
  <2> QED
    BY <2>1, ContextFields DEF OldCells
<1>6. CASE IsAddress(address)
  <2> DEFINE p == Pointee(d, address, size)
  <2>1. /\ p \in VariablesOf(f) /\ p.kind = "var" /\ p.size = size
        /\ Placed(d, p.name) /\ Offset(d, p.name) = address[2]
    <3>1. PointedTo(d, address, size) # {}
      BY <1>6
    <3> QED
      BY <3>1, PointeeIs
  <2>2. q = Assign(r, p, value)
    BY <1>6 DEF StoreThrough
  <2>3. w = [k EXCEPT !.bytes = Write(@, address[2], size, value)]
    BY <1>6 DEF StoreAt
  <2> HIDE DEF p, q
  <2>4. /\ IsIR(q) /\ q.vars = Put(r.vars, p.name, value) /\ q.temps = r.temps
        /\ q.pushed = r.pushed /\ q.outside = r.outside /\ q.trace = r.trace
        /\ q.params = r.params /\ q.flags = r.flags
    BY <1>1, <2>1, <2>2, AssignFields
  <2> HIDE DEF w
  <2>5. /\ IsMachine(w) /\ w.bytes = Write(m.bytes, Offset(d, p.name), p.size, value)
        /\ w.outside = k.outside /\ w.regs = k.regs /\ w.trace = k.trace
        /\ w.pushed = k.pushed /\ w.flags = k.flags
    BY <1>3, <2>1, <2>3 DEF IsMachine
  <2>6. State(d, q, w, f)
    <3>1. w.outside = q.outside
      BY <1>3, <1>4, <2>4, <2>5
    <3>2. \A u \in DOMAIN r.temps :
              Lookup(w.regs, VirtCell(RegisterOf(c, u)))
                  = Lookup(m.regs, VirtCell(RegisterOf(c, u)))
      BY <1>5, <2>5
    <3> QED
      BY <1>1, <1>2, <2>1, <2>4, <2>5, <3>1, <3>2, StateVarAssigned
  <2>7. SameRegisters(c, m, w, {})
    BY <1>3, <2>5 DEF SameRegisters
  <2>8. Between(q, w)
    BY <1>3, <1>4, <2>4, <2>5, <2>7, BetweenKept DEF Simulated
  <2> QED
    BY <1>3, <1>4, <2>4, <2>5, <2>6, <2>8 DEF Simulated
<1>7. CASE ~IsAddress(address)
  <2> DEFINE pair == <<address, value>>
  <2>1. q = [r EXCEPT !.outside = Append(@, pair)]
    BY <1>7 DEF StoreThrough
  <2>2. w = [k EXCEPT !.outside = Append(@, pair)]
    BY <1>7 DEF StoreAt
  <2> HIDE DEF pair, q, w
  <2>3. /\ IsIR(q) /\ q.vars = r.vars /\ q.temps = r.temps
        /\ q.pushed = r.pushed /\ q.outside = Append(r.outside, pair) /\ q.trace = r.trace
        /\ q.params = r.params /\ q.flags = r.flags
    BY <1>1, <2>1 DEF IsIR
  <2>4. /\ IsMachine(w) /\ w.bytes = k.bytes
        /\ w.outside = Append(k.outside, pair) /\ w.regs = k.regs /\ w.trace = k.trace
        /\ w.pushed = k.pushed /\ w.flags = k.flags
    BY <1>3, <2>2 DEF IsMachine
  <2>5. State(d, q, w, f)
    <3>1. w.outside = q.outside
      BY <1>3, <1>4, <2>3, <2>4
    <3>2. w.bytes = m.bytes
      BY <1>3, <2>4
    <3>3. \A u \in DOMAIN r.temps :
              Lookup(w.regs, VirtCell(RegisterOf(c, u)))
                  = Lookup(m.regs, VirtCell(RegisterOf(c, u)))
      BY <1>5, <2>4
    <3>4. IsIR(q) /\ IsMachine(w) /\ q.temps = r.temps /\ q.vars = r.vars /\ q.pushed = r.pushed
      BY <2>3, <2>4
    <3> QED
      BY <1>1, <1>2, <3>1, <3>2, <3>3, <3>4, StateKept
  <2>6. SameRegisters(c, m, w, {})
    BY <1>3, <2>4 DEF SameRegisters
  <2>7. Between(q, w)
    BY <1>3, <1>4, <2>3, <2>4, <2>6, BetweenKept DEF Simulated
  <2> QED
    BY <1>3, <1>4, <2>3, <2>4, <2>5, <2>7 DEF Simulated
<1> QED
  BY <1>6, <1>7

LEMMA DerefStoreSimulated ==
    ASSUME NEW c, NEW r, NEW f, NEW n, Setting(c, r, f, n), f[n].op = "DerefStore",
           ~Lower(c, f[n]).thrown, GoesRight(r, Lower(c, f[n]), f[n])
    PROVE  LET d == Lower(c, f[n])
           IN  /\ Simulated(d, Effect(r, d, f[n]), Machine(d), f)
               /\ TargetSized(d, f[n])
<1> DEFINE o == f[n]
           d == Lower(c, o)
           m == Machine(c)
           address == ValueOf(r, o.dst)
           value == ValueOf(r, o.src)
           size == SizeOf(o.src)
           q == StoreThrough(r, d, address, o.src)
<1>1. /\ o \in IROperation /\ ContextOK(c) /\ f \in Seq(IROperation) /\ f = irFrames[lf]
      /\ SlotsOK(c, f) /\ OneSize(f)
      /\ Simulated(c, r, m, f) /\ State(c, r, m, f) /\ IsIR(r)
  BY DEF Setting, LinearFrame, Simulated, State
<1>2. /\ Target(o) = NoOperand /\ o.src \in Sources(o) /\ o.dst \in Sources(o)
  BY <1>1, Reading DEF BinaryOps
<1>3. d = LowerDerefStore(c, o)
  BY LowerCases
<1>4. /\ \A v \in Sources(o) : Readable(r, v)
      /\ SizeOf(o.dst) = 8
      /\ IsAddress(address) => PointedTo(d, address, size) # {}
  BY DEF GoesRight
<1>5. PlaceContent(c, m, o.dst) = address /\ PlaceContent(c, m, o.src) = value
  BY <1>1, <1>2, <1>4, SettingReads
<1>6. HasPlace(c, o.dst) /\ HasPlace(c, o.src)
  BY <1>2, SettingSource
<1>7. Follows(c, d) /\ SameSlots(c, d)
  BY <1>1, <1>3, DerefStoreFollows
<1>8. PICK k : /\ Quiet(c, m, k, {})
               /\ k.flags = m.flags
               /\ Machine(d) = StoreAt(k, address, size, value)
  BY <1>1, <1>3, <1>4, <1>5, <1>6, DerefStoreMoves
<1>9. Effect(r, d, o) = q
  BY DerefStoreEffect
<1>10. Target(o).kind # "temp"
  BY <1>2 DEF NoOperand
<1>11. q = StoreThrough(r, d, address, o.src) /\ f = irFrames[lf] /\ IsIR(r)
  BY <1>1
<1>12. IsAddress(address) => PointedTo(d, address, size) # {}
  BY DEF GoesRight
<1> HIDE DEF o, d, m, address, value, size, q
<1>13. Simulated(d, q, StoreAt(k, address, size, value), f)
  BY <1>1, <1>7, <1>8, <1>11, <1>12, StoreSimulated DEF value, size
<1> QED
  BY <1>8, <1>9, <1>10, <1>13 DEF TargetSized, d, o
(* Every operation but a call.                                             *)
LEMMA LowerSimulated ==
    ASSUME NEW c, NEW r, NEW f, NEW n, Setting(c, r, f, n), f[n].op # "Call",
           ~Lower(c, f[n]).thrown, GoesRight(r, Lower(c, f[n]), f[n])
    PROVE  LET d == Lower(c, f[n])
           IN  /\ Simulated(d, Effect(r, d, f[n]), Machine(d), f)
               /\ TargetSized(d, f[n])
<1>1. f[n] \in IROperation
  BY DEF Setting, LinearFrame
<1>2. \/ f[n].op \in {"Mov", "MovR"}
      \/ f[n].op \in BinaryOps \ {"Compare"}
      \/ f[n].op = "Compare"
      \/ f[n].op = "Addr"
      \/ f[n].op = "Deref"
      \/ f[n].op = "DerefStore"
      \/ f[n].op = "DefineStackPushed"
      \/ f[n].op = "Ret"
      \/ f[n].op \in {"LabelDef", "Jump"} \cup CondJumps
  BY <1>1, OperationFields
<1>3. CASE f[n].op \in {"Mov", "MovR"}
  BY <1>3, MovSimulated
<1>4. CASE f[n].op \in BinaryOps \ {"Compare"}
  BY <1>4, ArthSimulated
<1>5. CASE f[n].op = "Compare"
  BY <1>5, CompareSimulated
<1>6. CASE f[n].op = "Addr"
  BY <1>6, AddrSimulated
<1>7. CASE f[n].op = "Deref"
  BY <1>7, DerefSimulated
<1>8. CASE f[n].op = "DerefStore"
  BY <1>8, DerefStoreSimulated
<1>9. CASE f[n].op = "DefineStackPushed"
  BY <1>9, DefineSimulated
<1>10. CASE f[n].op = "Ret"
  BY <1>10, RetSimulated
<1>11. CASE f[n].op \in {"LabelDef", "Jump"} \cup CondJumps
  BY <1>11, LabelsSimulated
<1> QED
  BY <1>2, <1>3, <1>4, <1>5, <1>6, <1>7, <1>8, <1>9, <1>10, <1>11

(* A temporary that gets a register gets one of its size: an operation maps  *)
(* no temporary but its target, and no other operation has that target.     *)
LEMMA SizesStep ==
    ASSUME NEW c, NEW d, NEW f, LinearFrame(f), NEW n \in DOMAIN f,
           SizesOK(c, f), Follows(c, d), TargetSized(d, f[n]),
           \A t \in TempId : Mapped(d, t) /\ ~IsTemp(Target(f[n]), t) => Mapped(c, t)
    PROVE  SizesOK(d, f)
<1> SUFFICES ASSUME NEW k \in DOMAIN f,
                    Target(f[k]).kind = "temp", Mapped(d, Target(f[k]).id)
             PROVE  d.temp_register_mapping[Target(f[k]).id].size = Target(f[k]).size
  BY DEF SizesOK
<1> DEFINE t == Target(f[k]).id
<1>1. t \in TempId
  <2>1. f[k] \in IROperation
    BY DEF LinearFrame
  <2>2. Target(f[k]) \in Places(TempId, VarName) \cup {NoOperand}
    BY <2>1, TargetType
  <2> QED
    BY <2>2 DEF Places, Temps, Variables, NoOperand
<1>2. CASE IsTemp(Target(f[n]), t)
  <2>1. k = n
    BY <1>1, <1>2 DEF LinearFrame, LinearOperations, IsTemp
  <2> QED
    BY <2>1 DEF TargetSized
<1>3. CASE ~IsTemp(Target(f[n]), t)
  <2>1. Mapped(c, t)
    BY <1>1, <1>3
  <2>2. d.temp_register_mapping[t] = c.temp_register_mapping[t]
    BY <1>1, <2>1 DEF Follows
  <2> QED
    BY <2>1, <2>2 DEF SizesOK
<1> QED
  BY <1>2, <1>3

LEMMA SizesLower ==
    ASSUME NEW c, NEW d, NEW f, LinearFrame(f), NEW n \in DOMAIN f, SizesOK(c, f),
           OperationReady(c, f[n]), Follows(c, d), LinearStep(c, d, f[n]), TargetSized(d, f[n])
    PROVE  SizesOK(d, f)
<1>1. ASSUME NEW t \in TempId, Mapped(d, t), ~IsTemp(Target(f[n]), t)
      PROVE  Mapped(c, t)
  <2>1. CASE Uses(f[n], t)
    <3>1. PICK v \in Sources(f[n]) : IsTemp(v, t)
      BY <1>1, <2>1 DEF Uses
    <3> QED
      BY <3>1 DEF OperationReady, CanRead, IsTemp
  <2>2. CASE ~Uses(f[n], t)
    BY <1>1, <2>2 DEF LinearStep, TempKept
  <2> QED
    BY <2>1, <2>2
<1> QED
  BY <1>1, SizesStep
-----------------------------------------------------------------------------
(* Calls.  After p arguments, the last of them are in the registers of the   *)
(* parameters and those before on the stack.  An argument that nothing has  *)
(* set is passed too: whether the call goes right is known at its end.      *)
Passing(r, m, o, p) ==
    /\ Listed(m.pushed)
    /\ Len(m.pushed) = IF p > 6 THEN p - 6 ELSE 0
    /\ \A j \in 1..6 :
           j <= p /\ Readable(r, o.args[Len(o.args) + 1 - j]) =>
               Lookup(m.regs, BaseCell(param_regs[j])) = ValueOf(r, o.args[Len(o.args) + 1 - j])
    /\ \A k \in 1..Len(m.pushed) :
           Readable(r, o.args[Len(o.args) - p + k]) =>
               m.pushed[k] = ValueOf(r, o.args[Len(o.args) - p + k])

LEMMA ListedPrepend ==
    ASSUME NEW s, Listed(s), NEW e
    PROVE  LET t == <<e>> \o s
           IN  /\ Listed(t)
               /\ Len(s) \in Nat /\ Len(t) = Len(s) + 1
               /\ t[1] = e
               /\ \A k \in 2..Len(t) : t[k] = s[k - 1]
<1> DEFINE S == {s[k] : k \in DOMAIN s} \cup {e}
           R == {s[k] : k \in DOMAIN s}
           t == <<e>> \o s
<1> SUFFICES /\ Listed(t)
             /\ Len(s) \in Nat /\ Len(t) = Len(s) + 1
             /\ t[1] = e
             /\ \A k \in 2..Len(t) : t[k] = s[k - 1]
  OBVIOUS
<1>1. s \in Seq(R) /\ R \subseteq S /\ e \in S
  BY DEF Listed
<1> HIDE DEF S, R
<1>2. s \in Seq(S) /\ <<e>> \in Seq(S)
  BY <1>1
<1>3. /\ t \in Seq(S) /\ Len(s) \in Nat /\ Len(t) = Len(s) + 1
      /\ t[1] = e
      /\ \A k \in 2..Len(t) : t[k] = s[k - 1]
  BY <1>2
<1> HIDE DEF t
<1>4. t = [k \in 1..(Len(s) + 1) |-> t[k]]
  BY <1>3
<1>5. Listed(t)
  BY <1>3, <1>4, ListedFunction
<1> QED
  BY <1>3, <1>5

LEMMA HardNotPassed ==
    ASSUME NEW c, NEW v \in IRValue, v.kind = "hard", NEW index \in Nat
    PROVE  PassArgument(c, v, index) = Throws(c)
<1>1. CASE index < 6
  <2> DEFINE l == HardcodedRegister(param_regs[index + 1], SizeOf(v))
  <2>1. IsRegister(l)
    <3>1. param_regs[index + 1] \in BaseRegister
      BY <1>1, ParamRegisters
    <3> QED
      BY <3>1, ValueKinds, HardcodedKnown DEF IsRegister
  <2> HIDE DEF l
  <2>2. toLocation(c, l, v) = Throws(c)
    BY <2>1 DEF toLocation, HasSlot
  <2> QED
    BY <1>1, <2>2 DEF PassArgument, PassedInRegister, l
<1>2. CASE ~(index < 6)
  BY <1>2 DEF PassArgument, PassedInRegister, HasSlot
<1> QED
  BY <1>1, <1>2
(* One more argument is where the callee looks for it, and those passed      *)
(* before still are.                                                       *)
LEMMA PassSimulated ==
    ASSUME NEW c, ContextOK(c), NEW r, NEW f \in Seq(IROperation),
           NEW o, o.args \in Seq(IRValue), NEW p \in 0..(Len(o.args) - 1),
           HasPlace(c, o.args[Len(o.args) - p]),
           o.args[Len(o.args) - p].kind = "var" => o.args[Len(o.args) - p] \in VariablesOf(f),
           State(c, r, Machine(c), f), Passing(r, Machine(c), o, p),
           ~PassArgument(c, o.args[Len(o.args) - p], p).thrown
    PROVE  LET d == PassArgument(c, o.args[Len(o.args) - p], p)
           IN  /\ State(d, r, Machine(d), f)
               /\ Machine(d).trace = Machine(c).trace
               /\ Passing(r, Machine(d), o, p + 1)
<1> DEFINE N == Len(o.args)
           v == o.args[N - p]
           d == PassArgument(c, v, p)
           m == Machine(c)
           w == Machine(d)
           value == PlaceContent(c, m, v)
<1>1. /\ p \in Nat /\ N \in Nat /\ v \in IRValue /\ HasPlace(c, v) /\ ~d.thrown
      /\ v.kind = "var" => v \in VariablesOf(f)
  OBVIOUS
<1>2. Follows(c, d) /\ SameSlots(c, d)
  BY <1>1, PassFollows
<1>3. SlotsGrow(c, d)
  BY <1>2, SameSlotsGrow
<1>4. v.kind # "hard"
  <2> SUFFICES ASSUME v.kind = "hard" PROVE FALSE
    OBVIOUS
  <2>1. PassArgument(c, v, p) = Throws(c)
    BY <1>1, HardNotPassed
  <2>2. Throws(c).thrown
    BY ThrowsFollows
  <2> QED
    BY <1>1, <2>1, <2>2
<1>5. Readable(r, v) => value = ValueOf(r, v)
  BY <1>1, <1>4, ReadPlace DEF State
<1>6. IF p < 6
        THEN LET l == HardcodedRegister(param_regs[p + 1], SizeOf(v)) IN
             Arrived(c, m, w, {}, l, SizeOf(v), value)
      ELSE \E n : Quiet(c, m, n, {}) /\ w = [n EXCEPT !.pushed = <<value>> \o @]
  <2>1. p \in Nat /\ HasPlace(c, v) /\ v \in IRValue /\ ~PassArgument(c, v, p).thrown
    BY <1>1
  <2> HIDE DEF d, m, w, value, v, N
  <2>2. IF p < 6
          THEN Arrived(c, Machine(c), Machine(PassArgument(c, v, p)), {},
                       HardcodedRegister(param_regs[p + 1], SizeOf(v)), SizeOf(v),
                       PlaceContent(c, Machine(c), v))
        ELSE \E n : /\ Quiet(c, Machine(c), n, {})
                    /\ Machine(PassArgument(c, v, p)) =
                           [n EXCEPT !.pushed = <<PlaceContent(c, Machine(c), v)>> \o @]
    BY <2>1, PassMoves, ZenonT(40)
  <2> QED
    BY <2>2 DEF d, m, w, value
<1>7. /\ Listed(m.pushed)
      /\ Len(m.pushed) = IF p > 6 THEN p - 6 ELSE 0
      /\ \A j \in 1..6 :
             j <= p /\ Readable(r, o.args[N + 1 - j]) =>
                 Lookup(m.regs, BaseCell(param_regs[j])) = ValueOf(r, o.args[N + 1 - j])
      /\ \A k \in 1..Len(m.pushed) :
             Readable(r, o.args[N - p + k]) => m.pushed[k] = ValueOf(r, o.args[N - p + k])
  BY DEF Passing
<1>8. IsIR(r) /\ State(c, r, m, f)
  BY DEF State
<1>9. v = o.args[N - p]
  OBVIOUS
<1> SUFFICES /\ State(d, r, w, f)
             /\ w.trace = m.trace
             /\ Passing(r, w, o, p + 1)
  OBVIOUS
<1> HIDE DEF d, m, w, value, v, N
<1>10. CASE p < 6
  <2> DEFINE cell == BaseCell(param_regs[p + 1])
  <2>1. /\ IsMachine(w) /\ w.bytes = m.bytes /\ w.outside = m.outside
        /\ w.trace = m.trace /\ w.pushed = m.pushed
        /\ Lookup(w.regs, cell) = value
        /\ SameRegisters(c, m, w, {cell})
    <3> DEFINE l == HardcodedRegister(param_regs[p + 1], SizeOf(v))
    <3>1. IsRegister(l) /\ CellOf(l) = cell
      <4>1. param_regs[p + 1] \in BaseRegister
        BY <1>1, <1>10, ParamRegisters
      <4> QED
        BY <1>1, <4>1, ValueKinds, HardcodedKnown
           DEF IsRegister, CellOf, BaseCell, HardcodedRegister
    <3>2. Arrived(c, m, w, {}, l, SizeOf(v), value)
      BY <1>6, <1>10
    <3> HIDE DEF l, cell
    <3>3. {} \cup {CellOf(l)} = {cell}
      BY <3>1
    <3> QED
      BY <3>1, <3>2, <3>3 DEF Arrived
  <2>2. State(d, r, w, f)
    <3>1. \A id : VirtCell(id) \notin {cell}
      BY Cells
    <3> HIDE DEF cell
    <3> QED
      BY <1>2, <1>3, <1>8, <2>1, <3>1, QuietState
  <2>3. ASSUME NEW j \in 1..6, j <= p + 1, Readable(r, o.args[N + 1 - j])
        PROVE  Lookup(w.regs, BaseCell(param_regs[j])) = ValueOf(r, o.args[N + 1 - j])
    <3>1. CASE j = p + 1
      <4>1. o.args[N + 1 - j] = v
        BY <1>1, <1>9, <3>1
      <4> QED
        BY <1>5, <2>1, <2>3, <3>1, <4>1
    <3>2. CASE j # p + 1
      <4>1. j <= p
        BY <1>1, <2>3, <3>2
      <4>2. Lookup(m.regs, BaseCell(param_regs[j])) = ValueOf(r, o.args[N + 1 - j])
        BY <1>7, <2>3, <4>1
      <4>3. BaseCell(param_regs[j]) \in OldCells(c) \ {cell}
        <5>1. p + 1 \in 1..6
          BY <1>1, <1>10
        <5> QED
          BY <3>2, <5>1, ParamRegisters, Cells DEF OldCells
      <4> QED
        BY <2>1, <4>2, <4>3 DEF SameRegisters
    <3> QED
      BY <3>1, <3>2
  <2>4. Len(m.pushed) = 0 /\ ~(p + 1 > 6)
    BY <1>1, <1>7, <1>10
  <2>5. Passing(r, w, o, p + 1)
    BY <1>7, <2>1, <2>3, <2>4 DEF Passing, N
  <2> QED
    BY <2>1, <2>2, <2>5
<1>11. CASE ~(p < 6)
  <2>1. PICK n : Quiet(c, m, n, {}) /\ w = [n EXCEPT !.pushed = <<value>> \o @]
    BY <1>6, <1>11
  <2>2. /\ IsMachine(w) /\ w.bytes = m.bytes /\ w.outside = m.outside
        /\ w.trace = m.trace /\ w.regs = n.regs
        /\ w.pushed = <<value>> \o m.pushed
    <3> DEFINE s == <<value>> \o m.pushed
    <3>1. /\ IsMachine(n) /\ n.bytes = m.bytes /\ n.outside = m.outside
          /\ n.trace = m.trace /\ n.pushed = m.pushed
      BY <2>1 DEF Quiet, OnlyRegisters
    <3>2. w = [n EXCEPT !.pushed = s]
      BY <2>1, <3>1
    <3> HIDE DEF s
    <3>3. /\ IsMachine(w) /\ w.bytes = m.bytes /\ w.outside = m.outside
          /\ w.trace = m.trace /\ w.regs = n.regs /\ w.pushed = s
      BY <3>1, <3>2 DEF IsMachine
    <3> QED
      BY <3>3 DEF s
  <2>3. SameRegisters(c, m, w, {})
    BY <2>1, <2>2 DEF Quiet, SameRegisters
  <2>4. State(d, r, w, f)
    <3> DEFINE X == {}
    <3>1. (\A id : VirtCell(id) \notin X) /\ SameRegisters(c, m, w, X)
      BY <2>3
    <3> HIDE DEF X
    <3> QED
      BY <1>2, <1>3, <1>8, <2>2, <3>1, QuietState
  <2>5. ASSUME NEW j \in 1..6, Readable(r, o.args[N + 1 - j])
        PROVE  Lookup(w.regs, BaseCell(param_regs[j])) = ValueOf(r, o.args[N + 1 - j])
    <3>1. j <= p
      BY <1>1, <1>11
    <3>2. Lookup(m.regs, BaseCell(param_regs[j])) = ValueOf(r, o.args[N + 1 - j])
      BY <1>7, <2>5, <3>1
    <3>3. BaseCell(param_regs[j]) \in OldCells(c) \ {}
      BY DEF OldCells
    <3> QED
      BY <2>3, <3>2, <3>3 DEF SameRegisters
  <2>6. /\ Listed(w.pushed) /\ Len(w.pushed) = Len(m.pushed) + 1 /\ Len(m.pushed) \in Nat
        /\ w.pushed[1] = value
        /\ \A k \in 2..Len(w.pushed) : w.pushed[k] = m.pushed[k - 1]
    <3> DEFINE s == m.pushed
               t == <<value>> \o s
    <3>1. Listed(s) /\ w.pushed = t
      BY <1>7, <2>2
    <3> HIDE DEF s
    <3>2. /\ Listed(t) /\ Len(s) \in Nat /\ Len(t) = Len(s) + 1
          /\ t[1] = value
          /\ \A k \in 2..Len(t) : t[k] = s[k - 1]
      BY <3>1, ListedPrepend
    <3> HIDE DEF t
    <3> QED
      BY <3>1, <3>2 DEF s
  <2>7. Len(w.pushed) = p - 5
    BY <1>1, <1>7, <1>11, <2>6
  <2>8. ASSUME NEW k \in 1..Len(w.pushed), Readable(r, o.args[N - (p + 1) + k])
        PROVE  w.pushed[k] = ValueOf(r, o.args[N - (p + 1) + k])
    <3>1. CASE k = 1
      <4>1. o.args[N - (p + 1) + k] = v
        BY <1>1, <1>9, <3>1
      <4> QED
        BY <1>5, <2>6, <2>8, <3>1, <4>1
    <3>2. CASE k # 1
      <4>1. /\ k - 1 \in 1..Len(m.pushed) /\ k \in 2..Len(w.pushed)
            /\ N - (p + 1) + k = N - p + (k - 1)
        BY <1>1, <2>6, <2>7, <3>2
      <4> QED
        BY <1>7, <2>6, <2>8, <4>1
    <3> QED
      BY <3>1, <3>2
  <2>9. Passing(r, w, o, p + 1)
    <3>1. Len(w.pushed) = IF p + 1 > 6 THEN p + 1 - 6 ELSE 0
      BY <1>1, <1>11, <2>7
    <3>2. \A j \in 1..6 :
              j <= p + 1 /\ Readable(r, o.args[Len(o.args) + 1 - j]) =>
                  Lookup(w.regs, BaseCell(param_regs[j])) = ValueOf(r, o.args[Len(o.args) + 1 - j])
      BY <2>5 DEF N
    <3>3. \A k \in 1..Len(w.pushed) :
              Readable(r, o.args[Len(o.args) - (p + 1) + k]) =>
                  w.pushed[k] = ValueOf(r, o.args[Len(o.args) - (p + 1) + k])
      BY <2>8 DEF N
    <3>4. Listed(w.pushed)
      BY <2>6
    <3> QED
      BY <3>1, <3>2, <3>3, <3>4 DEF Passing
  <2> QED
    BY <2>2, <2>4, <2>9
<1> QED
  BY <1>10, <1>11
(* At the end of a call the traces record it alike, and the register of the  *)
(* result holds what ir has for it.                                        *)
LEMMA FinishSimulated ==
    ASSUME NEW c, ContextOK(c), NEW r, NEW f \in Seq(IROperation),
           NEW o \in IROperation, o.op = "Call", Mapped(c, o.dst.id),
           State(c, r, Machine(c), f), TracesAgree(r.trace, Machine(c).trace),
           Passing(r, Machine(c), o, Len(o.args)),
           \A k \in DOMAIN o.args : Readable(r, o.args[k])
    PROVE  LET d == FinishCall(c, o)
           IN  Simulated(d, Effect(r, d, o), Machine(d), f)
<1> DEFINE N == Len(o.args)
           d == FinishCall(c, o)
           m == Machine(c)
           w == Machine(d)
           cell == VirtCell(RegisterOf(c, o.dst.id))
           args == [k \in DOMAIN o.args |-> ValueOf(r, o.args[k])]
           regs == [k \in 1..6 |-> Lookup(m.regs, BaseCell(param_regs[k]))]
           event == <<"Call", o.name, args>>
           called == <<"Call", o.name, regs, m.pushed>>
           result == <<"result", Len(r.trace) + 1>>
           s == AfterEvent(r, event)
           q == Assign(s, o.dst, result)
<1>1. /\ o.args \in Seq(IRValue) /\ N \in Nat /\ DOMAIN o.args = 1..N
      /\ o.dst \in Temps(TempId) /\ o.dst.id \in TempId /\ o.dst.kind = "temp"
  BY OperationFields DEF Temps
<1>2. Follows(c, d) /\ SameSlots(c, d)
  BY FinishFollows
<1>3. SlotsGrow(c, d)
  BY <1>2, SameSlotsGrow
<1>4. Mapped(d, o.dst.id) /\ RegisterOf(d, o.dst.id) = RegisterOf(c, o.dst.id)
  BY <1>1, <1>2 DEF Follows, Mapped, RegisterOf
<1>5. Len(m.trace) = Len(r.trace)
  BY DEF TracesAgree
<1>6. /\ IsMachine(w)
      /\ w.bytes = m.bytes /\ w.outside = m.outside /\ w.pushed = << >>
      /\ w.trace = Append(m.trace, called)
      /\ Lookup(w.regs, cell) = result
      /\ \A id : VirtCell(id) # cell =>
             Lookup(w.regs, VirtCell(id)) = Lookup(m.regs, VirtCell(id))
  BY <1>5, FinishMoves
<1>7. Effect(r, d, o) = q
  BY CallEffect DEF CallEvent
<1>8. EventsAgree(event, called)
  <2>1. Listed(args) /\ Len(args) = N /\ DOMAIN args = 1..N
    <3>1. args = [k \in 1..N |-> args[k]]
      BY <1>1
    <3> HIDE DEF args
    <3> QED
      BY <1>1, <3>1, ListedFunction
  <2>2. Listed(regs) /\ Len(regs) = 6
    <3>1. regs = [k \in 1..6 |-> regs[k]]
      OBVIOUS
    <3> HIDE DEF regs
    <3> QED
      BY <3>1, ListedFunction
  <2>3. \A k \in 1..N : args[k] = ValueOf(r, o.args[k]) /\ Readable(r, o.args[k])
    BY <1>1
  <2>4. ASSUME NEW j \in 1..6, j <= N
        PROVE  regs[j] = args[N + 1 - j]
    <3>1. N + 1 - j \in 1..N
      BY <1>1, <2>4
    <3>2. Lookup(m.regs, BaseCell(param_regs[j])) = ValueOf(r, o.args[N + 1 - j])
      BY <2>3, <2>4, <3>1 DEF Passing
    <3> QED
      BY <2>3, <3>1, <3>2
  <2>5. /\ Listed(m.pushed) /\ Len(m.pushed) = IF N > 6 THEN N - 6 ELSE 0
        /\ \A k \in 1..Len(m.pushed) :
               Readable(r, o.args[N - N + k]) => m.pushed[k] = ValueOf(r, o.args[N - N + k])
    BY DEF Passing
  <2>6. ASSUME NEW k \in 1..Len(m.pushed)
        PROVE  m.pushed[k] = args[k]
    <3>1. k \in 1..N /\ N - N + k = k
      BY <1>1, <2>5
    <3> QED
      BY <2>3, <2>5, <3>1
  <2> HIDE DEF args, regs, N, m
  <2>7. Delivered(args, regs, m.pushed)
    BY <2>1, <2>2, <2>4, <2>5, <2>6 DEF Delivered
  <2> QED
    BY <2>7 DEF EventsAgree, IsCall
<1>9. IsIR(r) /\ State(c, r, m, f) /\ m.outside = r.outside
  BY DEF State
<1> HIDE DEF event, called, result, args, regs
<1>10. /\ IsIR(s) /\ s.temps = r.temps /\ s.vars = r.vars /\ s.outside = r.outside
       /\ s.pushed = r.pushed /\ s.flags = Undefined /\ s.params = {}
       /\ s.trace = Append(r.trace, event)
  BY <1>9, AfterEventIR
<1> HIDE DEF s
<1>11. /\ IsIR(q) /\ q.temps = Put(r.temps, o.dst.id, result) /\ q.vars = r.vars
       /\ q.outside = r.outside /\ q.pushed = r.pushed /\ q.flags = Undefined /\ q.params = {}
       /\ q.trace = Append(r.trace, event)
  BY <1>1, <1>10, AssignFields
<1>12. TracesAgree(r.trace, m.trace)
  OBVIOUS
<1> SUFFICES Simulated(d, q, w, f)
  BY <1>7
<1> HIDE DEF q, d, w, m
<1>13. State(d, q, w, f)
  <2>1. ASSUME NEW u \in DOMAIN r.temps, u # o.dst.id
        PROVE  Lookup(w.regs, VirtCell(RegisterOf(c, u))) = Lookup(m.regs, VirtCell(RegisterOf(c, u)))
    <3>1. u \in TempId /\ Mapped(c, u)
      BY <1>9, <2>1 DEF State, TempsHeld
    <3>2. RegisterOf(c, u) # RegisterOf(c, o.dst.id)
      BY <1>1, <2>1, <3>1 DEF ContextOK
    <3> QED
      BY <1>6, <3>2, Cells
  <2>2. Lookup(w.regs, VirtCell(RegisterOf(d, o.dst.id))) = result /\ w.outside = q.outside
    BY <1>4, <1>6, <1>9, <1>11
  <2> QED
    BY <1>1, <1>2, <1>3, <1>4, <1>6, <1>9, <1>11, <2>1, <2>2, StateTempAssigned
<1>14. TracesAgree(q.trace, w.trace)
  BY <1>6, <1>8, <1>11, <1>12, TracesAppend
<1>15. Between(q, w)
  BY <1>6, <1>11 DEF Between, ParamsHeld
<1> QED
  BY <1>13, <1>14, <1>15 DEF Simulated
-----------------------------------------------------------------------------
(* The start of a frame.                                                   *)
LEMMA PushedParameters ==
    ASSUME NEW k \in 0..(PushedOnEntry - 1)
    PROVE  Holds(X86Start.bytes, PushedOffset(k), 8, <<"pushed", k>>)
<1> SUFFICES ASSUME NEW d \in Bytes(PushedOffset(k), 8)
             PROVE  /\ d \in DOMAIN X86Start.bytes
                    /\ X86Start.bytes[d] = << <<"pushed", k>>, PushedOffset(k) - d>>
  BY DEF Holds
<1>1. PushedOnEntry \in Nat /\ k \in Nat /\ k + 1 <= PushedOnEntry
  BY PushedAssumption
<1>2. d \in Int /\ -23 - 8 * k <= d /\ d <= -16 - 8 * k
  BY <1>1 DEF Bytes, PushedOffset
<1>3. d \in (PushedOffset(PushedOnEntry) + 1)..0
  BY <1>1, <1>2 DEF PushedOffset
<1>4. d \notin Saved
  BY <1>1, <1>2 DEF Saved
<1>5. (-16 - d) \div 8 = k
  BY <1>1, <1>2
<1>6. X86Start.bytes[d] = PushedByte(d) /\ d \in DOMAIN X86Start.bytes
  BY <1>3, <1>4 DEF X86Start
<1> QED
  BY <1>5, <1>6 DEF PushedByte

LEMMA StartSimulated ==
    ASSUME NEW f \in Seq(IROperation)
    PROVE  SizesOK(FreshCtx, f) /\ Simulated(FreshCtx, IRStart, X86Start, f)
<1>1. /\ FreshCtx.stackOffset = 0 /\ FreshCtx.stackPassedParameterOffset = 16
      /\ \A t \in TempId : ~Mapped(FreshCtx, t)
  BY FreshContext DEF FreshCtx
<1>2. /\ IRStart.temps = << >> /\ IRStart.vars = << >> /\ IRStart.flags = Undefined
      /\ IRStart.params = {param_regs[n] : n \in DOMAIN param_regs}
      /\ IRStart.outside = << >> /\ IRStart.trace = << >> /\ IRStart.pushed = 0
      /\ IsIR(IRStart)
  BY DEF IRStart, IsIR
<1>3. /\ X86Start.outside = << >> /\ X86Start.pushed = << >> /\ X86Start.trace = << >>
      /\ IsMachine(X86Start)
      /\ X86Start.regs = [cell \in {BaseCell(param_regs[n]) : n \in DOMAIN param_regs} |->
                             <<"parameter", cell[2]>>]
  BY DEF X86Start, IsMachine
<1>4. SizesOK(FreshCtx, f)
  <2>1. ASSUME NEW n \in DOMAIN f, Target(f[n]).kind = "temp"
        PROVE  Target(f[n]).id \in TempId
    <3>1. f[n] \in IROperation
      OBVIOUS
    <3>2. Target(f[n]) \in Places(TempId, VarName) \cup {NoOperand}
      BY <3>1, TargetType
    <3> QED
      BY <2>1, <3>2 DEF Places, Temps, Variables, NoOperand
  <2> QED
    BY <1>1, <2>1 DEF SizesOK
<1>5. FrameKept(FreshCtx, IRStart, X86Start)
  <2>1. DOMAIN X86Start.bytes = (PushedOffset(PushedOnEntry) + 1)..0
    BY DEF X86Start
  <2>2. \A d \in DOMAIN X86Start.bytes :
            d \in Int /\ PushedOffset(PushedOnEntry) < d /\ d <= FreshCtx.stackOffset
    BY <1>1, <2>1, PushedAssumption DEF PushedOffset
  <2>3. \A d \in Saved : d \in DOMAIN X86Start.bytes
    BY <2>1, PushedAssumption DEF PushedOffset, Saved
  <2>4. \A d \in Saved : X86Start.bytes[d] = SavedByte(d)
    BY <2>1, <2>3 DEF X86Start
  <2>5. IRStart.pushed \in 0..PushedOnEntry
    BY <1>2, PushedAssumption
  <2>6. FreshCtx.stackPassedParameterOffset = 16 + 8 * IRStart.pushed
    BY <1>1, <1>2
  <2>7. \A k \in IRStart.pushed..(PushedOnEntry - 1) :
            Holds(X86Start.bytes, PushedOffset(k), 8, <<"pushed", k>>)
    BY <1>2, PushedParameters
  <2> QED
    BY <2>2, <2>3, <2>4, <2>5, <2>6, <2>7 DEF FrameKept
<1>6. State(FreshCtx, IRStart, X86Start, f)
  BY <1>2, <1>3, <1>5 DEF State, TempsHeld, VarsHeld
<1>7. TracesAgree(IRStart.trace, X86Start.trace)
  BY <1>2, <1>3, ListedEmpty DEF TracesAgree
<1>8. ParamsHeld(IRStart, X86Start)
  <2> SUFFICES ASSUME NEW n \in 1..6
               PROVE  /\ IsParamReg(param_regs[n])
                      /\ Lookup(X86Start.regs, BaseCell(param_regs[n]))
                             = <<"parameter", param_regs[n]>>
    BY <1>2, ParamRegisters DEF ParamsHeld
  <2>1. BaseCell(param_regs[n]) \in DOMAIN X86Start.regs
    BY <1>3, ParamRegisters
  <2>2. BaseCell(param_regs[n])[2] = param_regs[n]
    BY DEF BaseCell
  <2> QED
    BY <1>3, <2>1, <2>2, ParamRegisters DEF Lookup
<1> QED
  BY <1>2, <1>3, <1>4, <1>6, <1>7, <1>8 DEF Simulated, Between
-----------------------------------------------------------------------------
(* The inductive invariant.  StateSimulated says too little to be inductive: *)
(* a step reads the parameters in their registers and the flags (Between),   *)
(* moves whole registers (SizesOK), and passes arguments between operations  *)
(* (Passing).                                                              *)
Sim(c, r, f, o, p) ==
    /\ SizesOK(c, f)
    /\ State(c, r, Machine(c), f)
    /\ TracesAgree(r.trace, Machine(c).trace)
    /\ IF p = NotCalling THEN Between(r, Machine(c)) ELSE Passing(r, Machine(c), o, p)

SimInv ==
    /\ LinearInv
    /\ IsIR(ir)
    /\ status = "lowering" /\ RightFrame => Sim(ctx, ir, irFrames[lf], operation, passed)

(* An operation that is lowered where SimInv holds.                        *)
LEMMA AtSimulated ==
    ASSUME SimInv, AtOperation, RightFrame
    PROVE  /\ Sim(ctx, ir, irFrames[lf], operation, passed)
           /\ LinearFrame(irFrames[lf]) /\ irFrames[lf] \in Seq(IROperation)
           /\ OneSize(irFrames[lf]) /\ SlotsOK(ctx, irFrames[lf])
           /\ op \in DOMAIN irFrames[lf] /\ operation = irFrames[lf][op]
           /\ operation \in IROperation /\ op \in Nat
           /\ ContextOK(ctx) /\ LinearCode(ctx.code)
           /\ TempsOK(ctx, irFrames[lf], op, passed)
<1>1. LinearInv /\ LowerInv /\ status = "lowering"
  BY DEF SimInv, LinearInv, AtOperation
<1>2. LinearFrame(irFrames[lf])
  BY <1>1, AtOperationLinear
<1>3. SlotsOK(ctx, irFrames[lf])
  BY <1>1 DEF LowerInv
<1>4. op \in Nat
  BY <1>1, AtOperationType
<1> QED
  BY <1>1, <1>2, <1>3, <1>4, AtOperationLinear DEF SimInv, RightFrame, LinearFrame

(* What a step that lowers something leaves as it is.                      *)
LEMMA ContinueSimulated ==
    ASSUME SimInv, AtOperation, NEW d, Continue(d), status' = "lowering"
    PROVE  /\ ctx' = d /\ ~d.thrown /\ irFrames' = irFrames /\ lf' = lf
           /\ RightFrame' <=> ir'.defined /\ OneSize(irFrames[lf])
           /\ op' = op => operation' = operation
<1>1. /\ ctx' = d /\ irFrames' = irFrames /\ lf' = lf
      /\ status' = IF d.thrown THEN "throw" ELSE status
  BY DEF Continue
<1> QED
  BY <1>1 DEF RightFrame, operation

LEMMA SimLower ==
    ASSUME SimInv, LowerOperation, ir' = Evaluate(ir, ctx', operation),
           status' = "lowering", RightFrame'
    PROVE  Sim(ctx', ir', irFrames'[lf'], operation', passed')
<1> DEFINE f == irFrames[lf]
           d == Lower(ctx, operation)
<1>1. /\ AtOperation /\ operation.op # "Call" /\ passed' = passed /\ Continue(d)
  BY DEF LowerOperation
<1>2. /\ ctx' = d /\ ~d.thrown /\ irFrames' = irFrames /\ lf' = lf
      /\ ir'.defined /\ OneSize(f)
  BY <1>1, ContinueSimulated
<1>3. passed = NotCalling
  BY <1>1 DEF SimInv, LinearInv, LowerInv, LowerTypeOK
<1>4. operation \in IROperation /\ IsIR(ir)
  BY <1>1, AtOperationLinear DEF SimInv
<1>5. GoesRight(ir, d, operation) /\ ir.defined /\ ir' = Effect(ir, d, operation)
  BY <1>2, <1>4, EvaluateDefined
<1>6. RightFrame
  BY <1>2, <1>5 DEF RightFrame
<1>7. /\ Sim(ctx, ir, f, operation, NotCalling)
      /\ LinearFrame(f) /\ f \in Seq(IROperation) /\ OneSize(f) /\ SlotsOK(ctx, f)
      /\ op \in DOMAIN f /\ operation = f[op]
      /\ ContextOK(ctx) /\ LinearCode(ctx.code) /\ TempsOK(ctx, f, op, NotCalling)
  BY <1>1, <1>3, <1>6, AtSimulated
<1>8. OperationReady(ctx, operation)
  BY <1>7, OperationIsReady
<1>9. Follows(ctx, d) /\ LinearStep(ctx, d, operation)
  BY <1>1, <1>2, <1>4, <1>7, <1>8, LowerFollows, LowerGrows
<1>10. Setting(ctx, ir, f, op)
  BY <1>7, <1>8 DEF Setting, Sim, Simulated
<1>11. Simulated(d, ir', Machine(d), f) /\ TargetSized(d, operation)
  BY <1>1, <1>2, <1>5, <1>7, <1>10, LowerSimulated
<1> HIDE DEF d
<1>12. SizesOK(d, f)
  BY <1>7, <1>8, <1>9, <1>11, SizesLower DEF Sim
<1> QED
  BY <1>1, <1>2, <1>3, <1>11, <1>12 DEF Sim, Simulated

LEMMA SimStart ==
    ASSUME SimInv, StartCall, ir' = ir, status' = "lowering", RightFrame'
    PROVE  Sim(ctx', ir', irFrames'[lf'], operation', passed')
<1> DEFINE f == irFrames[lf]
           o == operation
           d == AllocateNew(ctx, o.dst)
<1>1. /\ AtOperation /\ o.op = "Call" /\ passed = NotCalling
      /\ op' = op /\ passed' = 0 /\ Continue(d)
  BY DEF StartCall
<1>2. /\ ctx' = d /\ ~d.thrown /\ irFrames' = irFrames /\ lf' = lf /\ operation' = o
      /\ ir'.defined /\ OneSize(f)
  BY <1>1, ContinueSimulated
<1>3. RightFrame
  BY <1>2 DEF RightFrame
<1>4. /\ Sim(ctx, ir, f, o, NotCalling)
      /\ LinearFrame(f) /\ f \in Seq(IROperation)
      /\ op \in DOMAIN f /\ o = f[op] /\ o \in IROperation
      /\ ContextOK(ctx)
  BY <1>1, <1>3, AtSimulated
<1>5. /\ o.dst \in Temps(TempId) /\ o.dst.id \in TempId /\ o.dst.kind = "temp"
      /\ o.args \in Seq(IRValue) /\ Target(o) = o.dst
  BY <1>1, <1>4, OperationFields, Reading DEF Temps
<1>6. d = AllocateNewForTemp(ctx, o.dst)
  BY <1>5 DEF AllocateNew
<1>7. /\ Follows(ctx, d) /\ SameSlots(ctx, d) /\ d.code = ctx.code /\ Mapped(d, o.dst.id)
      /\ \A u \in TempId :
             u # o.dst.id => d.temp_register_mapping[u] = ctx.temp_register_mapping[u]
  BY <1>4, <1>5, <1>6, AllocateTempFollows
<1>8. d.temp_register_mapping[o.dst.id].size = o.dst.size
  <2>1. Mapped(ctx, o.dst.id) => ctx.temp_register_mapping[o.dst.id].size = o.dst.size
    BY <1>4, <1>5 DEF Sim, SizesOK
  <2> QED
    BY <1>4, <1>5, <1>6, <2>1, TempSized
<1> HIDE DEF d
<1>9. SizesOK(d, f)
  <2>1. TargetSized(d, o)
    BY <1>5, <1>7, <1>8 DEF TargetSized
  <2>2. \A t \in TempId : Mapped(d, t) /\ ~IsTemp(Target(o), t) => Mapped(ctx, t)
    BY <1>5, <1>7 DEF Mapped, IsTemp
  <2> QED
    BY <1>4, <1>7, <2>1, <2>2, SizesStep DEF Sim
<1>10. Machine(d) = Machine(ctx)
  BY <1>7, SameCode
<1>11. Simulated(d, ir, Machine(d), f)
  <2>1. Simulated(ctx, ir, Machine(ctx), f)
    BY <1>4 DEF Sim, Simulated
  <2>2. SlotsGrow(ctx, d)
    BY <1>4, <1>7, SameSlotsGrow
  <2> QED
    BY <1>4, <1>7, <1>10, <2>1, <2>2, PlacedSimulated
<1>12. Passing(ir, Machine(d), o, 0)
  <2>1. Machine(d).pushed = << >>
    BY <1>11 DEF Simulated, Between
  <2> QED
    BY <2>1, ListedEmpty DEF Passing
<1> QED
  BY <1>1, <1>2, <1>9, <1>11, <1>12 DEF Sim, Simulated, NotCalling
LEMMA SimPass ==
    ASSUME SimInv, PassNext, ir' = ir, status' = "lowering", RightFrame'
    PROVE  Sim(ctx', ir', irFrames'[lf'], operation', passed')
<1> DEFINE f == irFrames[lf]
           o == operation
           v == o.args[Len(o.args) - passed]
           d == PassArgument(ctx, v, passed)
<1>1. /\ AtOperation /\ o.op = "Call" /\ op' = op /\ passed' = passed + 1
      /\ passed \in 0..(Len(o.args) - 1)
      /\ Continue(d)
  BY DEF PassNext
<1>2. /\ ctx' = d /\ ~d.thrown /\ irFrames' = irFrames /\ lf' = lf /\ operation' = o
      /\ ir'.defined /\ OneSize(f)
  BY <1>1, ContinueSimulated
<1>3. RightFrame
  BY <1>2 DEF RightFrame
<1>4. /\ Sim(ctx, ir, f, o, passed)
      /\ LinearFrame(f) /\ f \in Seq(IROperation)
      /\ op \in DOMAIN f /\ o = f[op] /\ o \in IROperation
      /\ ContextOK(ctx) /\ LinearCode(ctx.code) /\ TempsOK(ctx, f, op, passed)
  BY <1>1, <1>3, AtSimulated
<1>5. o.args \in Seq(IRValue) /\ ValuesRead(o) = o.args
  BY <1>1, <1>4, OperationFields, Reading
<1>6. /\ Len(o.args) - passed \in DOMAIN o.args
      /\ ~(Len(o.args) - passed > Len(o.args) - passed)
      /\ passed \in Nat /\ v \in IRValue /\ passed # NotCalling /\ passed + 1 # NotCalling
  BY <1>1, <1>5 DEF NotCalling
<1>7. CanRead(ctx, v)
  BY <1>4, <1>5, <1>6, ReadIsReady
<1>8. v \in Sources(o) /\ (v.kind = "var" => v \in VariablesOf(f))
  BY <1>4, <1>5, <1>6 DEF Sources, VariablesOf
<1>9. HasPlace(ctx, v)
  BY <1>7 DEF CanRead, HasPlace
<1>10. d.temp_register_mapping = ctx.temp_register_mapping
  BY <1>2, <1>4, <1>6, <1>7, PassGrows DEF Grows
<1>11. /\ State(ctx, ir, Machine(ctx), f) /\ Passing(ir, Machine(ctx), o, passed)
       /\ TracesAgree(ir.trace, Machine(ctx).trace) /\ SizesOK(ctx, f)
  BY <1>4, <1>6 DEF Sim
<1>12. /\ State(d, ir, Machine(d), f) /\ Machine(d).trace = Machine(ctx).trace
       /\ Passing(ir, Machine(d), o, passed + 1)
  BY <1>1, <1>2, <1>4, <1>5, <1>8, <1>9, <1>11, PassSimulated
<1> HIDE DEF d
<1>13. SizesOK(d, f)
  BY <1>10, <1>11 DEF SizesOK, Mapped
<1> QED
  BY <1>1, <1>2, <1>6, <1>11, <1>12, <1>13 DEF Sim

LEMMA SimEnd ==
    ASSUME SimInv, EndCall, ir' = Evaluate(ir, ctx', operation),
           status' = "lowering", RightFrame'
    PROVE  Sim(ctx', ir', irFrames'[lf'], operation', passed')
<1> DEFINE f == irFrames[lf]
           o == operation
           d == FinishCall(ctx, o)
<1>1. /\ AtOperation /\ o.op = "Call" /\ op' = op + 1 /\ passed' = NotCalling
      /\ passed = Len(o.args) /\ Continue(d)
  BY DEF EndCall
<1>2. /\ ctx' = d /\ ~d.thrown /\ irFrames' = irFrames /\ lf' = lf
      /\ ir'.defined /\ OneSize(f)
  BY <1>1, ContinueSimulated
<1>3. o \in IROperation /\ IsIR(ir)
  BY <1>1, AtOperationLinear DEF SimInv
<1>4. GoesRight(ir, d, o) /\ ir.defined /\ ir' = Effect(ir, d, o)
  BY <1>2, <1>3, EvaluateDefined
<1>5. RightFrame
  BY <1>2, <1>4 DEF RightFrame
<1>6. /\ Sim(ctx, ir, f, o, passed)
      /\ LinearFrame(f) /\ f \in Seq(IROperation)
      /\ op \in DOMAIN f /\ o = f[op] /\ op \in Nat
      /\ ContextOK(ctx) /\ LinearCode(ctx.code) /\ TempsOK(ctx, f, op, passed)
  BY <1>1, <1>5, AtSimulated
<1>7. /\ o.args \in Seq(IRValue) /\ ValuesRead(o) = o.args /\ passed # NotCalling
      /\ o.dst.kind = "temp" /\ o.dst.id \in TempId /\ Target(o) = o.dst
  BY <1>1, <1>3, OperationFields, Reading DEF NotCalling, Temps
<1>8. Mapped(ctx, o.dst.id)
  BY <1>7 DEF SimInv, LinearInv, LowerInv
<1>9. Fresh(ctx.code, RegisterOf(ctx, o.dst.id))
  <2>1. IsTemp(Target(o), o.dst.id)
    BY <1>7 DEF IsTemp
  <2>2. ~SetBefore(f, op, o.dst.id)
    BY <1>6, <1>7, <2>1, TargetIsNew
  <2> QED
    BY <1>6, <1>7, <1>8, <2>2 DEF TempsOK
<1>10. d.temp_register_mapping = ctx.temp_register_mapping
  BY <1>1, <1>3, <1>6, <1>8, <1>9, FinishGrows DEF Grows
<1>11. \A k \in DOMAIN o.args : Readable(ir, o.args[k])
  BY <1>1, <1>4, <1>7 DEF GoesRight, Sources
<1>12. /\ State(ctx, ir, Machine(ctx), f) /\ Passing(ir, Machine(ctx), o, Len(o.args))
       /\ TracesAgree(ir.trace, Machine(ctx).trace) /\ SizesOK(ctx, f)
  BY <1>1, <1>6, <1>7 DEF Sim
<1>13. Simulated(d, ir', Machine(d), f)
  BY <1>1, <1>3, <1>4, <1>6, <1>8, <1>11, <1>12, FinishSimulated
<1> HIDE DEF d
<1>14. SizesOK(d, f)
  BY <1>10, <1>12 DEF SizesOK, Mapped
<1> QED
  BY <1>1, <1>2, <1>13, <1>14 DEF Sim, Simulated

LEMMA SimFresh ==
    ASSUME NEW program \in IRPrograms, NEW n \in DOMAIN program, NEW o
    PROVE  Sim(FreshCtx, IRStart, program[n], o, NotCalling)
<1>1. program[n] \in Seq(IROperation)
  BY IRProgramsAssumption DEF IROperation
<1>2. FreshCtx.code = << >>
  BY FreshContext
<1>3. Machine(FreshCtx) = X86Start
  BY <1>2, RunEmpty DEF Machine
<1> QED
  BY <1>1, <1>3, StartSimulated DEF Sim, Simulated

LEMMA SimInvInit == LowerInitValues => SimInv
<1> SUFFICES ASSUME LowerInitValues PROVE SimInv
  OBVIOUS
<1>1. LowerInit /\ ir = IRStart
  BY DEF LowerInitValues
<1>2. LinearInv
  BY <1>1, LinearInvInit
<1>3. IsIR(ir)
  BY <1>1 DEF IRStart, IsIR
<1>4. irFrames \in IRPrograms /\ ctx = FreshCtx /\ passed = NotCalling
  BY <1>1 DEF LowerInit, LowerStart
<1>5. status = "lowering" => lf \in DOMAIN irFrames
  BY <1>2 DEF LinearInv, LowerInv, LowerTypeOK
<1> QED
  BY <1>1, <1>2, <1>3, <1>4, <1>5, SimFresh DEF SimInv

LEMMA SimInvNext == SimInv /\ [LowerNextValues]_<<lowerVars, ir>> => SimInv'
<1> SUFFICES ASSUME SimInv, [LowerNextValues]_<<lowerVars, ir>> PROVE SimInv'
  OBVIOUS
<1>1. LinearInv /\ IsIR(ir)
  BY DEF SimInv
<1>2. [LowerNext]_lowerVars
  BY DEF LowerNextValues, LowerNext
<1>3. LinearInv'
  BY <1>1, <1>2, LinearInvNext
<1> SUFFICES IsIR(ir')
             /\ (status' = "lowering" /\ RightFrame' =>
                     Sim(ctx', ir', irFrames'[lf'], operation', passed'))
  BY <1>3 DEF SimInv
<1>4. AtOperation => op \in Nat /\ operation \in IROperation
  BY <1>1, AtOperationLinear, AtOperationType DEF LinearInv
<1>5. CASE LowerOperation /\ ir' = IF op' = op THEN ir ELSE Evaluate(ir, ctx', operation)
  <2>1. AtOperation /\ op' = op + 1
    BY <1>5 DEF LowerOperation
  <2>2. ir' = Evaluate(ir, ctx', operation)
    BY <1>4, <1>5, <2>1
  <2>3. IsIR(ir')
    BY <1>1, <1>4, <2>1, <2>2, EvaluateDefined
  <2> QED
    BY <1>5, <2>2, <2>3, SimLower
<1>6. CASE StartCall /\ ir' = IF op' = op THEN ir ELSE Evaluate(ir, ctx', operation)
  <2>1. ir' = ir
    BY <1>6 DEF StartCall
  <2> QED
    BY <1>1, <1>6, <2>1, SimStart
<1>7. CASE PassNext /\ ir' = IF op' = op THEN ir ELSE Evaluate(ir, ctx', operation)
  <2>1. ir' = ir
    BY <1>7 DEF PassNext
  <2> QED
    BY <1>1, <1>7, <2>1, SimPass
<1>8. CASE EndCall /\ ir' = IF op' = op THEN ir ELSE Evaluate(ir, ctx', operation)
  <2>1. AtOperation /\ op' = op + 1
    BY <1>8 DEF EndCall
  <2>2. ir' = Evaluate(ir, ctx', operation)
    BY <1>4, <1>8, <2>1
  <2>3. IsIR(ir')
    BY <1>1, <1>4, <2>1, <2>2, EvaluateDefined
  <2> QED
    BY <1>8, <2>2, <2>3, SimEnd
<1>9. CASE LowerNextFrame /\ ir' = IRStart
  <2>1. ctx' = FreshCtx /\ passed' = passed /\ status = "lowering" /\ op \notin DOMAIN irFrames[lf]
    BY <1>9 DEF LowerNextFrame
  <2>2. passed' = NotCalling
    BY <1>1, <2>1 DEF LinearInv, LowerInv, LowerTypeOK
  <2>3. irFrames' \in IRPrograms /\ (status' = "lowering" => lf' \in DOMAIN irFrames')
    BY <1>3 DEF LinearInv, LowerInv, LowerTypeOK
  <2>4. IsIR(ir')
    BY <1>9 DEF IRStart, IsIR
  <2> QED
    BY <1>9, <2>1, <2>2, <2>3, <2>4, SimFresh
<1>10. CASE UNCHANGED <<lowerVars, ir>>
  <2>1. /\ irFrames' = irFrames /\ lf' = lf /\ op' = op /\ passed' = passed /\ ctx' = ctx
        /\ status' = status /\ ir' = ir
    BY <1>10 DEF lowerVars
  <2>2. operation' = operation /\ (RightFrame' <=> RightFrame)
    BY <2>1 DEF operation, RightFrame
  <2> QED
    BY <1>1, <2>1, <2>2 DEF SimInv
<1> QED
  BY <1>5, <1>6, <1>7, <1>8, <1>9, <1>10 DEF LowerNextValues
-----------------------------------------------------------------------------
(* What the invariant says of the properties.                              *)
LEMMA SimBetween ==
    ASSUME SimInv, BetweenOperations, RightFrame
    PROVE  /\ Simulated(ctx, ir, x86, irFrames[lf])
           /\ ContextOK(ctx) /\ irFrames[lf] \in Seq(IROperation)
<1>1. /\ status = "lowering" /\ passed = NotCalling
      /\ irFrames \in IRPrograms /\ lf \in DOMAIN irFrames /\ ContextOK(ctx)
  BY DEF SimInv, LinearInv, LowerInv, LowerTypeOK, BetweenOperations
<1>2. irFrames[lf] \in Seq(IROperation)
  BY <1>1, ProgramTypes
<1>3. Simulated(ctx, ir, Machine(ctx), irFrames[lf])
  BY <1>1 DEF SimInv, Sim, Simulated
<1> QED
  BY <1>1, <1>2, <1>3 DEF x86, Machine

LEMMA SimStaysInFrame == SimInv => StaysInFrame
<1> SUFFICES ASSUME SimInv, status = "lowering", RightFrame
             PROVE  /\ \A d \in Saved : x86.bytes[d] = SavedByte(d)
                    /\ \A d \in DOMAIN x86.bytes :
                           PushedOffset(PushedOnEntry) < d /\ d <= ctx.stackOffset
  BY DEF StaysInFrame
<1>1. FrameKept(ctx, ir, Machine(ctx))
  BY DEF SimInv, Sim, State
<1> QED
  BY <1>1 DEF FrameKept, x86, Machine

LEMMA SimState == SimInv => StateSimulated
<1> DEFINE f == irFrames[lf]
           m == x86
<1> SUFFICES ASSUME SimInv, BetweenOperations, RightFrame
             PROVE  /\ \A t \in DOMAIN ir.temps :
                           Content(m, ctx.temp_register_mapping[t]) = ir.temps[t]
                    /\ \A v \in VariablesSet : VariableHeld(m, v)
                    /\ m.outside = ir.outside
  BY DEF StateSimulated
<1>1. State(ctx, ir, m, f) /\ ContextOK(ctx) /\ f \in Seq(IROperation)
  BY SimBetween DEF Simulated
<1> HIDE DEF m
<1>2. ASSUME NEW t \in DOMAIN ir.temps
      PROVE  Content(m, ctx.temp_register_mapping[t]) = ir.temps[t]
  <2>1. /\ t \in TempId /\ Mapped(ctx, t)
        /\ Lookup(m.regs, VirtCell(RegisterOf(ctx, t))) = ir.temps[t]
    BY <1>1 DEF State, TempsHeld
  <2>2. IsVirtual(ctx.temp_register_mapping[t])
    BY <1>1, <2>1, ContextFields
  <2>3. ctx.temp_register_mapping[t].kind # "int"
    BY <2>2 DEF IsVirtual
  <2>4. CellOf(ctx.temp_register_mapping[t]) = VirtCell(RegisterOf(ctx, t))
    BY <2>2 DEF CellOf, VirtCell, RegisterOf
  <2> QED
    BY <2>1, <2>3, <2>4 DEF Content
<1>3. ASSUME NEW v \in VariablesSet
      PROVE  VariableHeld(m, v)
  <2>1. v \in VariablesOf(f) /\ v.name \in DOMAIN ir.vars /\ v.kind = "var"
    BY DEF VariablesSet, VariablesOf
  <2>2. Read(m.bytes, Offset(ctx, v.name), v.size) = ir.vars[v.name]
    BY <1>1, <2>1, HeldVariable DEF State
  <2> QED
    BY <2>1, <2>2 DEF VariableHeld, LocationOf, Offset
<1> QED
  BY <1>1, <1>2, <1>3 DEF State

LEMMA SimTrace == SimInv => TraceSimulated
<1> SUFFICES ASSUME SimInv, BetweenOperations, RightFrame
             PROVE  /\ Len(x86.trace) = Len(ir.trace)
                    /\ \A n \in DOMAIN ir.trace :
                           IF IsCall(ir.trace[n])
                             THEN IsCall(x86.trace[n]) /\ x86.trace[n][2] = ir.trace[n][2]
                           ELSE x86.trace[n] = ir.trace[n]
  BY DEF TraceSimulated
<1>1. TracesAgree(ir.trace, x86.trace)
  BY SimBetween DEF Simulated
<1>2. DOMAIN ir.trace = 1..Len(ir.trace)
  BY <1>1, ListedAppend DEF TracesAgree
<1> QED
  BY <1>1, <1>2 DEF TracesAgree, EventsAgree

(* The parameters are the arguments in another order.                      *)
LEMMA DeliveredParameters ==
    ASSUME NEW args, NEW x, Delivered(args, x[3], x[4])
    PROVE  LET parameters == ParametersOf(x, Len(args))
           IN  /\ Len(args) \in Nat /\ DOMAIN args = 1..Len(args)
               /\ Len(parameters) = Len(args) /\ DOMAIN parameters = 1..Len(args)
               /\ \A k \in 1..Len(args) :
                      parameters[k] = IF k <= 6 THEN args[Len(args) + 1 - k] ELSE args[k - 6]
<1> DEFINE N == Len(args)
           regs == x[3]
           pushed == x[4]
           R == {regs[k] : k \in DOMAIN regs}
           P == {pushed[k] : k \in DOMAIN pushed}
           S == R \cup P
           first == IF N < 6 THEN N ELSE 6
           head == SubSeq(regs, 1, first)
           parameters == ParametersOf(x, N)
<1>1. /\ N \in Nat /\ DOMAIN args = 1..N
      /\ Len(regs) = 6
      /\ Len(pushed) = IF N > 6 THEN N - 6 ELSE 0
      /\ \A j \in 1..6 : j <= N => regs[j] = args[N + 1 - j]
      /\ \A k \in 1..Len(pushed) : pushed[k] = args[k]
  BY ListedAppend DEF Delivered
<1>2. regs \in Seq(R) /\ pushed \in Seq(P)
  BY DEF Delivered, Listed
<1>3. parameters = head \o pushed
  BY DEF ParametersOf
<1>4. first = IF N < 6 THEN N ELSE 6
  OBVIOUS
<1> HIDE DEF R, P, N, regs, pushed, first, parameters
<1>5. first \in 0..6 /\ first <= N /\ (first < 6 => N = first)
  BY <1>1, <1>4
<1>6. regs \in Seq(S) /\ pushed \in Seq(S)
  BY <1>2
<1> HIDE DEF S
<1>7. head \in Seq(S) /\ Len(head) = first /\ \A k \in 1..first : head[k] = regs[k]
  <2>1. first \in Int /\ 1 \in Int /\ (IF 1 <= first THEN first - 1 + 1 ELSE 0) = first
        /\ 1..first - 1 + 1 = 1..first
    BY <1>5
  <2>2. ASSUME NEW k \in 1..first PROVE regs[k] \in S
    <3>1. k \in 1..Len(regs)
      BY <1>1, <1>5
    <3> QED
      BY <1>6, <3>1, ElementOfSeq
  <2>3. /\ head \in Seq(S)
        /\ Len(head) = IF 1 <= first THEN first - 1 + 1 ELSE 0
        /\ \A k \in 1..first - 1 + 1 : head[k] = regs[1 + k - 1]
    BY <2>1, <2>2, SubSeqProperties
  <2> HIDE DEF head
  <2> QED
    BY <2>1, <2>3
<1> HIDE DEF head
<1>8. /\ Len(parameters) = first + Len(pushed)
      /\ DOMAIN parameters = 1..(first + Len(pushed))
      /\ \A k \in 1..(first + Len(pushed)) :
             parameters[k] = IF k <= first THEN head[k] ELSE pushed[k - first]
  BY <1>3, <1>5, <1>6, <1>7
<1>9. first + Len(pushed) = N
  BY <1>1, <1>4
<1>10. ASSUME NEW k \in 1..N
       PROVE  parameters[k] = IF k <= 6 THEN args[N + 1 - k] ELSE args[k - 6]
  <2>1. CASE k <= first
    BY <1>1, <1>5, <1>7, <1>8, <1>9, <2>1
  <2>2. CASE ~(k <= first)
    <3>1. first = 6 /\ k - 6 \in 1..Len(pushed)
      BY <1>1, <1>5, <1>9, <2>2
    <3> QED
      BY <1>1, <1>8, <1>9, <2>2, <3>1
  <2> QED
    BY <2>1, <2>2
<1> QED
  BY <1>1, <1>8, <1>9, <1>10 DEF N, parameters

LEMMA SameOccurrences ==
    ASSUME NEW N \in Nat, NEW s, DOMAIN s = 1..N, NEW t, DOMAIN t = 1..N,
           \A k \in 1..N : t[k] = IF k <= 6 THEN s[N + 1 - k] ELSE s[k - 6],
           NEW value
    PROVE  Occurrences(t, value) = Occurrences(s, value)
<1> DEFINE S == {k \in DOMAIN s : s[k] = value}
           T == {k \in DOMAIN t : t[k] = value}
           place(k) == IF k <= 6 THEN N + 1 - k ELSE k - 6
           back(j) == IF j >= N - 5 THEN N + 1 - j ELSE j + 6
           moved == [k \in T |-> place(k)]
<1>1. ASSUME NEW k \in 1..N
      PROVE  place(k) \in 1..N /\ t[k] = s[place(k)] /\ back(place(k)) = k
  OBVIOUS
<1>2. ASSUME NEW j \in 1..N
      PROVE  back(j) \in 1..N /\ place(back(j)) = j
  OBVIOUS
<1> HIDE DEF place, back
<1>3. moved \in [T -> S]
  BY <1>1
<1>4. moved \in Injection(T, S)
  <2>1. ASSUME NEW j \in T, NEW k \in T, moved[j] = moved[k]
        PROVE  j = k
    <3>1. place(j) = place(k) /\ j \in 1..N /\ k \in 1..N
      BY <2>1
    <3> QED
      BY <1>1, <3>1
  <2> HIDE DEF moved, S, T
  <2> QED
    BY <1>3, <2>1 DEF Injection, IsInjective
<1>5. moved \in Surjection(T, S)
  BY <1>1, <1>2, <1>3 DEF Surjection
<1>6. IsFiniteSet(T)
  BY FS_Interval, FS_Subset
<1>7. ExistsBijection(T, S)
  BY <1>4, <1>5 DEF ExistsBijection, Bijection
<1> HIDE DEF S, T
<1>8. Cardinality(S) = Cardinality(T)
  BY <1>6, <1>7, FS_Bijection
<1> QED
  BY <1>8 DEF Occurrences, S, T

LEMMA SimArguments == SimInv => ArgumentsDelivered
<1> SUFFICES ASSUME SimInv, BetweenOperations, RightFrame,
                    NEW n \in DOMAIN ir.trace, IsCall(ir.trace[n])
             PROVE  LET arguments  == ir.trace[n][3]
                        parameters == ParametersOf(x86.trace[n], Len(arguments))
                    IN  /\ Len(parameters) = Len(arguments)
                        /\ \A k \in DOMAIN arguments :
                               Occurrences(parameters, arguments[k])
                                   = Occurrences(arguments, arguments[k])
  BY DEF ArgumentsDelivered
<1> DEFINE args == ir.trace[n][3]
           x == x86.trace[n]
           parameters == ParametersOf(x, Len(args))
<1>1. Delivered(args, x[3], x[4])
  <2>1. TracesAgree(ir.trace, x86.trace)
    BY SimBetween DEF Simulated
  <2>2. DOMAIN ir.trace = 1..Len(ir.trace)
    BY <2>1, ListedAppend DEF TracesAgree
  <2> QED
    BY <2>1, <2>2 DEF TracesAgree, EventsAgree
<1> HIDE DEF args, x
<1>2. /\ Len(args) \in Nat /\ DOMAIN args = 1..Len(args)
      /\ Len(parameters) = Len(args) /\ DOMAIN parameters = 1..Len(args)
      /\ \A k \in 1..Len(args) :
             parameters[k] = IF k <= 6 THEN args[Len(args) + 1 - k] ELSE args[k - 6]
  BY <1>1, DeliveredParameters
<1> HIDE DEF parameters
<1>3. \A value : Occurrences(parameters, value) = Occurrences(args, value)
  BY <1>2, SameOccurrences
<1> QED
  BY <1>2, <1>3 DEF args, x, parameters
-----------------------------------------------------------------------------
LEMMA SimInvariant == LowerSpecValues => []SimInv
BY SimInvInit, SimInvNext, PTL DEF LowerSpecValues

(* Between operations the registers and the slots the Ctx has given out hold *)
(* what the temporaries and the variables hold, and the same stores have     *)
(* left the frame (Ctx::toLocation, Register_To_Location, EnsureRegister,     *)
(* CreateArth: no scratch register is one that holds a value still needed).  *)
THEOREM StateSimulatedCorrect == LowerSpecValues => []StateSimulated
BY SimInvariant, SimState, PTL

(* The lowered code calls, compares, jumps and returns as the operations do  *)
(* (LowerIR::Call, Ret, ConditionalJump, Jump and LabelDef).               *)
THEOREM TraceSimulatedCorrect == LowerSpecValues => []TraceSimulated
BY SimInvariant, SimTrace, PTL

(* A callee finds every argument in one of the places of its parameters      *)
(* (the loop of LowerIR::Call), whatever their number.                     *)
THEOREM ArgumentsDeliveredCorrect == LowerSpecValues => []ArgumentsDelivered
BY SimInvariant, SimArguments, PTL

(* The code never writes over the saved rbp and the return address, above    *)
(* the parameters it was passed, or below the frame it asks for             *)
(* (AllocateNew, define_stack_pushed_variable and every store).             *)
THEOREM StaysInFrameCorrect == LowerSpecValues => []StaysInFrame
BY SimInvariant, SimStaysInFrame, PTL
=============================================================================
