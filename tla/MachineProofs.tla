--------------------------- MODULE MachineProofs ---------------------------
(***************************************************************************)
(* The two machines of LowerIRValues: what running code does, instruction   *)
(* by instruction, what following a chain of pointers does, and what the     *)
(* partial functions for registers and bytes hold after a change.           *)
(*                                                                         *)
(* Run and Followed are recursive functions.  That they exist, and that the  *)
(* run of longer code goes on where that of its beginning ends, is proved   *)
(* by induction over a set of numbers.                                     *)
(***************************************************************************)
EXTENDS LowerIRValues, SequenceTheorems, WellFoundedInduction, TLAPS

-----------------------------------------------------------------------------
(* Induction.                                                              *)
NatLess == {pair \in Nat \X Nat : pair[1] < pair[2]}

LEMMA NatLessIsWellFounded == IsWellFoundedOn(NatLess, Nat)
<1>1. NatLess = OpToRel(<, Nat)
  BY DEF NatLess, OpToRel
<1> QED
  BY <1>1, NatLessThanWellFounded

LEMMA Smallest ==
    ASSUME NEW S, S \subseteq Nat, S # {}
    PROVE  \E n \in S : \A k \in S : n <= k
<1>1. PICK n \in S : \A k \in S : ~(<<k, n>> \in NatLess)
  BY NatLessIsWellFounded, WFMin
<1>2. ASSUME NEW k \in S PROVE n <= k
  <2>1. n \in Nat /\ k \in Nat
    OBVIOUS
  <2>2. <<k, n>> \notin NatLess
    BY <1>1
  <2>3. ~(k < n)
    BY <2>1, <2>2 DEF NatLess
  <2> QED
    BY <2>1, <2>3
<1> QED
  BY <1>2

LEMMA SetInduction ==
    ASSUME NEW S, S \subseteq Nat, 0 \in S, \A n \in S : n + 1 \in S
    PROVE  S = Nat
<1>1. SUFFICES ASSUME Nat \ S # {} PROVE FALSE
  OBVIOUS
<1>2. PICK n \in Nat \ S : \A k \in Nat \ S : n <= k
  BY <1>1, Smallest
<1>3. n # 0 /\ n - 1 \in Nat
  BY <1>2
<1>4. n - 1 \in S
  BY <1>2, <1>3
<1> QED
  BY <1>2, <1>4

(* Up to a bound.                                                          *)
LEMMA RangeInduction ==
    ASSUME NEW N \in Nat, NEW S, 0 \in S, \A n \in 0..(N - 1) : n \in S => n + 1 \in S
    PROVE  0..N \subseteq S
<1> DEFINE R == {n \in Nat : n <= N => n \in S}
<1>1. 0 \in R
  OBVIOUS
<1>2. ASSUME NEW n \in R PROVE n + 1 \in R
  <2>1. n \in Nat /\ (n <= N => n \in S)
    OBVIOUS
  <2>2. CASE n + 1 <= N
    <3>1. n \in 0..(N - 1) /\ n \in S
      BY <2>1, <2>2
    <3> QED
      BY <2>1, <3>1
  <2>3. CASE ~(n + 1 <= N)
    BY <2>1, <2>3
  <2> QED
    BY <2>2, <2>3
<1>3. R = Nat
  <2>1. R \subseteq Nat
    OBVIOUS
  <2> HIDE DEF R
  <2> QED
    BY <1>1, <1>2, <2>1, SetInduction
<1> QED
  BY <1>3

-----------------------------------------------------------------------------
(* Running code: the machine after each instruction.                       *)
IsAfter(m, code, N, r) ==
    r = [n \in 0..N |-> IF n = 0 THEN m ELSE Execute(r[n - 1], code[n])]

After(m, code) == CHOOSE r : IsAfter(m, code, Len(code), r)

LEMMA RunIsAfter == ASSUME NEW m, NEW code PROVE Run(m, code) = After(m, code)[Len(code)]
BY DEF Run, After, IsAfter

LEMMA LongerAfter ==
    ASSUME NEW m, NEW code, NEW N \in Nat, NEW r, IsAfter(m, code, N, r)
    PROVE  \E q : IsAfter(m, code, N + 1, q)
<1> DEFINE q == [n \in 0..(N + 1) |-> IF n = N + 1 THEN Execute(r[N], code[n]) ELSE r[n]]
<1>1. ASSUME NEW n \in 0..(N + 1)
      PROVE  q[n] = IF n = 0 THEN m ELSE Execute(q[n - 1], code[n])
  <2>1. CASE n = N + 1
    <3>1. q[n] = Execute(r[N], code[n]) /\ q[n - 1] = r[N] /\ n # 0
      BY <2>1
    <3> QED
      BY <3>1
  <2>2. CASE n = 0
    BY <2>2 DEF IsAfter
  <2>3. CASE n \in 1..N
    <3>1. q[n] = r[n] /\ q[n - 1] = r[n - 1] /\ n # 0
      BY <2>3
    <3>2. r[n] = Execute(r[n - 1], code[n])
      BY <2>3 DEF IsAfter
    <3> QED
      BY <3>1, <3>2
  <2> QED
    BY <2>1, <2>2, <2>3
<1>2. q = [n \in 0..(N + 1) |-> IF n = 0 THEN m ELSE Execute(q[n - 1], code[n])]
  BY <1>1
<1> HIDE DEF q
<1> QED
  BY <1>2 DEF IsAfter

LEMMA AfterExists ==
    ASSUME NEW m, NEW code, NEW N \in Nat
    PROVE  \E r : IsAfter(m, code, N, r)
<1> DEFINE S == {k \in Nat : \E r : IsAfter(m, code, k, r)}
<1>1. 0 \in S
  <2> DEFINE r == [n \in 0..0 |-> m]
  <2>1. r = [n \in 0..0 |-> IF n = 0 THEN m ELSE Execute(r[n - 1], code[n])]
    OBVIOUS
  <2> HIDE DEF r
  <2> QED
    BY <2>1 DEF IsAfter
<1>2. ASSUME NEW k \in S PROVE k + 1 \in S
  BY LongerAfter
<1>3. S \subseteq Nat
  OBVIOUS
<1> HIDE DEF S
<1>4. S = Nat
  BY <1>1, <1>2, <1>3, SetInduction
<1> QED
  BY <1>4 DEF S

LEMMA AfterSteps ==
    ASSUME NEW m, NEW code, Len(code) \in Nat
    PROVE  /\ After(m, code)[0] = m
           /\ \A n \in 1..Len(code) :
                  After(m, code)[n] = Execute(After(m, code)[n - 1], code[n])
<1>1. IsAfter(m, code, Len(code), After(m, code))
  BY AfterExists DEF After
<1> HIDE DEF After
<1> QED
  BY <1>1 DEF IsAfter

(* Longer code begins as shorter code does.                                *)
LEMMA AfterPrefix ==
    ASSUME NEW m, NEW code, NEW longer, Len(code) \in Nat, Len(longer) \in Nat,
           Len(code) <= Len(longer), \A n \in 1..Len(code) : longer[n] = code[n]
    PROVE  \A n \in 0..Len(code) : After(m, longer)[n] = After(m, code)[n]
<1> DEFINE S == {n \in 0..Len(code) : After(m, longer)[n] = After(m, code)[n]}
<1>1. 0 \in S
  BY AfterSteps
<1>2. ASSUME NEW n \in 0..(Len(code) - 1), n \in S PROVE n + 1 \in S
  <2>1. n + 1 \in 1..Len(code) /\ n + 1 \in 1..Len(longer) /\ (n + 1) - 1 = n
    OBVIOUS
  <2>2. /\ After(m, longer)[n + 1] = Execute(After(m, longer)[n], longer[n + 1])
        /\ After(m, code)[n + 1] = Execute(After(m, code)[n], code[n + 1])
    BY <2>1, AfterSteps
  <2>3. After(m, longer)[n] = After(m, code)[n] /\ longer[n + 1] = code[n + 1]
    BY <1>2, <2>1
  <2> QED
    BY <2>1, <2>2, <2>3
<1> HIDE DEF S
<1>3. 0..Len(code) \subseteq S
  BY <1>1, <1>2, RangeInduction
<1> QED
  BY <1>3 DEF S

LEMMA RunEmpty == ASSUME NEW m PROVE Run(m, << >>) = m
BY RunIsAfter, AfterSteps, Len(<< >>) = 0

LEMMA RunAppend ==
    ASSUME NEW m, NEW T, NEW code \in Seq(T), NEW i \in T
    PROVE  Run(m, Append(code, i)) = Execute(Run(m, code), i)
<1> DEFINE longer == Append(code, i)
           N == Len(code)
<1>1. /\ N \in Nat /\ Len(longer) = N + 1
      /\ \A n \in 1..N : longer[n] = code[n]
      /\ longer[N + 1] = i
  OBVIOUS
<1> HIDE DEF longer
<1>2. After(m, longer)[N + 1] = Execute(After(m, longer)[N], i)
  BY <1>1, AfterSteps
<1>3. After(m, longer)[N] = After(m, code)[N]
  BY <1>1, AfterPrefix
<1>4. Run(m, longer) = Execute(Run(m, code), i)
  BY <1>1, <1>2, <1>3, RunIsAfter
<1> QED
  BY <1>4 DEF longer
-----------------------------------------------------------------------------
(* Following a chain of pointers.                                          *)
IsFollowed(m, c, src, N, r) ==
    r = [n \in 0..N |-> IF n = 0 THEN ValueOf(m, src) ELSE At(m, c, r[n - 1], 8)]

LEMMA LongerFollowed ==
    ASSUME NEW m, NEW c, NEW src, NEW N \in Nat, NEW r, IsFollowed(m, c, src, N, r)
    PROVE  \E q : IsFollowed(m, c, src, N + 1, q)
<1> DEFINE q == [n \in 0..(N + 1) |-> IF n = N + 1 THEN At(m, c, r[N], 8) ELSE r[n]]
<1>1. ASSUME NEW n \in 0..(N + 1)
      PROVE  q[n] = IF n = 0 THEN ValueOf(m, src) ELSE At(m, c, q[n - 1], 8)
  <2>1. CASE n = N + 1
    <3>1. q[n] = At(m, c, r[N], 8) /\ q[n - 1] = r[N] /\ n # 0
      BY <2>1
    <3> QED
      BY <3>1
  <2>2. CASE n = 0
    BY <2>2 DEF IsFollowed
  <2>3. CASE n \in 1..N
    <3>1. q[n] = r[n] /\ q[n - 1] = r[n - 1] /\ n # 0
      BY <2>3
    <3>2. r[n] = At(m, c, r[n - 1], 8)
      BY <2>3 DEF IsFollowed
    <3> QED
      BY <3>1, <3>2
  <2> QED
    BY <2>1, <2>2, <2>3
<1>2. q = [n \in 0..(N + 1) |-> IF n = 0 THEN ValueOf(m, src) ELSE At(m, c, q[n - 1], 8)]
  BY <1>1
<1> HIDE DEF q
<1> QED
  BY <1>2 DEF IsFollowed

LEMMA FollowedSteps ==
    ASSUME NEW m, NEW c, NEW src, NEW hops \in Nat
    PROVE  /\ Followed(m, c, src, hops)[0] = ValueOf(m, src)
           /\ \A n \in 1..hops :
                  Followed(m, c, src, hops)[n] = At(m, c, Followed(m, c, src, hops)[n - 1], 8)
<1> DEFINE S == {k \in Nat : \E r : IsFollowed(m, c, src, k, r)}
<1>1. 0 \in S
  <2> DEFINE r == [n \in 0..0 |-> ValueOf(m, src)]
  <2>1. r = [n \in 0..0 |-> IF n = 0 THEN ValueOf(m, src) ELSE At(m, c, r[n - 1], 8)]
    OBVIOUS
  <2> HIDE DEF r
  <2> QED
    BY <2>1 DEF IsFollowed
<1>2. ASSUME NEW k \in S PROVE k + 1 \in S
  BY LongerFollowed
<1>3. S \subseteq Nat
  OBVIOUS
<1>4. Followed(m, c, src, hops) = CHOOSE r : IsFollowed(m, c, src, hops, r)
  BY DEF Followed, IsFollowed
<1>5. IsFollowed(m, c, src, hops, Followed(m, c, src, hops))
  <2> HIDE DEF S
  <2>1. S = Nat
    BY <1>1, <1>2, <1>3, SetInduction
  <2>2. \E r : IsFollowed(m, c, src, hops, r)
    BY <2>1 DEF S
  <2> HIDE DEF Followed
  <2> QED
    BY <1>4, <2>2
<1> HIDE DEF Followed
<1> QED
  BY <1>5 DEF IsFollowed

-----------------------------------------------------------------------------
(* Partial functions, registers and bytes.                                 *)
(* The bytes of the location hold the value.                               *)
Holds(bytes, offset, size, value) ==
    \A d \in Bytes(offset, size) : d \in DOMAIN bytes /\ bytes[d] = <<value, offset - d>>

LEMMA ReadHolds ==
    ASSUME NEW bytes, NEW offset \in Int, NEW size \in {4, 8}, NEW value,
           Holds(bytes, offset, size, value)
    PROVE  Read(bytes, offset, size) = value
<1>1. offset \in Bytes(offset, size)
  BY DEF Bytes
<1>2. \A d \in Bytes(offset, size) : Lookup(bytes, d) = <<value, offset - d>>
  BY DEF Holds, Lookup
<1>3. Lookup(bytes, offset)[1] = value
  BY <1>1, <1>2
<1> QED
  BY <1>2, <1>3 DEF Read

LEMMA WriteHolds ==
    ASSUME NEW bytes, NEW offset \in Int, NEW size \in {4, 8}, NEW value
    PROVE  /\ Holds(Write(bytes, offset, size, value), offset, size, value)
           /\ \A o, s, w :
                  Holds(bytes, o, s, w) /\ Bytes(o, s) \cap Bytes(offset, size) = {} =>
                      Holds(Write(bytes, offset, size, value), o, s, w)
<1> DEFINE after == Write(bytes, offset, size, value)
<1>1. /\ DOMAIN after = DOMAIN bytes \cup Bytes(offset, size)
      /\ \A d \in Bytes(offset, size) : after[d] = <<value, offset - d>>
      /\ \A d \in DOMAIN bytes : d \notin Bytes(offset, size) => after[d] = bytes[d]
  BY DEF Write
<1> HIDE DEF after
<1>2. Holds(after, offset, size, value)
  BY <1>1 DEF Holds
<1>3. ASSUME NEW o, NEW s, NEW w, Holds(bytes, o, s, w),
             Bytes(o, s) \cap Bytes(offset, size) = {}
      PROVE  Holds(after, o, s, w)
  BY <1>1, <1>3 DEF Holds
<1> QED
  BY <1>2, <1>3 DEF after

-----------------------------------------------------------------------------
(* The state of the machine that executes the code.                        *)
IsMachine(m) == DOMAIN m = {"regs", "bytes", "flags", "outside", "pushed", "trace"}

LEMMA StartIsMachine == IsMachine(X86Start)
BY DEF IsMachine, X86Start

LEMMA SetFields ==
    ASSUME NEW m, IsMachine(m), NEW dst, NEW value
    PROVE  /\ IsMachine(Set(m, dst, value))
           /\ Set(m, dst, value).regs = Put(m.regs, CellOf(dst), value)
           /\ Set(m, dst, value).bytes = m.bytes
           /\ Set(m, dst, value).flags = m.flags
           /\ Set(m, dst, value).outside = m.outside
           /\ Set(m, dst, value).pushed = m.pushed
           /\ Set(m, dst, value).trace = m.trace
BY DEF IsMachine, Set

LEMMA RecordFields ==
    ASSUME NEW m, IsMachine(m), NEW event
    PROVE  /\ IsMachine(Record(m, event))
           /\ Record(m, event).regs = m.regs
           /\ Record(m, event).bytes = m.bytes
           /\ Record(m, event).flags = m.flags
           /\ Record(m, event).outside = m.outside
           /\ Record(m, event).pushed = m.pushed
           /\ Record(m, event).trace = Append(m.trace, event)
BY DEF IsMachine, Record

LEMMA ExecuteIsMachine ==
    ASSUME NEW m, IsMachine(m), NEW i \in Instruction(Nat)
    PROVE  IsMachine(Execute(m, i))
<1>1. \/ i.op \in RegisterRegister \cup RegisterImmediate
      \/ i.op \in {"Load", "Lea", "Store", "StoreI", "Call", "Push", "PushI"}
      \/ i.op \in SetsAl \cup LabelOnly
  BY DEF Instruction
<1>2. \A dst, value : IsMachine(Set(m, dst, value))
  BY SetFields
<1>3. \A event : IsMachine(Record(m, event))
  BY RecordFields
<1>4. CASE i.op \in {"LoadI", "Mov", "Load", "Lea", "IndirectLoad"}
  BY <1>2, <1>4 DEF Execute, SetsAl, JumpCondition
<1>5. CASE i.op \in {"StoreI", "Store"}
  BY <1>5 DEF Execute, SetsAl, JumpCondition, IsMachine
<1>6. CASE i.op \in {"Add", "AddI", "Sub", "SubI"}
  <2>1. \A n : IsMachine(n) => IsMachine([n EXCEPT !.flags = Undefined])
    BY DEF IsMachine
  <2> QED
    BY <1>2, <1>6, <2>1 DEF Execute, SetsAl, JumpCondition
<1>7. CASE i.op \in {"Cmp", "CmpI", "Push", "PushI"}
  BY <1>7 DEF Execute, SetsAl, JumpCondition, IsMachine
<1>8. CASE i.op \in SetsAl
  <2>1. IsMachine([m EXCEPT !.regs = Put(@, BaseCell("AX"), Undefined)])
    BY DEF IsMachine
  <2> QED
    BY <1>8, <2>1, SetFields DEF Execute, SetsAl, JumpCondition
<1>9. CASE i.op = "IndirectStore"
  <2>1. \A address, size, value : IsMachine(StoreAt(m, address, size, value))
    BY DEF StoreAt, IsMachine
  <2> QED
    BY <1>9, <2>1 DEF Execute, SetsAl, JumpCondition
<1>10. CASE i.op = "Call"
  <2>1. IsMachine(AfterCall(m, i))
    <3>1. \A n, regs : IsMachine(n) =>
              IsMachine([n EXCEPT !.regs = regs, !.flags = Undefined, !.pushed = << >>])
      BY DEF IsMachine
    <3> QED
      BY <1>3, <3>1 DEF AfterCall
  <2> QED
    BY <1>10, <2>1 DEF Execute, SetsAl, JumpCondition
<1>11. CASE i.op \in LabelOnly
  BY <1>3, <1>11 DEF Execute, SetsAl, JumpCondition, LabelOnly
<1> QED
  BY <1>1, <1>4, <1>5, <1>6, <1>7, <1>8, <1>9, <1>10, <1>11
     DEF RegisterRegister, RegisterImmediate

LEMMA RunIsMachine ==
    ASSUME NEW code \in Seq(Instruction(Nat))
    PROVE  IsMachine(Run(X86Start, code))
<1> DEFINE N == Len(code)
           S == {n \in 0..N : IsMachine(After(X86Start, code)[n])}
<1>1. 0 \in S
  BY AfterSteps, StartIsMachine
<1>2. ASSUME NEW n \in 0..(N - 1), n \in S PROVE n + 1 \in S
  <2>1. n + 1 \in 1..N /\ (n + 1) - 1 = n /\ code[n + 1] \in Instruction(Nat)
    OBVIOUS
  <2>2. After(X86Start, code)[n + 1] = Execute(After(X86Start, code)[n], code[n + 1])
    BY <2>1, AfterSteps
  <2> QED
    BY <1>2, <2>1, <2>2, ExecuteIsMachine
<1>3. N \in Nat
  OBVIOUS
<1> HIDE DEF S
<1>4. 0..N \subseteq S
  BY <1>1, <1>2, <1>3, RangeInduction
<1>5. N \in S
  BY <1>3, <1>4
<1> QED
  BY <1>5, RunIsAfter DEF S
=============================================================================
