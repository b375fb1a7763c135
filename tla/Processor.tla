----------------------------- MODULE Processor -----------------------------
(***************************************************************************)
(* The processor that runs the text: no code of the compiler, but what the  *)
(* compiler's code is for.  A step executes one line.                       *)
(*                                                                         *)
(* A register is a pair of 32-bit halves, the lower first; memory is a      *)
(* 32-bit integer at each multiple of four.  The upper half of every        *)
(* address of the stack is UpperHalf, so that one which has been through a  *)
(* 32-bit register is no address.  Numbers stay far below 2^31 and the      *)
(* lower halves of addresses below StackTop, and nothing carries.           *)
(* calls is not part of the processor: it records, for each call that has   *)
(* not returned, what the caller must find again.                          *)
(***************************************************************************)
EXTENDS Codegen

LOCAL INSTANCE SequencesExt
LOCAL INSTANCE TLC

CONSTANTS
    StackTop,  \* the address above the stack
    StackSize  \* what the loader has made room for, in bytes

VARIABLES
    text,
    state,  \* "off", "running" or "exited"
    rip,    \* the line to execute
    regs,
    memory,
    flags,  \* what was compared last
    calls

processorVars == <<text, state, rip, regs, memory, flags, calls>>

(* What registers and memory hold before they are written.                 *)
Stale == 9999

UpperHalf == 1

Off ==
    /\ text = << >>
    /\ state = "off"
    /\ rip = 0
    /\ regs = [r \in BaseRegister \cup {"BP", "SP"} |->
                  IF r = "SP" THEN <<StackTop, UpperHalf>> ELSE <<Stale, 0>>]
    /\ memory = << >>
    /\ flags = << >>
    /\ calls = << >>

LineOf(label) == CHOOSE n \in DOMAIN text : text[n] = Ins("label", NoOperand, label)

line == text[rip]

-----------------------------------------------------------------------------
(* Operands.                                                               *)
Half(address) == IF address \in DOMAIN memory THEN memory[address] ELSE Stale

Address(operand) == regs[operand.base.reg][1] + operand.distance

Fetch(address, size) ==
    <<Half(address), IF size = 8 THEN Half(address + 4) ELSE 0>>

Signed(n) == <<n, IF n < 0 THEN -1 ELSE 0>>

Value(operand) ==
    CASE operand.kind = "int" -> Signed(operand.value)
      [] operand.kind = "memory" -> Fetch(Address(operand), operand.size)
      [] operand.size = 8 -> regs[operand.reg]
      [] operand.size = 4 -> <<regs[operand.reg][1], 0>>
      [] operand.size = 1 -> <<regs[operand.reg][1] % 256, 0>>

(* A line of the text may use the bytes from here to here.                 *)
OnStack(address, size) ==
    /\ address % 4 = 0
    /\ StackTop - StackSize <= address
    /\ address + size <= StackTop

Stored(address, size, value) ==
    IF size = 8 THEN (address :> value[1]) @@ (address + 4 :> value[2]) @@ memory
                ELSE (address :> value[1]) @@ memory

(* Writing 32 bits of a register clears the rest, writing 8 keeps it.       *)
Merged(old, size, value) ==
    CASE size = 8 -> value
      [] size = 4 -> <<value[1], 0>>
      [] size = 1 -> <<old[1] - (old[1] % 256) + value[1], old[2]>>

SetRegister(operand, value) ==
    regs' = [regs EXCEPT ![operand.reg] = Merged(@, operand.size, value)]

Operands == {line.dst, line.src}

Reachable ==
    \A o \in Operands :
        o.kind = "memory" /\ line.op # "lea" =>
            /\ o.base.size = 8
            /\ regs[o.base.reg][2] = UpperHalf
            /\ OnStack(Address(o), o.size)

-----------------------------------------------------------------------------
Executes(mnemonics) ==
    /\ state = "running"
    /\ line.op \in mnemonics

GoOn == rip' = rip + 1 /\ UNCHANGED <<text, state>>

Move ==
    /\ Executes({"mov", "movzx", "lea"})
    /\ Reachable
    /\ LET value == IF line.op = "lea" THEN <<Address(line.src), UpperHalf>>
                                       ELSE Value(line.src)
       IN  IF line.dst.kind = "memory"
             THEN /\ memory' = Stored(Address(line.dst), line.dst.size, value)
                  /\ UNCHANGED regs
           ELSE SetRegister(line.dst, value) /\ UNCHANGED memory
    /\ GoOn
    /\ UNCHANGED <<flags, calls>>

Condition(mnemonic) ==
    CASE mnemonic \in {"sete", "je"} -> flags[1] = flags[2]
      [] mnemonic = "setne" -> flags[1] # flags[2]
      [] mnemonic \in {"setg", "jg"} -> flags[1] > flags[2]
      [] mnemonic = "jl" -> flags[1] < flags[2]

(* Sums of 32 bits; of 64 bits, only of an address and a small number.  cmp *)
(* is a sub without a result.                                              *)
Arithmetic ==
    /\ Executes({"add", "sub", "cmp"})
    /\ LET l     == Value(line.dst)[1]
           r     == Value(line.src)[1]
           upper == Value(line.dst)[2]
       IN  CASE line.op = "cmp" -> flags' = <<l, r>> /\ UNCHANGED regs
             [] line.op = "sub" -> flags' = <<l, r>> /\ SetRegister(line.dst, <<l - r, upper>>)
             [] line.op = "add" -> flags' = <<l + r, 0>> /\ SetRegister(line.dst, <<l + r, upper>>)
    /\ GoOn
    /\ UNCHANGED <<memory, calls>>

SetByte ==
    /\ Executes({"sete", "setne", "setg"})
    /\ SetRegister(line.dst, <<IF Condition(line.op) THEN 1 ELSE 0, 0>>)
    /\ GoOn
    /\ UNCHANGED <<memory, flags, calls>>

JumpLine ==
    /\ Executes({"label", "jmp", "je", "jg", "jl"})
    /\ rip' = IF line.op = "jmp" \/ (line.op # "label" /\ Condition(line.op))
                THEN LineOf(line.src) ELSE rip + 1
    /\ UNCHANGED <<text, state, regs, memory, flags, calls>>

Pushed(value) ==
    LET top == regs["SP"][1] - 8 IN
    /\ OnStack(top, 8)
    /\ memory' = Stored(top, 8, value)
    /\ regs' = [regs EXCEPT !["SP"] = <<top, UpperHalf>>]

Push ==
    /\ Executes({"push"})
    /\ Pushed(Value(line.src))
    /\ GoOn
    /\ UNCHANGED <<flags, calls>>

CallLine ==
    /\ Executes({"call"})
    /\ Pushed(<<rip + 1, 0>>)
    /\ rip' = LineOf(line.src)
    /\ calls' = Append(calls, [back |-> rip + 1, SP |-> regs["SP"], BP |-> regs["BP"]])
    /\ UNCHANGED <<text, state, flags>>

(* pop rbp, or leave, which takes rsp back to rbp first.                    *)
Leave ==
    /\ Executes({"pop", "leave"})
    /\ LET from == IF line.op = "leave" THEN regs["BP"] ELSE regs["SP"]
           top  == from[1]
       IN
         /\ from[2] = UpperHalf
         /\ OnStack(top, 8)
         /\ regs' = [regs EXCEPT !["BP"] = Fetch(top, 8), !["SP"] = <<top + 8, UpperHalf>>]
    /\ GoOn
    /\ UNCHANGED <<memory, flags, calls>>

Ret ==
    /\ Executes({"ret"})
    /\ LET top == regs["SP"][1] IN
         /\ OnStack(top, 8)
         /\ Half(top) \in DOMAIN text
         /\ rip' = Half(top)
         /\ regs' = [regs EXCEPT !["SP"] = <<top + 8, UpperHalf>>]
    /\ calls' = Front(calls)
    /\ UNCHANGED <<text, state, memory, flags>>

(* The only system call is exit.                                           *)
Exit ==
    /\ Executes({"syscall"})
    /\ state' = "exited"
    /\ UNCHANGED <<text, rip, regs, memory, flags, calls>>

(* Nothing else: a line that cannot be executed is the end of the program. *)
ProcessorNext ==
    Move \/ Arithmetic \/ SetByte \/ JumpLine \/ Push \/ CallLine
         \/ Leave \/ Ret \/ Exit

ExitStatus == regs["DI"][1] % 256
=============================================================================
