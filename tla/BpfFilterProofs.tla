--------------------------- MODULE BpfFilterProofs ---------------------------
(***************************************************************************)
(* bpf_validate and the interpreter for every width of a byte, every       *)
(* program and every packet: what the validator has let through stays in   *)
(* its program and in the scratch memory, and reads captured bytes only;   *)
(* and the two filters of the receiver pass the transmitter's frames.      *)
(*                                                                         *)
(* The inductive invariant is the types and that a running program's       *)
(* counter is inside it; the rest of StaysInside is then what the          *)
(* validator checked of the instruction there. For the receiver's filters  *)
(* it says, at each instruction, what the registers hold of the packet;    *)
(* that an OR puts two bytes together is arithmetic on the bits of a word, *)
(* whose powers of two are the sizes of the powersets of 1..n.             *)
(***************************************************************************)
EXTENDS RxFilter, FiniteSetTheorems, FunctionTheorems, SequenceTheorems,
        WellFoundedInduction, TLAPS

CallOK == call \in Calls
PcOK   == result = Running => pc < Len(prog)
IInv   == TypeOK /\ CallOK /\ PcOK

-----------------------------------------------------------------------------
LEMMA WordFacts == ByteSize \in Nat /\ WordSize \in Nat /\ WordSize > 1 /\ 0 \in Word
<1>1. ByteSize \in Nat /\ ByteSize > 1
  BY WordAssumption
<1>2. \A m, n \in Nat : m > 1 /\ n > 1 => m * n \in Nat /\ m * n > 1
  <2> SUFFICES ASSUME NEW m \in Nat, NEW n \in Nat, m > 1, n > 1
               PROVE  m * n \in Nat /\ m * n > 1
    OBVIOUS
  <2>1. m * n \in Nat
    OBVIOUS
  <2>2. m * n >= 2 * n
    OBVIOUS
  <2> QED
    BY <2>1, <2>2
<1>3. ByteSize * ByteSize \in Nat /\ ByteSize * ByteSize > 1
  BY <1>1, <1>2
<1>4. ByteSize * ByteSize * ByteSize \in Nat /\ ByteSize * ByteSize * ByteSize > 1
  BY <1>1, <1>2, <1>3
<1>5. WordSize \in Nat /\ WordSize > 1
  BY <1>1, <1>2, <1>4 DEF WordSize
<1> QED
  BY <1>1, <1>5 DEF Word

\* A sum below the word size is itself; one that wraps has lost one word size.
LEMMA Remainder ==
  ASSUME NEW n \in Nat, NEW s \in Nat, n > 0
  PROVE  /\ s % n \in 0..(n - 1)
         /\ s < n => s % n = s
         /\ s >= n /\ s < 2 * n => s % n = s - n
OBVIOUS

LEMMA CallFacts ==
  ASSUME CallOK
  PROVE  /\ prog \in Seq(Instruction) /\ Len(prog) \in Nat
         /\ 2 * Len(prog) < WordSize /\ Len(prog) + ByteSize < WordSize
         /\ call.data \in Seq(Byte) /\ buflen \in Word
         /\ call.wirelen \in Word /\ call.aux \in Aux
<1>1. call \in Calls
  BY DEF CallOK
<1>2. /\ prog \in Seq(Instruction)
      /\ 2 * Len(prog) < WordSize /\ Len(prog) + ByteSize < WordSize
      /\ call.data \in Seq(Byte) /\ buflen \in Word
      /\ call.wirelen \in Word /\ call.aux \in Aux
  BY <1>1, InputAssumption DEF prog, buflen
<1>3. Len(prog) \in Nat
  BY <1>2
<1> QED
  BY <1>2, <1>3

\* The instruction at the program counter is one the validator has checked,
\* and unless it is a RET there is another one behind it.
LEMMA CurrentInsn ==
  ASSUME IInv, result = Running
  PROVE  /\ insn \in Instruction /\ pc \in Nat /\ pc + 1 \in 1..Len(prog)
         /\ InsnValid(prog, pc + 1)
         /\ BPF_CLASS(code) # "RET" => pc + 1 < Len(prog)
<1>1. pc \in Nat /\ pc < Len(prog) /\ prog \in Seq(Instruction) /\ Len(prog) \in Nat
  BY CallFacts DEF IInv, TypeOK, PcOK
<1>2. pc + 1 \in 1..Len(prog)
  BY <1>1
<1>3. insn \in Instruction
  BY <1>1, <1>2 DEF insn
<1>4. InsnValid(prog, pc + 1) /\ BPF_CLASS(prog[Len(prog)].code) = "RET"
  BY <1>2 DEF IInv, TypeOK, bpf_validate
<1> QED
  BY <1>1, <1>2, <1>3, <1>4 DEF code, insn

-----------------------------------------------------------------------------
(***************************************************************************)
(* Where jumps lead. The validator adds modulo the word size, the machine  *)
(* adds a signed offset; both agree because a program is shorter than half *)
(* the words.                                                              *)
(***************************************************************************)
LEMMA SignedOffset ==
  ASSUME NEW w \in Nat, NEW len \in Nat, NEW from \in 1..len, NEW k \in 0..(w - 1),
         2 * len < w, (from + k) % w < len
  PROVE  from + (IF 2 * k < w THEN k ELSE k - w) \in 0..(len - 1)
<1>1. from + k \in Nat /\ from + k < 2 * w /\ w > 0
  OBVIOUS
<1>2. CASE from + k < w
  BY <1>1, <1>2, Remainder
<1>3. CASE from + k >= w
  BY <1>1, <1>3, Remainder
<1> QED
  BY <1>1, <1>2, <1>3

LEMMA JumpAlwaysInside ==
  ASSUME IInv, result = Running, BPF_CLASS(code) = "JMP", BPF_OP(code) = "JA"
  PROVE  pc + 1 + bpf_int32(insn.k) \in 0..(Len(prog) - 1)
<1>1. /\ insn.k \in 0..(WordSize - 1) /\ pc \in Nat /\ pc + 1 \in 1..Len(prog)
      /\ (pc + 1 + insn.k) % WordSize < Len(prog)
  BY CurrentInsn DEF Instruction, Word, InsnValid, JumpsInside, InProgram, insn, code
<1>2. WordSize \in Nat /\ Len(prog) \in Nat /\ 2 * Len(prog) < WordSize
  BY CallFacts, WordFacts DEF IInv
<1> QED
  BY <1>1, <1>2, SignedOffset DEF bpf_int32

LEMMA JumpIfInside ==
  ASSUME IInv, result = Running, BPF_CLASS(code) = "JMP", BPF_OP(code) \in CondOps,
         NEW offset \in {insn.jt, insn.jf}
  PROVE  pc + 1 + offset \in 0..(Len(prog) - 1)
<1>1. BPF_OP(code) # "JA"
  BY DEF CondOps
<1>2. /\ offset \in 0..(ByteSize - 1) /\ pc \in Nat /\ pc + 1 \in 1..Len(prog)
      /\ (pc + 1 + offset) % WordSize < Len(prog)
  BY <1>1, CurrentInsn DEF Instruction, Byte, InsnValid, JumpsInside, InProgram, insn, code
<1>3. /\ WordSize \in Nat /\ ByteSize \in Nat /\ Len(prog) \in Nat
      /\ Len(prog) + ByteSize < WordSize
  BY CallFacts, WordFacts DEF IInv
<1>4. pc + 1 + offset \in Nat /\ pc + 1 + offset < WordSize
  BY <1>2, <1>3
<1>5. (pc + 1 + offset) % WordSize = pc + 1 + offset
  BY <1>3, <1>4, Remainder
<1> QED
  BY <1>2, <1>3, <1>4, <1>5

-----------------------------------------------------------------------------
\* An instruction that returns keeps the machine as it is.
LEMMA ReturnKeeps ==
  ASSUME IInv, NEW value \in Word \cup {Aborted}, Return(value)
  PROVE  IInv' /\ read' = {}
<1>1. prog' = prog /\ CallOK' /\ bpf_validate(prog)'
  BY DEF Return, IInv, TypeOK, CallOK, prog, bpf_validate, InsnValid, KnownCode, UsesCell, DividesByK, JumpsInside, InProgram
<1>2. value # Running
  BY WordFacts DEF Word, Running, Aborted
<1> QED
  BY <1>1, <1>2 DEF Return, IInv, TypeOK, PcOK, registers

\* An instruction that goes on to one inside the program keeps the rest.
LEMMA ContinueKeeps ==
  ASSUME IInv, result = Running, NEW offset, NEW fetched, Continue(offset, fetched),
         pc + 1 + offset \in 0..(Len(prog) - 1),
         A' \in Word, X' \in Word, mem' \in [0..(BPF_MEMWORDS - 1) -> Word \cup {Undefined}]
  PROVE  IInv' /\ read' = fetched
<1>1. call' = call /\ prog' = prog /\ pc' = pc + 1 + offset /\ result' = result /\ read' = fetched
  BY DEF Continue, NextInsn, prog
<1>2. CallOK' /\ bpf_validate(prog)'
  BY <1>1 DEF IInv, TypeOK, CallOK, bpf_validate, InsnValid, KnownCode, UsesCell, DividesByK, JumpsInside, InProgram
<1>3. Len(prog) \in Nat
  BY CallFacts DEF IInv
<1>4. pc' \in Nat /\ pc' < Len(prog)
  BY <1>1, <1>3
<1> QED
  BY <1>1, <1>2, <1>4 DEF IInv, TypeOK, PcOK

\* The same for an instruction that is not a jump.
LEMMA NextKeeps ==
  ASSUME IInv, result = Running, BPF_CLASS(code) # "RET", NEW fetched, Continue(0, fetched),
         A' \in Word, X' \in Word, mem' \in [0..(BPF_MEMWORDS - 1) -> Word \cup {Undefined}]
  PROVE  IInv' /\ read' = fetched
<1>1. pc \in Nat /\ pc + 1 < Len(prog) /\ Len(prog) \in Nat
  BY CurrentInsn, CallFacts DEF IInv
<1>2. pc + 1 + 0 \in 0..(Len(prog) - 1)
  BY <1>1
<1> QED
  BY <1>2, ContinueKeeps

\* A load checked by Outside takes its bytes from the captured ones, and its
\* offset has not wrapped around.
LEMMA InsideFacts ==
  ASSUME NEW base \in Word, NEW index \in Word, NEW size \in {"W", "H", "B"},
         ~Outside(base, index, size), buflen \in Word
  PROVE  \A k \in (((index + base) % WordSize)..(((index + base) % WordSize) + SizeOf(size) - 1)) :
           k < buflen
<1>1. WordSize \in Nat /\ WordSize > 0 /\ SizeOf(size) \in {1, 2, 4}
  BY WordFacts DEF SizeOf
<1>0. base \in Nat /\ index \in Nat /\ buflen \in Nat /\ buflen < WordSize
  BY <1>1 DEF Word
<1>5. (base + index) % WordSize \in Nat
  BY <1>0, <1>1, Remainder
<1>2. /\ base + index <= buflen
      /\ SizeOf(size) <= buflen - ((base + index) % WordSize)
  BY <1>0, <1>1, <1>5 DEF Outside
<1>3. base + index \in Nat /\ base + index < WordSize
  BY <1>0, <1>1, <1>2
<1>4. (index + base) % WordSize = base + index
  BY <1>0, <1>1, <1>3, Remainder
<1> QED
  BY <1>0, <1>1, <1>2, <1>3, <1>4

-----------------------------------------------------------------------------
\* What is read in a step, in the terms of ReadsInside.
Inside(fetched) == \A k \in fetched : k < buflen

LEMMA Initially == Init => IInv /\ ReadsInside
<1> SUFFICES ASSUME Init PROVE IInv /\ ReadsInside
  OBVIOUS
<1>1. CallOK /\ bpf_validate(prog) /\ ReadsInside
  BY DEF Init, CallOK, prog, ReadsInside
<1>2. A \in Word /\ X \in Word /\ pc \in Nat /\ result \in Word \cup {Running, Aborted}
  BY WordFacts DEF Init
<1>3. mem \in [0..(BPF_MEMWORDS - 1) -> Word \cup {Undefined}]
  BY DEF Init
<1>4. Len(prog) \in Nat /\ Len(prog) >= 1
  BY <1>1, CallFacts DEF bpf_validate
<1>5. PcOK
  BY <1>4 DEF Init, PcOK
<1> QED
  BY <1>1, <1>2, <1>3, <1>5 DEF IInv, TypeOK

LEMMA LoadPacketKeeps ==
  ASSUME IInv, LoadPacket
  PROVE  IInv' /\ \A k \in read' : k < buflen
<1> DEFINE index == IF BPF_MODE(code) = "IND" THEN X ELSE 0
           k     == (index + insn.k) % WordSize
           size  == BPF_SIZE(code)
<1>1. /\ result = Running /\ BPF_CLASS(code) # "RET" /\ size \in {"W", "H", "B"}
  BY DEF LoadPacket, Executes, BPF_CLASS, BPF_SIZE
<1>2. /\ insn.k \in Word /\ index \in Word /\ buflen \in Word
  BY <1>1, CurrentInsn, CallFacts, WordFacts DEF IInv, TypeOK, Instruction
<1>3. CASE Outside(insn.k, index, size)
  <2>1. Return(0)
    BY <1>3 DEF LoadPacket
  <2> QED
    BY <2>1, ReturnKeeps, WordFacts
<1>4. CASE ~Outside(insn.k, index, size)
  <2>1. /\ A' \in Extracted(k, size) /\ X' = X /\ mem' = mem
        /\ Continue(0, k..(k + SizeOf(size) - 1))
    BY <1>4 DEF LoadPacket
  <2>2. A' \in Word
    BY <2>1 DEF Extracted
  <2>3. IInv' /\ read' = k..(k + SizeOf(size) - 1)
    BY <1>1, <2>1, <2>2, NextKeeps DEF IInv, TypeOK
  <2>4. \A j \in k..(k + SizeOf(size) - 1) : j < buflen
    BY <1>1, <1>2, <1>4, InsideFacts
  <2> QED
    BY <2>3, <2>4
<1> QED
  BY <1>3, <1>4

LEMMA LoadHeaderLengthKeeps ==
  ASSUME IInv, LoadHeaderLength
  PROVE  IInv' /\ \A k \in read' : k < buflen
<1>1. result = Running /\ BPF_CLASS(code) # "RET"
  BY DEF LoadHeaderLength, Executes, BPF_CLASS
<1>2. insn.k \in Nat /\ buflen \in Nat
  BY <1>1, CurrentInsn, CallFacts, WordFacts DEF IInv, Instruction, Word
<1>3. CASE insn.k >= buflen
  BY <1>3, ReturnKeeps, WordFacts DEF LoadHeaderLength
<1>4. CASE ~(insn.k >= buflen)
  <2>1. X' \in Word /\ A' = A /\ mem' = mem /\ Continue(0, {insn.k})
    BY <1>4 DEF LoadHeaderLength
  <2>2. IInv' /\ read' = {insn.k}
    BY <1>1, <2>1, NextKeeps DEF IInv, TypeOK
  <2> QED
    BY <1>2, <1>4, <2>2
<1> QED
  BY <1>3, <1>4

LEMMA LoadVlanKeeps ==
  ASSUME IInv, LoadVlan
  PROVE  IInv' /\ read' = {}
<1>1. result = Running /\ BPF_CLASS(code) # "RET"
  BY DEF LoadVlan, Executes, BPF_CLASS
<1>2. CASE call.aux = NoAux
  BY <1>2, ReturnKeeps, WordFacts DEF LoadVlan
<1>3. CASE call.aux # NoAux
  <2>1. call.aux \in [vlan_tag : Word, vlan_tag_present : {0, 1}]
    BY <1>3, CallFacts DEF IInv, Aux
  <2>2. 0 \in Word /\ 1 \in Word
    BY WordFacts DEF Word
  <2>3. call.aux.vlan_tag \in Word /\ call.aux.vlan_tag_present \in Word
    BY <2>1, <2>2
  <2>4. A' \in Word /\ X' = X /\ mem' = mem /\ Continue(0, {})
    BY <1>3, <2>3 DEF LoadVlan
  <2> QED
    BY <1>1, <2>4, NextKeeps DEF IInv, TypeOK
<1> QED
  BY <1>2, <1>3

LEMMA LoadOtherKeeps ==
  ASSUME IInv, LoadOther
  PROVE  IInv' /\ read' = {}
<1>1. /\ result = Running /\ BPF_CLASS(code) \in {"LD", "LDX"}
      /\ BPF_MODE(code) \in {"LEN", "IMM", "MEM"}
  BY DEF LoadOther, Executes, BPF_CLASS, BPF_MODE
<1>2. insn.k \in Word /\ call.wirelen \in Word
  BY <1>1, CurrentInsn, CallFacts DEF IInv, Instruction
<1>3. BPF_MODE(code) = "MEM" => insn.k \in 0..(BPF_MEMWORDS - 1)
  <2>1. BPF_MODE(code) = "MEM" => insn.k < BPF_MEMWORDS
    BY <1>1, CurrentInsn DEF InsnValid, UsesCell, code, insn
  <2> QED
    BY <1>2, <2>1, WordFacts, WordAssumption DEF Word
<1>4. Operand \subseteq Word
  BY <1>1, <1>2, <1>3 DEF Operand, IInv, TypeOK
<1>5. A' \in Word /\ X' \in Word /\ mem' = mem /\ Continue(0, {})
  BY <1>4 DEF LoadOther, IInv, TypeOK
<1>6. BPF_CLASS(code) # "RET"
  BY <1>1
<1> QED
  BY <1>1, <1>5, <1>6, NextKeeps DEF IInv, TypeOK

LEMMA StoreKeeps ==
  ASSUME IInv, Store
  PROVE  IInv' /\ read' = {}
<1>1. result = Running /\ BPF_CLASS(code) \in {"ST", "STX"}
  BY DEF Store, Executes, BPF_CLASS
<1>2. A' = A /\ X' = X /\ Continue(0, {}) /\ BPF_CLASS(code) # "RET"
  BY <1>1 DEF Store
<1>3. mem' \in [0..(BPF_MEMWORDS - 1) -> Word \cup {Undefined}]
  BY DEF Store, IInv, TypeOK
<1> QED
  BY <1>1, <1>2, <1>3, NextKeeps DEF IInv, TypeOK

LEMMA TransferKeeps ==
  ASSUME IInv, Transfer
  PROVE  IInv' /\ read' = {}
<1>1. result = Running /\ BPF_CLASS(code) # "RET"
  BY DEF Transfer, Executes, BPF_CLASS
<1>2. A' \in Word /\ X' \in Word /\ mem' = mem /\ Continue(0, {})
  BY DEF Transfer, IInv, TypeOK
<1> QED
  BY <1>1, <1>2, NextKeeps DEF IInv, TypeOK

LEMMA AluKeeps ==
  ASSUME IInv, Alu
  PROVE  IInv' /\ read' = {}
<1>1. result = Running /\ BPF_CLASS(code) # "RET"
  BY DEF Alu, Executes, BPF_CLASS
<1>2. CASE DividesByZero
  BY <1>2, ReturnKeeps, WordFacts DEF Alu
<1>3. CASE ~DividesByZero
  <2>1. /\ A' \in AluResults(BPF_OP(code), Source)
        /\ X' = X /\ mem' = mem /\ Continue(0, {})
    BY <1>3 DEF Alu
  <2>2. A' \in Word
    BY <2>1 DEF AluResults
  <2> QED
    BY <1>1, <2>1, <2>2, NextKeeps DEF IInv, TypeOK
<1> QED
  BY <1>2, <1>3

LEMMA JumpIfKeeps ==
  ASSUME IInv, JumpIf
  PROVE  IInv' /\ read' = {}
<1>1. result = Running /\ BPF_CLASS(code) = "JMP" /\ BPF_OP(code) \in CondOps
  BY DEF JumpIf, Executes, BPF_CLASS, BPF_OP
<1>2. PICK offset \in {insn.jt, insn.jf} : Continue(offset, {})
  BY DEF JumpIf
<1>3. A' = A /\ X' = X /\ mem' = mem
  BY DEF JumpIf, registers
<1>4. pc + 1 + offset \in 0..(Len(prog) - 1)
  BY <1>1, JumpIfInside
<1> QED
  BY <1>1, <1>2, <1>3, <1>4, ContinueKeeps DEF IInv, TypeOK

LEMMA JumpAlwaysKeeps ==
  ASSUME IInv, JumpAlways
  PROVE  IInv' /\ read' = {}
<1>1. result = Running /\ BPF_CLASS(code) = "JMP" /\ BPF_OP(code) = "JA"
  BY DEF JumpAlways, Executes, BPF_CLASS, BPF_OP
<1>2. A' = A /\ X' = X /\ mem' = mem /\ Continue(bpf_int32(insn.k), {})
  BY DEF JumpAlways, registers
<1>3. pc + 1 + bpf_int32(insn.k) \in 0..(Len(prog) - 1)
  BY <1>1, JumpAlwaysInside
<1> QED
  BY <1>1, <1>2, <1>3, ContinueKeeps DEF IInv, TypeOK

LEMMA RetKeeps ==
  ASSUME IInv, Ret
  PROVE  IInv' /\ read' = {}
<1>1. result = Running
  BY DEF Ret, Executes
<1>2. insn.k \in Word /\ A \in Word
  BY <1>1, CurrentInsn DEF IInv, TypeOK, Instruction
<1> QED
  BY <1>2, ReturnKeeps DEF Ret

-----------------------------------------------------------------------------
LEMMA Inductive == IInv /\ ReadsInside /\ [Next]_vars => IInv' /\ ReadsInside'
<1> SUFFICES ASSUME IInv, ReadsInside, [Next]_vars PROVE IInv' /\ ReadsInside'
  OBVIOUS
<1>1. call' = call /\ buflen' = buflen
  BY DEF Next, vars, Ret, LoadVlan, LoadPacket, LoadHeaderLength, LoadOther, Store, Transfer, Alu,
         JumpIf, JumpAlways, Abort, Return, Continue, buflen
<1>2. CASE UNCHANGED vars
  BY <1>1, <1>2 DEF vars, registers, IInv, TypeOK, CallOK, PcOK, ReadsInside, prog, bpf_validate,
                    InsnValid, KnownCode, UsesCell, DividesByK, JumpsInside, InProgram
<1>3. CASE Abort
  <2>1. IInv' /\ read' = {}
    BY <1>3, ReturnKeeps DEF Abort
  <2> QED
    BY <2>1 DEF ReadsInside
<1>4. CASE LoadPacket \/ LoadHeaderLength
  BY <1>1, <1>4, LoadPacketKeeps, LoadHeaderLengthKeeps DEF ReadsInside
<1>5. CASE Ret \/ LoadVlan \/ LoadOther \/ Store \/ Transfer \/ Alu \/ JumpIf \/ JumpAlways
  <2>1. IInv' /\ read' = {}
    BY <1>5, RetKeeps, LoadVlanKeeps, LoadOtherKeeps, StoreKeeps, TransferKeeps, AluKeeps,
       JumpIfKeeps, JumpAlwaysKeeps
  <2> QED
    BY <2>1 DEF ReadsInside
<1> QED
  BY <1>2, <1>3, <1>4, <1>5 DEF Next

LEMMA Invariant == Spec => [](IInv /\ ReadsInside)
BY Initially, Inductive, PTL DEF Spec

\* Registers and scratch memory hold words, for every width of a byte: no
\* result of the ALU and no value fetched falls out of 32 bits.
THEOREM TypeCorrect == Spec => []TypeOK
BY Invariant, PTL DEF IInv

\* Whatever length and offsets a packet or a program states, only captured
\* bytes are read, although the sum of the offsets is taken modulo 2^32.
THEOREM ReadsInsideHolds == Spec => []ReadsInside
BY Invariant, PTL

\* A validated program stays inside itself and the scratch memory and does
\* not divide by zero, with the backward jumps the userland build allows.
THEOREM StaysInsideHolds == Spec => []StaysInside
<1>1. IInv => StaysInside
  <2> SUFFICES ASSUME IInv, result = Running
               PROVE  /\ pc < Len(prog)
                      /\ UsesCell(insn) => insn.k \in DOMAIN mem
                      /\ code \in {"ALU"} \X {"DIV", "MOD"} \X {"K", "X"} =>
                           Source # 0 \/ DividesByZero
    BY DEF StaysInside
  <2>1. pc < Len(prog)
    BY DEF IInv, PcOK
  <2>2. /\ insn.k \in Word
        /\ UsesCell(insn) => insn.k < BPF_MEMWORDS
        /\ DividesByK(insn) => insn.k # 0
    BY CurrentInsn DEF Instruction, InsnValid, insn
  <2>3. UsesCell(insn) => insn.k \in DOMAIN mem
    BY <2>2, WordFacts, WordAssumption DEF Word, IInv, TypeOK
  <2>4. ASSUME code \in {"ALU"} \X {"DIV", "MOD"} \X {"K", "X"}
        PROVE  Source # 0 \/ DividesByZero
    <3>1. /\ BPF_CLASS(code) = "ALU" /\ BPF_OP(code) \in {"DIV", "MOD"}
          /\ BPF_SRC(code) \in {"K", "X"}
      BY <2>4 DEF BPF_CLASS, BPF_OP, BPF_SRC
    <3>2. CASE BPF_SRC(code) = "K"
      BY <2>2, <3>1, <3>2 DEF DividesByK, Source, code
    <3>3. CASE BPF_SRC(code) = "X"
      BY <3>1, <3>3 DEF DividesByZero, Source
    <3> QED
      BY <3>1, <3>2, <3>3
  <2> QED
    BY <2>1, <2>3, <2>4
<1> QED
  BY <1>1, Invariant, PTL

-----------------------------------------------------------------------------
(***************************************************************************)
(* The receiver's filters. Numbers first: what the shift and the OR make   *)
(* of the two bytes of the radiotap header's length is that length.        *)
(***************************************************************************)
\* Every set of natural numbers that is not empty has a least member.
LEMMA LeastNumber ==
  ASSUME NEW S \in SUBSET Nat, S # {}
  PROVE  \E m \in S : \A n \in S : m <= n
<1>1. PICK m \in S : \A n \in S : ~(<<n, m>> \in OpToRel(<, Nat))
  BY NatLessThanWellFounded, WFMin
<1>2. ASSUME NEW n \in S
      PROVE  m <= n
  <2>1. m \in Nat /\ n \in Nat
    OBVIOUS
  <2>2. ~(n < m)
    BY <1>1, <2>1 DEF OpToRel
  <2>3. QED
    BY <2>1, <2>2
<1>3. QED
  BY <1>2

-----------------------------------------------------------------------------
(***************************************************************************)
(* Powers of two, as the numbers of subsets.                               *)
(***************************************************************************)
LEMMA Subsets ==
  ASSUME NEW n \in Nat
  PROVE  IsFiniteSet(SUBSET (1..n)) /\ Cardinality(SUBSET (1..n)) = 2 ^ n /\ 2 ^ n \in Nat
<1>1. IsFiniteSet(1..n) /\ Cardinality(1..n) = n
  BY FS_Interval
<1>2. IsFiniteSet(SUBSET (1..n)) /\ Cardinality(SUBSET (1..n)) = 2 ^ n
  BY <1>1, FS_SUBSET
<1>3. QED
  BY <1>2, FS_CardinalityType

LEMMA PowerDoubles ==
  ASSUME NEW n \in Nat
  PROVE  2 ^ (n + 1) = 2 * 2 ^ n
<1> DEFINE Old == SUBSET (1..n)
           New == {S \cup {n + 1} : S \in Old}
           more == [S \in Old |-> S \cup {n + 1}]
<1>1. \A S \in Old : n + 1 \notin S
  OBVIOUS
<1>2. more \in Bijection(Old, New)
  <2>1. \A S \in Old : \A T \in Old : more[S] = more[T] => S = T
    BY <1>1
  <2>2. more \in [Old -> New]
    OBVIOUS
  <2>3. \A T \in New : \E S \in Old : more[S] = T
    OBVIOUS
  <2> HIDE DEF more, Old, New
  <2>4. more \in Injection(Old, New)
    BY <2>1, <2>2 DEF Injection, IsInjective
  <2>5. more \in Surjection(Old, New)
    BY <2>2, <2>3, Zenon DEF Surjection
  <2>6. QED
    BY <2>4, <2>5 DEF Bijection
<1>3. IsFiniteSet(Old) /\ Cardinality(Old) = 2 ^ n /\ 2 ^ n \in Nat
  BY Subsets
<1>4. IsFiniteSet(New) /\ Cardinality(New) = 2 ^ n
  BY <1>2, <1>3, FS_Bijection DEF ExistsBijection
<1>5. SUBSET (1..(n + 1)) = Old \cup New
  <2>1. 1..(n + 1) = (1..n) \cup {n + 1}
    OBVIOUS
  <2>2. ASSUME NEW S \in SUBSET (1..(n + 1)), S \notin Old PROVE S \in New
    <3>1. S = (S \cap (1..n)) \cup {n + 1}
      BY <2>1, <2>2
    <3>2. QED
      BY <3>1
  <2>3. \A S \in Old : S \in SUBSET (1..(n + 1))
    BY <2>1
  <2>4. \A S \in New : S \in SUBSET (1..(n + 1))
    BY <2>1
  <2> HIDE DEF Old, New
  <2>5. QED
    BY <2>2, <2>3, <2>4, Zenon
<1>6. Old \cap New = {}
  BY <1>1
<1>7. Cardinality(Old \cup New) = 2 ^ n + 2 ^ n
  <2>1. Cardinality(Old \cup New) = Cardinality(Old) + Cardinality(New) - Cardinality(Old \cap New)
    BY <1>3, <1>4, FS_Union
  <2>2. Cardinality(Old \cap New) = 0
    BY <1>6, FS_EmptySet
  <2>3. QED
    BY <1>3, <1>4, <2>1, <2>2
<1>8. n + 1 \in Nat
  OBVIOUS
<1>9. Cardinality(SUBSET (1..(n + 1))) = 2 ^ (n + 1)
  BY <1>8, Subsets
<1>10. 2 ^ (n + 1) = 2 ^ n + 2 ^ n
  BY <1>5, <1>7, <1>9
<1>11. QED
  BY <1>3, <1>10

LEMMA PowerOfZero == 2 ^ 0 = 1
OBVIOUS

LEMMA PowerPositive ==
  ASSUME NEW n \in Nat
  PROVE  2 ^ n \in Nat /\ 2 ^ n > 0
<1>1. 2 ^ n \in Nat /\ 2 ^ n = Cardinality(SUBSET (1..n)) /\ IsFiniteSet(SUBSET (1..n))
  BY Subsets
<1>2. 2 ^ n # 0
  BY <1>1, FS_EmptySet
<1>3. QED
  BY <1>1, <1>2

LEMMA PowerOfSum ==
  ASSUME NEW m \in Nat, NEW n \in Nat
  PROVE  2 ^ (m + n) = 2 ^ m * 2 ^ n
<1> DEFINE Odd == {k \in Nat : 2 ^ (m + k) # 2 ^ m * 2 ^ k}
<1>1. SUFFICES ASSUME Odd # {} PROVE FALSE
  OBVIOUS
<1>2. PICK k \in Odd : \A j \in Odd : k <= j
  BY <1>1, LeastNumber
<1>3. k # 0
  <2>1. 2 ^ (m + 0) = 2 ^ m * 1
    BY PowerPositive
  <2>2. QED
    BY <2>1, PowerOfZero
<1> DEFINE j == k - 1
<1>4. j \in Nat /\ k = j + 1 /\ m + j \in Nat /\ m + k = (m + j) + 1
  BY <1>3
<1>5. 2 ^ (m + j) = 2 ^ m * 2 ^ j
  BY <1>2, <1>4
<1>6. 2 ^ (m + k) = 2 * (2 ^ m * 2 ^ j) /\ 2 ^ k = 2 * 2 ^ j
  BY <1>4, <1>5, PowerDoubles
<1>7. \A x, y \in Nat : 2 * (x * y) = x * (2 * y)
  OBVIOUS
<1>8. 2 ^ m \in Nat /\ 2 ^ j \in Nat
  BY <1>4, PowerPositive
<1>9. 2 ^ (m + k) = 2 ^ m * 2 ^ k
  BY <1>6, <1>7, <1>8
<1>10. QED
  BY <1>2, <1>9
-----------------------------------------------------------------------------
(***************************************************************************)
(* Bits.                                                                   *)
(***************************************************************************)
LEMMA Quotient ==
  ASSUME NEW v \in Nat, NEW p \in Nat, p > 0
  PROVE  /\ v \div p \in Nat /\ (v \div p) * p <= v /\ v < (v \div p) * p + p
         /\ \A q \in Nat : q * p <= v /\ v < q * p + p => q = v \div p
OBVIOUS

\* Halving twice.
LEMMA HalfOfQuotient ==
  ASSUME NEW v \in Nat, NEW p \in Nat, p > 0
  PROVE  v \div p = 2 * (v \div (2 * p)) + ((v \div p) % 2)
<1> DEFINE q == v \div p
           r == q \div 2
           b == q % 2
<1>1. q \in Nat /\ q * p <= v /\ v < q * p + p
  BY Quotient
<1> HIDE DEF q
<1>2. q = 2 * r + b /\ r \in Nat /\ b \in {0, 1}
  BY <1>1
<1> HIDE DEF r, b
<1>3. q * p = r * (2 * p) + b * p
  BY <1>2
<1>4. r * (2 * p) <= v /\ v < r * (2 * p) + 2 * p
  <2>1. r * (2 * p) \in Nat
    BY <1>2
  <2>2. CASE b = 0
    <3>1. b * p = 0
      BY <2>2
    <3>2. QED
      BY <1>1, <1>3, <2>1, <3>1
  <2>3. CASE b = 1
    <3>1. b * p = p
      BY <2>3
    <3>2. QED
      BY <1>1, <1>3, <2>1, <3>1
  <2>4. QED
    BY <1>2, <2>2, <2>3
<1>5. 2 * p \in Nat /\ 2 * p > 0
  OBVIOUS
<1>6. r = v \div (2 * p)
  BY <1>2, <1>4, <1>5, Quotient
<1>7. q = 2 * (v \div (2 * p)) + b
  BY <1>2, <1>6
<1>8. QED
  BY <1>7 DEF q, b

LEMMA QuotientByMore ==
  ASSUME NEW v \in Nat, NEW i \in Nat
  PROVE  /\ v \div (2 ^ i) \in Nat
         /\ v \div (2 ^ i) = 2 * (v \div (2 ^ (i + 1))) + Bit(v, i)
         /\ Bit(v, i) \in {0, 1}
         /\ v < 2 ^ i => v \div (2 ^ i) = 0
<1>1. 2 ^ i \in Nat /\ 2 ^ i > 0 /\ 2 ^ (i + 1) = 2 * 2 ^ i
  BY PowerPositive, PowerDoubles
<1>2. v \div (2 ^ i) = 2 * (v \div (2 * 2 ^ i)) + ((v \div (2 ^ i)) % 2)
  BY <1>1, HalfOfQuotient
<1>3. v \div (2 ^ i) \in Nat
  BY <1>1, Quotient
<1>4. v < 2 ^ i => v \div (2 ^ i) = 0
  BY <1>1, Quotient
<1>5. Bit(v, i) = (v \div (2 ^ i)) % 2 /\ Bit(v, i) \in {0, 1}
  BY <1>3 DEF Bit
<1>6. QED
  BY <1>1, <1>2, <1>3, <1>4, <1>5

\* Numbers below 2^n with the same n lowest bits are the same.
LEMMA SameBits ==
  ASSUME NEW n \in Nat, NEW v \in Nat, NEW w \in Nat, v < 2 ^ n, w < 2 ^ n,
         \A i \in 0..(n - 1) : Bit(v, i) = Bit(w, i)
  PROVE  v = w
<1> DEFINE Same == {i \in 0..n : v \div (2 ^ i) = w \div (2 ^ i)}
<1>1. v \div (2 ^ n) = 0 /\ w \div (2 ^ n) = 0
  BY QuotientByMore
<1>2. PICK m \in Same : \A i \in Same : m <= i
  <2>1. n \in Same
    BY <1>1
  <2>2. Same \subseteq 0..n /\ 0..n \subseteq Nat
    OBVIOUS
  <2> HIDE DEF Same
  <2>3. QED
    BY <2>1, <2>2, LeastNumber
<1>3. CASE m = 0
  <2>1. v \div 1 = w \div 1
    BY <1>2, <1>3, PowerOfZero
  <2>2. QED
    BY <2>1
<1>4. CASE m # 0
  <2> DEFINE i == m - 1
  <2>1. i \in 0..(n - 1) /\ i \in Nat /\ i + 1 = m /\ i \notin Same
    BY <1>2, <1>4
  <2>2. v \div (2 ^ m) = w \div (2 ^ m)
    BY <1>2
  <2>3. /\ v \div (2 ^ i) = 2 * (v \div (2 ^ m)) + Bit(v, i)
        /\ w \div (2 ^ i) = 2 * (w \div (2 ^ m)) + Bit(w, i)
    BY <2>1, QuotientByMore
  <2>4. v \div (2 ^ i) = w \div (2 ^ i)
    BY <2>1, <2>2, <2>3
  <2>5. QED
    BY <2>1, <2>4
<1>5. QED
  BY <1>3, <1>4

\* A bit of lo and 2^n hi, where lo is below 2^n.
LEMMA BitOfSum ==
  ASSUME NEW n \in Nat, NEW lo \in Nat, NEW hi \in Nat, lo < 2 ^ n, NEW i \in Nat
  PROVE  Bit(lo + 2 ^ n * hi, i) = Bit(lo, i) + Bit(2 ^ n * hi, i)
<1>1. /\ 2 ^ n \in Nat /\ 2 ^ n > 0 /\ 2 ^ i \in Nat /\ 2 ^ i > 0
  BY PowerPositive
<1> DEFINE p == 2 ^ i
           q == 2 ^ n
<1>2. CASE i < n
  <2> DEFINE c == 2 ^ (n - (i + 1))
             t == 2 * (c * hi)
  <2>1. c \in Nat
    BY <1>2, PowerPositive
  <2>2. q = (2 * p) * c
    <3>1. i + 1 \in Nat /\ n - (i + 1) \in Nat /\ (i + 1) + (n - (i + 1)) = n
      BY <1>2
    <3>2. 2 ^ n = 2 ^ (i + 1) * 2 ^ (n - (i + 1))
      BY <3>1, PowerOfSum
    <3>3. QED
      BY <3>2, PowerDoubles
  <2> HIDE DEF p, q, c
  <2>3. p \in Nat /\ p > 0 /\ q \in Nat
    BY <1>1 DEF p, q
  <2>4. q * hi = t * p /\ t \in Nat /\ q * hi \in Nat
    <3>1. \A a, b, d \in Nat : ((2 * a) * b) * d = (2 * (b * d)) * a
      OBVIOUS
    <3>2. c * hi \in Nat /\ q * hi = (2 * (c * hi)) * p
      BY <2>1, <2>2, <2>3, <3>1
    <3>3. QED
      BY <2>3, <3>2
  <2>5. (q * hi) \div p = t
    <3>1. t * p <= q * hi /\ q * hi < t * p + p
      BY <2>3, <2>4
    <3> HIDE DEF t
    <3>2. QED
      BY <2>3, <2>4, <3>1, Quotient
  <2>6. (lo + q * hi) \div p = (lo \div p) + t
    <3> DEFINE s == lo \div p
    <3>1. s \in Nat /\ s * p <= lo /\ lo < s * p + p
      BY <2>3, Quotient
    <3> HIDE DEF s, t
    <3>2. (s + t) * p = s * p + t * p /\ s * p \in Nat /\ t * p \in Nat /\ s + t \in Nat
      BY <2>3, <2>4, <3>1
    <3>3. (s + t) * p <= lo + q * hi /\ lo + q * hi < (s + t) * p + p
      BY <2>3, <2>4, <3>1, <3>2
    <3>4. lo + q * hi \in Nat
      BY <2>4
    <3>5. QED
      BY <2>3, <3>2, <3>3, <3>4, Quotient DEF s
  <2>7. lo \div p \in Nat /\ c * hi \in Nat
    BY <2>1, <2>3, Quotient
  <2>8. ((lo \div p) + t) % 2 = (lo \div p) % 2 /\ t % 2 = 0 /\ (lo \div p) % 2 \in Nat
    BY <2>7
  <2> HIDE DEF t
  <2>9. ((lo + q * hi) \div p) % 2 = ((lo \div p) % 2) + (((q * hi) \div p) % 2)
    BY <2>5, <2>6, <2>8
  <2>10. QED
    BY <2>9 DEF Bit, p, q
<1>3. CASE i >= n
  <2> DEFINE d == 2 ^ (i - n)
  <2>1. d \in Nat /\ d > 0
    BY <1>3, PowerPositive
  <2>2. p = q * d
    <3>1. i - n \in Nat /\ n + (i - n) = i
      BY <1>3
    <3>2. QED
      BY <3>1, PowerOfSum
  <2> HIDE DEF p, q, d
  <2>3. p \in Nat /\ p > 0 /\ q \in Nat /\ q > 0 /\ lo < q
    BY <1>1 DEF p, q
  <2> DEFINE h == hi \div d
  <2>4. h \in Nat /\ h * d <= hi /\ hi < h * d + d
    BY <2>1, Quotient
  <2> HIDE DEF h
  <2>5. h * p = q * (h * d) /\ h * d \in Nat /\ q * hi \in Nat
    BY <2>1, <2>2, <2>3, <2>4
  <2>6. q * (h * d) <= q * hi
    BY <2>3, <2>4, <2>5
  <2>7. q * (hi + 1) <= q * (h * d + d)
    BY <2>1, <2>3, <2>4, <2>5
  <2>8. q * (hi + 1) = q * hi + q /\ q * (h * d + d) = q * (h * d) + q * d
    BY <2>1, <2>3, <2>4, <2>5
  <2>9. h * p <= q * hi /\ q * hi + q <= h * p + p
    BY <2>2, <2>5, <2>6, <2>7, <2>8
  <2>10. (q * hi) \div p = h
    BY <2>3, <2>4, <2>5, <2>9, Quotient
  <2>11. (lo + q * hi) \div p = h
    <3>1. h * p \in Nat /\ lo + q * hi \in Nat
      BY <2>3, <2>4, <2>5
    <3>2. h * p <= lo + q * hi /\ lo + q * hi < h * p + p
      BY <2>3, <2>5, <2>9, <3>1
    <3>3. QED
      BY <2>3, <2>4, <3>1, <3>2, Quotient
  <2>12. lo \div p = 0
    <3>1. q <= p
      BY <2>1, <2>2, <2>3
    <3>2. lo < p
      BY <2>3, <3>1
    <3>3. QED
      BY <2>3, <3>2, Quotient
  <2>13. h % 2 \in Nat
    BY <2>4
  <2>14. ((lo + q * hi) \div p) % 2 = ((lo \div p) % 2) + (((q * hi) \div p) % 2)
    BY <2>10, <2>11, <2>12, <2>13
  <2>15. QED
    BY <2>14 DEF Bit, p, q
<1>4. QED
  BY <1>2, <1>3

LEMMA PowersGrow ==
  ASSUME NEW m \in Nat, NEW n \in Nat, m < n
  PROVE  2 ^ m < 2 ^ n
<1> DEFINE p == 2 ^ m
           c == 2 ^ (n - (m + 1))
<1>1. n - (m + 1) \in Nat /\ m + 1 \in Nat /\ (m + 1) + (n - (m + 1)) = n
  OBVIOUS
<1>2. 2 ^ n = (2 * p) * c
  BY <1>1, PowerOfSum, PowerDoubles
<1>3. p \in Nat /\ p > 0 /\ c \in Nat /\ c > 0
  BY <1>1, PowerPositive
<1> HIDE DEF p, c
<1>4. (2 * p) * c >= 2 * p
  BY <1>3
<1>5. p < 2 ^ n
  BY <1>2, <1>3, <1>4
<1>6. QED
  BY <1>5 DEF p

\* Words that agree in every bit are the same.
LEMMA SameWord ==
  ASSUME NEW v \in Word, NEW w \in Word, \A i \in BitNos : Bit(v, i) = Bit(w, i)
  PROVE  v = w
<1>1. PICK n \in 1..ByteSize : ByteSize = 2 ^ n
  BY WordAssumption
<1> DEFINE m == n + n + n + n
<1>2. n \in Nat /\ n + n \in Nat /\ n + n + n \in Nat /\ m \in Nat /\ m <= 4 * ByteSize
  BY <1>1, WordFacts
<1>3. WordSize = 2 ^ m
  <2>1. 2 ^ (n + n) = ByteSize * ByteSize
    BY <1>1, <1>2, PowerOfSum
  <2>2. 2 ^ (n + n + n) = ByteSize * ByteSize * ByteSize
    BY <1>1, <1>2, <2>1, PowerOfSum
  <2>3. QED
    BY <1>1, <1>2, <2>2, PowerOfSum DEF WordSize
<1> HIDE DEF m
<1>4. v \in Nat /\ w \in Nat /\ v < 2 ^ m /\ w < 2 ^ m
  BY <1>3, WordFacts DEF Word
<1>5. ASSUME NEW i \in 0..(m - 1) PROVE i \in BitNos
  <2>1. i \in Nat /\ i < m /\ i \in 0..(4 * ByteSize)
    BY <1>2, WordFacts
  <2>2. 2 ^ i < WordSize
    BY <1>2, <1>3, <2>1, PowersGrow
  <2>3. QED
    BY <2>1, <2>2 DEF BitNos
<1>6. \A i \in 0..(m - 1) : Bit(v, i) = Bit(w, i)
  BY <1>5
<1>7. QED
  BY <1>2, <1>4, <1>6, SameBits

\* Two bytes make a number that is a word, and digits are read back from it.
LEMMA TwoBytes ==
  ASSUME NEW lo \in Byte, NEW hi \in Byte
  PROVE  /\ lo \in Nat /\ lo < ByteSize /\ ByteSize * hi \in Word
         /\ lo + ByteSize * hi \in Word /\ hi * ByteSize = ByteSize * hi
         /\ lo + ByteSize * hi < ByteSize * ByteSize
<1> DEFINE B == ByteSize
<1>1. B \in Nat /\ B > 1
  BY WordAssumption
<1> HIDE DEF B
<1>2. lo \in Nat /\ lo <= B - 1 /\ hi \in Nat /\ hi <= B - 1
  BY <1>1 DEF Byte, B
<1>3. B * hi \in Nat /\ B * hi <= B * (B - 1) /\ hi * B = B * hi
  BY <1>1, <1>2
<1>4. B * (B - 1) = B * B - B /\ B * B \in Nat /\ B * B >= 1
  BY <1>1
<1>5. lo + B * hi \in Nat /\ lo + B * hi < B * B
  BY <1>1, <1>2, <1>3, <1>4
<1>6. (B * B) * (B * B) >= B * B
  BY <1>4
<1>7. (B * B) * (B * B) = B * B * B * B
  BY <1>1
<1>8. B * B <= WordSize
  BY <1>6, <1>7 DEF WordSize, B
<1>9. QED
  BY <1>2, <1>3, <1>5, <1>8, WordFacts DEF Word, B

\* Two bytes that are OR-ed where they do not overlap are added.
LEMMA OrIsSum ==
  ASSUME NEW lo \in Byte, NEW hi \in Byte, NEW w \in Word,
         \A i \in BitNos : (Bit(w, i) = 0) <=> (Bit(lo, i) + Bit(ByteSize * hi, i) = 0)
  PROVE  w = lo + ByteSize * hi
<1> DEFINE s == lo + ByteSize * hi
<1>1. PICK n \in 1..ByteSize : ByteSize = 2 ^ n
  BY WordAssumption
<1>2. n \in Nat
  BY <1>1, WordFacts
<1>3. lo \in Nat /\ lo < 2 ^ n /\ hi \in Nat /\ s \in Word /\ s \in Nat /\ w \in Nat
  <2>1. lo \in Nat /\ lo < ByteSize /\ s \in Word
    BY TwoBytes
  <2>2. hi \in Nat
    BY WordFacts DEF Byte
  <2>3. Word \subseteq Nat
    BY WordFacts DEF Word
  <2>4. QED
    BY <1>1, <2>1, <2>2, <2>3
<1>4. ASSUME NEW i \in BitNos PROVE Bit(w, i) = Bit(s, i)
  <2>1. i \in Nat
    BY WordFacts DEF BitNos
  <2>2. Bit(s, i) = Bit(lo, i) + Bit(ByteSize * hi, i)
    BY <1>1, <1>2, <1>3, <2>1, BitOfSum
  <2>3. Bit(s, i) \in {0, 1} /\ Bit(w, i) \in {0, 1}
    BY <1>3, <2>1, QuotientByMore
  <2>4. QED
    BY <2>2, <2>3
<1>5. QED
  BY <1>3, <1>4, SameWord
-----------------------------------------------------------------------------
(***************************************************************************)
(* What a step of the machine is, given the code it is at.                 *)
(***************************************************************************)
LEMMA StepOfCode ==
  ASSUME result = Running, Next
  PROVE  /\ \A size \in {"W", "H", "B"}, mode \in {"ABS", "IND"} :
              code = <<"LD", size, mode>> => LoadPacket \/ (LoadVlan /\ insn.k \in Ancillary)
         /\ code \in {<<"LD", "W", "ABS">>, <<"LD", "H", "ABS">>, <<"LD", "W", "IND">>,
                      <<"LD", "H", "IND">>} => LoadPacket
         /\ code = <<"LDX", "W", "MEM">> => LoadOther
         /\ code = <<"ST", "W", "IMM">> => Store
         /\ code = <<"MISC", "TAX", "-">> => Transfer
         /\ code \in {<<"ALU", "LSH", "K">>, <<"ALU", "OR", "X">>} => Alu
         /\ code = <<"JMP", "JEQ", "K">> => JumpIf
         /\ code = <<"RET", "-", "K">> => Ret
<1> USE DEF Executes
<1>1. LoadPacket => code \in {"LD"} \X {"W", "H", "B"} \X {"ABS", "IND"}
  BY DEF LoadPacket
<1>2. LoadVlan => code = <<"LD", "B", "ABS">> /\ insn.k \in Ancillary
  BY DEF LoadVlan
<1>3. LoadHeaderLength => code = <<"LDX", "B", "MSH">>
  BY DEF LoadHeaderLength
<1>4. LoadOther => code \in {"LD", "LDX"} \X {"W"} \X {"LEN", "IMM", "MEM"}
  BY DEF LoadOther
<1>5. Store => code \in {"ST", "STX"} \X {"W"} \X {"IMM"}
  BY DEF Store
<1>6. Transfer => code \in {<<"MISC", "TAX", "-">>, <<"MISC", "TXA", "-">>}
  BY DEF Transfer
<1>7. Alu => code \in {"ALU"} \X (AluOps \cup {"NEG"}) \X {"K", "X"}
  BY DEF Alu
<1>8. JumpIf => code \in {"JMP"} \X CondOps \X {"K", "X"}
  BY DEF JumpIf
<1>9. JumpAlways => code = <<"JMP", "JA", "K">>
  BY DEF JumpAlways
<1>10. Ret => code \in {<<"RET", "-", "K">>, <<"RET", "-", "A">>}
  BY DEF Ret
<1>11. Abort => code \notin Implemented
  BY DEF Abort
<1>12. ASSUME NEW size \in {"W", "H", "B"}, NEW mode \in {"ABS", "IND"}, code = <<"LD", size, mode>>
       PROVE  LoadPacket \/ (LoadVlan /\ insn.k \in Ancillary)
  <2>1. code \in Implemented
    BY <1>12 DEF Implemented
  <2>2. QED
    BY <1>2, <1>3, <1>4, <1>5, <1>6, <1>7, <1>8, <1>9, <1>10, <1>11, <1>12, <2>1 DEF Next, CondOps
<1>13. ASSUME code \in {<<"LD", "W", "ABS">>, <<"LD", "H", "ABS">>, <<"LD", "W", "IND">>, <<"LD", "H", "IND">>}
       PROVE  LoadPacket
  <2>1. LoadPacket \/ LoadVlan
    BY <1>12, <1>13
  <2>2. QED
    BY <1>2, <1>13, <2>1
<1>14. ASSUME code = <<"LDX", "W", "MEM">> PROVE LoadOther
  <2>1. code \in Implemented
    BY <1>14 DEF Implemented
  <2>2. QED
    BY <1>1, <1>2, <1>3, <1>5, <1>6, <1>7, <1>8, <1>9, <1>10, <1>11, <1>14, <2>1 DEF Next
<1>15. ASSUME code = <<"ST", "W", "IMM">> PROVE Store
  <2>1. code \in Implemented
    BY <1>15 DEF Implemented
  <2>2. QED
    BY <1>1, <1>2, <1>3, <1>4, <1>6, <1>7, <1>8, <1>9, <1>10, <1>11, <1>15, <2>1 DEF Next
<1>16. ASSUME code = <<"MISC", "TAX", "-">> PROVE Transfer
  <2>1. code \in Implemented
    BY <1>16 DEF Implemented
  <2>2. QED
    BY <1>1, <1>2, <1>3, <1>4, <1>5, <1>7, <1>8, <1>9, <1>10, <1>11, <1>16, <2>1 DEF Next
<1>17. ASSUME code \in {<<"ALU", "LSH", "K">>, <<"ALU", "OR", "X">>} PROVE Alu
  <2>1. code \in Implemented
    BY <1>17 DEF Implemented, AluOps
  <2>2. QED
    BY <1>1, <1>2, <1>3, <1>4, <1>5, <1>6, <1>8, <1>9, <1>10, <1>11, <1>17, <2>1 DEF Next
<1>18. ASSUME code = <<"JMP", "JEQ", "K">> PROVE JumpIf
  <2>1. code \in Implemented
    BY <1>18 DEF Implemented, CondOps
  <2>2. QED
    BY <1>1, <1>2, <1>3, <1>4, <1>5, <1>6, <1>7, <1>9, <1>10, <1>11, <1>18, <2>1 DEF Next
<1>19. ASSUME code = <<"RET", "-", "K">> PROVE Ret
  <2>1. code \in Implemented
    BY <1>19 DEF Implemented
  <2>2. QED
    BY <1>1, <1>2, <1>3, <1>4, <1>5, <1>6, <1>7, <1>8, <1>9, <1>11, <1>19, <2>1 DEF Next
<1>20. QED
  BY <1>12, <1>13, <1>14, <1>15, <1>16, <1>17, <1>18, <1>19

\* A register machine that goes on to the next instruction, or to the one
\* behind it.
GoesOn(offset) == pc' = pc + 1 + offset /\ result' = Running /\ call' = call

Rejects == result' = 0 /\ call' = call

\* What a load finds at an offset.
Fetched(start, size) ==
  CASE size = "W" -> EXTRACT_LONG(call.data, start)
    [] size = "H" -> EXTRACT_SHORT(call.data, start)
    [] OTHER      -> call.data[start + 1]

\* A load from the packet rejects the packet exactly if it is too short.
LEMMA LoadEffect ==
  ASSUME IInv, result = Running, Next,
         NEW size \in {"W", "H", "B"}, NEW mode \in {"ABS", "IND"}, code = <<"LD", size, mode>>,
         code = <<"LD", "B", "ABS">> => insn.k \notin Ancillary
  PROVE  LET start == (IF mode = "IND" THEN X ELSE 0) + insn.k
         IN  /\ start + SizeOf(size) <= buflen =>
                  A' = Fetched(start, size) /\ X' = X /\ mem' = mem /\ GoesOn(0)
             /\ start + SizeOf(size) > buflen => Rejects
<1> DEFINE index == IF mode = "IND" THEN X ELSE 0
           start == index + insn.k
           k     == (index + insn.k) % WordSize
<1>1. LoadPacket
  <2>1. LoadPacket \/ (LoadVlan /\ insn.k \in Ancillary)
    BY StepOfCode
  <2>2. LoadVlan => code = <<"LD", "B", "ABS">>
    BY DEF LoadVlan, Executes
  <2>3. QED
    BY <2>1, <2>2
<1>2. BPF_SIZE(code) = size /\ BPF_MODE(code) = mode
  BY DEF BPF_SIZE, BPF_MODE
<1>3. /\ insn.k \in Nat /\ index \in Nat /\ buflen \in Nat /\ buflen < WordSize /\ WordSize \in Nat
      /\ SizeOf(size) \in {1, 2, 4}
  <2>1. insn \in Instruction /\ buflen \in Word /\ X \in Word
    BY CurrentInsn, CallFacts DEF IInv, TypeOK
  <2>2. WordSize \in Nat
    BY WordFacts
  <2>3. insn.k \in Nat /\ index \in Nat
    BY <2>1, <2>2 DEF Instruction, Word
  <2>4. buflen \in Nat /\ buflen < WordSize
    BY <2>1, <2>2 DEF Word
  <2>5. SizeOf(size) \in {1, 2, 4}
    BY DEF SizeOf
  <2>6. QED
    BY <2>2, <2>3, <2>4, <2>5
<1>4. /\ Outside(insn.k, index, size) => Return(0)
      /\ ~Outside(insn.k, index, size) =>
           A' \in Extracted(k, size) /\ X' = X /\ mem' = mem /\ GoesOn(0)
  BY <1>1, <1>2 DEF LoadPacket, Continue, NextInsn, GoesOn
<1>5. Return(0) => Rejects
  BY DEF Return, Rejects
<1>6. CASE start + SizeOf(size) > buflen
  <2>1. Outside(insn.k, index, size)
    <3>1. CASE start > buflen
      BY <1>3, <3>1 DEF Outside
    <3>2. CASE start <= buflen
      <4>1. start \in Nat /\ start < WordSize /\ WordSize > 0 /\ insn.k + index = start
        BY <1>3, <3>2
      <4>2. (insn.k + index) % WordSize = start
        BY <1>3, <4>1, Remainder
      <4>3. SizeOf(size) > buflen - start
        BY <1>3, <1>6
      <4>4. QED
        BY <4>2, <4>3 DEF Outside
    <3>3. QED
      BY <1>3, <3>1, <3>2
  <2>2. QED
    BY <1>3, <1>4, <1>5, <1>6, <2>1
<1>7. CASE start + SizeOf(size) <= buflen
  <2>1. start \in Nat /\ start < WordSize /\ WordSize > 0 /\ insn.k + index = start
    BY <1>3, <1>7
  <2>2. k = start /\ (insn.k + index) % WordSize = start
    BY <1>3, <2>1, Remainder
  <2>3. ~Outside(insn.k, index, size)
    BY <1>3, <1>7, <2>1, <2>2 DEF Outside
  <2>4. A' \in Extracted(start, size) /\ X' = X /\ mem' = mem /\ GoesOn(0)
    BY <1>4, <2>2, <2>3
  <2>5. A' = Fetched(start, size)
    BY <1>7, <2>4 DEF Extracted, Fetched
  <2>6. QED
    BY <1>3, <1>7, <2>4, <2>5
<1>8. QED
  BY <1>3, <1>6, <1>7

LEMMA JumpEffect ==
  ASSUME result = Running, Next, code = <<"JMP", "JEQ", "K">>
  PROVE  /\ A' = A /\ X' = X /\ mem' = mem
         /\ GoesOn(IF A = insn.k THEN insn.jt ELSE insn.jf)
<1>1. JumpIf
  BY StepOfCode
<1>2. BPF_OP(code) = "JEQ" /\ Source = insn.k
  BY DEF BPF_OP, BPF_SRC, Source
<1>3. Holds(BPF_OP(code)) <=> A = insn.k
  BY <1>2 DEF Holds
<1>4. QED
  BY <1>1, <1>3 DEF JumpIf, Continue, NextInsn, GoesOn, registers

LEMMA RetEffect ==
  ASSUME result = Running, Next, code = <<"RET", "-", "K">>
  PROVE  result' = insn.k /\ call' = call
<1>1. Ret
  BY StepOfCode
<1>2. QED
  BY <1>1 DEF Ret, Return, BPF_SRC

LEMMA AluEffect ==
  ASSUME result = Running, Next
  PROVE  /\ code = <<"ALU", "LSH", "K">> /\ insn.k \in BitNos =>
              A' = (A * (2 ^ insn.k)) % WordSize /\ X' = X /\ mem' = mem /\ GoesOn(0)
         /\ code = <<"ALU", "OR", "X">> =>
              /\ A' \in Word
              /\ \A i \in BitNos : (Bit(A', i) = 0) <=> (Bit(A, i) + Bit(X, i) = 0)
              /\ X' = X /\ mem' = mem /\ GoesOn(0)
<1>1. ASSUME code \in {<<"ALU", "LSH", "K">>, <<"ALU", "OR", "X">>}
      PROVE  A' \in AluResults(BPF_OP(code), Source) /\ X' = X /\ mem' = mem /\ GoesOn(0)
  <2>1. Alu /\ ~DividesByZero
    BY <1>1, StepOfCode DEF DividesByZero, BPF_OP
  <2>2. QED
    BY <2>1 DEF Alu, Continue, NextInsn, GoesOn
<1>2. ASSUME code = <<"ALU", "LSH", "K">>, insn.k \in BitNos
      PROVE  A' = (A * (2 ^ insn.k)) % WordSize
  <2>1. BPF_OP(code) = "LSH" /\ Source = insn.k
    BY <1>2 DEF BPF_OP, BPF_SRC, Source
  <2>2. QED
    BY <1>1, <1>2, <2>1 DEF AluResults
<1>3. ASSUME code = <<"ALU", "OR", "X">>
      PROVE  A' \in Word /\ \A i \in BitNos : (Bit(A', i) = 0) <=> (Bit(A, i) + Bit(X, i) = 0)
  <2>1. BPF_OP(code) = "OR" /\ Source = X
    BY <1>3 DEF BPF_OP, BPF_SRC, Source
  <2>2. QED
    BY <1>1, <1>3, <2>1 DEF AluResults
<1>4. QED
  BY <1>1, <1>2, <1>3

LEMMA MoveEffect ==
  ASSUME result = Running, Next
  PROVE  /\ code = <<"MISC", "TAX", "-">> => X' = A /\ A' = A /\ mem' = mem /\ GoesOn(0)
         /\ code = <<"ST", "W", "IMM">> =>
              mem' = [mem EXCEPT ![insn.k] = A] /\ A' = A /\ X' = X /\ GoesOn(0)
         /\ code = <<"LDX", "W", "MEM">> /\ mem[insn.k] # Undefined =>
              X' = mem[insn.k] /\ A' = A /\ mem' = mem /\ GoesOn(0)
<1> USE DEF Continue, NextInsn, GoesOn, BPF_CLASS, BPF_OP, BPF_MODE
<1>1. code = <<"MISC", "TAX", "-">> => X' = A /\ A' = A /\ mem' = mem /\ GoesOn(0)
  BY StepOfCode DEF Transfer
<1>2. code = <<"ST", "W", "IMM">> =>
        mem' = [mem EXCEPT ![insn.k] = A] /\ A' = A /\ X' = X /\ GoesOn(0)
  BY StepOfCode DEF Store
<1>3. code = <<"LDX", "W", "MEM">> /\ mem[insn.k] # Undefined =>
        X' = mem[insn.k] /\ A' = A /\ mem' = mem /\ GoesOn(0)
  BY StepOfCode DEF LoadOther, Operand
<1>4. QED
  BY <1>1, <1>2, <1>3
-----------------------------------------------------------------------------
(***************************************************************************)
(* What the filters compare, and that it is FromTransmitter.               *)
(***************************************************************************)
Addressed(at) == at + 14 <= buflen /\ EXTRACT_LONG(call.data, at + 10) = AddressWord
Ported(at)    == at + 16 <= buflen /\ EXTRACT_SHORT(call.data, at + 14) = PortHalf

RadiotapLength == call.data[3] + ByteSize * call.data[4]

LEMMA Digits ==
  ASSUME NEW a \in Nat, NEW c \in Nat, NEW b \in Byte, NEW d \in Byte,
         ByteSize * a + b = ByteSize * c + d
  PROVE  a = c /\ b = d
<1> DEFINE B == ByteSize
<1>1. B \in Nat /\ B > 1
  BY WordAssumption
<1> HIDE DEF B
<1>2. b \in Nat /\ b < B /\ d \in Nat /\ d < B /\ B * a + b = B * c + d
  BY <1>1 DEF Byte, B
<1>3. B * a \in Nat /\ B * c \in Nat
  BY <1>1
<1>4. ~(a < c)
  <2>1. SUFFICES ASSUME a < c PROVE FALSE
    OBVIOUS
  <2>2. B * (a + 1) <= B * c
    BY <1>1, <2>1
  <2>3. B * (a + 1) = B * a + B
    BY <1>1
  <2>4. QED
    BY <1>1, <1>2, <1>3, <2>2, <2>3
<1>5. ~(c < a)
  <2>1. SUFFICES ASSUME c < a PROVE FALSE
    OBVIOUS
  <2>2. B * (c + 1) <= B * a
    BY <1>1, <2>1
  <2>3. B * (c + 1) = B * c + B
    BY <1>1
  <2>4. QED
    BY <1>1, <1>2, <1>3, <2>2, <2>3
<1>6. a = c
  BY <1>4, <1>5
<1>7. QED
  BY <1>2, <1>3, <1>6

LEMMA ShortIs ==
  ASSUME NEW p1 \in Byte, NEW p2 \in Byte, NEW q1 \in Byte, NEW q2 \in Byte
  PROVE  p1 * ByteSize + p2 = ByteSize * q1 + q2 <=> p1 = q1 /\ p2 = q2
<1>1. p1 \in Nat /\ p2 \in Nat /\ q1 \in Nat /\ q2 \in Nat /\ ByteSize \in Nat
  BY WordFacts DEF Byte
<1>2. p1 * ByteSize = ByteSize * p1
  BY <1>1
<1>3. ASSUME ByteSize * p1 + p2 = ByteSize * q1 + q2
      PROVE  p1 = q1 /\ p2 = q2
  <2>1. p1 = q1
    BY <1>1, <1>3, Digits
  <2>2. ByteSize * q1 \in Nat
    BY <1>1
  <2>3. QED
    BY <1>1, <1>3, <2>1, <2>2
<1>4. QED
  BY <1>2, <1>3

\* A word from its four bytes, as the packet's and as the address's.
FourBytes(s) == (s[1] * ByteSize + s[2]) * ByteSize * ByteSize + (s[3] * ByteSize + s[4])
ByDigits(t)  == ByteSize * (ByteSize * (ByteSize * t[1] + t[2]) + t[3]) + t[4]

LEMMA LongIs ==
  ASSUME NEW s \in [1..4 -> Byte], NEW t \in [1..4 -> Byte]
  PROVE  FourBytes(s) = ByDigits(t) <=> \A k \in 1..4 : s[k] = t[k]
<1> DEFINE B == ByteSize
           p == B * s[1] + s[2]
           q == B * t[1] + t[2]
<1>0. /\ s[1] \in Byte /\ s[2] \in Byte /\ s[3] \in Byte /\ s[4] \in Byte
      /\ t[1] \in Byte /\ t[2] \in Byte /\ t[3] \in Byte /\ t[4] \in Byte
  OBVIOUS
<1>1. /\ s[1] \in Nat /\ s[2] \in Nat /\ s[3] \in Nat /\ s[4] \in Nat /\ B \in Nat
      /\ t[1] \in Nat /\ t[2] \in Nat /\ t[3] \in Nat /\ t[4] \in Nat
  BY <1>0, WordFacts DEF Byte
<1>2. p \in Nat /\ q \in Nat /\ B * p + s[3] \in Nat /\ B * q + t[3] \in Nat
  BY <1>1
<1>3. FourBytes(s) = B * (B * p + s[3]) + s[4] /\ ByDigits(t) = B * (B * q + t[3]) + t[4]
  <2>1. s[1] * B + s[2] = p /\ s[3] * B = B * s[3]
    BY <1>1
  <2>2. FourBytes(s) = p * B * B + (B * s[3] + s[4])
    BY <2>1 DEF FourBytes
  <2>3. ByDigits(t) = B * (B * q + t[3]) + t[4]
    BY DEF ByDigits
  <2> HIDE DEF p, B
  <2>4. p * B * B = B * (B * p)
    BY <1>1, <1>2
  <2>5. B * (B * p + s[3]) = B * (B * p) + B * s[3]
    BY <1>1, <1>2
  <2>6. B * (B * p) \in Nat /\ B * s[3] \in Nat
    BY <1>1, <1>2
  <2>7. QED
    BY <1>1, <2>2, <2>3, <2>4, <2>5, <2>6
<1>4. ASSUME FourBytes(s) = ByDigits(t)
      PROVE  \A k \in 1..4 : s[k] = t[k]
  <2> HIDE DEF p, q
  <2>1. B * p + s[3] = B * q + t[3] /\ s[4] = t[4]
    BY <1>0, <1>2, <1>3, <1>4, Digits
  <2>2. p = q /\ s[3] = t[3]
    BY <1>0, <1>2, <2>1, Digits
  <2>3. s[1] = t[1] /\ s[2] = t[2]
    <3>1. B * s[1] + s[2] = B * t[1] + t[2]
      BY <2>2 DEF p, q
    <3> DEFINE u == s[1]
               v == t[1]
    <3>2. u \in Nat /\ v \in Nat /\ s[2] \in Byte /\ t[2] \in Byte /\ B * u + s[2] = B * v + t[2]
      BY <1>0, <1>1, <3>1
    <3> HIDE DEF u, v
    <3>3. u = v
      BY <3>2, Digits
    <3>4. s[1] = t[1]
      BY <3>3 DEF u, v
    <3>5. B * t[1] \in Nat
      BY <1>1
    <3>6. QED
      BY <1>1, <3>1, <3>4, <3>5
  <2>4. \A k \in 1..4 : k \in {1, 2, 3, 4}
    OBVIOUS
  <2>5. QED
    BY <2>1, <2>2, <2>3, <2>4
<1>5. ASSUME \A k \in 1..4 : s[k] = t[k]
      PROVE  FourBytes(s) = ByDigits(t)
  <2>1. s[1] = t[1] /\ s[2] = t[2] /\ s[3] = t[3] /\ s[4] = t[4]
    BY <1>5
  <2>2. QED
    BY <1>3, <2>1
<1>6. QED
  BY <1>4, <1>5

\* Six bytes of a packet that name the sender, as a word and a half word.
LEMMA NamesSender ==
  ASSUME CallOK, NEW at \in Nat
  PROVE  at + 16 <= buflen =>
           (SubSeq(call.data, at + 11, at + 16) = Address \o <<Prefix, Port>>
              <=> Addressed(at) /\ Ported(at))
<1> SUFFICES ASSUME at + 16 <= buflen
             PROVE  SubSeq(call.data, at + 11, at + 16) = Address \o <<Prefix, Port>>
                      <=> Addressed(at) /\ Ported(at)
  OBVIOUS
<1> DEFINE p == call.data
           s == SubSeq(p, at + 11, at + 16)
           t == Address \o <<Prefix, Port>>
<1>1. p \in Seq(Byte) /\ buflen = Len(p) /\ Len(p) \in Nat
  BY CallFacts DEF buflen
<1>2. \A k \in 11..16 : p[at + k] \in Byte
  BY <1>1
<1>3. Address \in [1..4 -> Byte] /\ Prefix \in Byte /\ Port \in Byte
  BY FilterAssumption
<1>4. s = [k \in 1..6 |-> p[at + 10 + k]]
  <2>1. Len(s) = 6 /\ s \in Seq(Byte)
    BY <1>1
  <2>2. \A k \in 1..6 : s[k] = p[at + 10 + k]
    BY <1>1
  <2>3. s = [k \in 1..6 |-> s[k]]
    BY <2>1
  <2> HIDE DEF s, p
  <2>4. QED
    BY <2>2, <2>3
<1>5. t = [k \in 1..6 |-> IF k <= 4 THEN Address[k] ELSE <<Prefix, Port>>[k - 4]]
  <2>1. Address \in Seq(Byte) /\ Len(Address) = 4
    <3>1. DOMAIN Address = 1..4 /\ \A k \in 1..4 : Address[k] \in Byte
      BY <1>3
    <3>2. Address = [k \in 1..4 |-> Address[k]]
      BY <1>3
    <3>3. [k \in 1..4 |-> Address[k]] \in Seq(Byte) /\ Len([k \in 1..4 |-> Address[k]]) = 4
      BY <3>1
    <3>4. QED
      BY <3>2, <3>3, Zenon
  <2> DEFINE tail == <<Prefix, Port>>
  <2>6. tail \in Seq(Byte)
    BY <1>3
  <2>7. Len(tail) = 2
    OBVIOUS
  <2> HIDE DEF tail
  <2>8. t = Address \o tail
    BY DEF tail
  <2> HIDE DEF t
  <2>9. /\ Address \o tail \in Seq(Byte)
        /\ Len(Address \o tail) = Len(Address) + Len(tail)
        /\ \A k \in 1..(Len(Address) + Len(tail)) :
             (Address \o tail)[k] = IF k <= Len(Address) THEN Address[k] ELSE tail[k - Len(Address)]
    BY <2>1, <2>6, ConcatProperties, Zenon
  <2>2. Len(t) = 6 /\ t \in Seq(Byte)
    BY <2>1, <2>7, <2>8, <2>9
  <2>3. \A k \in 1..6 : t[k] = IF k <= 4 THEN Address[k] ELSE <<Prefix, Port>>[k - 4]
    BY <2>1, <2>7, <2>8, <2>9 DEF tail
  <2>4. t = [k \in 1..6 |-> t[k]]
    BY <2>2
  <2>5. QED
    BY <2>3, <2>4
<1> HIDE DEF s, t
<1>6. s = t <=> /\ p[at + 11] = Address[1] /\ p[at + 12] = Address[2]
                /\ p[at + 13] = Address[3] /\ p[at + 14] = Address[4]
                /\ p[at + 15] = Prefix /\ p[at + 16] = Port
  <2>1. s = t <=> \A k \in 1..6 : s[k] = t[k]
    BY <1>4, <1>5
  <2>2. /\ s[1] = p[at + 11] /\ s[2] = p[at + 12] /\ s[3] = p[at + 13]
        /\ s[4] = p[at + 14] /\ s[5] = p[at + 15] /\ s[6] = p[at + 16]
    BY <1>4
  <2>3. /\ t[1] = Address[1] /\ t[2] = Address[2] /\ t[3] = Address[3]
        /\ t[4] = Address[4] /\ t[5] = Prefix /\ t[6] = Port
    BY <1>5
  <2>4. \A k \in 1..6 : k \in {1, 2, 3, 4, 5, 6}
    OBVIOUS
  <2>5. QED
    BY <2>1, <2>2, <2>3, <2>4
<1>7. EXTRACT_LONG(p, at + 10) =
        (p[at + 11] * ByteSize + p[at + 12]) * ByteSize * ByteSize
          + (p[at + 13] * ByteSize + p[at + 14])
  <2>1. /\ at + 10 + 1 = at + 11 /\ at + 10 + 2 = at + 12
        /\ at + 10 + 2 + 1 = at + 13 /\ at + 10 + 2 + 2 = at + 14
    OBVIOUS
  <2>2. QED
    BY <2>1 DEF EXTRACT_LONG, EXTRACT_SHORT
<1>8. EXTRACT_SHORT(p, at + 14) = p[at + 15] * ByteSize + p[at + 16]
  <2>1. at + 14 + 1 = at + 15 /\ at + 14 + 2 = at + 16
    OBVIOUS
  <2>2. QED
    BY <2>1 DEF EXTRACT_SHORT
<1>9. EXTRACT_LONG(p, at + 10) = AddressWord
        <=> /\ p[at + 11] = Address[1] /\ p[at + 12] = Address[2]
            /\ p[at + 13] = Address[3] /\ p[at + 14] = Address[4]
  <2> DEFINE four == [k \in 1..4 |-> p[at + 10 + k]]
  <2>1. four \in [1..4 -> Byte]
    BY <1>2
  <2>2. /\ four[1] = p[at + 11] /\ four[2] = p[at + 12]
        /\ four[3] = p[at + 13] /\ four[4] = p[at + 14]
    OBVIOUS
  <2> HIDE DEF four, p
  <2>3. FourBytes(four) = ByDigits(Address) <=> \A k \in 1..4 : four[k] = Address[k]
    BY <1>3, <2>1, LongIs
  <2>4. EXTRACT_LONG(p, at + 10) = FourBytes(four)
    BY <1>7, <2>2 DEF FourBytes
  <2>5. AddressWord = ByDigits(Address)
    BY DEF AddressWord, ByDigits
  <2>6. \A k \in 1..4 : k \in {1, 2, 3, 4}
    OBVIOUS
  <2>7. QED
    BY <2>2, <2>3, <2>4, <2>5, <2>6
<1>10. EXTRACT_SHORT(p, at + 14) = PortHalf <=> p[at + 15] = Prefix /\ p[at + 16] = Port
  BY <1>2, <1>3, <1>8, ShortIs DEF PortHalf
<1>11. at + 14 <= buflen
  BY <1>1
<1>12. QED
  BY <1>6, <1>9, <1>10, <1>11 DEF Addressed, Ported, s, t

LEMMA SenderOf ==
  ASSUME CallOK
  PROVE  /\ FromTransmitter(DLT_PRISM_HEADER, call.data) <=> Addressed(64) /\ Ported(64)
         /\ 4 <= buflen => RadiotapLength \in Nat
         /\ FromTransmitter(DLT_IEEE802_11_RADIO, call.data)
              <=> 4 <= buflen /\ Addressed(RadiotapLength) /\ Ported(RadiotapLength)
<1> DEFINE p == call.data
<1>1. p \in Seq(Byte) /\ buflen = Len(p) /\ Len(p) \in Nat
  BY CallFacts DEF buflen
<1>2. FromTransmitter(DLT_PRISM_HEADER, p) <=> Addressed(64) /\ Ported(64)
  <2>1. IEEE80211At(DLT_PRISM_HEADER, p) = 64
    BY DEF IEEE80211At
  <2>2. FromTransmitter(DLT_PRISM_HEADER, p) <=>
          64 + 16 <= buflen /\ SubSeq(p, 64 + 11, 64 + 16) = Address \o <<Prefix, Port>>
    <3>1. FromTransmitter(DLT_PRISM_HEADER, p) <=>
            /\ Len(p) >= 4 /\ Len(p) >= 64 + 16
            /\ SubSeq(p, 64 + 11, 64 + 16) = Address \o <<Prefix, Port>>
      BY <2>1, Zenon DEF FromTransmitter
    <3>2. 64 + 16 <= buflen <=> Len(p) >= 4 /\ Len(p) >= 64 + 16
      BY <1>1
    <3>3. QED
      BY <3>1, <3>2, Zenon
  <2>3. Ported(64) => 64 + 16 <= buflen
    BY DEF Ported
  <2>4. QED
    BY <2>2, <2>3, NamesSender
<1>3. ASSUME 4 <= buflen
      PROVE  RadiotapLength \in Nat
  <2>1. p[3] \in Byte /\ p[4] \in Byte
    BY <1>1, <1>3
  <2>2. QED
    BY <2>1, WordFacts DEF Byte, RadiotapLength
<1>4. FromTransmitter(DLT_IEEE802_11_RADIO, p)
        <=> 4 <= buflen /\ Addressed(RadiotapLength) /\ Ported(RadiotapLength)
  <2> DEFINE h == RadiotapLength
  <2>1. IEEE80211At(DLT_IEEE802_11_RADIO, p) = h
    BY DEF IEEE80211At, DLT_PRISM_HEADER, DLT_IEEE802_11_RADIO, RadiotapLength
  <2>2. FromTransmitter(DLT_IEEE802_11_RADIO, p) <=>
          4 <= buflen /\ h + 16 <= buflen /\ SubSeq(p, h + 11, h + 16) = Address \o <<Prefix, Port>>
    BY <1>1, <2>1 DEF FromTransmitter
  <2>3. Ported(h) => h + 16 <= buflen
    BY DEF Ported
  <2>4. QED
    BY <1>3, <2>2, <2>3, NamesSender
<1>5. QED
  BY <1>2, <1>3, <1>4
-----------------------------------------------------------------------------
(***************************************************************************)
(* The filter for Prism headers, an instruction at a time.                 *)
(***************************************************************************)
PrismAt ==
  /\ pc \in 0..6
  /\ pc = 1 => 78 <= buflen /\ A = EXTRACT_LONG(call.data, 74)
  /\ pc = 2 => ~Addressed(64)
  /\ pc >= 3 => Addressed(64)
  /\ pc = 4 => 80 <= buflen /\ A = EXTRACT_SHORT(call.data, 78)
  /\ pc = 5 => ~Ported(64)
  /\ pc = 6 => Ported(64)

Prism ==
  IF result = Running THEN PrismAt ELSE result # 0 <=> Addressed(64) /\ Ported(64)

LEMMA PrismProgram ==
  ASSUME NEW shift, prog = RxFilter(DLT_PRISM_HEADER, shift)
  PROVE  /\ pc = 0 => insn = Insn(<<"LD", "W", "ABS">>, 74)
         /\ pc = 1 => insn = UnlessEqual(AddressWord)
         /\ pc = 2 => insn = Reject
         /\ pc = 3 => insn = Insn(<<"LD", "H", "ABS">>, 78)
         /\ pc = 4 => insn = UnlessEqual(PortHalf)
         /\ pc = 5 => insn = Reject
         /\ pc = 6 => insn = Accept
<1>1. prog = << Insn(<<"LD", "W", "ABS">>, 74), UnlessEqual(AddressWord), Reject,
                Insn(<<"LD", "H", "ABS">>, 78), UnlessEqual(PortHalf), Reject, Accept >>
  BY DEF RxFilter
<1>2. /\ prog[1] = Insn(<<"LD", "W", "ABS">>, 74) /\ prog[2] = UnlessEqual(AddressWord)
      /\ prog[3] = Reject /\ prog[4] = Insn(<<"LD", "H", "ABS">>, 78)
      /\ prog[5] = UnlessEqual(PortHalf) /\ prog[6] = Reject /\ prog[7] = Accept
  BY <1>1
<1>3. QED
  BY <1>2 DEF insn

\* The fields of the instructions the filters are made of.
LEMMA Fields ==
  /\ \A c, k : Insn(c, k).code = c /\ Insn(c, k).k = k
  /\ \A k : /\ UnlessEqual(k).code = <<"JMP", "JEQ", "K">> /\ UnlessEqual(k).k = k
            /\ UnlessEqual(k).jt = 1 /\ UnlessEqual(k).jf = 0
  /\ Accept.code = <<"RET", "-", "K">> /\ Accept.k = WordSize - 1 /\ WordSize - 1 # 0
  /\ WordSize - 1 # Running
  /\ Reject.code = <<"RET", "-", "K">> /\ Reject.k = 0
BY WordFacts DEF Insn, UnlessEqual, Accept, Reject, Running

LEMMA Unmoved ==
  ASSUME call' = call
  PROVE  /\ buflen' = buflen /\ prog' = prog
         /\ \A at : Addressed(at)' = Addressed(at) /\ Ported(at)' = Ported(at)
BY DEF buflen, prog, Addressed, Ported

\* Loads at a fixed offset, and behind X.
LEMMA LoadAbs ==
  ASSUME IInv, result = Running, Next, NEW size \in {"W", "H", "B"}, NEW k \in Nat,
         insn = Insn(<<"LD", size, "ABS">>, k), size = "B" => k \notin Ancillary
  PROVE  /\ k + SizeOf(size) <= buflen =>
              A' = Fetched(k, size) /\ X' = X /\ mem' = mem /\ GoesOn(0)
         /\ k + SizeOf(size) > buflen => Rejects
<1>1. code = <<"LD", size, "ABS">> /\ insn.k = k
  BY Fields DEF code
<1>2. code = <<"LD", "B", "ABS">> => insn.k \notin Ancillary
  BY <1>1
<1>3. 0 + insn.k = k
  BY <1>1
<1>4. QED
  BY <1>1, <1>2, <1>3, LoadEffect

LEMMA LoadInd ==
  ASSUME IInv, result = Running, Next, NEW size \in {"W", "H"}, NEW k \in Nat,
         insn = Insn(<<"LD", size, "IND">>, k)
  PROVE  /\ X + k + SizeOf(size) <= buflen =>
              A' = Fetched(X + k, size) /\ X' = X /\ mem' = mem /\ GoesOn(0)
         /\ X + k + SizeOf(size) > buflen => Rejects
<1>1. code = <<"LD", size, "IND">> /\ insn.k = k
  BY Fields DEF code
<1>2. code # <<"LD", "B", "ABS">> /\ size \in {"W", "H", "B"}
  BY <1>1
<1>3. QED
  BY <1>1, <1>2, LoadEffect

LEMMA Compare ==
  ASSUME result = Running, Next, NEW k, insn = UnlessEqual(k)
  PROVE  /\ A' = A /\ X' = X /\ mem' = mem
         /\ A = k => GoesOn(1)
         /\ A # k => GoesOn(0)
<1>1. code = <<"JMP", "JEQ", "K">> /\ insn.k = k /\ insn.jt = 1 /\ insn.jf = 0
  BY Fields DEF code
<1>2. QED
  BY <1>1, JumpEffect

LEMMA Verdicts ==
  ASSUME result = Running, Next
  PROVE  /\ insn = Reject => Rejects
         /\ insn = Accept => result' # 0 /\ result' # Running /\ call' = call
<1>1. insn = Reject \/ insn = Accept => code = <<"RET", "-", "K">>
  BY Fields DEF code
<1>2. code = <<"RET", "-", "K">> => result' = insn.k /\ call' = call
  BY RetEffect
<1>3. QED
  BY <1>1, <1>2, Fields DEF Rejects

\* A running filter: the step is one of the machine, and what it has found of
\* the packet stays as it is.
LEMMA PrismStep ==
  ASSUME IInv, result = Running, Next, NEW shift, prog = RxFilter(DLT_PRISM_HEADER, shift), PrismAt
  PROVE  Prism' /\ call' = call
<1> USE DEF GoesOn, Rejects
<1>1. buflen \in Nat /\ pc \in 0..6 /\ SizeOf("W") = 4 /\ SizeOf("H") = 2 /\ 0 # Running
  BY CallFacts, WordFacts DEF IInv, Word, PrismAt, SizeOf, Running
<1>2. /\ Addressed(64) => 78 <= buflen
      /\ Ported(64) => 80 <= buflen
      /\ 78 <= buflen => (Addressed(64) <=> EXTRACT_LONG(call.data, 74) = AddressWord)
      /\ 80 <= buflen => (Ported(64) <=> EXTRACT_SHORT(call.data, 78) = PortHalf)
  BY <1>1 DEF Addressed, Ported
<1>3. call' = call =>
        buflen' = buflen /\ Addressed(64)' = Addressed(64) /\ Ported(64)' = Ported(64)
  BY Unmoved
<1>4. CASE pc = 0
  <2>1. insn = Insn(<<"LD", "W", "ABS">>, 74)
    BY <1>4, PrismProgram
  <2>2. Fetched(74, "W") = EXTRACT_LONG(call.data, 74)
    BY DEF Fetched
  <2>3. /\ 78 <= buflen => A' = EXTRACT_LONG(call.data, 74) /\ GoesOn(0)
        /\ 78 > buflen => Rejects
    BY <1>1, <2>1, <2>2, LoadAbs
  <2>4. CASE 78 <= buflen
    <3>1. pc' = 1 /\ result' = Running /\ call' = call /\ A' = EXTRACT_LONG(call.data, 74)
      BY <1>4, <2>3, <2>4
    <3>2. QED
      BY <1>1, <1>3, <2>4, <3>1 DEF Prism, PrismAt
  <2>5. CASE 78 > buflen
    <3>1. result' = 0 /\ call' = call /\ ~Addressed(64)
      BY <1>1, <1>2, <2>3, <2>5
    <3>2. QED
      BY <1>1, <1>3, <3>1 DEF Prism
  <2>6. QED
    BY <1>1, <2>4, <2>5
<1>5. CASE pc = 1
  <2>1. insn = UnlessEqual(AddressWord)
    BY <1>5, PrismProgram
  <2>2. A = EXTRACT_LONG(call.data, 74) /\ 78 <= buflen
    BY <1>5 DEF PrismAt
  <2>3. /\ Addressed(64) => pc' = 3
        /\ ~Addressed(64) => pc' = 2
        /\ result' = Running /\ call' = call
    BY <1>2, <1>5, <2>1, <2>2, Compare
  <2>4. QED
    BY <1>3, <2>3 DEF Prism, PrismAt
<1>6. CASE pc = 2 \/ pc = 5
  <2>1. Rejects
    BY <1>6, PrismProgram, Verdicts
  <2>2. ~Addressed(64) \/ ~Ported(64)
    BY <1>6 DEF PrismAt
  <2>3. QED
    BY <1>1, <1>3, <2>1, <2>2 DEF Prism
<1>7. CASE pc = 3
  <2>1. insn = Insn(<<"LD", "H", "ABS">>, 78) /\ Addressed(64)
    BY <1>7, PrismProgram DEF PrismAt
  <2>2. Fetched(78, "H") = EXTRACT_SHORT(call.data, 78)
    BY DEF Fetched
  <2>3. /\ 80 <= buflen => A' = EXTRACT_SHORT(call.data, 78) /\ GoesOn(0)
        /\ 80 > buflen => Rejects
    BY <1>1, <2>1, <2>2, LoadAbs
  <2>4. CASE 80 <= buflen
    <3>1. pc' = 4 /\ result' = Running /\ call' = call /\ A' = EXTRACT_SHORT(call.data, 78)
      BY <1>7, <2>3, <2>4
    <3>2. QED
      BY <1>1, <1>3, <2>1, <2>4, <3>1 DEF Prism, PrismAt
  <2>5. CASE 80 > buflen
    <3>1. result' = 0 /\ call' = call /\ ~Ported(64)
      BY <1>1, <1>2, <2>3, <2>5
    <3>2. QED
      BY <1>1, <1>3, <3>1 DEF Prism
  <2>6. QED
    BY <1>1, <2>4, <2>5
<1>8. CASE pc = 4
  <2>1. insn = UnlessEqual(PortHalf) /\ Addressed(64)
    BY <1>8, PrismProgram DEF PrismAt
  <2>2. A = EXTRACT_SHORT(call.data, 78) /\ 80 <= buflen
    BY <1>8 DEF PrismAt
  <2>3. /\ Ported(64) => pc' = 6
        /\ ~Ported(64) => pc' = 5
        /\ result' = Running /\ call' = call
    BY <1>2, <1>8, <2>1, <2>2, Compare
  <2>4. QED
    BY <1>3, <2>1, <2>3 DEF Prism, PrismAt
<1>9. CASE pc = 6
  <2>1. result' # 0 /\ result' # Running /\ call' = call
    BY <1>9, PrismProgram, Verdicts
  <2>2. Addressed(64) /\ Ported(64)
    BY <1>9 DEF PrismAt
  <2>3. QED
    BY <1>3, <2>1, <2>2 DEF Prism
<1>10. QED
  BY <1>1, <1>4, <1>5, <1>6, <1>7, <1>8, <1>9
-----------------------------------------------------------------------------
(***************************************************************************)
(* The filter for radiotap headers: until instruction 7 the length of the  *)
(* header is put together; then the comparisons are those of the other     *)
(* filter, behind that length.                                             *)
(***************************************************************************)
RadioAt ==
  /\ pc \in 0..14
  /\ pc >= 1 => 4 <= buflen
  /\ pc = 1 => A = call.data[4]
  /\ pc = 2 => A = ByteSize * call.data[4]
  /\ pc \in {3, 4} => X = ByteSize * call.data[4]
  /\ pc = 4 => A = call.data[3]
  /\ pc \in {5, 6} => A = RadiotapLength
  /\ pc \in 6..10 => 0 \in DOMAIN mem /\ mem[0] = RadiotapLength
  /\ pc \in {7, 11} => X = RadiotapLength
  /\ pc = 8 => /\ RadiotapLength + 14 <= buflen
               /\ A = EXTRACT_LONG(call.data, RadiotapLength + 10)
  /\ pc = 9 => ~Addressed(RadiotapLength)
  /\ pc >= 10 => Addressed(RadiotapLength)
  /\ pc = 12 => /\ RadiotapLength + 16 <= buflen
                /\ A = EXTRACT_SHORT(call.data, RadiotapLength + 14)
  /\ pc = 13 => ~Ported(RadiotapLength)
  /\ pc = 14 => Ported(RadiotapLength)

Wanted == 4 <= buflen /\ Addressed(RadiotapLength) /\ Ported(RadiotapLength)

Radio == IF result = Running THEN RadioAt ELSE result # 0 <=> Wanted

LEMMA RadioProgram ==
  ASSUME NEW shift, prog = RxFilter(DLT_IEEE802_11_RADIO, shift)
  PROVE  /\ pc = 0 => insn = Insn(<<"LD", "B", "ABS">>, 3)
         /\ pc = 1 => insn = Insn(<<"ALU", "LSH", "K">>, shift)
         /\ pc \in {2, 6} => insn = Insn(<<"MISC", "TAX", "-">>, 0)
         /\ pc = 3 => insn = Insn(<<"LD", "B", "ABS">>, 2)
         /\ pc = 4 => insn = Insn(<<"ALU", "OR", "X">>, 0)
         /\ pc = 5 => insn = Insn(<<"ST", "W", "IMM">>, 0)
         /\ pc = 7 => insn = Insn(<<"LD", "W", "IND">>, 10)
         /\ pc = 8 => insn = UnlessEqual(AddressWord)
         /\ pc = 10 => insn = Insn(<<"LDX", "W", "MEM">>, 0)
         /\ pc = 11 => insn = Insn(<<"LD", "H", "IND">>, 14)
         /\ pc = 12 => insn = UnlessEqual(PortHalf)
         /\ pc \in {9, 13} => insn = Reject
         /\ pc = 14 => insn = Accept
<1>1. prog = << Insn(<<"LD", "B", "ABS">>, 3), Insn(<<"ALU", "LSH", "K">>, shift),
                Insn(<<"MISC", "TAX", "-">>, 0), Insn(<<"LD", "B", "ABS">>, 2),
                Insn(<<"ALU", "OR", "X">>, 0), Insn(<<"ST", "W", "IMM">>, 0),
                Insn(<<"MISC", "TAX", "-">>, 0), Insn(<<"LD", "W", "IND">>, 10),
                UnlessEqual(AddressWord), Reject,
                Insn(<<"LDX", "W", "MEM">>, 0), Insn(<<"LD", "H", "IND">>, 14),
                UnlessEqual(PortHalf), Reject, Accept >>
  BY DEF RxFilter, DLT_PRISM_HEADER, DLT_IEEE802_11_RADIO
<1>2. /\ prog[1] = Insn(<<"LD", "B", "ABS">>, 3) /\ prog[2] = Insn(<<"ALU", "LSH", "K">>, shift)
      /\ prog[3] = Insn(<<"MISC", "TAX", "-">>, 0) /\ prog[4] = Insn(<<"LD", "B", "ABS">>, 2)
      /\ prog[5] = Insn(<<"ALU", "OR", "X">>, 0) /\ prog[6] = Insn(<<"ST", "W", "IMM">>, 0)
      /\ prog[7] = Insn(<<"MISC", "TAX", "-">>, 0) /\ prog[8] = Insn(<<"LD", "W", "IND">>, 10)
      /\ prog[9] = UnlessEqual(AddressWord) /\ prog[10] = Reject
      /\ prog[11] = Insn(<<"LDX", "W", "MEM">>, 0) /\ prog[12] = Insn(<<"LD", "H", "IND">>, 14)
      /\ prog[13] = UnlessEqual(PortHalf) /\ prog[14] = Reject /\ prog[15] = Accept
  BY <1>1
<1>3. QED
  BY <1>2 DEF insn

\* The part of the state that a step of a filter leaves alone.
LEMMA RadioUnmoved ==
  ASSUME call' = call
  PROVE  /\ buflen' = buflen /\ RadiotapLength' = RadiotapLength /\ Wanted' = Wanted
         /\ Addressed(RadiotapLength)' = Addressed(RadiotapLength)
         /\ Ported(RadiotapLength)' = Ported(RadiotapLength)
BY DEF buflen, RadiotapLength, Wanted, Addressed, Ported

\* Instructions 0 to 6: the length of the header, from its two bytes.
LEMMA LengthStep ==
  ASSUME IInv, result = Running, Next, NEW shift \in BitNos, 2 ^ shift = ByteSize,
         prog = RxFilter(DLT_IEEE802_11_RADIO, shift), RadioAt, pc <= 6
  PROVE  Radio' /\ call' = call
<1> USE DEF GoesOn, Rejects
<1> DEFINE lo == call.data[3]
           hi == call.data[4]
<1>1. /\ buflen \in Nat /\ pc \in 0..6 /\ SizeOf("B") = 1 /\ 0 # Running
      /\ 2 \notin Ancillary /\ 3 \notin Ancillary
  <2>1. buflen \in Nat
    BY CallFacts, WordFacts DEF IInv, Word
  <2>2. pc \in 0..6
    <3>1. pc \in 0..14
      BY DEF RadioAt
    <3>2. QED
      BY <3>1
  <2>3. SizeOf("B") = 1 /\ 0 # Running
    BY DEF SizeOf, Running
  <2>4. 2 \notin Ancillary /\ 3 \notin Ancillary
    BY FilterAssumption
  <2>5. QED
    BY <2>1, <2>2, <2>3, <2>4
<1>2. call' = call =>
        /\ buflen' = buflen /\ RadiotapLength' = RadiotapLength /\ Wanted' = Wanted
        /\ lo' = lo /\ hi' = hi
  BY RadioUnmoved
<1>3. 4 <= buflen => lo \in Byte /\ hi \in Byte
  <2>1. call.data \in Seq(Byte) /\ buflen = Len(call.data)
    BY CallFacts DEF IInv, buflen
  <2>2. QED
    BY <1>1, <2>1
<1>4. CASE pc = 0
  <2>1. insn = Insn(<<"LD", "B", "ABS">>, 3) /\ Fetched(3, "B") = hi
    BY <1>4, RadioProgram DEF Fetched
  <2>2. /\ 4 <= buflen => A' = hi /\ GoesOn(0)
        /\ 4 > buflen => Rejects
    BY <1>1, <2>1, LoadAbs
  <2>3. CASE 4 <= buflen
    <3>1. pc' = 1 /\ result' = Running /\ call' = call /\ A' = hi
      BY <1>4, <2>2, <2>3
    <3>2. QED
      BY <1>2, <2>3, <3>1 DEF Radio, RadioAt
  <2>4. CASE 4 > buflen
    <3>1. result' = 0 /\ call' = call /\ ~Wanted
      BY <1>1, <2>2, <2>4 DEF Wanted
    <3>2. QED
      BY <1>1, <1>2, <3>1 DEF Radio
  <2>5. QED
    BY <1>1, <2>3, <2>4
<1>5. CASE pc = 1
  <2>1. insn = Insn(<<"ALU", "LSH", "K">>, shift) /\ A = hi /\ 4 <= buflen
    BY <1>5, RadioProgram DEF RadioAt
  <2>2. code = <<"ALU", "LSH", "K">> /\ insn.k = shift
    BY <2>1, Fields DEF code
  <2>3. A' = (hi * ByteSize) % WordSize /\ GoesOn(0)
    BY <2>1, <2>2, AluEffect
  <2>4. hi * ByteSize = ByteSize * hi /\ ByteSize * hi \in Word
    BY <1>3, <2>1, TwoBytes
  <2>5. (ByteSize * hi) % WordSize = ByteSize * hi
    BY <2>4, WordFacts, Remainder DEF Word
  <2>6. pc' = 2 /\ result' = Running /\ call' = call /\ A' = ByteSize * hi
    BY <1>5, <2>3, <2>4, <2>5
  <2>7. QED
    BY <1>2, <2>1, <2>6 DEF Radio, RadioAt
<1>6. CASE pc = 2
  <2>1. insn = Insn(<<"MISC", "TAX", "-">>, 0) /\ A = ByteSize * hi /\ 4 <= buflen
    BY <1>6, RadioProgram DEF RadioAt
  <2>2. code = <<"MISC", "TAX", "-">>
    BY <2>1, Fields DEF code
  <2>3. pc' = 3 /\ result' = Running /\ call' = call /\ X' = ByteSize * hi
    BY <1>6, <2>1, <2>2, MoveEffect
  <2>4. QED
    BY <1>2, <2>1, <2>3 DEF Radio, RadioAt
<1>7. CASE pc = 3
  <2>1. insn = Insn(<<"LD", "B", "ABS">>, 2) /\ Fetched(2, "B") = lo
    BY <1>7, RadioProgram DEF Fetched
  <2>2. X = ByteSize * hi /\ 4 <= buflen
    BY <1>7 DEF RadioAt
  <2>3. A' = lo /\ X' = X /\ GoesOn(0)
    BY <1>1, <2>1, <2>2, LoadAbs
  <2>4. pc' = 4 /\ result' = Running /\ call' = call /\ A' = lo /\ X' = ByteSize * hi
    BY <1>7, <2>2, <2>3
  <2>5. QED
    BY <1>2, <2>2, <2>4 DEF Radio, RadioAt
<1>8. CASE pc = 4
  <2>1. insn = Insn(<<"ALU", "OR", "X">>, 0)
    BY <1>8, RadioProgram
  <2>2. A = lo /\ X = ByteSize * hi /\ 4 <= buflen
    BY <1>8 DEF RadioAt
  <2>3. code = <<"ALU", "OR", "X">>
    BY <2>1, Fields DEF code
  <2>4. /\ A' \in Word /\ GoesOn(0)
        /\ \A i \in BitNos : (Bit(A', i) = 0) <=> (Bit(lo, i) + Bit(ByteSize * hi, i) = 0)
    BY <2>2, <2>3, AluEffect
  <2>5. PICK w \in Word : w = A'
    BY <2>4
  <2>6. w = lo + ByteSize * hi
    BY <1>3, <2>2, <2>4, <2>5, OrIsSum
  <2>7. pc' = 5 /\ result' = Running /\ call' = call /\ A' = RadiotapLength
    BY <1>8, <2>4, <2>5, <2>6 DEF RadiotapLength
  <2>8. QED
    BY <1>2, <2>2, <2>7 DEF Radio, RadioAt
<1>9. CASE pc = 5
  <2>1. insn = Insn(<<"ST", "W", "IMM">>, 0) /\ A = RadiotapLength /\ 4 <= buflen
    BY <1>9, RadioProgram DEF RadioAt
  <2>2. code = <<"ST", "W", "IMM">> /\ insn.k = 0 /\ insn.code = <<"ST", "W", "IMM">>
    BY <2>1, Fields DEF code
  <2>3. 0 < BPF_MEMWORDS
    <3>1. UsesCell(insn)
      BY <2>2 DEF UsesCell, BPF_CLASS
    <3>2. InsnValid(prog, pc + 1)
      BY CurrentInsn
    <3>3. QED
      BY <2>2, <3>1, <3>2 DEF InsnValid, insn
  <2>4. mem \in [0..(BPF_MEMWORDS - 1) -> Word \cup {Undefined}] /\ BPF_MEMWORDS \in Nat
    BY WordAssumption DEF IInv, TypeOK
  <2>5. 0 \in DOMAIN mem
    BY <2>3, <2>4
  <2>6. pc' = 6 /\ result' = Running /\ call' = call /\ A' = A /\ mem' = [mem EXCEPT ![0] = A]
    BY <1>9, <2>2, MoveEffect
  <2>7. 0 \in DOMAIN mem' /\ mem'[0] = RadiotapLength
    BY <2>1, <2>5, <2>6
  <2>8. QED
    BY <1>2, <2>1, <2>6, <2>7 DEF Radio, RadioAt
<1>10. CASE pc = 6
  <2>1. insn = Insn(<<"MISC", "TAX", "-">>, 0)
    BY <1>10, RadioProgram
  <2>2. A = RadiotapLength /\ 4 <= buflen /\ 0 \in DOMAIN mem /\ mem[0] = RadiotapLength
    BY <1>10 DEF RadioAt
  <2>3. code = <<"MISC", "TAX", "-">>
    BY <2>1, Fields DEF code
  <2>4. pc' = 7 /\ result' = Running /\ call' = call /\ X' = RadiotapLength /\ mem' = mem
    BY <1>10, <2>2, <2>3, MoveEffect
  <2>5. QED
    BY <1>2, <2>2, <2>4 DEF Radio, RadioAt
<1>11. QED
  BY <1>1, <1>4, <1>5, <1>6, <1>7, <1>8, <1>9, <1>10
\* Instructions 7 to 14: the address and the port behind that length.
LEMMA CompareStep ==
  ASSUME IInv, result = Running, Next, NEW shift,
         prog = RxFilter(DLT_IEEE802_11_RADIO, shift), RadioAt, pc >= 7
  PROVE  Radio' /\ call' = call
<1> USE DEF GoesOn, Rejects
<1> DEFINE h == RadiotapLength
<1>1. /\ buflen \in Nat /\ pc \in 7..14 /\ SizeOf("W") = 4 /\ SizeOf("H") = 2 /\ 0 # Running
      /\ 4 <= buflen /\ h \in Nat
  <2>1. buflen \in Nat
    BY CallFacts, WordFacts DEF IInv, Word
  <2>2. pc \in 0..14
    BY DEF RadioAt
  <2>3. SizeOf("W") = 4 /\ SizeOf("H") = 2 /\ 0 # Running
    BY DEF SizeOf, Running
  <2>4. 4 <= buflen
    BY <2>2 DEF RadioAt
  <2>5. h \in Nat
    BY <2>4, SenderOf DEF IInv
  <2>6. QED
    BY <2>1, <2>2, <2>3, <2>4, <2>5
<1>2. /\ Addressed(h) => h + 14 <= buflen
      /\ Ported(h) => h + 16 <= buflen
      /\ h + 14 <= buflen => (Addressed(h) <=> EXTRACT_LONG(call.data, h + 10) = AddressWord)
      /\ h + 16 <= buflen => (Ported(h) <=> EXTRACT_SHORT(call.data, h + 14) = PortHalf)
      /\ Wanted <=> Addressed(h) /\ Ported(h)
  BY <1>1 DEF Addressed, Ported, Wanted
<1>3. call' = call =>
        /\ buflen' = buflen /\ h' = h /\ Wanted' = Wanted
        /\ Addressed(h)' = Addressed(h) /\ Ported(h)' = Ported(h)
  BY RadioUnmoved
<1> HIDE DEF h
<1>4. CASE pc = 7
  <2>1. insn = Insn(<<"LD", "W", "IND">>, 10)
    BY <1>4, RadioProgram
  <2>2. X = h /\ 0 \in DOMAIN mem /\ mem[0] = h
    BY <1>4 DEF RadioAt, h
  <2>3. /\ Fetched(X + 10, "W") = EXTRACT_LONG(call.data, h + 10)
        /\ X + 10 + SizeOf("W") = h + 14
    BY <1>1, <2>2 DEF Fetched
  <2>4. /\ h + 14 <= buflen =>
             A' = EXTRACT_LONG(call.data, h + 10) /\ mem' = mem /\ GoesOn(0)
        /\ h + 14 > buflen => Rejects
    BY <2>1, <2>3, LoadInd
  <2>5. CASE h + 14 <= buflen
    <3>1. /\ pc' = 8 /\ result' = Running /\ call' = call
          /\ A' = EXTRACT_LONG(call.data, h + 10) /\ mem' = mem
      BY <1>4, <2>4, <2>5
    <3>2. QED
      BY <1>1, <1>3, <2>2, <2>5, <3>1 DEF Radio, RadioAt, h
  <2>6. CASE h + 14 > buflen
    <3>1. result' = 0 /\ call' = call /\ ~Wanted
      BY <1>1, <1>2, <2>4, <2>6
    <3>2. QED
      BY <1>1, <1>3, <3>1 DEF Radio
  <2>7. QED
    BY <1>1, <2>5, <2>6
<1>5. CASE pc = 8
  <2>1. insn = UnlessEqual(AddressWord)
    BY <1>5, RadioProgram
  <2>2. /\ A = EXTRACT_LONG(call.data, h + 10) /\ h + 14 <= buflen
        /\ 0 \in DOMAIN mem /\ mem[0] = h
    BY <1>5 DEF RadioAt, h
  <2>3. /\ Addressed(h) => pc' = 10
        /\ ~Addressed(h) => pc' = 9
        /\ result' = Running /\ call' = call /\ mem' = mem
    BY <1>2, <1>5, <2>1, <2>2, Compare
  <2>4. QED
    BY <1>1, <1>3, <2>2, <2>3 DEF Radio, RadioAt, h
<1>6. CASE pc = 9 \/ pc = 13
  <2>1. Rejects
    BY <1>6, RadioProgram, Verdicts
  <2>2. ~Wanted
    BY <1>2, <1>6 DEF RadioAt, h
  <2>3. QED
    BY <1>1, <1>3, <2>1, <2>2 DEF Radio
<1>7. CASE pc = 10
  <2>1. insn = Insn(<<"LDX", "W", "MEM">>, 0)
    BY <1>7, RadioProgram
  <2>2. mem[0] = h /\ Addressed(h)
    BY <1>7 DEF RadioAt, h
  <2>3. code = <<"LDX", "W", "MEM">> /\ insn.k = 0
    BY <2>1, Fields DEF code
  <2>4. mem[insn.k] # Undefined
    BY <1>1, <2>2, <2>3 DEF Undefined
  <2>5. pc' = 11 /\ result' = Running /\ call' = call /\ X' = h
    BY <1>7, <2>2, <2>3, <2>4, MoveEffect
  <2>6. QED
    BY <1>1, <1>3, <2>2, <2>5 DEF Radio, RadioAt, h
<1>8. CASE pc = 11
  <2>1. insn = Insn(<<"LD", "H", "IND">>, 14)
    BY <1>8, RadioProgram
  <2>2. X = h /\ Addressed(h)
    BY <1>8 DEF RadioAt, h
  <2>3. /\ Fetched(X + 14, "H") = EXTRACT_SHORT(call.data, h + 14)
        /\ X + 14 + SizeOf("H") = h + 16
    BY <1>1, <2>2 DEF Fetched
  <2>4. /\ h + 16 <= buflen => A' = EXTRACT_SHORT(call.data, h + 14) /\ GoesOn(0)
        /\ h + 16 > buflen => Rejects
    BY <2>1, <2>3, LoadInd
  <2>5. CASE h + 16 <= buflen
    <3>1. /\ pc' = 12 /\ result' = Running /\ call' = call
          /\ A' = EXTRACT_SHORT(call.data, h + 14)
      BY <1>8, <2>4, <2>5
    <3>2. QED
      BY <1>1, <1>3, <2>2, <2>5, <3>1 DEF Radio, RadioAt, h
  <2>6. CASE h + 16 > buflen
    <3>1. result' = 0 /\ call' = call /\ ~Wanted
      BY <1>1, <1>2, <2>4, <2>6
    <3>2. QED
      BY <1>1, <1>3, <3>1 DEF Radio
  <2>7. QED
    BY <1>1, <2>5, <2>6
<1>9. CASE pc = 12
  <2>1. insn = UnlessEqual(PortHalf)
    BY <1>9, RadioProgram
  <2>2. A = EXTRACT_SHORT(call.data, h + 14) /\ h + 16 <= buflen /\ Addressed(h)
    BY <1>9 DEF RadioAt, h
  <2>3. /\ Ported(h) => pc' = 14
        /\ ~Ported(h) => pc' = 13
        /\ result' = Running /\ call' = call
    BY <1>2, <1>9, <2>1, <2>2, Compare
  <2>4. QED
    BY <1>1, <1>3, <2>2, <2>3 DEF Radio, RadioAt, h
<1>10. CASE pc = 14
  <2>1. result' # 0 /\ result' # Running /\ call' = call
    BY <1>10, RadioProgram, Verdicts
  <2>2. Wanted
    BY <1>2, <1>10 DEF RadioAt, h
  <2>3. QED
    BY <1>3, <2>1, <2>2 DEF Radio
<1>11. QED
  BY <1>1, <1>4, <1>5, <1>6, <1>7, <1>8, <1>9, <1>10
-----------------------------------------------------------------------------
(***************************************************************************)
(* Whatever filter runs, it is where its packet takes it.                  *)
(***************************************************************************)
RxInv ==
  \A shift \in BitNos : 2 ^ shift = ByteSize =>
    /\ prog = RxFilter(DLT_PRISM_HEADER, shift) => Prism
    /\ prog = RxFilter(DLT_IEEE802_11_RADIO, shift) => Radio

LEMMA RxInit == Init => RxInv
<1> SUFFICES ASSUME Init PROVE RxInv
  OBVIOUS
<1>1. pc = 0 /\ result = Running
  BY DEF Init
<1>2. Prism /\ Radio
  BY <1>1 DEF Prism, PrismAt, Radio, RadioAt
<1>3. QED
  BY <1>2 DEF RxInv

\* A filter that has returned does not run.
LEMMA StopsRunning ==
  ASSUME result # Running PROVE ~Next
BY DEF Next, Ret, LoadVlan, LoadPacket, LoadHeaderLength, LoadOther, Store, Transfer, Alu,
       JumpIf, JumpAlways, Abort, Executes

\* No step changes what is run on what.
LEMMA CallKept ==
  ASSUME Next PROVE call' = call /\ prog' = prog
<1>1. call' = call
  BY DEF Next, Ret, LoadVlan, LoadPacket, LoadHeaderLength, LoadOther, Store, Transfer, Alu,
         JumpIf, JumpAlways, Abort, Return, Continue
<1>2. QED
  BY <1>1 DEF prog

LEMMA RxStep ==
  ASSUME IInv, RxInv, [Next]_vars
  PROVE  RxInv'
<1>1. CASE UNCHANGED vars
  <2>1. /\ call' = call /\ pc' = pc /\ A' = A /\ X' = X /\ mem' = mem /\ result' = result
        /\ prog' = prog
    BY <1>1 DEF vars, registers, prog
  <2>2. buflen' = buflen /\ RadiotapLength' = RadiotapLength /\ Wanted' = Wanted
    BY <2>1, RadioUnmoved
  <2>3. \A at : Addressed(at)' = Addressed(at) /\ Ported(at)' = Ported(at)
    BY <2>1, Unmoved
  <2>4. Prism' = Prism
    BY <2>1, <2>2, <2>3 DEF Prism, PrismAt
  <2>5. Radio' = Radio
    <3>1. /\ EXTRACT_LONG(call.data, RadiotapLength + 10)'
               = EXTRACT_LONG(call.data, RadiotapLength + 10)
          /\ EXTRACT_SHORT(call.data, RadiotapLength + 14)'
               = EXTRACT_SHORT(call.data, RadiotapLength + 14)
      BY <2>1, <2>2
    <3>2. /\ Addressed(RadiotapLength)' = Addressed(RadiotapLength)
          /\ Ported(RadiotapLength)' = Ported(RadiotapLength)
      BY <2>1, RadioUnmoved
    <3>3. RadioAt' = RadioAt
      BY <2>1, <2>2, <3>1, <3>2 DEF RadioAt
    <3>4. QED
      BY <2>1, <2>2, <3>3 DEF Radio
  <2>6. QED
    BY <2>1, <2>4, <2>5 DEF RxInv
<1>2. CASE Next
  <2>1. result = Running
    BY <1>2, StopsRunning
  <2> SUFFICES ASSUME NEW shift \in BitNos, 2 ^ shift = ByteSize
               PROVE  /\ prog' = RxFilter(DLT_PRISM_HEADER, shift) => Prism'
                      /\ prog' = RxFilter(DLT_IEEE802_11_RADIO, shift) => Radio'
    BY DEF RxInv
  <2>2. prog' = prog
    BY <1>2, CallKept
  <2>3. ASSUME prog = RxFilter(DLT_PRISM_HEADER, shift) PROVE Prism'
    <3>1. PrismAt
      BY <2>1, <2>3 DEF RxInv, Prism
    <3>2. QED
      BY <1>2, <2>1, <2>3, <3>1, PrismStep
  <2>4. ASSUME prog = RxFilter(DLT_IEEE802_11_RADIO, shift) PROVE Radio'
    <3>1. RadioAt
      BY <2>1, <2>4 DEF RxInv, Radio
    <3>2. pc <= 6 \/ pc >= 7
      BY <3>1 DEF RadioAt
    <3>3. QED
      BY <1>2, <2>1, <2>4, <3>1, <3>2, LengthStep, CompareStep
  <2>5. QED
    BY <2>2, <2>3, <2>4
<1>3. QED
  BY <1>1, <1>2

\* The receiver is given exactly the frames that carry the transmitter's
\* address and its port where their header says it: the two filters that
\* open_and_configure_interface installs, as the interpreter runs them, agree
\* with FromTransmitter on every captured packet and for bytes of any width.
THEOREM RxFilterHolds == Spec => []RxFilterRight
<1>1. IInv /\ RxInv => RxFilterRight
  <2> SUFFICES ASSUME IInv, RxInv, result # Running,
                      NEW nLinkEncap \in {DLT_PRISM_HEADER, DLT_IEEE802_11_RADIO},
                      NEW shift \in BitNos, prog = RxFilter(nLinkEncap, shift),
                      2 ^ shift = ByteSize
               PROVE  result # 0 <=> FromTransmitter(nLinkEncap, call.data)
    BY DEF RxFilterRight
  <2>1. CASE nLinkEncap = DLT_PRISM_HEADER
    <3>1. Prism
      BY <2>1 DEF RxInv
    <3>2. QED
      BY <2>1, <3>1, SenderOf DEF Prism, IInv
  <2>2. CASE nLinkEncap = DLT_IEEE802_11_RADIO
    <3>1. Radio
      BY <2>2 DEF RxInv
    <3>2. QED
      BY <2>2, <3>1, SenderOf DEF Radio, Wanted, IInv
  <2>3. QED
    BY <2>1, <2>2
<1>2. Init => RxInv
  BY RxInit
<1>3. IInv /\ IInv' /\ RxInv /\ [Next]_vars => RxInv'
  BY RxStep
<1>4. Spec => []IInv
  BY Invariant, PTL
<1>5. QED
  BY <1>1, <1>2, <1>3, <1>4, PTL DEF Spec
=============================================================================
