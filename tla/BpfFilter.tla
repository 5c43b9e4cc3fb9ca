------------------------------ MODULE BpfFilter ------------------------------
(***************************************************************************)
(* bpf_filter.c of libpcap 1.7.4, as Android.mk builds it (not KERNEL):    *)
(* bpf_validate, and bpf_filter_with_aux_data running a filter program     *)
(* that passed it over one captured packet, one instruction per step.      *)
(*                                                                         *)
(* A code is the triple of its class, its size or operation, and its mode  *)
(* or source. A word has four bytes of any size: 32 bits in the program,   *)
(* eight in the model checker's runs.                                      *)
(***************************************************************************)
EXTENDS Integers, FiniteSets, Sequences

CONSTANTS
  ByteSize,              \* the number of values of a byte
  BPF_MEMWORDS,          \* the number of scratch memory cells
  SKF_AD_VLAN_TAG,       \* offsets, beyond any packet, that stand for the
  SKF_AD_VLAN_TAG_PRESENT, \* VLAN tag the kernel has taken out of it
  Calls                  \* the calls to consider: a filter program, the captured
                         \* bytes, the length on the wire, the auxiliary data

WordSize == ByteSize * ByteSize * ByteSize * ByteSize
Byte     == 0..(ByteSize - 1)
Word     == 0..(WordSize - 1)

\* aux_data, when there is none, as in bpf_filter.
NoAux == [vlan_tag |-> 0, vlan_tag_present |-> 2]
Aux   == [vlan_tag : Word, vlan_tag_present : {0, 1}] \cup {NoAux}

ASSUME WordAssumption ==
  /\ ByteSize \in Nat /\ ByteSize > 1 /\ \E n \in 1..ByteSize : ByteSize = 2 ^ n
  /\ BPF_MEMWORDS \in Nat
  /\ SKF_AD_VLAN_TAG \in Word /\ SKF_AD_VLAN_TAG_PRESENT \in Word

Instruction == [code : STRING \X STRING \X STRING, k : Word, jt : Byte, jf : Byte]

\* len is an int, and wirelen and buflen are u_ints.
ASSUME InputAssumption ==
  \A c \in Calls :
    /\ c.prog \in Seq(Instruction)
    /\ 2 * Len(c.prog) < WordSize /\ Len(c.prog) + ByteSize < WordSize
    /\ c.data \in Seq(Byte) /\ Len(c.data) \in Word
    /\ c.wirelen \in Word /\ c.aux \in Aux

VARIABLES
  call,            \* what is run on what
  pc, A, X, mem,   \* the machine; pc counts from 0
  result,          \* what the filter returned, Running or Aborted
  read             \* history: the offsets the last instruction fetched

registers == <<A, X, mem>>
vars      == <<call, pc, registers, result, read>>

Running   == -1
Aborted   == -2
Undefined == -1     \* what is in a scratch memory cell nobody wrote

BPF_CLASS(c) == c[1]
BPF_SIZE(c)  == c[2]
BPF_OP(c)    == c[2]
BPF_MODE(c)  == c[3]
BPF_SRC(c)   == c[3]

-----------------------------------------------------------------------------
(***************************************************************************)
(* bpf_validate. i is an index of the program f, counting from 1, so that  *)
(* it is the C code's from; sums are u_int.                                *)
(***************************************************************************)
AluOps  == {"ADD", "SUB", "MUL", "DIV", "MOD", "AND", "OR", "XOR", "LSH", "RSH"}
CondOps == {"JEQ", "JGT", "JGE", "JSET"}

UsesCell(in) ==
  \/ BPF_CLASS(in.code) \in {"LD", "LDX"} /\ BPF_MODE(in.code) = "MEM"
  \/ BPF_CLASS(in.code) \in {"ST", "STX"}

DividesByK(in) ==
  /\ BPF_CLASS(in.code) = "ALU"
  /\ BPF_OP(in.code) \in {"DIV", "MOD"} /\ BPF_SRC(in.code) = "K"

KnownCode(c) ==
  \/ BPF_CLASS(c) \in {"LD", "LDX"} /\ BPF_MODE(c) \in {"IMM", "ABS", "IND", "MSH", "MEM", "LEN"}
  \/ BPF_CLASS(c) = "ALU" /\ BPF_OP(c) \in AluOps \cup {"NEG"}
  \/ BPF_CLASS(c) = "JMP" /\ BPF_OP(c) \in CondOps \cup {"JA"}
  \/ BPF_CLASS(c) \in {"ST", "STX", "RET", "MISC"}

\* An offset of 32 bits as a signed one.
bpf_int32(k) == IF 2 * k < WordSize THEN k ELSE k - WordSize

\* Plausible slip: signed arithmetic.
InProgramSigned(f, from, offset) == from + bpf_int32(offset) < Len(f)
InProgram(f, from, offset) == (from + offset) % WordSize < Len(f)

JumpsInside(f, i) ==
  BPF_CLASS(f[i].code) = "JMP" =>
     IF BPF_OP(f[i].code) = "JA"
       THEN InProgram(f, i, f[i].k)
       ELSE InProgram(f, i, f[i].jt) /\ InProgram(f, i, f[i].jf)

\* Plausible slip: the stores forgotten.
LoadsValid(f, i) ==
  /\ KnownCode(f[i].code)
  /\ UsesCell(f[i]) /\ BPF_CLASS(f[i].code) \in {"LD", "LDX"} => f[i].k < BPF_MEMWORDS
  /\ DividesByK(f[i]) => f[i].k # 0
  /\ JumpsInside(f, i)
InsnValid(f, i) ==
  /\ KnownCode(f[i].code)
  /\ UsesCell(f[i]) => f[i].k < BPF_MEMWORDS
  /\ DividesByK(f[i]) => f[i].k # 0
  /\ JumpsInside(f, i)

bpf_validate(f) ==
  /\ Len(f) >= 1
  /\ \A i \in 1..Len(f) : InsnValid(f, i)
  /\ BPF_CLASS(f[Len(f)].code) = "RET"

Init ==
  /\ call \in {c \in Calls : bpf_validate(c.prog)}
  /\ pc = 0 /\ A = 0 /\ X = 0
  /\ mem = [k \in 0..(BPF_MEMWORDS - 1) |-> Undefined]
  /\ result = Running /\ read = {}

-----------------------------------------------------------------------------
prog   == call.prog
insn   == prog[pc + 1]
code   == insn.code
buflen == Len(call.data)

Executes(codes) == result = Running /\ code \in codes

\* Plausible slip: the instruction repeated.
SameInsn(offset) == pc' = pc + offset
NextInsn(offset) == pc' = pc + 1 + offset

Return(value) ==
  /\ result' = value /\ read' = {}
  /\ UNCHANGED <<call, pc, registers>>

Continue(offset, fetched) ==
  /\ NextInsn(offset) /\ read' = fetched
  /\ UNCHANGED <<call, result>>

Ret ==
  /\ Executes({<<"RET", "-", "K">>, <<"RET", "-", "A">>})
  /\ Return(IF BPF_SRC(code) = "K" THEN insn.k ELSE A)

-----------------------------------------------------------------------------
(***************************************************************************)
(* Loads from the packet. Comparing what is left of it avoids the sum that *)
(* could wrap; the three sizes order the comparisons differently and mean  *)
(* the same. Bytes outside the packet could be anything.                   *)
(***************************************************************************)
SizeOf(size) == CASE size = "W" -> 4 [] size = "H" -> 2 [] OTHER -> 1

EXTRACT_SHORT(p, k) == p[k + 1] * ByteSize + p[k + 2]
\* Plausible slip: the bytes in the order of the machine.
EXTRACT_LITTLE(p, k) ==
  p[k + 1] + ByteSize * (p[k + 2] + ByteSize * (p[k + 3] + ByteSize * p[k + 4]))
EXTRACT_LONG(p, k) ==
  EXTRACT_SHORT(p, k) * ByteSize * ByteSize + EXTRACT_SHORT(p, k + 2)

Extracted(k, size) ==
  {w \in Word : k + SizeOf(size) <= buflen =>
     w = CASE size = "W" -> EXTRACT_LONG(call.data, k)
           [] size = "H" -> EXTRACT_SHORT(call.data, k)
           [] OTHER      -> call.data[k + 1]}

\* Plausible slip: the sum compared, which may have wrapped.
SumOutside(base, index, size) == (base + index + SizeOf(size)) % WordSize > buflen
Outside(base, index, size) ==
  \/ base > buflen \/ index > buflen - base
  \/ SizeOf(size) > buflen - ((base + index) % WordSize)

Ancillary == {SKF_AD_VLAN_TAG, SKF_AD_VLAN_TAG_PRESENT}

LoadVlan ==
  /\ Executes({<<"LD", "B", "ABS">>}) /\ insn.k \in Ancillary
  /\ IF call.aux = NoAux THEN Return(0) ELSE
       /\ A' = IF insn.k = SKF_AD_VLAN_TAG THEN call.aux.vlan_tag
                                           ELSE call.aux.vlan_tag_present
       /\ Continue(0, {}) /\ UNCHANGED <<X, mem>>

LoadPacket ==
  /\ Executes({"LD"} \X {"W", "H", "B"} \X {"ABS", "IND"})
  /\ code = <<"LD", "B", "ABS">> => insn.k \notin Ancillary
  /\ LET index == IF BPF_MODE(code) = "IND" THEN X ELSE 0
         k     == (index + insn.k) % WordSize
     IN  IF Outside(insn.k, index, BPF_SIZE(code)) THEN Return(0) ELSE
           /\ A' \in Extracted(k, BPF_SIZE(code))
           /\ Continue(0, k..(k + SizeOf(BPF_SIZE(code)) - 1)) /\ UNCHANGED <<X, mem>>

\* The length of an IPv4 header: four times the low half of a byte.
LoadHeaderLength ==
  /\ Executes({<<"LDX", "B", "MSH">>})
  /\ IF insn.k >= buflen THEN Return(0) ELSE
       /\ X' \in {w \in Word : w = 4 * (call.data[insn.k + 1] % 16)}
       /\ Continue(0, {insn.k}) /\ UNCHANGED <<A, mem>>

-----------------------------------------------------------------------------
\* What a register that is loaded from elsewhere may get.
Operand ==
  CASE BPF_MODE(code) = "LEN" -> {call.wirelen}
    [] BPF_MODE(code) = "IMM" -> {insn.k}
    [] OTHER -> IF mem[insn.k] = Undefined THEN Word ELSE {mem[insn.k]}

LoadOther ==
  /\ Executes({"LD", "LDX"} \X {"W"} \X {"LEN", "IMM", "MEM"})
  /\ \E w \in Operand : IF BPF_CLASS(code) = "LD" THEN A' = w /\ X' = X
                                                  ELSE X' = w /\ A' = A
  /\ Continue(0, {}) /\ UNCHANGED mem

Store ==
  /\ Executes({"ST", "STX"} \X {"W"} \X {"IMM"})
  /\ mem' = [mem EXCEPT ![insn.k] = IF BPF_CLASS(code) = "ST" THEN A ELSE X]
  /\ Continue(0, {}) /\ UNCHANGED <<A, X>>

Transfer ==
  /\ Executes({<<"MISC", "TAX", "-">>, <<"MISC", "TXA", "-">>})
  /\ IF BPF_OP(code) = "TAX" THEN X' = A /\ A' = A ELSE A' = X /\ X' = X
  /\ Continue(0, {}) /\ UNCHANGED mem

-----------------------------------------------------------------------------
BitNos    == {i \in 0..(4 * ByteSize) : 2 ^ i < WordSize}
Bit(w, i) == (w \div (2 ^ i)) % 2

\* The words that A op b may be: one, but for a division by zero and a shift
\* by 32 or more, which C leaves undefined.
AluResults(op, b) ==
  {w \in Word :
     CASE op = "ADD" -> w = (A + b) % WordSize
       [] op = "SUB" -> w = (A - b) % WordSize
       [] op = "MUL" -> w = (A * b) % WordSize
       [] op = "DIV" -> b # 0 => w = A \div b
       [] op = "MOD" -> b # 0 => w = A % b
       [] op = "AND" -> \A i \in BitNos : Bit(w, i) = Bit(A, i) * Bit(b, i)
       [] op = "OR"  -> \A i \in BitNos : (Bit(w, i) = 0) <=> (Bit(A, i) + Bit(b, i) = 0)
       [] op = "XOR" -> \A i \in BitNos : Bit(w, i) = (Bit(A, i) + Bit(b, i)) % 2
       [] op = "LSH" -> b \in BitNos => w = (A * (2 ^ b)) % WordSize
       [] op = "RSH" -> b \in BitNos => w = A \div (2 ^ b)
       [] op = "NEG" -> w = (-A) % WordSize}

Source == IF BPF_SRC(code) = "K" THEN insn.k ELSE X

DividesByZero == BPF_OP(code) \in {"DIV", "MOD"} /\ BPF_SRC(code) = "X" /\ X = 0

Alu ==
  /\ Executes(({"ALU"} \X AluOps \X {"K", "X"}) \cup {<<"ALU", "NEG", "K">>})
  /\ IF DividesByZero THEN Return(0) ELSE
       /\ A' \in AluResults(BPF_OP(code), Source)
       /\ Continue(0, {}) /\ UNCHANGED <<X, mem>>

-----------------------------------------------------------------------------
Holds(op) ==
  CASE op = "JGT" -> A > Source
    [] op = "JGE" -> A >= Source
    [] op = "JEQ" -> A = Source
    [] OTHER      -> \E i \in BitNos : Bit(A, i) = 1 /\ Bit(Source, i) = 1

JumpIf ==
  /\ Executes({"JMP"} \X CondOps \X {"K", "X"})
  /\ Continue(IF Holds(BPF_OP(code)) THEN insn.jt ELSE insn.jf, {})
  /\ UNCHANGED registers

JumpAlways ==
  /\ Executes({<<"JMP", "JA", "K">>})
  /\ Continue(bpf_int32(insn.k), {})
  /\ UNCHANGED registers

-----------------------------------------------------------------------------
\* The codes the switch has a case for. bpf_validate lets others through.
Implemented ==
  ({"LD"} \X {"W", "H", "B"} \X {"ABS", "IND"}) \cup {<<"LDX", "B", "MSH">>}
    \cup ({"LD", "LDX"} \X {"W"} \X {"LEN", "IMM", "MEM"}) \cup ({"ST", "STX"} \X {"W"} \X {"IMM"})
    \cup ({"ALU"} \X AluOps \X {"K", "X"}) \cup {<<"ALU", "NEG", "K">>}
    \cup ({"JMP"} \X CondOps \X {"K", "X"}) \cup {<<"JMP", "JA", "K">>}
    \cup {<<"RET", "-", "K">>, <<"RET", "-", "A">>, <<"MISC", "TAX", "-">>, <<"MISC", "TXA", "-">>}

Abort == result = Running /\ code \notin Implemented /\ Return(Aborted)

Next ==
  \/ Ret \/ LoadVlan \/ LoadPacket \/ LoadHeaderLength \/ LoadOther \/ Store
  \/ Transfer \/ Alu \/ JumpIf \/ JumpAlways \/ Abort

Spec == Init /\ [][Next]_vars /\ WF_vars(Next)

-----------------------------------------------------------------------------
\* The program is a valid one; the registers hold words, the scratch memory
\* words or nothing yet.
TypeOK ==
  /\ bpf_validate(prog)
  /\ pc \in Nat /\ A \in Word /\ X \in Word
  /\ mem \in [0..(BPF_MEMWORDS - 1) -> Word \cup {Undefined}]
  /\ result \in Word \cup {Running, Aborted}

\* A program that bpf_validate has let through never leaves the program,
\* never touches a scratch cell that does not exist and never divides by
\* zero, backward jumps included, whatever the packet.
StaysInside ==
  result = Running =>
    /\ pc < Len(prog)
    /\ UsesCell(insn) => insn.k \in DOMAIN mem
    /\ code \in {"ALU"} \X {"DIV", "MOD"} \X {"K", "X"} => Source # 0 \/ DividesByZero

\* Whatever offsets a program computes, wrapped around or not, no byte
\* outside the captured part of the packet is read.
ReadsInside == \A k \in read : k < buflen

\* A program without backward jumps comes to its end.
Forward == \A i \in DOMAIN prog : BPF_OP(prog[i].code) = "JA" => 2 * prog[i].k < WordSize
ForwardTerminates == Forward => <>(result # Running)
=============================================================================
