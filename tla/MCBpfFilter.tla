----------------------------- MODULE MCBpfFilter -----------------------------
(***************************************************************************)
(* Bytes of two bits, so that a word has eight and wraps around at 256.    *)
(* Programs: every pair of instructions of a small set before a RET, from  *)
(* zeroed registers and from A = 3, X = 254; and the receiver's filters,   *)
(* over frames that differ from the expected ones in one byte, or lack one.*)
(***************************************************************************)
EXTENDS RxFilter

RxAddress == <<1, 0, 2, 3>>
ByteBits  == 2

Modes == ({"LD", "LDX"} \X {"W"} \X {"LEN", "IMM", "MEM"}) \cup {<<"LDX", "B", "MSH">>}
           \cup ({"LD"} \X {"W", "H", "B"} \X {"ABS", "IND"}) \cup ({"ST", "STX"} \X {"W"} \X {"IMM"})
Others == {<<"MISC", "TAX", "-">>, <<"MISC", "TXA", "-">>, <<"ALU", "NEG", "K">>, <<"RET", "-", "A">>,
           <<"LDX", "H", "ABS">>, <<"ALU", "POW", "K">>}

Insns ==
  {Insn(c, k) : c \in Modes, k \in {0, 1, 254}} \cup {Insn(c, 0) : c \in Others}
    \cup {Insn(c, k) : c \in {<<"LD", "B", "ABS">>}, k \in {SKF_AD_VLAN_TAG, SKF_AD_VLAN_TAG_PRESENT}}
    \cup {Insn(c, k) : c \in {"ALU"} \X AluOps \X {"K", "X"}, k \in {0, 3}}
    \cup {Insn(<<"JMP", "JA", "K">>, k) : k \in {0, 1, 2, 254, 255}}
    \cup {[code |-> c, k |-> 3, jt |-> t, jf |-> 1 - t] :
            c \in {"JMP"} \X CondOps \X {"K", "X"}, t \in {0, 1}}

\* What comes first: something that fills a register or a cell, or jumps.
Firsts ==
  {Insn(<<"LDX", "W", "IMM">>, 254), Insn(<<"LD", "W", "IMM">>, 3), Insn(<<"LD", "W", "MEM">>, 0),
   Insn(<<"LD", "B", "ABS">>, 0), Insn(<<"ST", "W", "IMM">>, 0), Insn(<<"JMP", "JA", "K">>, 1),
   [code |-> <<"JMP", "JEQ", "K">>, k |-> 0, jt |-> 1, jf |-> 0]}

ReturnA  == Insn(<<"RET", "-", "A">>, 0)
Prologue == <<Insn(<<"LDX", "W", "IMM">>, 254), Insn(<<"LD", "W", "IMM">>, 3)>>

Programs ==
  {<<a, b, ReturnA>> : a \in Firsts, b \in Insns} \cup {<<b>> : b \in Insns}
    \cup {Prologue \o <<b, ReturnA>> : b \in Insns}

Zeros(n) == [k \in 1..n |-> 0]
Mac      == RxAddress \o <<Prefix, Port>>
Changed  == {Mac} \cup {[Mac EXCEPT ![k] = (@ + 1) % ByteSize] : k \in DOMAIN Mac}

Frames ==
  {Zeros(2) \o <<it_len % ByteSize, it_len \div ByteSize>> \o Zeros(it_len - 4 + 10) \o m :
     it_len \in {8, 11}, m \in Changed}
    \cup {Zeros(74) \o m : m \in Changed}
Cut == {SubSeq(p, 1, Len(p) - 1) : p \in Frames}

Call(f, data, aux) == [prog |-> f, data |-> data, wirelen |-> Len(data) + 1, aux |-> aux]

MCCalls ==
  {Call(f, data, NoAux) : f \in Programs, data \in {<<>>, <<2>>, <<3, 1, 0, 2, 1>>}}
    \cup {Call(<<b, ReturnA>>, <<2>>, [vlan_tag |-> 9, vlan_tag_present |-> 1]) : b \in Insns}
    \cup {Call(f, data, NoAux) : f \in RxPrograms(ByteBits), data \in Frames \cup Cut}
=============================================================================
