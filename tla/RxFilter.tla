------------------------------- MODULE RxFilter -------------------------------
(***************************************************************************)
(* The packet filter of the receiver: open_and_configure_interface of rx.c *)
(* asks pcap for the frames of the transmitter's address and port behind   *)
(* the header that the adapter puts before each frame.                     *)
(***************************************************************************)
EXTENDS BpfFilter

CONSTANTS
  Address,   \* the transmitter's, 0x13223344: four bytes
  Prefix,    \* 0x55, the byte before the port
  Port       \* argument of the receiver, two hexadecimal digits

\* The offsets the filters load from are words, and none of the ancillary ones.
ASSUME FilterAssumption ==
  /\ Address \in [1..4 -> Byte] /\ Prefix \in Byte /\ Port \in Byte
  /\ 78 \in Word /\ {2, 3} \cap Ancillary = {}

DLT_PRISM_HEADER == "DLT_PRISM_HEADER"
DLT_IEEE802_11_RADIO == "DLT_IEEE802_11_RADIO"

\* Bytes 10..13 of the 802.11 header hold the address, 14 and 15 the port.
AddressWord ==
  ByteSize * (ByteSize * (ByteSize * Address[1] + Address[2]) + Address[3]) + Address[4]
PortHalf == ByteSize * Prefix + Port

Insn(c, k)     == [code |-> c, k |-> k, jt |-> 0, jf |-> 0]
UnlessEqual(k) == [code |-> <<"JMP", "JEQ", "K">>, k |-> k, jt |-> 1, jf |-> 0]
Accept == Insn(<<"RET", "-", "K">>, WordSize - 1)
Reject == Insn(<<"RET", "-", "K">>, 0)

\* What pcap_compile makes of the two filter expressions, each RET 0 put
\* behind its comparison. radio[..] counts
\* from the start of the Prism header; ether[..] counts from the end of the
\* radiotap header, whose length is in its bytes 2 and 3, low byte first.
RxFilter(nLinkEncap, shift) ==
  IF nLinkEncap = DLT_PRISM_HEADER
    THEN << Insn(<<"LD", "W", "ABS">>, 74), UnlessEqual(AddressWord), Reject,
            Insn(<<"LD", "H", "ABS">>, 78), UnlessEqual(PortHalf), Reject, Accept >>
    ELSE << Insn(<<"LD", "B", "ABS">>, 3), Insn(<<"ALU", "LSH", "K">>, shift),
            Insn(<<"MISC", "TAX", "-">>, 0), Insn(<<"LD", "B", "ABS">>, 2),
            Insn(<<"ALU", "OR", "X">>, 0), Insn(<<"ST", "W", "IMM">>, 0),
            Insn(<<"MISC", "TAX", "-">>, 0), Insn(<<"LD", "W", "IND">>, 10),
            UnlessEqual(AddressWord), Reject,
            Insn(<<"LDX", "W", "MEM">>, 0), Insn(<<"LD", "H", "IND">>, 14),
            UnlessEqual(PortHalf), Reject, Accept >>

RxPrograms(shift) == {RxFilter(e, shift) : e \in {DLT_PRISM_HEADER, DLT_IEEE802_11_RADIO}}

-----------------------------------------------------------------------------
\* The bytes of a frame, header in front included, that name the sender.
IEEE80211At(nLinkEncap, p) ==
  IF nLinkEncap = DLT_PRISM_HEADER THEN 64 ELSE p[3] + ByteSize * p[4]

FromTransmitter(nLinkEncap, p) ==
  /\ Len(p) >= 4 /\ Len(p) >= IEEE80211At(nLinkEncap, p) + 16
  /\ SubSeq(p, IEEE80211At(nLinkEncap, p) + 11, IEEE80211At(nLinkEncap, p) + 16)
       = Address \o <<Prefix, Port>>

\* The receiver is given exactly the frames that carry the transmitter's
\* address and its own port, where the header of each frame says they are;
\* frames that were captured only in part it is not given.
RxFilterRight ==
  result # Running =>
    \A nLinkEncap \in {DLT_PRISM_HEADER, DLT_IEEE802_11_RADIO}, shift \in BitNos :
      prog = RxFilter(nLinkEncap, shift) /\ 2 ^ shift = ByteSize =>
        (result # 0 <=> FromTransmitter(nLinkEncap, call.data))
=============================================================================
