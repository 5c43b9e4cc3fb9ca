--------------------------- MODULE MCPacketHeader ---------------------------
(***************************************************************************)
(* Frames for the model checker: headers with every choice of a wide, a    *)
(* compound, an unaligned and an unknown argument, up to two further       *)
(* present words, stated lengths that cut them off anywhere. Payloads are  *)
(* one byte short of the 802.11 header, or 2 or 16 bytes behind it, the    *)
(* frame check sequence included. Version 1 comes with one header only.    *)
(***************************************************************************)
EXTENDS PacketHeader

IEEE80211HeaderLength == 24

Bits == {TSFT, FLAGS, CHANNEL, 5, 14}

Frame(version, it_len, bits, extensions, flags, more) ==
  [it_version |-> version, it_len |-> it_len, extensions |-> extensions, flags |-> flags,
   present |-> IF extensions > 0 THEN bits \cup {EXT} ELSE bits,
   len |-> it_len + more]

MCFrames ==
  {Frame(0, it_len, bits, extensions, flags, more) :
     it_len \in {8, 11, 14, 17, 24, 36}, bits \in SUBSET Bits, extensions \in 0..2,
     flags \in FlagBytes, more \in {23, 26, 40}}
    \cup {Frame(1, 24, {FLAGS}, 0, {}, 40)}
=============================================================================
