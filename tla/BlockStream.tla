----------------------------- MODULE BlockStream -----------------------------
(***************************************************************************)
(* What process_payload promises, without its ring: a window on the at     *)
(* most B newest blocks, in which packets are merged, and a stream of      *)
(* blocks written, each when a newer one needs its place, always the       *)
(* oldest.  Only a transmitter that restarts, with a block number below    *)
(* the newest one, may make it drop what it holds.                         *)
(*                                                                         *)
(* How a block is decoded is left to the parameter Decode.                 *)
(***************************************************************************)
EXTENDS Integers, FiniteSets

CONSTANTS
  B,           \* places in the window
  BlockNos,    \* the block numbers that come in
  Positions,   \* of the packets in a block
  Sessions,    \* what an intact packet holds
  Decode(_),   \* the packets of a block |-> what is written for them
  NoBlock      \* stands for the block written last before there is one

VARIABLES
  window,   \* of every block held: its packets
  newest,   \* the newest block seen
  written,  \* the block written last
  epoch     \* how many transmitter restarts were taken notice of

vars == <<window, newest, written, epoch>>

Alone(k, p) == [j \in Positions |-> IF j = k THEN p ELSE "missing"]

\* An intact packet is never given up for another copy.
Merged(block, k, p) ==
  [j \in Positions |-> IF j = k /\ block[k] \notin Sessions THEN p ELSE block[j]]

Held == DOMAIN window

Init == window = [b \in {} |-> {}] /\ newest = -1 /\ written = NoBlock /\ epoch = 0

Merge(b, k, p) ==
  /\ b \in Held
  /\ window' = [c \in Held |-> IF c = b THEN Merged(window[c], k, p) ELSE window[c]]
  /\ UNCHANGED <<newest, written, epoch>>

Open(b, k, p) ==
  /\ b > newest /\ p \in Sessions /\ Cardinality(Held) < B
  /\ window' = [c \in Held \cup {b} |-> IF c = b THEN Alone(k, p) ELSE window[c]]
  /\ newest' = b
  /\ UNCHANGED <<written, epoch>>

Slide(b, k, p) ==
  /\ b > newest /\ p \in Sessions /\ Cardinality(Held) = B
  /\ \E oldest \in Held :
       /\ \A c \in Held : oldest <= c
       /\ written' = [epoch |-> epoch, block_num |-> oldest,
                      failed |-> Decode(window[oldest]).failed,
                      data |-> Decode(window[oldest]).data]
       /\ window' = [c \in (Held \ {oldest}) \cup {b} |->
                       IF c = b THEN Alone(k, p) ELSE window[c]]
  /\ newest' = b
  /\ UNCHANGED epoch

Restart(b, k, p) ==
  /\ b < newest /\ p \in Sessions
  /\ window' = [c \in {b} |-> Alone(k, p)]
  /\ newest' = b /\ epoch' = epoch + 1
  /\ UNCHANGED written

Next ==
  \E b \in BlockNos, k \in Positions, p \in Sessions \cup {"corrupt"} :
    Merge(b, k, p) \/ Open(b, k, p) \/ Slide(b, k, p) \/ Restart(b, k, p)

Spec == Init /\ [][Next]_vars
=============================================================================
