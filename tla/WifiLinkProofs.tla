--------------------------- MODULE WifiLinkProofs ---------------------------
(***************************************************************************)
(* The receiver for every number of adapters and buffers, every block      *)
(* geometry and every order in which packets arrive: first the ring of     *)
(* block buffers by itself (BlockReceiver), then the select loop that      *)
(* feeds it (WifiLink).                                                    *)
(***************************************************************************)
EXTENDS WifiLink, FecBlockProofs, FunctionTheorems, SequenceTheorems

(***************************************************************************)
(* The ring of block buffers for every number of buffers, every block      *)
(* geometry and every order in which packets arrive.                       *)
(*                                                                         *)
(* LatestBlocksBuffered is inductive with the types; the order of the      *)
(* output needs in addition that what was written last is older than all   *)
(* that is buffered (OutputBehind).                                        *)
(*                                                                         *)
(* A buffer that leaves the ring goes through the decoder: what comes out  *)
(* follows from the facts about Substitutions in FecBlockProofs. Last, the *)
(* ring implements the window of BlockStream.                              *)
(***************************************************************************)

OutputBehind ==
  /\ stdout.epoch <= epoch
  /\ stdout.epoch = epoch => stdout.block_num <= max_block_num
  /\ stdout.epoch = epoch =>
       \A n \in Buffers : block_num[n] # -1 => stdout.block_num < block_num[n]

IInv == TypeOK /\ LatestBlocksBuffered /\ OutputBehind

-----------------------------------------------------------------------------
LEMMA Geometry ==
  /\ B \in Nat /\ B > 0 /\ 0 \in Buffers /\ Buffers \subseteq Int
  /\ PacketsPerBlock \in Nat /\ PacketsPerBlock > 0
  /\ RestartFactor * B \in Nat
BY BlockAssumption, ReceiverAssumption
   DEF Buffers, PacketsPerBlock, MAX_DATA_OR_FEC_PACKETS_PER_BLOCK

\* A sequence number is a block number and a position in the block.
LEMMA SequenceNumber ==
  ASSUME NEW seq \in SequenceNumbers
  PROVE  BlockOf(seq) \in Nat /\ SlotOf(seq) \in Slots
<1>1. seq \in Nat /\ PacketsPerBlock \in Nat /\ PacketsPerBlock > 0
  BY Geometry DEF SequenceNumbers
<1>2. Slots = 0..(PacketsPerBlock - 1)
  BY BlockAssumption DEF Slots, PacketsPerBlock, MAX_DATA_OR_FEC_PACKETS_PER_BLOCK
<1> HIDE DEF PacketsPerBlock
<1>3. seq \div PacketsPerBlock \in Nat /\ seq % PacketsPerBlock \in 0..(PacketsPerBlock - 1)
  BY <1>1
<1> QED
  BY <1>2, <1>3 DEF BlockOf, SlotOf

LEMMA EmptyType == Empty \in [Slots -> Packet]
BY DEF Empty, Packet

\* Storing a packet keeps the buffers' type and touches only the buffer of the packet's block.
LEMMA StoreFacts ==
  ASSUME NEW nums \in [Buffers -> Nat \cup {-1}],
         NEW lists \in [Buffers -> [Slots -> Packet]],
         NEW b \in Nat, NEW k \in Slots, NEW p \in Packet
  PROVE  /\ Store(nums, lists, b, k, p) \in [Buffers -> [Slots -> Packet]]
         /\ \A n \in Buffers : nums[n] # b => Store(nums, lists, b, k, p)[n] = lists[n]
BY DEF Store, Overwritable

\* An intact packet is not overwritten.
LEMMA StoreKeeps ==
  ASSUME NEW nums,
         NEW lists \in [Buffers -> [Slots -> Packet]],
         NEW b, NEW k \in Slots, NEW p,
         NEW n \in Buffers, NEW j \in Slots, lists[n][j] \in Sessions
  PROVE  Store(nums, lists, b, k, p)[n][j] = lists[n][j]
BY DEF Store, Overwritable

\* What fec_decode makes of a block is written or withheld DATA by DATA.
LEMMA DecodedType ==
  ASSUME NEW list
  PROVE  /\ Decoded(list).failed \in BOOLEAN
         /\ Decoded(list).data \in [DataNos -> Written]
<1> DEFINE data   == DataOf(list)
           fec    == FecOf(list)
           dstat  == [d \in DataNos |-> StatusOf(data[d])]
           fstat  == [f \in FecNos |-> StatusOf(fec[f])]
           failed == ReconstructionFailed(dstat, fstat)
           pairs  == Substitutions(dstat, fstat)
           out(d) == IF failed /\ data[d] = "missing" THEN "none"
                     ELSE IF \E f \in FecNos : <<d, f>> \in pairs THEN Solved(data, fec, pairs)
                     ELSE IF data[d] \in Sessions THEN data[d] ELSE "garbage"
<1>1. Decoded(list) = [failed |-> failed, data |-> [d \in DataNos |-> out(d)]]
  BY DEF Decoded
<1>2. failed \in BOOLEAN
  BY DEF ReconstructionFailed
<1>3. Solved(data, fec, pairs) \in Written
  BY DEF Solved, Written
<1> HIDE DEF data, fec, failed, pairs
<1>4. \A d \in DataNos : out(d) \in Written
  BY <1>3 DEF Written
<1> HIDE DEF out
<1> QED
  BY <1>1, <1>2, <1>4

-----------------------------------------------------------------------------
LEMMA InitInvariant == Init => IInv
<1> SUFFICES ASSUME Init PROVE IInv
  OBVIOUS
<1>1. TypeOK
  BY EmptyType DEF Init, TypeOK
<1>2. LatestBlocksBuffered
  BY DEF Init, LatestBlocksBuffered, Buffered
<1>3. OutputBehind
  BY DEF Init, OutputBehind, NoBlock
<1> QED
  BY <1>1, <1>2, <1>3 DEF IInv

LEMMA StdoutType ==
  ASSUME TypeOK
  PROVE  stdout.block_num \in Int /\ stdout.epoch \in Nat
BY DEF TypeOK, Block, NoBlock

LEMMA BufferInvariant ==
  ASSUME IInv, NEW seq \in SequenceNumbers, NEW p \in Received, BufferPacket(seq, p)
  PROVE  IInv'
<1> DEFINE b == BlockOf(seq)
<1>1. b \in Nat /\ SlotOf(seq) \in Slots /\ p \in Packet
  BY SequenceNumber DEF Received, Packet
<1>2. /\ block_num' = block_num /\ max_block_num' = max_block_num /\ opened' = opened
      /\ epoch' = epoch /\ stdout' = stdout
      /\ blocks_received' = blocks_received /\ blocks_damaged' = blocks_damaged
      /\ packet_list' = Store(block_num, packet_list, b, SlotOf(seq), p)
  BY DEF BufferPacket, output, history
<1>3. /\ packet_list' \in [Buffers -> [Slots -> Packet]]
      /\ \A n \in Buffers : block_num[n] # b => packet_list'[n] = packet_list[n]
  <2>1. /\ block_num \in [Buffers -> Nat \cup {-1}]
        /\ packet_list \in [Buffers -> [Slots -> Packet]]
    BY DEF IInv, TypeOK
  <2> HIDE DEF b
  <2> QED
    BY <1>1, <1>2, <2>1, StoreFacts
<1>4. TypeOK'
  BY <1>2, <1>3 DEF IInv, TypeOK
<1>5. LatestBlocksBuffered'
  BY <1>1, <1>2, <1>3 DEF IInv, LatestBlocksBuffered, Buffered
<1>6. OutputBehind'
  BY <1>2 DEF IInv, OutputBehind
<1> QED
  BY <1>4, <1>5, <1>6 DEF IInv

LEMMA OpenInvariant ==
  ASSUME IInv, NEW seq \in SequenceNumbers, NEW p \in Received, OpenBlock(seq, p)
  PROVE  IInv'
<1> DEFINE b == BlockOf(seq)
<1>1. b \in Nat /\ SlotOf(seq) \in Slots /\ p \in Packet
  BY SequenceNumber DEF Received, Packet
<1>2. PICK v \in Buffers :
        /\ block_num[v] = -1 /\ block_num' = [block_num EXCEPT ![v] = b]
        /\ packet_list' = Store(block_num', packet_list, b, SlotOf(seq), p)
  BY DEF OpenBlock
<1>3. /\ b > max_block_num /\ max_block_num' = b /\ opened' = opened \cup {b}
      /\ epoch' = epoch /\ stdout' = stdout
      /\ blocks_received' = blocks_received /\ blocks_damaged' = blocks_damaged
  BY DEF OpenBlock, NewBlock, output
<1>4. /\ block_num' \in [Buffers -> Nat \cup {-1}] /\ block_num'[v] = b
      /\ \A n \in Buffers : n # v => block_num'[n] = block_num[n]
  BY <1>1, <1>2 DEF IInv, TypeOK
<1>5. /\ packet_list' \in [Buffers -> [Slots -> Packet]]
      /\ \A n \in Buffers : block_num'[n] # b => packet_list'[n] = packet_list[n]
  <2>1. packet_list \in [Buffers -> [Slots -> Packet]]
    BY DEF IInv, TypeOK
  <2> HIDE DEF b
  <2>2. /\ Store(block_num', packet_list, b, SlotOf(seq), p) \in [Buffers -> [Slots -> Packet]]
        /\ \A n \in Buffers :
             block_num'[n] # b => Store(block_num', packet_list, b, SlotOf(seq), p)[n] = packet_list[n]
    <3>1. block_num' \in [Buffers -> Nat \cup {-1}]
      BY <1>4
    <3> QED
      BY <1>1, <2>1, <3>1, StoreFacts
  <2> QED
    BY <1>2, <2>2
<1>6. TypeOK'
  BY <1>1, <1>3, <1>4, <1>5 DEF IInv, TypeOK
<1>7. \A n \in Buffers : block_num[n] \in Nat \cup {-1} /\ block_num[n] # b
  <2> TAKE n \in Buffers
  <2>1. block_num[n] # -1 => block_num[n] <= max_block_num
    BY DEF IInv, TypeOK, LatestBlocksBuffered, Buffered
  <2> QED
    BY <1>1, <1>3, <2>1 DEF IInv, TypeOK
<1>8. Buffered' = Buffered \cup {b}
  BY <1>1, <1>2, <1>4, <1>7 DEF Buffered
<1>9. LatestBlocksBuffered'
  <2>1. \A n, j \in Buffers : block_num'[n] = block_num'[j] => n = j \/ block_num'[n] = -1
    BY <1>4, <1>7 DEF IInv, LatestBlocksBuffered
  <2>2. \A n \in Buffers : block_num'[n] = -1 => packet_list'[n] = Empty
    BY <1>1, <1>4, <1>5 DEF IInv, LatestBlocksBuffered
  <2>3. max_block_num' \in Buffered' /\ Buffered' \subseteq opened'
    BY <1>3, <1>8 DEF IInv, LatestBlocksBuffered
  <2>4. \A o \in opened' : o <= max_block_num'
    BY <1>1, <1>3 DEF IInv, TypeOK, LatestBlocksBuffered
  <2>5. opened' \ Buffered' = {}
    <3>1. opened \ Buffered = {}
      BY <1>2 DEF IInv, TypeOK, LatestBlocksBuffered
    <3> QED
      BY <1>3, <1>8, <3>1
  <2> QED
    BY <2>1, <2>2, <2>3, <2>4, <2>5 DEF LatestBlocksBuffered
<1>10. OutputBehind'
  <2>1. stdout.epoch = epoch => stdout.block_num < b
    BY <1>1, <1>3, StdoutType DEF IInv, TypeOK, OutputBehind
  <2> QED
    BY <1>1, <1>3, <1>4, <2>1, StdoutType DEF IInv, OutputBehind
<1> QED
  BY <1>6, <1>9, <1>10 DEF IInv

LEMMA FlushInvariant ==
  ASSUME IInv, NEW seq \in SequenceNumbers, NEW p \in Received, FlushBlock(seq, p)
  PROVE  IInv'
<1> DEFINE b == BlockOf(seq)
<1>1. b \in Nat /\ SlotOf(seq) \in Slots /\ p \in Packet
  BY SequenceNumber DEF Received, Packet
<1>2. PICK v \in Buffers :
        /\ IsVictim(block_num, v) /\ block_num[v] # -1
        /\ CountBlock(Flushed(v).failed)
        /\ stdout' = [epoch |-> epoch, block_num |-> block_num[v],
                      failed |-> Flushed(v).failed, data |-> Flushed(v).data]
        /\ block_num' = [block_num EXCEPT ![v] = b]
        /\ packet_list' = Store(block_num', ResetBuffers(v), b, SlotOf(seq), p)
  BY DEF FlushBlock
<1>3. /\ b > max_block_num /\ max_block_num' = b /\ opened' = opened \cup {b} /\ epoch' = epoch
  BY DEF FlushBlock, NewBlock
<1>4. /\ block_num' \in [Buffers -> Nat \cup {-1}] /\ block_num'[v] = b
      /\ \A n \in Buffers : n # v => block_num'[n] = block_num[n]
  BY <1>1, <1>2 DEF IInv, TypeOK
<1>5. /\ packet_list' \in [Buffers -> [Slots -> Packet]]
      /\ \A n \in Buffers : block_num'[n] # b => packet_list'[n] = packet_list[n]
  <2> DEFINE lists == [packet_list EXCEPT ![v] = Empty]
  <2>1. lists \in [Buffers -> [Slots -> Packet]]
    BY EmptyType DEF IInv, TypeOK
  <2>2. \A n \in Buffers : n # v => lists[n] = packet_list[n]
    BY DEF IInv, TypeOK
  <2> HIDE DEF b, lists
  <2> QED
    <3>1. block_num' \in [Buffers -> Nat \cup {-1}] /\ block_num'[v] = b
      BY <1>4
    <3>2. /\ Store(block_num', lists, b, SlotOf(seq), p) \in [Buffers -> [Slots -> Packet]]
          /\ \A n \in Buffers : block_num'[n] # b => Store(block_num', lists, b, SlotOf(seq), p)[n] = lists[n]
      BY <1>1, <2>1, <3>1, StoreFacts
    <3>3. packet_list' = Store(block_num', lists, b, SlotOf(seq), p)
      BY <1>2 DEF lists, b, ResetBuffers
    <3> QED
      BY <2>2, <3>1, <3>2, <3>3
<1>6. block_num[v] \in Nat /\ (\A n \in Buffers : n # v => block_num[v] < block_num[n])
  BY <1>2 DEF IInv, TypeOK, LatestBlocksBuffered, IsVictim
<1>7. stdout' \in Block /\ blocks_received' \in Nat /\ blocks_damaged' \in 0..blocks_received'
  <2>1. Flushed(v).failed \in BOOLEAN /\ Flushed(v).data \in [DataNos -> Written]
    BY DecodedType DEF Flushed
  <2>2. stdout' \in Block
    BY <1>2, <1>6, <2>1 DEF Block, IInv, TypeOK
  <2>3. blocks_received' \in Nat /\ blocks_damaged' \in 0..blocks_received'
    BY <1>2 DEF CountBlock, IInv, TypeOK
  <2> QED
    BY <2>2, <2>3
<1>8. TypeOK'
  BY <1>1, <1>3, <1>4, <1>5, <1>7 DEF IInv, TypeOK
<1>9. \A n \in Buffers : block_num[n] \in Nat \cup {-1} /\ block_num[n] < b
  <2> TAKE n \in Buffers
  <2>1. block_num[n] # -1 => block_num[n] <= max_block_num
    BY DEF IInv, TypeOK, LatestBlocksBuffered, Buffered
  <2> QED
    BY <1>1, <1>3, <2>1 DEF IInv, TypeOK
<1>10. Buffered' = (Buffered \ {block_num[v]}) \cup {b}
  BY <1>1, <1>4, <1>6 DEF Buffered
<1>11. LatestBlocksBuffered'
  <2>1. \A n, j \in Buffers : block_num'[n] = block_num'[j] => n = j \/ block_num'[n] = -1
    BY <1>4, <1>9 DEF IInv, LatestBlocksBuffered
  <2>2. \A n \in Buffers : block_num'[n] = -1 => packet_list'[n] = Empty
    BY <1>1, <1>4, <1>5 DEF IInv, LatestBlocksBuffered
  <2>3. max_block_num' \in Buffered' /\ Buffered' \subseteq opened'
    BY <1>3, <1>10 DEF IInv, LatestBlocksBuffered
  <2>4. \A o \in opened' : o <= max_block_num'
    BY <1>1, <1>3 DEF IInv, TypeOK, LatestBlocksBuffered
  <2>5. ASSUME NEW o \in opened' \ Buffered', NEW n \in Buffers
        PROVE  o < block_num'[n]
    <3>1. o \in Nat /\ (o \in opened \ Buffered \/ o = block_num[v])
      BY <1>3, <1>6, <1>10 DEF IInv, TypeOK
    <3>2. o <= block_num[v]
      BY <1>6, <3>1 DEF IInv, LatestBlocksBuffered
    <3> QED
      BY <1>1, <1>4, <1>6, <1>9, <3>1, <3>2
  <2> QED
    BY <2>1, <2>2, <2>3, <2>4, <2>5 DEF LatestBlocksBuffered
<1>12. OutputBehind'
  <2>1. stdout'.epoch = epoch /\ stdout'.block_num = block_num[v]
    BY <1>2
  <2>2. block_num[v] <= b
    BY <1>1, <1>6, <1>9
  <2>3. \A n \in Buffers : block_num[v] < block_num'[n]
    BY <1>4, <1>6, <1>9
  <2> QED
    BY <1>3, <2>1, <2>2, <2>3 DEF OutputBehind, IInv, TypeOK
<1> QED
  BY <1>8, <1>11, <1>12 DEF IInv

LEMMA RestartInvariant ==
  ASSUME IInv, NEW seq \in SequenceNumbers, NEW p \in Received, RestartRing(seq, p)
  PROVE  IInv'
<1> DEFINE b == BlockOf(seq)
<1>1. b \in Nat /\ SlotOf(seq) \in Slots /\ p \in Packet
  BY SequenceNumber DEF Received, Packet
<1>2. /\ block_num' = [n \in Buffers |-> IF n = 0 THEN b ELSE -1]
      /\ packet_list' = Store(block_num', [n \in Buffers |-> Empty], b, SlotOf(seq), p)
      /\ max_block_num' = b /\ epoch' = epoch + 1 /\ opened' = {b}
      /\ stdout' = stdout /\ blocks_received' = blocks_received /\ blocks_damaged' = blocks_damaged
  BY DEF RestartRing, output
<1>3. /\ block_num' \in [Buffers -> Nat \cup {-1}] /\ block_num'[0] = b
      /\ \A n \in Buffers : n # 0 => block_num'[n] = -1
  BY <1>1, <1>2, Geometry
<1>4. /\ packet_list' \in [Buffers -> [Slots -> Packet]]
      /\ \A n \in Buffers : block_num'[n] # b => packet_list'[n] = Empty
  <2>1. [n \in Buffers |-> Empty] \in [Buffers -> [Slots -> Packet]]
    BY EmptyType
  <2> DEFINE lists == [n \in Buffers |-> Empty]
  <2>2. \A n \in Buffers : lists[n] = Empty
    OBVIOUS
  <2>3. packet_list' = Store(block_num', lists, b, SlotOf(seq), p)
    BY <1>2
  <2> HIDE DEF b, lists
  <2>4. block_num' \in [Buffers -> Nat \cup {-1}]
    BY <1>3
  <2>5. /\ Store(block_num', lists, b, SlotOf(seq), p) \in [Buffers -> [Slots -> Packet]]
        /\ \A n \in Buffers : block_num'[n] # b => Store(block_num', lists, b, SlotOf(seq), p)[n] = lists[n]
    BY <1>1, <2>1, <2>4, StoreFacts DEF lists
  <2> QED
    BY <2>2, <2>3, <2>5
<1>5. TypeOK'
  BY <1>1, <1>2, <1>3, <1>4 DEF IInv, TypeOK
<1>6. Buffered' = {b}
  <2>1. Buffered' = {block_num'[n] : n \in Buffers} \ {-1}
    BY DEF Buffered
  <2>2. 0 \in Buffers /\ b \in Nat
    BY <1>1, Geometry
  <2>3. b \in Buffered' /\ Buffered' \subseteq {b}
    BY <1>3, <2>1, <2>2
  <2>4. QED
    BY <2>3
<1>7. LatestBlocksBuffered'
  BY <1>1, <1>2, <1>3, <1>4, <1>6 DEF LatestBlocksBuffered
<1>8. OutputBehind'
  BY <1>2, StdoutType DEF IInv, TypeOK, OutputBehind
<1> QED
  BY <1>5, <1>7, <1>8 DEF IInv

LEMMA StepInvariant == IInv /\ [Next]_vars => IInv'
<1> SUFFICES ASSUME IInv, [Next]_vars PROVE IInv'
  OBVIOUS
<1>1. ASSUME NEW seq \in SequenceNumbers, NEW p \in Received, process_payload(seq, p)
      PROVE  IInv'
  BY <1>1, BufferInvariant, OpenInvariant, FlushInvariant, RestartInvariant DEF process_payload
<1>2. CASE UNCHANGED vars
  <2>1. /\ block_num' = block_num /\ packet_list' = packet_list /\ max_block_num' = max_block_num
        /\ blocks_received' = blocks_received /\ blocks_damaged' = blocks_damaged
        /\ stdout' = stdout /\ epoch' = epoch /\ opened' = opened
    BY <1>2 DEF vars, ring, output, history
  <2> QED
    BY <2>1 DEF IInv, TypeOK, LatestBlocksBuffered, Buffered, OutputBehind
<1> QED
  BY <1>1, <1>2 DEF Next

THEOREM Invariant == Spec => []IInv
<1>1. Init => IInv
  BY InitInvariant
<1>2. IInv /\ [Next]_vars => IInv'
  BY StepInvariant
<1> QED
  BY <1>1, <1>2, PTL DEF Spec

-----------------------------------------------------------------------------
\* process_payload keeps every variable within its type: no block number but
\* -1 is negative and no more blocks are counted as damaged than as received.
THEOREM TypeCorrect == Spec => []TypeOK
BY Invariant, PTL DEF IInv

\* However the packets arrive, the ring of process_payload is a window on the
\* newest blocks: none has two buffers, and one that lost its buffer is older
\* than all that have one.
THEOREM WindowHolds == Spec => []LatestBlocksBuffered
BY Invariant, PTL DEF IInv

\* Between two transmitter restarts process_payload writes the blocks to STDOUT
\* in increasing order, none of them twice.
THEOREM OrderHolds == Spec => OutputInOrder
<1> DEFINE InOrder == stdout' # stdout /\ stdout'.epoch = stdout.epoch
                        => stdout'.block_num > stdout.block_num
<1>1. IInv /\ [Next]_vars => InOrder
  <2> SUFFICES ASSUME IInv, [Next]_vars, stdout' # stdout, stdout'.epoch = stdout.epoch
               PROVE  stdout'.block_num > stdout.block_num
    OBVIOUS
  <2>1. PICK seq \in SequenceNumbers, p \in Received : FlushBlock(seq, p)
    BY DEF Next, process_payload, BufferPacket, OpenBlock, RestartRing, vars, output
  <2>2. PICK v \in Buffers :
          /\ block_num[v] # -1
          /\ stdout' = [epoch |-> epoch, block_num |-> block_num[v],
                        failed |-> Flushed(v).failed, data |-> Flushed(v).data]
    BY <2>1 DEF FlushBlock
  <2>3. stdout'.epoch = epoch /\ stdout'.block_num = block_num[v]
    BY <2>2
  <2>4. stdout.block_num < block_num[v]
    BY <2>2, <2>3 DEF IInv, OutputBehind
  <2>5. stdout.block_num \in Int /\ block_num[v] \in Int
    BY StdoutType DEF IInv, TypeOK
  <2> QED
    BY <2>3, <2>4, <2>5
<1> QED
  BY <1>1, Invariant, PTL DEF Spec, OutputInOrder

\* No packet received intact is overwritten or forgotten by process_payload
\* before its block is written, unless a transmitter restart is detected.
THEOREM IntactHolds == Spec => IntactPacketKept
<1> DEFINE Kept(n, k) == \/ packet_list'[n][k] = packet_list[n][k]
                         \/ stdout'.block_num = block_num[n] /\ block_num'[n] # block_num[n]
<1>1. ASSUME IInv, [Next]_vars, epoch' = epoch,
             NEW n \in Buffers, NEW k \in Slots, packet_list[n][k] \in Sessions
      PROVE  Kept(n, k)
  <2>0. /\ block_num \in [Buffers -> Nat \cup {-1}]
        /\ packet_list \in [Buffers -> [Slots -> Packet]]
    BY <1>1 DEF IInv, TypeOK
  <2>6. packet_list[n][k] \in Sessions
    BY <1>1
  <2>1. CASE UNCHANGED vars
    BY <2>1 DEF vars, ring
  <2>2. ASSUME NEW seq \in SequenceNumbers, NEW p \in Received, BufferPacket(seq, p)
        PROVE  Kept(n, k)
    <3>1. BlockOf(seq) \in Nat /\ SlotOf(seq) \in Slots /\ p \in Packet
      BY <2>2, SequenceNumber DEF Received, Packet
    <3>2. packet_list' = Store(block_num, packet_list, BlockOf(seq), SlotOf(seq), p)
      BY <2>2 DEF BufferPacket
    <3> QED
      BY <2>0, <2>6, <3>1, <3>2, StoreKeeps
  <2>3. ASSUME NEW seq \in SequenceNumbers, NEW p \in Received, OpenBlock(seq, p)
        PROVE  Kept(n, k)
    <3>1. BlockOf(seq) \in Nat /\ SlotOf(seq) \in Slots /\ p \in Packet
      BY <2>3, SequenceNumber DEF Received, Packet
    <3>2. packet_list' = Store(block_num', packet_list, BlockOf(seq), SlotOf(seq), p)
      BY <2>3 DEF OpenBlock
    <3>4. Store(block_num', packet_list, BlockOf(seq), SlotOf(seq), p)[n][k] = packet_list[n][k]
      BY <2>0, <2>6, <3>1, StoreKeeps
    <3> QED
      BY <3>2, <3>4
  <2>4. ASSUME NEW seq \in SequenceNumbers, NEW p \in Received, FlushBlock(seq, p)
        PROVE  Kept(n, k)
    <3> DEFINE b == BlockOf(seq)
    <3>1. b \in Nat /\ SlotOf(seq) \in Slots /\ p \in Packet /\ b > max_block_num
      BY <2>4, SequenceNumber DEF Received, Packet, FlushBlock, NewBlock
    <3>2. PICK v \in Buffers :
            /\ stdout' = [epoch |-> epoch, block_num |-> block_num[v],
                          failed |-> Flushed(v).failed, data |-> Flushed(v).data]
            /\ block_num[v] # -1
            /\ block_num' = [block_num EXCEPT ![v] = b]
            /\ packet_list' = Store(block_num', ResetBuffers(v), b, SlotOf(seq), p)
      BY <2>4 DEF FlushBlock
    <3>3. CASE n = v
      <4>1. block_num[v] <= max_block_num
        BY <1>1, <3>2 DEF IInv, LatestBlocksBuffered, Buffered
      <4>2. block_num'[v] = b /\ block_num[v] \in Int /\ max_block_num \in Int
        BY <1>1, <2>0, <3>2 DEF IInv, TypeOK
      <4> QED
        BY <3>1, <3>2, <3>3, <4>1, <4>2
    <3>4. CASE n # v
      <4> DEFINE lists == [packet_list EXCEPT ![v] = Empty]
      <4>1. lists \in [Buffers -> [Slots -> Packet]] /\ lists[n] = packet_list[n]
        BY <2>0, <3>4, EmptyType
      <4>3. packet_list' = Store(block_num', lists, b, SlotOf(seq), p)
        BY <3>2 DEF ResetBuffers
      <4> HIDE DEF lists, b
      <4>4. Store(block_num', lists, b, SlotOf(seq), p)[n][k] = lists[n][k]
        <5>1. lists[n][k] \in Sessions
          BY <4>1, <2>6
        <5> QED
          BY <3>1, <4>1, <5>1, StoreKeeps
      <4> QED
        BY <4>1, <4>3, <4>4
    <3> QED
      BY <3>3, <3>4
  <2>5. ASSUME NEW seq \in SequenceNumbers, NEW p \in Received, RestartRing(seq, p)
        PROVE  FALSE
    BY <1>1, <2>5 DEF RestartRing, IInv, TypeOK
  <2> QED
    BY <1>1, <2>1, <2>2, <2>3, <2>4, <2>5 DEF Next, process_payload
<1>2. IInv /\ [Next]_vars =>
        (epoch' = epoch =>
           \A n \in Buffers, k \in Slots : packet_list[n][k] \in Sessions => Kept(n, k))
  BY <1>1
<1> QED
  BY <1>2, Invariant, PTL DEF Spec, IntactPacketKept

-----------------------------------------------------------------------------
(***************************************************************************)
(* What is decoded.                                                        *)
(***************************************************************************)
DataStatus(list) == [d \in DataNos |-> StatusOf(DataOf(list)[d])]
FecStatus(list)  == [f \in FecNos |-> StatusOf(FecOf(list)[f])]
Chosen(list)     == Substitutions(DataStatus(list), FecStatus(list))

\* Every DATA and every FEC of a block has a position in it.
LEMMA Positions ==
  /\ \A d \in DataNos : DataSlot(d) \in Slots
  /\ \A f \in FecNos : FecSlot(f) \in Slots
BY Bounds DEF DataNos, FecNos, Slots, DataSlot, FecSlot, Lesser

LEMMA StatusFacts ==
  ASSUME NEW list \in [Slots -> Packet]
  PROVE  /\ DataStatus(list) \in [DataNos -> Status]
         /\ FecStatus(list) \in [FecNos -> Status]
         /\ \A d \in DataNos :
              /\ DataOf(list)[d] \in Packet
              /\ DataStatus(list)[d] = "good" <=> DataOf(list)[d] \in Sessions
              /\ DataStatus(list)[d] = "missing" <=> DataOf(list)[d] = "missing"
         /\ \A f \in FecNos :
              /\ FecOf(list)[f] \in Packet
              /\ FecStatus(list)[f] = "good" <=> FecOf(list)[f] \in Sessions
              /\ FecStatus(list)[f] = "corrupt" <=> FecOf(list)[f] = "corrupt"
<1>1. \A p \in Packet : /\ StatusOf(p) \in Status
                        /\ StatusOf(p) = "good" <=> p \in Sessions
                        /\ StatusOf(p) = "missing" <=> p = "missing"
                        /\ StatusOf(p) = "corrupt" <=> p = "corrupt"
  BY ReceiverAssumption DEF StatusOf, Packet, Status
<1>2. /\ \A d \in DataNos : DataOf(list)[d] = list[DataSlot(d)] /\ DataOf(list)[d] \in Packet
      /\ \A f \in FecNos : FecOf(list)[f] = list[FecSlot(f)] /\ FecOf(list)[f] \in Packet
  BY Positions DEF DataOf, FecOf
<1> HIDE DEF DataOf, FecOf
<1>3. QED
  BY <1>1, <1>2 DEF DataStatus, FecStatus

\* Decoding, in these terms.
LEMMA DecodedIs ==
  ASSUME NEW list, NEW d \in DataNos
  PROVE  /\ Decoded(list).failed = ReconstructionFailed(DataStatus(list), FecStatus(list))
         /\ Decoded(list).data[d] =
              IF Decoded(list).failed /\ DataOf(list)[d] = "missing" THEN "none"
              ELSE IF \E f \in FecNos : <<d, f>> \in Chosen(list)
                   THEN Solved(DataOf(list), FecOf(list), Chosen(list))
              ELSE IF DataOf(list)[d] \in Sessions THEN DataOf(list)[d] ELSE "garbage"
BY DEF Decoded, DataStatus, FecStatus, Chosen

\* An intact DATA is decoded to itself.
LEMMA IntactDecoded ==
  ASSUME NEW list \in [Slots -> Packet], NEW d \in DataNos, list[DataSlot(d)] \in Sessions
  PROVE  Decoded(list).data[d] = list[DataSlot(d)]
<1>1. DataOf(list)[d] = list[DataSlot(d)] /\ DataOf(list)[d] # "missing"
  BY ReceiverAssumption DEF DataOf
<1>2. DataStatus(list)[d] = "good"
  BY <1>1, StatusFacts
<1>3. Chosen(list) \subseteq Pairs(DataStatus(list), FecStatus(list))
  BY StatusFacts, SelectedFrom, Bounds DEF Chosen, Substitutions
<1>4. \A f \in FecNos : <<d, f>> \notin Chosen(list)
  BY <1>2, <1>3 DEF Pairs
<1>5. QED
  BY <1>1, <1>4, DecodedIs

\* What fec_decode solves for is right if all it starts from is.
LEMMA SolvedRight ==
  ASSUME NEW data, NEW fec, NEW pairs \in SUBSET (DataNos \X FecNos), NEW s \in Sessions,
         \A d \in DataNos : (\A f \in FecNos : <<d, f>> \notin pairs) => data[d] = s,
         \A p \in pairs : fec[p[2]] = s
  PROVE  Solved(data, fec, pairs) = s
<1> DEFINE kept   == DataNos \ {p[1] : p \in pairs}
           inputs == {data[d] : d \in kept} \cup {fec[p[2]] : p \in pairs}
<1>1. \A d \in kept : data[d] = s
  <2> SUFFICES ASSUME NEW d \in kept, NEW f \in FecNos, <<d, f>> \in pairs PROVE FALSE
    OBVIOUS
  <2>1. <<d, f>>[1] = d
    OBVIOUS
  <2>2. QED
    BY <2>1
<1>2. inputs \subseteq {s}
  BY <1>1
<1>3. inputs # {}
  <2>1. 0 \in DataNos
    BY Bounds DEF DataNos
  <2>2. CASE 0 \in kept
    BY <2>2
  <2>3. CASE 0 \notin kept
    BY <2>1, <2>3
  <2>4. QED
    BY <2>2, <2>3
<1>4. inputs = {s}
  BY <1>2, <1>3
<1> HIDE DEF inputs
<1>5. /\ \E r \in Sessions : inputs = {r}
      /\ (CHOOSE r \in Sessions : inputs = {r}) = s
  <2>1. \A r \in Sessions : inputs = {r} <=> r = s
    BY <1>4
  <2>2. QED
    BY <2>1
<1>6. QED
  BY <1>5 DEF Solved, inputs, kept

\* A block of one session without corrupt FEC, not reported as failed, is
\* decoded to that session's DATA.
LEMMA CleanDecoded ==
  ASSUME NEW list \in [Slots -> Packet], NEW s \in Sessions,
         \A k \in Slots : list[k] \in {s, "missing", "corrupt"},
         \A f \in FecNos : list[FecSlot(f)] # "corrupt",
         ~Decoded(list).failed, NEW d \in DataNos
  PROVE  Decoded(list).data[d] = s
<1>1. /\ \A e \in DataNos : DataOf(list)[e] \in {s, "missing", "corrupt"}
      /\ \A f \in FecNos : FecOf(list)[f] \in {s, "missing"}
  BY Positions DEF DataOf, FecOf
<1>2. s \notin {"missing", "corrupt"}
  BY ReceiverAssumption
<1>3. /\ \A f \in FecNos : FecStatus(list)[f] # "corrupt"
      /\ \A f \in FecNos : FecStatus(list)[f] # "missing" => FecOf(list)[f] = s
      /\ \A e \in DataNos : DataStatus(list)[e] = "good" => DataOf(list)[e] = s
  BY <1>1, <1>2, StatusFacts, ReceiverAssumption DEF Status
<1>4. ~ReconstructionFailed(DataStatus(list), FecStatus(list))
  BY DecodedIs
<1>5. \A e \in Bad(DataStatus(list)) : \E j \in FecNos : <<e, j>> \in Chosen(list)
  BY <1>3, <1>4, StatusFacts, AllRepaired DEF Chosen, GoodFecs
<1>6. Chosen(list) \subseteq Pairs(DataStatus(list), FecStatus(list))
  BY StatusFacts, SelectedFrom, Bounds DEF Chosen, Substitutions
<1>7. Solved(DataOf(list), FecOf(list), Chosen(list)) = s
  <2>1. \A e \in DataNos : (\A f \in FecNos : <<e, f>> \notin Chosen(list)) => DataOf(list)[e] = s
    BY <1>3, <1>5 DEF Bad
  <2>2. \A p \in Chosen(list) : FecOf(list)[p[2]] = s
    BY <1>3, <1>6 DEF Pairs
  <2>3. Chosen(list) \in SUBSET (DataNos \X FecNos)
    BY <1>6 DEF Pairs
  <2>4. QED
    BY <2>1, <2>2, <2>3, SolvedRight
<1>8. (\A f \in FecNos : <<d, f>> \notin Chosen(list)) => DataOf(list)[d] \in Sessions /\ DataOf(list)[d] = s
  BY <1>3, <1>5 DEF Bad
<1>9. QED
  BY <1>7, <1>8, DecodedIs

\* A block leaves the ring by being decoded and written.
LEMMA LeavesWritten ==
  ASSUME IInv, [Next]_vars, epoch' = epoch,
         NEW n \in Buffers, block_num[n] # -1, block_num'[n] # block_num[n]
  PROVE  /\ packet_list[n] \in [Slots -> Packet]
         /\ stdout'.data = Decoded(packet_list[n]).data
         /\ blocks_damaged' = blocks_damaged => ~Decoded(packet_list[n]).failed
<1>0. /\ packet_list[n] \in [Slots -> Packet] /\ epoch \in Nat /\ blocks_damaged \in Nat
      /\ DOMAIN block_num = Buffers
  BY DEF IInv, TypeOK
<1>1. PICK seq \in SequenceNumbers, p \in Received : process_payload(seq, p)
  BY DEF Next, vars, ring
<1>2. ~BufferPacket(seq, p) /\ ~RestartRing(seq, p)
  BY <1>0 DEF BufferPacket, RestartRing
<1>3. ~OpenBlock(seq, p)
  BY <1>0 DEF OpenBlock
<1>4. PICK v \in Buffers :
        /\ CountBlock(Flushed(v).failed)
        /\ stdout' = [epoch |-> epoch, block_num |-> block_num[v],
                      failed |-> Flushed(v).failed, data |-> Flushed(v).data]
        /\ block_num' = [block_num EXCEPT ![v] = BlockOf(seq)]
  BY <1>1, <1>2, <1>3 DEF process_payload, FlushBlock
<1>5. v = n
  BY <1>0, <1>4
<1>6. stdout'.data = Decoded(packet_list[n]).data
  BY <1>4, <1>5 DEF Flushed
<1>7. blocks_damaged' = blocks_damaged => ~Decoded(packet_list[n]).failed
  BY <1>0, <1>4, <1>5 DEF Flushed, CountBlock
<1>8. QED
  BY <1>0, <1>6, <1>7

\* What has been received intact of a block is written as it was received,
\* however many other packets of the block are lost or damaged.
THEOREM IntactWrittenHolds == Spec => IntactPacketWritten
<1> DEFINE Goes(n) == epoch' = epoch /\ block_num[n] # -1 /\ block_num'[n] # block_num[n]
<1>1. ASSUME IInv, [Next]_vars, NEW n \in Buffers, Goes(n),
             NEW d \in DataNos, packet_list[n][DataSlot(d)] \in Sessions
      PROVE  stdout'.data[d] = packet_list[n][DataSlot(d)]
  <2>1. packet_list[n] \in [Slots -> Packet] /\ stdout'.data = Decoded(packet_list[n]).data
    BY <1>1, LeavesWritten
  <2>2. QED
    BY <1>1, <2>1, IntactDecoded
<1>2. IInv /\ [Next]_vars =>
        \A n \in Buffers : Goes(n) =>
          \A d \in DataNos : packet_list[n][DataSlot(d)] \in Sessions =>
             stdout'.data[d] = packet_list[n][DataSlot(d)]
  BY <1>1
<1>3. QED
  BY <1>2, Invariant, PTL DEF Spec, IntactPacketWritten

\* A block of one run of the transmitter, of which no FEC is corrupt, is
\* written byte for byte as it was sent unless it is counted as damaged.
THEOREM CleanHolds == Spec => UndamagedBlockClean
<1> DEFINE Clean(n, s) ==
             /\ epoch' = epoch /\ block_num[n] # -1 /\ block_num'[n] # block_num[n]
             /\ \A k \in Slots : packet_list[n][k] \in {s, "missing", "corrupt"}
             /\ \A f \in FecNos : packet_list[n][FecSlot(f)] # "corrupt"
             /\ blocks_damaged' = blocks_damaged
<1>1. ASSUME IInv, [Next]_vars, NEW n \in Buffers, NEW s \in Sessions, Clean(n, s),
             NEW d \in DataNos
      PROVE  stdout'.data[d] = s
  <2>1. /\ packet_list[n] \in [Slots -> Packet] /\ stdout'.data = Decoded(packet_list[n]).data
        /\ ~Decoded(packet_list[n]).failed
    BY <1>1, LeavesWritten
  <2>2. QED
    BY <1>1, <2>1, CleanDecoded
<1>2. IInv /\ [Next]_vars =>
        \A n \in Buffers, s \in Sessions : Clean(n, s) => \A d \in DataNos : stdout'.data[d] = s
  BY <1>1
<1>3. QED
  BY <1>2, Invariant, PTL DEF Spec, UndamagedBlockClean

-----------------------------------------------------------------------------
(***************************************************************************)
(* The ring of block buffers implements the window of BlockStream.  A      *)
(* block has one buffer, so that CHOOSE in Window finds it (WindowFacts);  *)
(* the rest is what Store does to that buffer and how many blocks the ring *)
(* holds.                                                                  *)
(***************************************************************************)

\* The window has the buffered blocks, each with the packets of its buffer.
HasPackets(n) == block_num[n] # -1 => Window[block_num[n]] = packet_list[n]

LEMMA WindowFacts ==
  IInv => DOMAIN Window = Buffered /\ \A n \in Buffers : HasPackets(n)
<1> SUFFICES ASSUME IInv, NEW n \in Buffers, block_num[n] # -1
             PROVE  Window[block_num[n]] = packet_list[n]
  BY DEF Window, HasPackets
<1>1. block_num[n] \in Buffered
  BY DEF Buffered
<1>2. \A j \in Buffers : block_num[j] = block_num[n] => j = n
  BY DEF IInv, LatestBlocksBuffered
<1>3. BufferOf(block_num[n]) = n
  BY <1>2 DEF BufferOf
<1> QED
  BY <1>1, <1>3 DEF Window

LEMMA WindowFactsPrime ==
  IInv' => /\ (DOMAIN Window)' = Buffered'
           /\ \A n \in Buffers : block_num'[n] # -1 => Window'[block_num'[n]] = packet_list'[n]
<1>1. (IInv => DOMAIN Window = Buffered /\ \A n \in Buffers : HasPackets(n))'
  BY WindowFacts, PTL
<1> QED
  BY <1>1 DEF HasPackets

\* A window is known when its blocks and their packets are.
LEMMA WindowIs ==
  ASSUME IInv', NEW w, w = [c \in Buffered' |-> w[c]],
         \A n \in Buffers : block_num'[n] # -1 => packet_list'[n] = w[block_num'[n]]
  PROVE  Window' = w
<1>1. Window' = [c \in Buffered' |-> Window'[c]]
  BY DEF Window
<1>2. ASSUME NEW c \in Buffered' PROVE Window'[c] = w[c]
  <2>1. PICK n \in Buffers : block_num'[n] = c /\ c # -1
    BY DEF Buffered
  <2> QED
    BY <2>1, WindowFactsPrime
<1> QED
  BY <1>1, <1>2

\* Store merges the packet into the one buffer of its block.
LEMMA StoreMerges ==
  ASSUME NEW nums, NEW lists \in [Buffers -> [Slots -> Packet]],
         NEW b, NEW k \in Slots, NEW p, NEW n \in Buffers,
         nums[n] = b, \A j \in Buffers : nums[j] = b => j = n
  PROVE  Store(nums, lists, b, k, p)[n] = Stream!Merged(lists[n], k, p)
<1>1. \A j \in 0..(n - 1) : nums[j] # b
  <2>1. \A j \in 0..(n - 1) : j \in Buffers /\ j # n
    BY Geometry DEF Buffers
  <2> QED
    BY <2>1
<1>2. lists[n] \in [Slots -> Packet]
  OBVIOUS
<1>3. Store(nums, lists, b, k, p)[n] =
        IF Overwritable(lists[n][k]) THEN [lists[n] EXCEPT ![k] = p] ELSE lists[n]
  BY <1>1 DEF Store
<1> QED
  BY <1>2, <1>3 DEF Overwritable, Stream!Merged

LEMMA MergedAlone ==
  ASSUME NEW k \in Slots, NEW p
  PROVE  Stream!Merged(Empty, k, p) = Stream!Alone(k, p)
BY ReceiverAssumption DEF Stream!Merged, Stream!Alone, Empty

-----------------------------------------------------------------------------
LEMMA BufferCount == IsFiniteSet(Buffers) /\ Cardinality(Buffers) = B
<1>1. 0 \in Int /\ B - 1 \in Int /\ ~(0 > B - 1) /\ (B - 1) - 0 + 1 = B
  BY Geometry
<1>2. /\ IsFiniteSet(0..(B - 1))
      /\ Cardinality(0..(B - 1)) = IF 0 > B - 1 THEN 0 ELSE (B - 1) - 0 + 1
  BY <1>1, FS_Interval
<1> QED
  BY <1>1, <1>2 DEF Buffers

\* As long as a buffer is free there are fewer than B blocks in the ring.
LEMMA FreeBuffer ==
  ASSUME IInv, NEW v \in Buffers, block_num[v] = -1
  PROVE  Cardinality(Buffered) < B
<1> DEFINE rest == Buffers \ {v}
           f == [n \in rest |-> block_num[n]]
           used == {block_num[n] : n \in rest}
<1>1. IsFiniteSet(Buffers) /\ Cardinality(Buffers) = B
  BY BufferCount
<1>2. IsFiniteSet(rest) /\ Cardinality(rest) = B - 1
  BY <1>1, FS_RemoveElement
<1>3. f \in Surjection(rest, used)
  BY DEF Surjection
<1>4. IsFiniteSet(used) /\ Cardinality(used) <= B - 1
  <2> HIDE DEF f, rest, used
  <2> QED
    BY <1>2, <1>3, FS_Surjection
<1>5. Buffered \in SUBSET used
  BY DEF Buffered
<1>6. Cardinality(Buffered) <= Cardinality(used)
  <2> HIDE DEF used
  <2> QED
    BY <1>4, <1>5, FS_Subset
<1>7. Cardinality(Buffered) \in Nat /\ Cardinality(used) \in Nat
  <2> HIDE DEF used
  <2> QED
    BY <1>4, <1>5, FS_Subset, FS_CardinalityType
<1> HIDE DEF used
<1> QED
  BY <1>4, <1>6, <1>7, Geometry

\* When none is free there are B, for each has a block of its own.
LEMMA FullRing ==
  ASSUME IInv, \A n \in Buffers : block_num[n] # -1
  PROVE  Cardinality(Buffered) = B
<1> DEFINE f == [n \in Buffers |-> block_num[n]]
<1>1. IsFiniteSet(Buffers) /\ Cardinality(Buffers) = B
  BY BufferCount
<1>2. f \in Surjection(Buffers, Buffered)
  BY DEF Surjection, Buffered
<1>3. f \in Injection(Buffers, Buffered)
  <2>1. f \in [Buffers -> Buffered]
    BY <1>2 DEF Surjection
  <2>2. \A n, j \in Buffers : f[n] = f[j] => n = j
    BY DEF IInv, LatestBlocksBuffered
  <2> QED
    BY <2>1, <2>2 DEF Injection, IsInjective
<1> HIDE DEF f
<1> QED
  BY <1>1, <1>2, <1>3, FS_Surjection

-----------------------------------------------------------------------------
\* The instance brings a Cardinality of its own.
LEMMA SameCardinality == \A S : Stream!Cardinality(S) = Cardinality(S)
BY DEF Cardinality, Stream!Cardinality

LEMMA InitImplements == Init => Stream!Init
<1> SUFFICES ASSUME Init PROVE Stream!Init
  OBVIOUS
<1>1. Buffered = {}
  BY DEF Init, Buffered
<1>2. Window = [b \in {} |-> {}]
  BY <1>1 DEF Window
<1> QED
  BY <1>2 DEF Init, Stream!Init

\* What every step knows of its packet.
LEMMA PacketFacts ==
  ASSUME NEW seq \in SequenceNumbers, NEW p \in Received
  PROVE  /\ BlockOf(seq) \in BlockNos /\ BlockOf(seq) \in Nat
         /\ SlotOf(seq) \in Slots /\ p \in Packet /\ p \in Sessions \cup {"corrupt"}
BY SequenceNumber DEF BlockNos, Received, Packet

\* A packet that opens no block is merged, or lost without a trace.
LEMMA BufferImplements ==
  ASSUME IInv, IInv', NEW seq \in SequenceNumbers, NEW p \in Received, BufferPacket(seq, p)
  PROVE  \/ Stream!Merge(BlockOf(seq), SlotOf(seq), p)
         \/ BlockOf(seq) \notin Buffered /\ UNCHANGED Stream!vars
<1> DEFINE b == BlockOf(seq)
           k == SlotOf(seq)
<1>1. /\ packet_list' = Store(block_num, packet_list, b, k, p)
      /\ block_num' = block_num /\ max_block_num' = max_block_num
      /\ stdout' = stdout /\ epoch' = epoch
  BY DEF BufferPacket, output, history
<1>2. b \in Nat /\ k \in Slots /\ p \in Packet
  BY PacketFacts
<1>3. /\ block_num \in [Buffers -> Nat \cup {-1}]
      /\ packet_list \in [Buffers -> [Slots -> Packet]]
  BY DEF IInv, TypeOK
<1> HIDE DEF b, k
<1>4. \A n \in Buffers : block_num[n] # b => packet_list'[n] = packet_list[n]
  BY <1>1, <1>2, <1>3, StoreFacts
<1>5. Buffered' = Buffered /\ DOMAIN Window = Buffered
  BY <1>1, WindowFacts DEF Buffered
<1>6. \A n \in Buffers : block_num[n] # -1 => Window[block_num[n]] = packet_list[n]
  BY WindowFacts DEF HasPackets
<1>7. CASE b \in Buffered
  <2> DEFINE w == [c \in Buffered |-> IF c = b THEN Stream!Merged(Window[c], k, p) ELSE Window[c]]
  <2>1. ASSUME NEW n \in Buffers, block_num'[n] # -1
        PROVE  packet_list'[n] = w[block_num'[n]]
    <3>1. block_num[n] \in Buffered /\ block_num'[n] = block_num[n]
      BY <1>1, <2>1 DEF Buffered
    <3>2. CASE block_num[n] = b
      <4>1. \A j \in Buffers : block_num[j] = b => j = n
        BY <1>2, <3>2 DEF IInv, LatestBlocksBuffered
      <4>2. packet_list'[n] = Stream!Merged(packet_list[n], k, p)
        BY <1>1, <1>2, <1>3, <3>2, <4>1, StoreMerges
      <4>3. Window[b] = packet_list[n]
        BY <1>6, <2>1, <3>1, <3>2
      <4> QED
        BY <3>1, <3>2, <4>2, <4>3
    <3>3. CASE block_num[n] # b
      BY <1>4, <1>6, <2>1, <3>1, <3>3
    <3> QED
      BY <3>2, <3>3
  <2>2. w = [c \in Buffered' |-> w[c]]
    BY <1>5
  <2> HIDE DEF w
  <2>3. Window' = w
    BY <2>1, <2>2, WindowIs
  <2> QED
    BY <1>1, <1>5, <1>7, <2>3 DEF Stream!Merge, Stream!Held, w, b, k
<1>8. CASE b \notin Buffered
  <2>1. \A n \in Buffers : block_num[n] # b
    BY <1>2, <1>8 DEF Buffered
  <2>2. \A n \in Buffers : block_num'[n] # -1 => packet_list'[n] = Window[block_num'[n]]
    BY <1>1, <1>4, <1>6, <2>1
  <2>3. Window = [c \in Buffered' |-> Window[c]]
    BY <1>5 DEF Window
  <2>4. Window' = Window
    BY <2>2, <2>3, WindowIs
  <2> QED
    BY <1>1, <1>8, <2>4 DEF Stream!vars, b
<1> QED
  BY <1>7, <1>8

\* The packet of a new block is alone in its buffer.
LEMMA AloneInBuffer ==
  ASSUME NEW nums \in [Buffers -> Nat \cup {-1}],
         NEW lists \in [Buffers -> [Slots -> Packet]],
         NEW b \in Nat, NEW k \in Slots, NEW p \in Packet, NEW v \in Buffers,
         nums[v] = b, \A j \in Buffers : j # v => nums[j] # b, lists[v] = Empty
  PROVE  Store(nums, lists, b, k, p)[v] = Stream!Alone(k, p)
<1>1. \A j \in Buffers : nums[j] = b => j = v
  OBVIOUS
<1> QED
  BY <1>1, StoreMerges, MergedAlone

LEMMA OpenImplements ==
  ASSUME IInv, IInv', NEW seq \in SequenceNumbers, NEW p \in Received, OpenBlock(seq, p)
  PROVE  Stream!Open(BlockOf(seq), SlotOf(seq), p)
<1> DEFINE b == BlockOf(seq)
           k == SlotOf(seq)
<1>1. PICK v \in Buffers :
        /\ block_num[v] = -1
        /\ block_num' = [block_num EXCEPT ![v] = b]
        /\ packet_list' = Store(block_num', packet_list, b, k, p)
  BY DEF OpenBlock
<1>2. /\ b > max_block_num /\ p \in Sessions /\ max_block_num' = b
      /\ stdout' = stdout /\ epoch' = epoch
  BY DEF OpenBlock, NewBlock, output
<1>3. b \in Nat /\ k \in Slots /\ p \in Packet
  BY PacketFacts
<1>4. /\ block_num \in [Buffers -> Nat \cup {-1}]
      /\ packet_list \in [Buffers -> [Slots -> Packet]]
      /\ block_num' \in [Buffers -> Nat \cup {-1}]
  BY DEF IInv, TypeOK
<1> HIDE DEF b, k
<1>5. \A n \in Buffers : n # v => block_num'[n] = block_num[n] /\ block_num'[n] # b
  BY <1>1, <1>2, <1>3, <1>4 DEF IInv, TypeOK, LatestBlocksBuffered, Buffered
<1>6. block_num'[v] = b
  BY <1>1, <1>4
<1>7. Buffered' = Buffered \cup {b} /\ b \notin Buffered
  BY <1>1, <1>3, <1>4, <1>5, <1>6 DEF Buffered
<1> DEFINE w == [c \in Buffered \cup {b} |-> IF c = b THEN Stream!Alone(k, p) ELSE Window[c]]
<1>8. ASSUME NEW n \in Buffers, block_num'[n] # -1
      PROVE  packet_list'[n] = w[block_num'[n]]
  <2>1. CASE n = v
    <3>1. packet_list[v] = Empty
      BY <1>1 DEF IInv, LatestBlocksBuffered
    <3>2. Store(block_num', packet_list, b, k, p)[v] = Stream!Alone(k, p)
      BY <1>3, <1>4, <1>5, <1>6, <3>1, AloneInBuffer
    <3> QED
      BY <1>1, <1>6, <2>1, <3>2
  <2>2. CASE n # v
    <3>1. Store(block_num', packet_list, b, k, p)[n] = packet_list[n]
      BY <1>3, <1>4, <1>5, <2>2, StoreFacts
    <3>2. packet_list[n] = Window[block_num[n]] /\ block_num[n] \in Buffered
      BY <1>5, <1>8, <2>2, WindowFacts DEF HasPackets, Buffered
    <3> QED
      BY <1>1, <1>5, <2>2, <3>1, <3>2
  <2> QED
    BY <2>1, <2>2
<1>9. w = [c \in Buffered' |-> w[c]]
  BY <1>7
<1> HIDE DEF w
<1>10. Window' = w
  BY <1>8, <1>9, WindowIs
<1>11. Stream!Held = Buffered /\ Cardinality(Stream!Held) < B
  BY <1>1, WindowFacts, FreeBuffer DEF Stream!Held
<1>12. Window' = [c \in Stream!Held \cup {b} |-> IF c = b THEN Stream!Alone(k, p) ELSE Window[c]]
  BY <1>10, <1>11 DEF w
<1> QED
  BY <1>2, <1>11, <1>12, SameCardinality DEF Stream!Open, b, k

LEMMA FlushImplements ==
  ASSUME IInv, IInv', NEW seq \in SequenceNumbers, NEW p \in Received, FlushBlock(seq, p)
  PROVE  Stream!Slide(BlockOf(seq), SlotOf(seq), p)
<1> DEFINE b == BlockOf(seq)
           k == SlotOf(seq)
<1>1. PICK v \in Buffers :
        /\ IsVictim(block_num, v) /\ block_num[v] # -1
        /\ stdout' = [epoch |-> epoch, block_num |-> block_num[v],
                      failed |-> Flushed(v).failed, data |-> Flushed(v).data]
        /\ block_num' = [block_num EXCEPT ![v] = b]
        /\ packet_list' = Store(block_num', ResetBuffers(v), b, k, p)
  BY DEF FlushBlock
<1>2. /\ b > max_block_num /\ p \in Sessions /\ max_block_num' = b /\ epoch' = epoch
  BY DEF FlushBlock, NewBlock
<1>3. b \in Nat /\ k \in Slots /\ p \in Packet
  BY PacketFacts
<1>4. /\ block_num \in [Buffers -> Nat \cup {-1}]
      /\ packet_list \in [Buffers -> [Slots -> Packet]]
      /\ block_num' \in [Buffers -> Nat \cup {-1}]
  BY DEF IInv, TypeOK
<1> HIDE DEF b, k
<1>5. \A n \in Buffers : n # v => block_num'[n] = block_num[n] /\ block_num'[n] # b
  BY <1>1, <1>2, <1>3, <1>4 DEF IInv, TypeOK, LatestBlocksBuffered, Buffered
<1>6. block_num'[v] = b
  BY <1>1, <1>4
<1> DEFINE oldest == block_num[v]
           lists  == ResetBuffers(v)
<1>7. /\ oldest \in Buffered /\ \A n \in Buffers : block_num[n] # -1 /\ oldest <= block_num[n]
      /\ \A n \in Buffers : n # v => block_num[n] # oldest
  <2>1. oldest \in Nat
    BY <1>1, <1>4
  <2>2. \A n \in Buffers : block_num[n] \in Nat \cup {-1} /\ (oldest < block_num[n] \/ oldest = block_num[n])
    BY <1>1, <1>4 DEF IsVictim
  <2>3. \A n \in Buffers : n # v => block_num[n] # oldest
    BY <1>1 DEF IInv, LatestBlocksBuffered
  <2> QED
    BY <2>1, <2>2, <2>3 DEF Buffered
<1>8. /\ lists \in [Buffers -> [Slots -> Packet]] /\ lists[v] = Empty
      /\ \A n \in Buffers : n # v => lists[n] = packet_list[n]
  BY <1>4, EmptyType DEF ResetBuffers
<1>9. Buffered' = (Buffered \ {oldest}) \cup {b}
  BY <1>1, <1>3, <1>4, <1>5, <1>6, <1>7 DEF Buffered
<1> DEFINE w == [c \in (Buffered \ {oldest}) \cup {b} |->
                   IF c = b THEN Stream!Alone(k, p) ELSE Window[c]]
<1> HIDE DEF lists
<1>10. ASSUME NEW n \in Buffers, block_num'[n] # -1
       PROVE  packet_list'[n] = w[block_num'[n]]
  <2>0. packet_list' = Store(block_num', lists, b, k, p)
    BY <1>1 DEF lists
  <2>1. CASE n = v
    <3>1. Store(block_num', lists, b, k, p)[v] = Stream!Alone(k, p)
      BY <1>3, <1>4, <1>5, <1>6, <1>8, AloneInBuffer
    <3> QED
      BY <1>6, <2>0, <2>1, <3>1
  <2>2. CASE n # v
    <3>1. Store(block_num', lists, b, k, p)[n] = lists[n]
      <4>1. block_num'[n] # b
        BY <1>5, <2>2
      <4>2. \A m \in Buffers : block_num'[m] # b => Store(block_num', lists, b, k, p)[m] = lists[m]
        BY <1>3, <1>4, <1>8, StoreFacts
      <4>3. QED
        BY <4>1, <4>2, Zenon
    <3>2. packet_list[n] = Window[block_num[n]] /\ block_num[n] \in Buffered \ {oldest}
      BY <1>5, <1>7, <1>10, <2>2, WindowFacts DEF HasPackets, Buffered
    <3> QED
      BY <1>5, <1>8, <2>0, <2>2, <3>1, <3>2
  <2> QED
    BY <2>1, <2>2
<1>11. w = [c \in Buffered' |-> w[c]]
  BY <1>9
<1> HIDE DEF w
<1>12. Window' = w
  BY <1>10, <1>11, WindowIs
<1>13. Stream!Held = Buffered /\ Cardinality(Stream!Held) = B
  BY <1>7, WindowFacts, FullRing DEF Stream!Held
<1>14. /\ oldest \in Stream!Held /\ \A c \in Stream!Held : oldest <= c
  BY <1>7, <1>13 DEF Buffered
<1>15. Window' = [c \in (Stream!Held \ {oldest}) \cup {b} |->
                    IF c = b THEN Stream!Alone(k, p) ELSE Window[c]]
  BY <1>12, <1>13 DEF w
<1>16. stdout' = [epoch |-> epoch, block_num |-> oldest,
                  failed |-> Decoded(Window[oldest]).failed, data |-> Decoded(Window[oldest]).data]
  <2>1. Window[oldest] = packet_list[v]
    BY <1>1, WindowFacts DEF HasPackets
  <2> QED
    BY <1>1, <2>1 DEF Flushed
<1> HIDE DEF oldest
<1> QED
  BY <1>2, <1>13, <1>14, <1>15, <1>16, SameCardinality DEF Stream!Slide, b, k

\* A restart that the receiver detects is one to a smaller block number.
LEMMA RestartImplements ==
  ASSUME IInv, IInv', NEW seq \in SequenceNumbers, NEW p \in Received, RestartRing(seq, p)
  PROVE  Stream!Restart(BlockOf(seq), SlotOf(seq), p)
<1> DEFINE b == BlockOf(seq)
           k == SlotOf(seq)
           lists == [n \in Buffers |-> Empty]
<1>1. /\ block_num' = [n \in Buffers |-> IF n = 0 THEN b ELSE -1]
      /\ packet_list' = Store(block_num', lists, b, k, p)
      /\ max_block_num' = b /\ epoch' = epoch + 1 /\ stdout' = stdout
      /\ p \in Sessions /\ TxRestart(b)
  BY DEF RestartRing, output
<1>2. b \in Nat /\ k \in Slots /\ p \in Packet
  BY PacketFacts
<1>3. block_num' \in [Buffers -> Nat \cup {-1}]
  BY DEF IInv, TypeOK
<1>4. lists \in [Buffers -> [Slots -> Packet]] /\ lists[0] = Empty
  BY EmptyType, Geometry
<1> HIDE DEF b, k, lists
<1>5. b < max_block_num
  BY <1>1, <1>2, Geometry DEF TxRestart, IInv, TypeOK
<1>6. block_num'[0] = b /\ \A n \in Buffers : n # 0 => block_num'[n] = -1
  BY <1>1, Geometry
<1>7. Buffered' = {b}
  BY <1>2, <1>6, Geometry DEF Buffered
<1>8. Store(block_num', lists, b, k, p)[0] = Stream!Alone(k, p)
  <2>1. \A j \in Buffers : j # 0 => block_num'[j] # b
    BY <1>2, <1>6
  <2> QED
    BY <1>2, <1>3, <1>4, <1>6, <2>1, Geometry, AloneInBuffer
<1> DEFINE w == [c \in {b} |-> Stream!Alone(k, p)]
<1>9. \A n \in Buffers : block_num'[n] # -1 => packet_list'[n] = w[block_num'[n]]
  BY <1>1, <1>6, <1>8
<1>10. w = [c \in Buffered' |-> w[c]]
  BY <1>7
<1> HIDE DEF w
<1>11. Window' = w
  BY <1>9, <1>10, WindowIs
<1> QED
  BY <1>1, <1>5, <1>11 DEF Stream!Restart, w, b, k

-----------------------------------------------------------------------------
LEMMA StepImplements == IInv /\ IInv' /\ [Next]_vars => [Stream!Next]_(Stream!vars)
<1> SUFFICES ASSUME IInv, IInv', [Next]_vars PROVE [Stream!Next]_(Stream!vars)
  OBVIOUS
<1>1. ASSUME NEW seq \in SequenceNumbers, NEW p \in Received, process_payload(seq, p)
      PROVE  [Stream!Next]_(Stream!vars)
  <2> DEFINE b == BlockOf(seq)
             k == SlotOf(seq)
  <2>1. b \in BlockNos /\ k \in Slots /\ p \in Sessions \cup {"corrupt"}
    BY PacketFacts
  <2>2. \/ Stream!Merge(b, k, p) \/ Stream!Open(b, k, p)
        \/ Stream!Slide(b, k, p) \/ Stream!Restart(b, k, p)
        \/ UNCHANGED Stream!vars
    BY <1>1, BufferImplements, OpenImplements, FlushImplements, RestartImplements
       DEF process_payload
  <2> HIDE DEF b, k
  <2> QED
    BY <2>1, <2>2 DEF Stream!Next
<1>2. CASE UNCHANGED vars
  BY <1>2 DEF vars, ring, output, history, Stream!vars, Window, Buffered, BufferOf
<1> QED
  BY <1>1, <1>2 DEF Next

\* process_payload's ring of buffers is a window on the newest blocks in which
\* packets are merged and from which the oldest is written: what buffer a block
\* is in, and what is left in it of an earlier one, never shows.
THEOREM StreamImplemented == Spec => StreamSpec
<1>1. Init => Stream!Init
  BY InitImplements
<1>2. IInv /\ IInv' /\ [Next]_vars => [Stream!Next]_(Stream!vars)
  BY StepImplements
<1> QED
  BY <1>1, <1>2, Invariant, PTL DEF Spec, StreamSpec, Stream!Spec
-----------------------------------------------------------------------------
(***************************************************************************)
(* The select loop of wbc_befiReceiver and what its lag bound buys, for    *)
(* every number of adapters and buffers and every block geometry.          *)
(*                                                                         *)
(* No adapter starves: the inductive invariant counts what can have        *)
(* overtaken a pending packet (Overtaken), in the scan in which it arrives *)
(* at most one packet of each other adapter, and in the next scan, which   *)
(* is to take it, one of each adapter before its own.                      *)
(*                                                                         *)
(* In the transmitter's first run the newest block bounds the age of every *)
(* packet (FirstRun), so that late packets are not taken for a restart and *)
(* find their block in the ring; and of an adapter that hears everything   *)
(* all packets up to the last one taken are in their buffers               *)
(* (LosslessKept), so that the block that is written is complete.          *)
(***************************************************************************)

LinkPacket == [seq : SequenceNumbers, packet : Received, sent : Nat]

LoopType ==
  /\ tx_session \in Sessions /\ tx_past \subseteq Sessions /\ sent \in Nat
  /\ queue \in [Interfaces -> Seq(LinkPacket)]
  /\ waiting \in [Interfaces -> Nat]
  /\ pc \in {"select", "scan"} /\ readset \subseteq Interfaces /\ i \in 0..NumInterfaces

\* Of the scan so far: one packet of every adapter but a's own.
Scanned(a) == IF i > a THEN i - 1 ELSE i

Overtaken ==
  \A a \in Interfaces :
    /\ waiting[a] > 0 => queue[a] # <<>>
    /\ pc = "select" => waiting[a] <= NumInterfaces - 1
    /\ pc = "scan" =>
         waiting[a] <= IF a \in readset /\ i <= a THEN NumInterfaces - 1 + i ELSE Scanned(a)

\* What process_packet relies on: an adapter that select reported and the scan
\* has yet to come to has a packet to return.
Pending == pc = "scan" => \A a \in readset : i <= a => queue[a] # <<>>

LoopInv == LoopType /\ Overtaken /\ Pending

-----------------------------------------------------------------------------
\* What arrives of the packet that is being sent.
LEMMA ArrivalIs ==
  ASSUME LoopType, tx_seq \in SequenceNumbers,
         NEW fate \in {"lost", "corrupt", "intact"}, NEW q \in Arrivals(fate)
  PROVE  \/ q = <<>> /\ fate = "lost"
         \/ \E e \in LinkPacket :
              /\ q = <<e>> /\ e.sent = sent
              /\ e.packet \in Sessions => e.packet = tx_session /\ e.seq = tx_seq
              /\ fate = "intact" => e.packet = tx_session /\ e.seq = tx_seq
<1>1. CASE fate = "lost"
  BY <1>1 DEF Arrivals
<1>2. CASE fate = "intact"
  <2> DEFINE packet == [seq |-> tx_seq, packet |-> tx_session, sent |-> sent]
  <2>1. q = <<packet>>
    BY <1>2 DEF Arrivals
  <2>2. /\ packet \in LinkPacket /\ packet.sent = sent
        /\ packet.packet = tx_session /\ packet.seq = tx_seq
    BY DEF LoopType, LinkPacket, Received
  <2> HIDE DEF packet
  <2> QED
    BY <2>1, <2>2
<1>3. CASE fate = "corrupt"
  <2>1. PICK s \in SequenceNumbers : q = <<[seq |-> s, packet |-> "corrupt", sent |-> sent]>>
    BY <1>3 DEF Arrivals
  <2> DEFINE packet == [seq |-> s, packet |-> "corrupt", sent |-> sent]
  <2>2. /\ packet \in LinkPacket /\ q = <<packet>> /\ packet.sent = sent
        /\ packet.packet \notin Sessions
    BY <2>1, ReceiverAssumption DEF LoopType, LinkPacket, Received
  <2> HIDE DEF packet
  <2> QED
    BY <1>3, <2>2
<1> QED
  BY <1>1, <1>2, <1>3

LEMMA LoopTransmit ==
  ASSUME LoopInv, Transmit
  PROVE  LoopInv'
<1>0. PICK fate \in [Interfaces -> {"lost", "corrupt", "intact"}] :
        \E arrival \in [Interfaces -> UNION {Arrivals(fate[a]) : a \in Interfaces}] :
          /\ \A a \in Interfaces : arrival[a] \in Arrivals(fate[a])
          /\ queue' = [a \in Interfaces |-> queue[a] \o arrival[a]]
  BY DEF Transmit
<1>1. PICK arrival \in [Interfaces -> UNION {Arrivals(fate[a]) : a \in Interfaces}] :
        /\ \A a \in Interfaces : arrival[a] \in Arrivals(fate[a])
        /\ queue' = [a \in Interfaces |-> queue[a] \o arrival[a]]
  BY <1>0
<1>2. ASSUME NEW a \in Interfaces PROVE arrival[a] \in Seq(LinkPacket)
  <2>1. CASE arrival[a] = <<>>
    BY <2>1
  <2>2. CASE arrival[a] # <<>>
    <3>1. fate[a] \in {"lost", "corrupt", "intact"} /\ arrival[a] \in Arrivals(fate[a])
      BY <1>1
    <3>2. LoopType /\ tx_seq \in SequenceNumbers
      BY DEF Transmit, LoopInv
    <3>3. PICK e \in LinkPacket : arrival[a] = <<e>>
      BY <2>2, <3>1, <3>2, ArrivalIs
    <3> QED
      BY <3>3
  <2> QED
    BY <2>1, <2>2
<1>3. queue' \in [Interfaces -> Seq(LinkPacket)]
  BY <1>1, <1>2 DEF LoopInv, LoopType
<1>4. \A a \in Interfaces : queue[a] # <<>> => queue'[a] # <<>>
  <2> SUFFICES ASSUME NEW a \in Interfaces, queue[a] # <<>> PROVE queue'[a] # <<>>
    OBVIOUS
  <2>1. queue[a] \in Seq(LinkPacket) /\ arrival[a] \in Seq(LinkPacket)
    BY <1>2 DEF LoopInv, LoopType
  <2>2. Len(queue[a] \o arrival[a]) > 0
    BY <2>1
  <2> QED
    BY <1>1, <2>2
<1>5. /\ sent' = sent + 1 /\ tx_session' = tx_session /\ tx_past' = tx_past
      /\ pc' = pc /\ readset' = readset /\ i' = i /\ waiting' = waiting
  BY DEF Transmit, loop
<1> QED
  BY <1>3, <1>4, <1>5 DEF LoopInv, LoopType, Overtaken, Scanned, Pending

LEMMA LoopSelect ==
  ASSUME LoopInv, Select
  PROVE  LoopInv'
<1>1. /\ readset' = ReadableFds /\ i' = 0 /\ pc' = "scan"
      /\ queue' = queue /\ waiting' = waiting
      /\ sent' = sent /\ tx_session' = tx_session /\ tx_past' = tx_past
  BY DEF Select, transmitter
<1>2. pc = "select"
  BY DEF Select
<1>3. LoopType'
  BY <1>1, LinkAssumption DEF LoopInv, LoopType, ReadableFds
<1>4. ASSUME NEW a \in Interfaces
      PROVE  waiting[a] <= IF a \in ReadableFds /\ 0 <= a THEN NumInterfaces - 1 ELSE 0
  <2>1. a \in Nat /\ waiting[a] \in Nat
    BY LinkAssumption DEF LoopInv, LoopType, Interfaces
  <2>2. a \notin ReadableFds => waiting[a] = 0
    BY <2>1 DEF LoopInv, Overtaken, ReadableFds
  <2> QED
    BY <1>2, <2>1, <2>2 DEF LoopInv, Overtaken
<1>5. Overtaken'
  BY <1>1, <1>4, LinkAssumption DEF Overtaken, Scanned, Interfaces, LoopInv
<1>6. Pending'
  BY <1>1 DEF Pending, ReadableFds
<1> QED
  BY <1>3, <1>5, <1>6 DEF LoopInv

LEMMA LoopNotReadable ==
  ASSUME LoopInv, NotReadable
  PROVE  LoopInv'
<1>1. /\ pc = "scan" /\ i < NumInterfaces /\ i \notin readset /\ i' = i + 1
      /\ pc' = pc /\ readset' = readset /\ queue' = queue /\ waiting' = waiting
      /\ sent' = sent /\ tx_session' = tx_session /\ tx_past' = tx_past
  BY DEF NotReadable, transmitter
<1>2. LoopType'
  BY <1>1, LinkAssumption DEF LoopInv, LoopType
<1>3. Overtaken'
  <2> SUFFICES ASSUME NEW a \in Interfaces
               PROVE  waiting[a] <= IF a \in readset /\ i + 1 <= a THEN NumInterfaces - 1 + (i + 1)
                                    ELSE IF i + 1 > a THEN (i + 1) - 1 ELSE i + 1
    BY <1>1 DEF LoopInv, Overtaken, Scanned
  <2>1. a \in Nat /\ i \in Nat /\ NumInterfaces \in Nat /\ waiting[a] \in Nat
    BY LinkAssumption DEF LoopInv, LoopType, Interfaces
  <2>2. waiting[a] <= IF a \in readset /\ i <= a THEN NumInterfaces - 1 + i
                      ELSE IF i > a THEN i - 1 ELSE i
    BY <1>1 DEF LoopInv, Overtaken, Scanned
  <2>3. i = a => a \notin readset
    BY <1>1
  <2> QED
    BY <2>1, <2>2, <2>3
<1>4. Pending'
  BY <1>1, LinkAssumption DEF Pending, LoopInv, LoopType, Interfaces
<1> QED
  BY <1>2, <1>3, <1>4 DEF LoopInv

LEMMA LoopTake ==
  ASSUME LoopInv, process_packet
  PROVE  LoopInv'
<1>1. /\ pc = "scan" /\ i < NumInterfaces /\ i \in readset /\ i' = i + 1
      /\ pc' = pc /\ readset' = readset
      /\ queue' = [queue EXCEPT ![i] = Tail(@)]
      /\ waiting' = [a \in Interfaces |->
                       IF a = i \/ queue[a] = <<>> THEN 0 ELSE waiting[a] + 1]
      /\ sent' = sent /\ tx_session' = tx_session /\ tx_past' = tx_past
  BY DEF process_packet, ScanGoesOn, transmitter
<1>2. i \in Interfaces /\ i \in Nat /\ NumInterfaces \in Nat
  BY <1>1, LinkAssumption DEF LoopInv, LoopType, Interfaces
<1>3. queue' \in [Interfaces -> Seq(LinkPacket)]
  <2>1. queue[i] \in Seq(LinkPacket) /\ queue[i] # <<>>
    BY <1>1, <1>2 DEF LoopInv, LoopType, Pending
  <2>2. Tail(queue[i]) \in Seq(LinkPacket)
    BY <2>1
  <2> QED
    BY <1>1, <2>2 DEF LoopInv, LoopType
<1>4. LoopType'
  BY <1>1, <1>2, <1>3 DEF LoopInv, LoopType
<1>5. Overtaken'
  <2> SUFFICES ASSUME NEW a \in Interfaces
               PROVE  /\ waiting'[a] > 0 => queue'[a] # <<>>
                      /\ waiting'[a] <= IF a \in readset /\ i + 1 <= a THEN NumInterfaces - 1 + (i + 1)
                                        ELSE IF i + 1 > a THEN (i + 1) - 1 ELSE i + 1
    BY <1>1 DEF LoopInv, Overtaken, Scanned
  <2>1. a \in Nat /\ waiting[a] \in Nat
    BY LinkAssumption DEF LoopInv, LoopType, Interfaces
  <2>2. CASE a = i \/ queue[a] = <<>>
    <3>1. waiting'[a] = 0
      BY <1>1, <2>2
    <3> QED
      BY <1>2, <2>1, <3>1
  <2>3. CASE a # i /\ queue[a] # <<>>
    <3>1. waiting'[a] = waiting[a] + 1 /\ queue'[a] = queue[a]
      BY <1>1, <2>3 DEF LoopInv, LoopType
    <3>2. waiting[a] <= IF a \in readset /\ i <= a THEN NumInterfaces - 1 + i
                        ELSE IF i > a THEN i - 1 ELSE i
      BY <1>1 DEF LoopInv, Overtaken, Scanned
    <3> QED
      BY <1>2, <2>1, <2>3, <3>1, <3>2
  <2> QED
    BY <2>2, <2>3
<1>6. Pending'
  <2> SUFFICES ASSUME NEW a \in readset, i + 1 <= a PROVE queue'[a] # <<>>
    BY <1>1 DEF Pending
  <2>1. a \in Interfaces /\ a # i /\ i <= a
    BY <1>2, LinkAssumption DEF LoopInv, LoopType, Interfaces
  <2> QED
    BY <1>1, <2>1 DEF LoopInv, LoopType, Pending
<1> QED
  BY <1>4, <1>5, <1>6 DEF LoopInv

LEMMA LoopScanEnds ==
  ASSUME LoopInv, ScanEnds
  PROVE  LoopInv'
<1>1. /\ pc = "scan" /\ i = NumInterfaces /\ pc' = "select"
      /\ i' = i /\ readset' = readset /\ queue' = queue /\ waiting' = waiting
      /\ sent' = sent /\ tx_session' = tx_session /\ tx_past' = tx_past
  BY DEF ScanEnds, transmitter
<1>2. \A a \in Interfaces : waiting[a] <= NumInterfaces - 1
  BY <1>1, LinkAssumption DEF LoopInv, Overtaken, Scanned, Interfaces
<1> QED
  BY <1>1, <1>2 DEF LoopInv, LoopType, Overtaken, Pending

-----------------------------------------------------------------------------
LEMMA LoopInit == LinkInit => LoopInv
BY LinkAssumption DEF LinkInit, LoopInv, LoopType, Overtaken, Pending, Interfaces

LEMMA LoopStep == LoopInv /\ [LinkNext]_linkVars => LoopInv'
<1> SUFFICES ASSUME LoopInv, [LinkNext]_linkVars PROVE LoopInv'
  OBVIOUS
<1>1. CASE Transmit
  BY <1>1, LoopTransmit
<1>2. CASE RestartTransmitter
  BY <1>2 DEF RestartTransmitter, loop, LoopInv, LoopType, Overtaken, Scanned, Pending
<1>3. CASE wbc_befiReceiver
  BY <1>3, LoopSelect, LoopNotReadable, LoopTake, LoopScanEnds
     DEF wbc_befiReceiver
<1>4. CASE UNCHANGED linkVars
  BY <1>4 DEF linkVars, transmitter, loop, LoopInv, LoopType, Overtaken, Scanned, Pending
<1> QED
  BY <1>1, <1>2, <1>3, <1>4 DEF LinkNext

LEMMA LoopBounds == LoopInv => BoundedOvertaking
<1> SUFFICES ASSUME LoopInv, NEW a \in Interfaces PROVE waiting[a] <= 2 * (NumInterfaces - 1)
  BY DEF BoundedOvertaking
<1>1. a \in Nat /\ a <= NumInterfaces - 1 /\ NumInterfaces \in Nat /\ i \in 0..NumInterfaces
  BY LinkAssumption DEF Interfaces, LoopInv, LoopType
<1>2. waiting[a] \in Nat /\ pc \in {"select", "scan"}
  BY DEF LoopInv, LoopType
<1> QED
  BY <1>1, <1>2 DEF LoopInv, Overtaken, Scanned

\* While a packet of one adapter is pending, wbc_befiReceiver takes at most two
\* of each other adapter, for any number of adapters.
THEOREM NoStarvation == LinkSpec => []BoundedOvertaking
<1>1. LinkInit => LoopInv
  BY LoopInit
<1>2. LoopInv /\ [LinkNext]_linkVars => LoopInv'
  BY LoopStep
<1>3. LoopInv => BoundedOvertaking
  BY LoopBounds
<1> QED
  BY <1>1, <1>2, <1>3, PTL DEF LinkSpec
-----------------------------------------------------------------------------
(***************************************************************************)
(* The first run of the transmitter: packets come in the order in which    *)
(* they were sent and at most MaxLag late, so that the newest block the    *)
(* receiver has heard of bounds how old a packet can be.                   *)
(***************************************************************************)
InOrder(q)   == \A n, m \in 1..Len(q) : n < m => q[n].sent <= q[m].sent
OnTime(q, T) == \A n \in 1..Len(q) : q[n].sent < T /\ T - 1 <= q[n].sent + MaxLag
AsSent(q)    == \A n \in 1..Len(q) :
                  q[n].packet \in Sessions => q[n].packet = tx_session /\ q[n].seq = q[n].sent

\* A queue of an adapter that hears everything: up to the last packet sent.
Complete(q, T) ==
  /\ Len(q) <= T
  /\ \A n \in 1..Len(q) : q[n].packet = tx_session /\ q[n].seq = T - Len(q) + n - 1

OneSession == \A c \in Buffered, k \in Slots : Window[c][k] \in {tx_session, "missing", "corrupt"}

FirstRun ==
  tx_past = {} =>
    /\ tx_seq = sent /\ epoch = 0
    /\ max_block_num * PacketsPerBlock < tx_seq
    /\ OneSession
    /\ \A a \in Interfaces : InOrder(queue[a]) /\ OnTime(queue[a], tx_seq) /\ AsSent(queue[a])

\* Every packet before the n-th is in its buffer, if its block has one.
Kept(n) ==
  /\ n <= (max_block_num + 1) * PacketsPerBlock
  /\ \A c \in Buffered, k \in Slots :
       c * PacketsPerBlock + k < n => Window[c][k] = tx_session

LosslessKept ==
  tx_past = {} =>
    \A a \in Interfaces :
      fates[a] = {"intact"} =>
        /\ Complete(queue[a], tx_seq)
        /\ Kept(tx_seq - Len(queue[a]))
        /\ blocks_received > 0 => \A d \in DataNos : stdout.data[d] = tx_session

LinkInv == LoopInv /\ IInv /\ FirstRun

-----------------------------------------------------------------------------
\* Numbers and blocks.
LEMMA Division ==
  ASSUME NEW s \in Nat, NEW P \in Nat, P > 0
  PROVE  /\ s \div P \in Nat /\ s % P \in 0..(P - 1)
         /\ (s \div P) * P + (s % P) = s
         /\ (s \div P + 1) * P = (s \div P) * P + P
OBVIOUS

LEMMA BlockBounds ==
  ASSUME NEW s \in SequenceNumbers
  PROVE  /\ BlockOf(s) * PacketsPerBlock + SlotOf(s) = s
         /\ BlockOf(s) * PacketsPerBlock <= s
         /\ s < (BlockOf(s) + 1) * PacketsPerBlock
         /\ BlockOf(s) \in Nat /\ SlotOf(s) \in Slots
<1>1. s \in Nat /\ PacketsPerBlock \in Nat /\ PacketsPerBlock > 0
  BY Geometry DEF SequenceNumbers
<1> DEFINE P == PacketsPerBlock
           b == s \div P
           r == s % P
<1> HIDE DEF P
<1>2. b \in Nat /\ r \in 0..(P - 1) /\ b * P + r = s /\ (b + 1) * P = b * P + P
  BY <1>1, Division DEF P
<1> HIDE DEF b, r
<1>3. b * P \in Nat /\ P \in Nat /\ r \in Nat
  BY <1>1, <1>2 DEF P
<1>4. b * P <= s /\ s < (b + 1) * P
  BY <1>2, <1>3
<1>5. b = BlockOf(s) /\ r = SlotOf(s)
  BY DEF BlockOf, SlotOf, b, r, P
<1>6. QED
  BY <1>2, <1>4, <1>5, SequenceNumber DEF P

LEMMA TimesMonotone ==
  ASSUME NEW P \in Nat, NEW x \in Int, NEW y \in Int, x <= y
  PROVE  x * P <= y * P
OBVIOUS

LEMMA ReachesFurther ==
  ASSUME NEW P \in Nat, NEW x \in Int, NEW y \in Int, x <= y, NEW n \in Int
  PROVE  /\ n <= (x + 1) * P => n <= (y + 1) * P
         /\ n < (x + 1) * P => n + 1 <= (y + 1) * P
<1>1. (x + 1) * P \in Int /\ (y + 1) * P \in Int /\ (x + 1) * P <= (y + 1) * P
  BY TimesMonotone
<1>2. QED
  BY <1>1

\* A block and its positions: where a packet is in the stream says where it is in the ring.
LEMMA SamePlace ==
  ASSUME NEW s \in SequenceNumbers, NEW c \in Nat, NEW k \in Slots,
         c * PacketsPerBlock + k = s
  PROVE  c = BlockOf(s) /\ k = SlotOf(s)
<1>1. /\ BlockOf(s) \in Nat /\ SlotOf(s) \in Slots
      /\ BlockOf(s) * PacketsPerBlock + SlotOf(s) = s
  BY SequenceNumber, BlockBounds
<1>2. Slots = 0..(PacketsPerBlock - 1) /\ PacketsPerBlock \in Nat
  BY BlockAssumption, Geometry DEF Slots, PacketsPerBlock, MAX_DATA_OR_FEC_PACKETS_PER_BLOCK
<1> DEFINE b == BlockOf(s)
           P == PacketsPerBlock
<1> HIDE DEF b, P
<1>3. b \in Nat /\ P \in Nat /\ (b + 1) * P = b * P + P /\ (c + 1) * P = c * P + P
  BY <1>1, <1>2 DEF b, P
<1>4. ~(b + 1 <= c)
  <2> SUFFICES ASSUME b + 1 <= c PROVE FALSE
    OBVIOUS
  <2>1. (b + 1) * P <= c * P
    BY <1>3, TimesMonotone
  <2>2. QED
    BY <1>1, <1>2, <1>3, <2>1 DEF b, P
<1>5. ~(c + 1 <= b)
  <2> SUFFICES ASSUME c + 1 <= b PROVE FALSE
    OBVIOUS
  <2>1. (c + 1) * P <= b * P
    BY <1>3, TimesMonotone
  <2>2. QED
    BY <1>1, <1>2, <1>3, <2>1 DEF b, P
<1>6. b = c
  BY <1>3, <1>4, <1>5
<1>7. QED
  BY <1>1, <1>2, <1>6 DEF b

\* A full ring reaches from its oldest block to the newest: it has B places.
LEMMA Span ==
  ASSUME IInv, Cardinality(Buffered) = B, NEW c \in Int, \A e \in Buffered : c <= e
  PROVE  c + B <= max_block_num + 1
<1>1. Buffered \in SUBSET (c..max_block_num) /\ max_block_num \in Int
  BY DEF IInv, TypeOK, LatestBlocksBuffered, Buffered
<1>2. IsFiniteSet(c..max_block_num)
      /\ Cardinality(c..max_block_num) = IF c > max_block_num THEN 0 ELSE max_block_num - c + 1
  BY <1>1, FS_Interval
<1>3. B <= Cardinality(c..max_block_num)
  BY <1>1, <1>2, FS_Subset
<1>4. B \in Nat /\ B > 0
  BY Geometry
<1>5. QED
  BY <1>1, <1>2, <1>3, <1>4

LEMMA WindowType == IInv => \A c \in Buffered : c \in Nat /\ Window[c] \in [Slots -> Packet]
<1> SUFFICES ASSUME IInv, NEW c \in Buffered PROVE c \in Nat /\ Window[c] \in [Slots -> Packet]
  OBVIOUS
<1>1. PICK j \in Buffers : block_num[j] = c /\ c # -1
  BY DEF Buffered
<1>2. Window[c] = packet_list[j]
  BY <1>1, WindowFacts DEF HasPackets
<1>3. QED
  BY <1>1, <1>2 DEF IInv, TypeOK

-----------------------------------------------------------------------------
\* Queues: a packet comes in at the end and goes out at the head.
LEMMA Appended ==
  ASSUME NEW S, NEW q \in Seq(S), NEW e \in S
  PROVE  /\ Len(q \o <<e>>) = Len(q) + 1 /\ Len(q) \in Nat
         /\ \A n \in 1..(Len(q) + 1) : (q \o <<e>>)[n] = IF n <= Len(q) THEN q[n] ELSE e
OBVIOUS

LEMMA Tailed ==
  ASSUME NEW S, NEW q \in Seq(S), q # <<>>
  PROVE  /\ Len(q) \in Nat /\ Len(q) > 0 /\ Len(Tail(q)) = Len(q) - 1
         /\ Head(q) = q[1] /\ q[1] \in S
         /\ \A n \in 1..(Len(q) - 1) : Tail(q)[n] = q[n + 1]
OBVIOUS
\* A queue of which the last packet is the T-th is on time at T + 1 if its head is.
LEMMA StillOnTime ==
  ASSUME NEW q \in Seq(LinkPacket), NEW T \in Nat, InOrder(q), OnTime(q, T),
         q # <<>> => T - Head(q).sent <= MaxLag
  PROVE  OnTime(q, T + 1)
<1> SUFFICES ASSUME NEW n \in 1..Len(q)
             PROVE  q[n].sent < T + 1 /\ (T + 1) - 1 <= q[n].sent + MaxLag
  BY DEF OnTime
<1>1. Len(q) \in Nat /\ q # <<>> /\ 1 \in 1..Len(q) /\ Head(q) = q[1]
  OBVIOUS
<1>2. q[n] \in LinkPacket /\ q[1] \in LinkPacket
  BY <1>1
<1>3. q[n].sent \in Nat /\ q[1].sent \in Nat
  BY <1>2 DEF LinkPacket
<1>4. q[1].sent <= q[n].sent
  BY <1>1, <1>3 DEF InOrder
<1>5. q[n].sent < T
  BY DEF OnTime
<1>6. QED
  BY <1>1, <1>3, <1>4, <1>5, LinkAssumption

LEMMA QueueSent ==
  ASSUME NEW q \in Seq(LinkPacket), NEW e \in LinkPacket, NEW T \in Nat,
         InOrder(q), OnTime(q, T), AsSent(q), OnTime(q, T + 1),
         e.sent = T, e.packet \in Sessions => e.packet = tx_session /\ e.seq = T
  PROVE  /\ InOrder(q \o <<e>>) /\ OnTime(q \o <<e>>, T + 1) /\ AsSent(q \o <<e>>)
         /\ Complete(q, T) /\ e.packet = tx_session /\ e.seq = T => Complete(q \o <<e>>, T + 1)
<1> DEFINE r == q \o <<e>>
           len == Len(q)
<1>1. Len(r) = len + 1 /\ len \in Nat
  BY Appended
<1>2. \A n \in 1..(len + 1) : r[n] = IF n <= len THEN q[n] ELSE e
  BY Appended
<1> HIDE DEF r
<1>3. ASSUME NEW n \in 1..len PROVE q[n].sent \in Nat
  <2>1. q[n] \in LinkPacket
    OBVIOUS
  <2>2. QED
    BY <2>1 DEF LinkPacket
<1> HIDE DEF len
<1>4. \A n \in 1..len : r[n] = q[n]
  BY <1>1, <1>2
<1>5. r[len + 1] = e
  BY <1>1, <1>2
<1>6. \A n \in 1..(len + 1) : n \in 1..len \/ n = len + 1
  BY <1>1
<1>7. InOrder(r)
  <2> SUFFICES ASSUME NEW n \in 1..(len + 1), NEW m \in 1..(len + 1), n < m
               PROVE  r[n].sent <= r[m].sent
    BY <1>1 DEF InOrder
  <2>1. n \in 1..len /\ r[n] = q[n]
    BY <1>1, <1>4
  <2>2. q[n].sent \in Nat /\ q[n].sent < T
    BY <1>3, <2>1 DEF OnTime, len
  <2>3. CASE m \in 1..len
    BY <1>4, <2>1, <2>3 DEF InOrder, len
  <2>4. CASE m = len + 1
    BY <1>5, <2>1, <2>2, <2>4
  <2>5. QED
    BY <1>6, <2>3, <2>4
<1>8. OnTime(r, T + 1)
  <2> SUFFICES ASSUME NEW n \in 1..(len + 1)
               PROVE  r[n].sent < T + 1 /\ (T + 1) - 1 <= r[n].sent + MaxLag
    BY <1>1 DEF OnTime
  <2>1. CASE n \in 1..len
    BY <1>4, <2>1 DEF OnTime, len
  <2>2. CASE n = len + 1
    BY <1>5, <2>2, LinkAssumption
  <2>3. QED
    BY <1>6, <2>1, <2>2
<1>9. AsSent(r)
  BY <1>1, <1>4, <1>5, <1>6 DEF AsSent, len
<1>10. ASSUME Complete(q, T), e.packet = tx_session, e.seq = T PROVE Complete(r, T + 1)
  <2>1. len <= T /\ \A n \in 1..len : q[n].packet = tx_session /\ q[n].seq = T - len + n - 1
    BY <1>10 DEF Complete, len
  <2>2. ASSUME NEW n \in 1..(len + 1)
        PROVE  r[n].packet = tx_session /\ r[n].seq = (T + 1) - (len + 1) + n - 1
    <3>0. (T + 1) - (len + 1) + n - 1 = T - len + n - 1
      BY <1>1
    <3>1. CASE n \in 1..len
      BY <1>4, <2>1, <3>0, <3>1
    <3>2. CASE n = len + 1
      <4>1. T - len + n - 1 = T
        BY <1>1, <3>2
      <4>2. QED
        BY <1>5, <1>10, <3>0, <3>2, <4>1
    <3>3. QED
      BY <1>6, <3>1, <3>2
  <2>3. QED
    BY <1>1, <2>1, <2>2 DEF Complete
<1>11. QED
  BY <1>7, <1>8, <1>9, <1>10 DEF r

LEMMA QueueTaken ==
  ASSUME NEW q \in Seq(LinkPacket), NEW T \in Nat, q # <<>>,
         InOrder(q), OnTime(q, T), AsSent(q)
  PROVE  /\ InOrder(Tail(q)) /\ OnTime(Tail(q), T) /\ AsSent(Tail(q))
         /\ Head(q).sent \in Nat /\ Head(q).sent < T /\ T - 1 <= Head(q).sent + MaxLag
         /\ Head(q).packet \in Sessions => Head(q).packet = tx_session /\ Head(q).seq = Head(q).sent
         /\ Complete(q, T) => /\ Complete(Tail(q), T)
                              /\ Head(q).packet = tx_session /\ Head(q).seq = T - Len(q)
                              /\ T - Len(Tail(q)) = T - Len(q) + 1
<1> DEFINE r == Tail(q)
           len == Len(q)
<1>1. len \in Nat /\ len > 0 /\ Len(r) = len - 1 /\ Head(q) = q[1] /\ q[1] \in LinkPacket
  BY Tailed
<1>2. \A n \in 1..(len - 1) : r[n] = q[n + 1]
  BY Tailed
<1> HIDE DEF r, len
<1>3. 1 \in 1..len /\ \A n \in 1..(len - 1) : n + 1 \in 1..len
  BY <1>1
<1>4. InOrder(r)
  BY <1>1, <1>2, <1>3 DEF InOrder, len
<1>5. OnTime(r, T)
  BY <1>1, <1>2, <1>3 DEF OnTime, len
<1>6. AsSent(r)
  BY <1>1, <1>2, <1>3 DEF AsSent, len
<1>7. Head(q).sent \in Nat /\ Head(q).sent < T /\ T - 1 <= Head(q).sent + MaxLag
  BY <1>1, <1>3 DEF OnTime, LinkPacket, len
<1>8. Head(q).packet \in Sessions => Head(q).packet = tx_session /\ Head(q).seq = Head(q).sent
  BY <1>1, <1>3 DEF AsSent, len
<1>9. ASSUME Complete(q, T)
      PROVE  /\ Complete(r, T) /\ Head(q).packet = tx_session /\ Head(q).seq = T - len
             /\ T - Len(r) = T - len + 1
  <2>1. len <= T /\ \A n \in 1..len : q[n].packet = tx_session /\ q[n].seq = T - len + n - 1
    BY <1>9 DEF Complete, len
  <2>2. ASSUME NEW n \in 1..(len - 1)
        PROVE  r[n].packet = tx_session /\ r[n].seq = T - (len - 1) + n - 1
    <3>1. T - len + (n + 1) - 1 = T - (len - 1) + n - 1
      BY <1>1
    <3>2. QED
      BY <1>2, <1>3, <2>1, <3>1
  <2>3. Complete(r, T)
    BY <1>1, <2>1, <2>2 DEF Complete
  <2>4. T - len + 1 - 1 = T - len /\ T - (len - 1) = T - len + 1
    BY <1>1
  <2>5. QED
    BY <1>1, <1>3, <2>1, <2>3, <2>4
<1>10. QED
  BY <1>4, <1>5, <1>6, <1>7, <1>8, <1>9 DEF r, len
-----------------------------------------------------------------------------
(***************************************************************************)
(* One packet in the ring, in terms of the window it implements.           *)
(***************************************************************************)
\* What the window then holds is what it held, the packet, or nothing yet of a
\* block that the packet opens.
Placed(b, k, p) ==
  \A c \in Buffered', j \in Slots :
    \/ c \in Buffered /\ Window'[c][j] = Window[c][j]
    \/ /\ c = b /\ j = k /\ Window'[c][j] = p
       /\ p \in Sessions \/ (c \in Buffered /\ Window[c][j] \notin Sessions)
    \/ c = b /\ b > max_block_num /\ Window'[c][j] = "missing"

\* An intact packet is there afterwards, if its block is.
There(b, k, p) ==
  p \in Sessions => b <= max_block_num' /\ (b \in Buffered' => Window'[b][k] \in Sessions)

\* The window only moves on for an intact packet of a new block.
Moved(b, p) ==
  \/ max_block_num' = max_block_num /\ stdout' = stdout /\ blocks_received' = blocks_received
  \/ /\ p \in Sessions /\ b > max_block_num /\ max_block_num' = b
     /\ \/ stdout' = stdout /\ blocks_received' = blocks_received
        \/ /\ Cardinality(Buffered) = B
           /\ \E oldest \in Buffered :
                /\ \A c \in Buffered : oldest <= c
                /\ stdout'.data = Decoded(Window[oldest]).data

LEMMA MergedIs ==
  ASSUME NEW list \in [Slots -> Packet], NEW k \in Slots, NEW p
  PROVE  /\ \A j \in Slots : \/ Stream!Merged(list, k, p)[j] = list[j]
                             \/ /\ j = k /\ Stream!Merged(list, k, p)[j] = p
                                /\ list[j] \notin Sessions
         /\ p \in Sessions => Stream!Merged(list, k, p)[k] \in Sessions
BY DEF Stream!Merged

LEMMA AloneIs ==
  ASSUME NEW k \in Slots, NEW p
  PROVE  /\ \A j \in Slots : \/ j = k /\ Stream!Alone(k, p)[j] = p
                             \/ Stream!Alone(k, p)[j] = "missing"
         /\ Stream!Alone(k, p)[k] = p
BY DEF Stream!Alone

LEMMA PacketTaken ==
  ASSUME IInv, IInv', NEW s \in SequenceNumbers, NEW p \in Received, process_payload(s, p),
         p \in Sessions => ~TxRestart(BlockOf(s))
  PROVE  /\ epoch' = epoch
         /\ Placed(BlockOf(s), SlotOf(s), p) /\ There(BlockOf(s), SlotOf(s), p)
         /\ Moved(BlockOf(s), p)
<1> DEFINE b == BlockOf(s)
           k == SlotOf(s)
<1>1. b \in Nat /\ k \in Slots /\ max_block_num \in Int
  BY SequenceNumber DEF IInv, TypeOK
<1>2. Stream!Held = Buffered /\ (DOMAIN Window)' = Buffered'
      /\ \A c \in Buffered : Window[c] \in [Slots -> Packet]
  BY WindowFacts, WindowFactsPrime, WindowType DEF Stream!Held
<1>3. CASE BufferPacket(s, p)
  <2>1. /\ epoch' = epoch /\ max_block_num' = max_block_num
        /\ stdout' = stdout /\ blocks_received' = blocks_received
        /\ p \in Sessions => ~NewBlock(b)
    BY <1>3 DEF BufferPacket, output, history
  <2>2. p \in Sessions => b <= max_block_num
    BY <1>1, <2>1 DEF NewBlock
  <2>3. Stream!Merge(b, k, p) \/ (b \notin Buffered /\ UNCHANGED Stream!vars)
    BY <1>3, BufferImplements
  <2> HIDE DEF b, k
  <2>4. CASE Stream!Merge(b, k, p)
    <3>1. /\ b \in Buffered
          /\ Window' = [c \in Buffered |-> IF c = b THEN Stream!Merged(Window[c], k, p) ELSE Window[c]]
      BY <1>2, <2>4 DEF Stream!Merge
    <3>2. Buffered' = Buffered
      BY <1>2, <3>1
    <3>3. QED
      BY <1>1, <1>2, <2>1, <2>2, <3>1, <3>2, MergedIs DEF Placed, There, Moved, b, k
  <2>5. CASE b \notin Buffered /\ UNCHANGED Stream!vars
    <3>1. Window' = Window /\ Buffered' = Buffered
      BY <1>2, <2>5, WindowFacts DEF Stream!vars
    <3>2. QED
      BY <2>1, <2>2, <2>5, <3>1 DEF Placed, There, Moved, b, k
  <2>6. QED
    BY <2>3, <2>4, <2>5
<1>4. CASE OpenBlock(s, p)
  <2>1. Stream!Open(b, k, p) /\ UNCHANGED <<stdout, blocks_received, epoch>>
    BY <1>4, OpenImplements DEF OpenBlock, output
  <2> HIDE DEF b, k
  <2>2. /\ b > max_block_num /\ max_block_num' = b /\ p \in Sessions
        /\ Window' = [c \in Buffered \cup {b} |-> IF c = b THEN Stream!Alone(k, p) ELSE Window[c]]
    BY <1>2, <2>1 DEF Stream!Open
  <2>3. Buffered' = Buffered \cup {b}
    BY <1>2, <2>2
  <2>4. QED
    BY <1>1, <1>2, <2>1, <2>2, <2>3, AloneIs DEF Placed, There, Moved, b, k
<1>5. CASE FlushBlock(s, p)
  <2>1. Stream!Slide(b, k, p)
    BY <1>5, FlushImplements
  <2> HIDE DEF b, k
  <2>2. PICK oldest \in Buffered :
          /\ \A c \in Buffered : oldest <= c
          /\ stdout' = [epoch |-> epoch, block_num |-> oldest,
                        failed |-> Decoded(Window[oldest]).failed,
                        data |-> Decoded(Window[oldest]).data]
          /\ Window' = [c \in (Buffered \ {oldest}) \cup {b} |->
                          IF c = b THEN Stream!Alone(k, p) ELSE Window[c]]
    BY <1>2, <2>1 DEF Stream!Slide
  <2>3. /\ b > max_block_num /\ max_block_num' = b /\ p \in Sessions
        /\ epoch' = epoch /\ Cardinality(Buffered) = B
    BY <1>2, <2>1, SameCardinality DEF Stream!Slide
  <2>4. Buffered' = (Buffered \ {oldest}) \cup {b}
    BY <1>2, <2>2
  <2>5. stdout'.data = Decoded(Window[oldest]).data
    BY <2>2
  <2>6. Placed(b, k, p) /\ There(b, k, p)
    BY <1>1, <1>2, <2>2, <2>3, <2>4, AloneIs DEF Placed, There
  <2>7. Moved(b, p)
    BY <2>2, <2>3, <2>5 DEF Moved
  <2>8. QED
    BY <2>3, <2>6, <2>7 DEF b, k
<1>6. ~RestartRing(s, p)
  BY DEF RestartRing
<1>7. QED
  BY <1>3, <1>4, <1>5, <1>6 DEF process_payload
-----------------------------------------------------------------------------
(***************************************************************************)
(* The steps of the link keep FirstRun and LosslessKept.                   *)
(***************************************************************************)
LEMMA RingUnchanged ==
  UNCHANGED vars => /\ Buffered' = Buffered /\ Window' = Window
                    /\ max_block_num' = max_block_num /\ epoch' = epoch
                    /\ stdout' = stdout /\ blocks_received' = blocks_received
                    /\ opened' = opened
BY DEF vars, ring, output, history, Window, Buffered, BufferOf

LEMMA TransmitQueue ==
  ASSUME LinkInv, Transmit, tx_past = {}, NEW a \in Interfaces
  PROVE  /\ InOrder(queue'[a]) /\ OnTime(queue'[a], tx_seq + 1) /\ AsSent(queue'[a])
         /\ fates[a] = {"intact"} /\ Complete(queue[a], tx_seq) =>
              /\ Complete(queue'[a], tx_seq + 1)
              /\ (tx_seq + 1) - Len(queue'[a]) = tx_seq - Len(queue[a])
<1>1. /\ tx_seq \in SequenceNumbers /\ tx_seq \in Nat /\ sent = tx_seq
      /\ InOrder(queue[a]) /\ OnTime(queue[a], tx_seq) /\ AsSent(queue[a])
      /\ queue[a] \in Seq(LinkPacket) /\ LoopType
  BY DEF LinkInv, FirstRun, Transmit, SequenceNumbers, LoopInv, LoopType
<1>2. queue[a] # <<>> => tx_seq - Head(queue[a]).sent <= MaxLag
  BY <1>1 DEF Transmit
<1>3. OnTime(queue[a], tx_seq + 1)
  BY <1>1, <1>2, StillOnTime
<1>4. PICK fate \in [Interfaces -> {"lost", "corrupt", "intact"}] :
        /\ fate[a] \in fates[a]
        /\ \E arrival \in [Interfaces -> UNION {Arrivals(fate[x]) : x \in Interfaces}] :
             /\ arrival[a] \in Arrivals(fate[a])
             /\ queue'[a] = queue[a] \o arrival[a]
  BY DEF Transmit
<1>5. PICK q \in Arrivals(fate[a]) : queue'[a] = queue[a] \o q
  BY <1>4
<1>6. CASE q = <<>> /\ fate[a] = "lost"
  <2>1. queue'[a] = queue[a] /\ fates[a] # {"intact"}
    BY <1>1, <1>4, <1>5, <1>6
  <2>2. QED
    BY <1>1, <1>3, <2>1
<1>7. CASE \E e \in LinkPacket :
             /\ q = <<e>> /\ e.sent = sent
             /\ e.packet \in Sessions => e.packet = tx_session /\ e.seq = tx_seq
             /\ fate[a] = "intact" => e.packet = tx_session /\ e.seq = tx_seq
  <2>1. PICK e \in LinkPacket :
             /\ q = <<e>> /\ e.sent = tx_seq
             /\ e.packet \in Sessions => e.packet = tx_session /\ e.seq = tx_seq
             /\ fate[a] = "intact" => e.packet = tx_session /\ e.seq = tx_seq
    BY <1>1, <1>7
  <2>2. queue'[a] = queue[a] \o <<e>>
    BY <1>5, <2>1
  <2>3. InOrder(queue'[a]) /\ OnTime(queue'[a], tx_seq + 1) /\ AsSent(queue'[a])
    BY <1>1, <1>3, <2>1, <2>2, QueueSent
  <2>4. ASSUME fates[a] = {"intact"}, Complete(queue[a], tx_seq)
        PROVE  /\ Complete(queue'[a], tx_seq + 1)
               /\ (tx_seq + 1) - Len(queue'[a]) = tx_seq - Len(queue[a])
    <3>1. e.packet = tx_session /\ e.seq = tx_seq
      BY <1>4, <2>1, <2>4
    <3>2. Complete(queue'[a], tx_seq + 1)
      BY <1>1, <1>3, <2>1, <2>2, <2>4, <3>1, QueueSent
    <3>3. Len(queue'[a]) = Len(queue[a]) + 1 /\ Len(queue[a]) \in Nat
      BY <1>1, <2>2, Appended
    <3>4. QED
      BY <1>1, <3>2, <3>3
  <2>5. QED
    BY <2>3, <2>4
<1>8. fate[a] \in {"lost", "corrupt", "intact"}
  BY <1>4
<1>9. QED
  BY <1>1, <1>6, <1>7, <1>8, ArrivalIs

LEMMA TransmitFirst ==
  ASSUME LinkInv, Transmit
  PROVE  FirstRun'
<1>1. /\ tx_past' = tx_past /\ tx_session' = tx_session /\ fates' = fates
      /\ tx_seq' = tx_seq + 1 /\ sent' = sent + 1 /\ UNCHANGED vars
  BY DEF Transmit
<1>2. SUFFICES ASSUME tx_past = {} PROVE FirstRun'
  BY <1>1 DEF FirstRun
<1>3. /\ tx_seq' = sent' /\ epoch' = 0 /\ OneSession' /\ tx_seq \in Nat
      /\ max_block_num * PacketsPerBlock < tx_seq /\ max_block_num \in Int
  BY <1>1, <1>2, RingUnchanged
     DEF LinkInv, FirstRun, OneSession, Transmit, SequenceNumbers, IInv, TypeOK
<1>4. max_block_num' * PacketsPerBlock < tx_seq'
  BY <1>1, <1>3, RingUnchanged, Geometry
<1>5. ASSUME NEW a \in Interfaces
      PROVE  (InOrder(queue[a]) /\ OnTime(queue[a], tx_seq) /\ AsSent(queue[a]))'
  <2>1. InOrder(queue'[a]) /\ OnTime(queue'[a], tx_seq + 1) /\ AsSent(queue'[a])
    BY <1>2, TransmitQueue
  <2>2. InOrder(queue[a])' /\ OnTime(queue[a], tx_seq)'
    BY <1>1, <2>1 DEF InOrder, OnTime
  <2>3. AsSent(queue[a])'
    BY <1>1, <2>1 DEF AsSent
  <2>4. QED
    BY <2>2, <2>3
<1>6. QED
  BY <1>3, <1>4, <1>5 DEF FirstRun

LEMMA TransmitLossless ==
  ASSUME LinkInv, LosslessKept, Transmit
  PROVE  LosslessKept'
<1>1. /\ tx_past' = tx_past /\ tx_session' = tx_session /\ fates' = fates
      /\ tx_seq' = tx_seq + 1 /\ UNCHANGED vars
  BY DEF Transmit
<1>2. SUFFICES ASSUME tx_past = {}, NEW a \in Interfaces, fates[a] = {"intact"}
               PROVE  /\ Complete(queue[a], tx_seq)'
                      /\ Kept(tx_seq - Len(queue[a]))'
                      /\ (blocks_received > 0 => \A d \in DataNos : stdout.data[d] = tx_session)'
  BY <1>1 DEF LosslessKept
<1>3. /\ Complete(queue[a], tx_seq) /\ Kept(tx_seq - Len(queue[a]))
      /\ blocks_received > 0 => \A d \in DataNos : stdout.data[d] = tx_session
  BY <1>2 DEF LosslessKept
<1>4. /\ Complete(queue'[a], tx_seq + 1)
      /\ (tx_seq + 1) - Len(queue'[a]) = tx_seq - Len(queue[a])
  BY <1>2, <1>3, TransmitQueue
<1>5. Complete(queue[a], tx_seq)'
  BY <1>1, <1>4 DEF Complete
<1>6. Kept(tx_seq - Len(queue[a]))'
  BY <1>1, <1>3, <1>4, RingUnchanged DEF Kept
<1>7. QED
  BY <1>1, <1>3, <1>5, <1>6, RingUnchanged
\* What the newest block says about the age of a packet.
LEMMA AgeBound ==
  ASSUME NEW s \in SequenceNumbers, NEW T \in Nat, NEW n \in Nat,
         max_block_num \in Int, max_block_num * PacketsPerBlock < T,
         T - 1 <= s + MaxLag, MaxLag <= n * PacketsPerBlock
  PROVE  max_block_num <= BlockOf(s) + n
<1> DEFINE P == PacketsPerBlock
           b == BlockOf(s)
           m == max_block_num
<1>1. P \in Nat /\ b \in Nat /\ s \in Nat /\ s < (b + 1) * P /\ m \in Int /\ MaxLag \in Nat
  BY Geometry, BlockBounds, LinkAssumption DEF SequenceNumbers
<1>2. m * P < T /\ MaxLag <= n * P
  OBVIOUS
<1> HIDE DEF P, b, m
<1>3. SUFFICES ASSUME b + n + 1 <= m PROVE FALSE
  BY <1>1 DEF b, m
<1>4. (b + n + 1) * P <= m * P
  BY <1>1, <1>3, TimesMonotone
<1>5. (b + n + 1) * P = (b + 1) * P + n * P
  BY <1>1
<1>6. n * P \in Nat /\ (b + 1) * P \in Nat /\ m * P \in Int
  BY <1>1
<1>7. QED
  BY <1>1, <1>2, <1>4, <1>5, <1>6

LEMMA TakeFacts ==
  ASSUME LinkInv, process_packet
  PROVE  /\ i \in Interfaces /\ queue[i] \in Seq(LinkPacket) /\ queue[i] # <<>>
         /\ Head(queue[i]).seq \in SequenceNumbers /\ Head(queue[i]).packet \in Received
         /\ process_payload(Head(queue[i]).seq, Head(queue[i]).packet)
         /\ queue' = [queue EXCEPT ![i] = Tail(@)]
         /\ UNCHANGED <<fates, tx_session, tx_past, tx_seq, sent>>
         /\ IInv'
<1>1. /\ i \in Interfaces /\ queue[i] \in Seq(LinkPacket) /\ queue[i] # <<>>
      /\ process_payload(Head(queue[i]).seq, Head(queue[i]).packet)
      /\ queue' = [queue EXCEPT ![i] = Tail(@)]
      /\ UNCHANGED <<fates, tx_session, tx_past, tx_seq, sent>>
  BY LinkAssumption
     DEF process_packet, LinkInv, LoopInv, LoopType, Pending, Interfaces, transmitter
<1>2. Head(queue[i]) \in LinkPacket
  BY <1>1, Tailed
<1>3. Head(queue[i]).seq \in SequenceNumbers /\ Head(queue[i]).packet \in Received
  BY <1>2 DEF LinkPacket
<1>4. Next
  BY <1>1, <1>3 DEF Next
<1>5. IInv'
  BY <1>4, StepInvariant DEF LinkInv
<1>6. QED
  BY <1>1, <1>3, <1>5

\* In the first run the packet that is taken is one of the transmitter's, and
\* not older than the lag allows.
LEMMA TakeFirstRun ==
  ASSUME LinkInv, process_packet, tx_past = {}
  PROVE  LET p == Head(queue[i]).packet
             s == Head(queue[i]).seq
         IN /\ p \in {tx_session, "corrupt"} /\ tx_session \in Sessions
            /\ p \in Sessions => s < tx_seq /\ tx_seq - 1 <= s + MaxLag
            /\ \A a \in Interfaces :
                 (InOrder(queue[a]) /\ OnTime(queue[a], tx_seq) /\ AsSent(queue[a]))'
<1> DEFINE p == Head(queue[i]).packet
           s == Head(queue[i]).seq
<1>1. /\ tx_seq = sent /\ tx_seq \in Nat /\ tx_session \in Sessions
      /\ \A a \in Interfaces : /\ InOrder(queue[a]) /\ OnTime(queue[a], tx_seq) /\ AsSent(queue[a])
                               /\ queue[a] \in Seq(LinkPacket)
  BY DEF LinkInv, FirstRun, LoopInv, LoopType
<1>2. /\ i \in Interfaces /\ queue[i] \in Seq(LinkPacket) /\ queue[i] # <<>>
      /\ p \in Received /\ s \in SequenceNumbers
      /\ queue' = [queue EXCEPT ![i] = Tail(@)] /\ tx_session' = tx_session /\ tx_seq' = tx_seq
  BY TakeFacts
<1>3. /\ InOrder(Tail(queue[i])) /\ OnTime(Tail(queue[i]), tx_seq) /\ AsSent(Tail(queue[i]))
      /\ Head(queue[i]).sent \in Nat
      /\ p \in Sessions => p = tx_session /\ s < tx_seq /\ tx_seq - 1 <= s + MaxLag
  <2>1. /\ Head(queue[i]).sent < tx_seq /\ tx_seq - 1 <= Head(queue[i]).sent + MaxLag
        /\ p \in Sessions => p = tx_session /\ s = Head(queue[i]).sent
    BY <1>1, <1>2, QueueTaken
  <2>2. QED
    BY <1>1, <1>2, <2>1, QueueTaken
<1>4. p \in {tx_session, "corrupt"}
  BY <1>2, <1>3 DEF Received
<1>5. ASSUME NEW a \in Interfaces
      PROVE  (InOrder(queue[a]) /\ OnTime(queue[a], tx_seq) /\ AsSent(queue[a]))'
  <2>1. queue'[a] = IF a = i THEN Tail(queue[i]) ELSE queue[a]
    BY <1>2 DEF LinkInv, LoopInv, LoopType
  <2>2. InOrder(queue'[a]) /\ OnTime(queue'[a], tx_seq) /\ AsSent(queue'[a])
    BY <1>1, <1>3, <2>1
  <2>3. InOrder(queue[a])' /\ OnTime(queue[a], tx_seq)'
    BY <1>2, <2>2 DEF InOrder, OnTime
  <2>4. AsSent(queue[a])'
    BY <1>2, <2>2 DEF AsSent
  <2>5. QED
    BY <2>3, <2>4
<1>6. QED
  BY <1>1, <1>3, <1>4, <1>5

LEMMA TakeNumbers ==
  ASSUME LinkInv, process_packet, tx_past = {}, Head(queue[i]).packet \in Sessions
  PROVE  /\ Head(queue[i]).seq \in SequenceNumbers /\ tx_seq \in Nat
         /\ tx_seq - 1 <= Head(queue[i]).seq + MaxLag
         /\ max_block_num * PacketsPerBlock < tx_seq /\ max_block_num \in Int
<1>1. Head(queue[i]).seq \in SequenceNumbers
  BY TakeFacts
<1>2. tx_seq - 1 <= Head(queue[i]).seq + MaxLag
  BY TakeFirstRun
<1>3. max_block_num * PacketsPerBlock < tx_seq
  BY DEF LinkInv, FirstRun
<1>4. max_block_num \in Int
  BY DEF LinkInv, IInv, TypeOK
<1>5. tx_seq \in Nat
  BY DEF LinkInv, FirstRun, LoopInv, LoopType
<1>6. QED
  BY <1>1, <1>2, <1>3, <1>4, <1>5

\* So it is never taken for one of a transmitter that has been restarted.
LEMMA NoTxRestart ==
  ASSUME MaxLag <= RestartFactor * B * PacketsPerBlock,
         LinkInv, process_packet, tx_past = {}, Head(queue[i]).packet \in Sessions
  PROVE  ~TxRestart(BlockOf(Head(queue[i]).seq))
<1> DEFINE s == Head(queue[i]).seq
           n == RestartFactor * B
<1>1. /\ s \in SequenceNumbers /\ tx_seq \in Nat /\ tx_seq - 1 <= s + MaxLag
      /\ max_block_num * PacketsPerBlock < tx_seq /\ max_block_num \in Int
  BY TakeNumbers
<1>2. n \in Nat /\ MaxLag <= n * PacketsPerBlock
  BY Geometry
<1> HIDE DEF s, n
<1>3. max_block_num <= BlockOf(s) + n /\ BlockOf(s) \in Nat
  BY <1>1, <1>2, AgeBound, BlockBounds
<1>4. ~(BlockOf(s) + n < max_block_num)
  BY <1>1, <1>2, <1>3
<1>5. QED
  BY <1>4 DEF TxRestart, s, n
\* What PacketTaken says, for a packet of the link.
LEMMA TakePlaces ==
  ASSUME MaxLag <= RestartFactor * B * PacketsPerBlock,
         LinkInv, process_packet, tx_past = {}
  PROVE  LET p == Head(queue[i]).packet
             b == BlockOf(Head(queue[i]).seq)
             k == SlotOf(Head(queue[i]).seq)
         IN epoch' = epoch /\ Placed(b, k, p) /\ There(b, k, p) /\ Moved(b, p)
BY TakeFacts, NoTxRestart, PacketTaken DEF LinkInv

LEMMA TakeFirst ==
  ASSUME MaxLag <= RestartFactor * B * PacketsPerBlock, LinkInv, process_packet
  PROVE  FirstRun'
<1>0. UNCHANGED <<fates, tx_session, tx_past, tx_seq, sent>>
  BY TakeFacts
<1>1. SUFFICES ASSUME tx_past = {} PROVE FirstRun'
  BY <1>0 DEF FirstRun
<1> DEFINE p == Head(queue[i]).packet
           s == Head(queue[i]).seq
           b == BlockOf(s)
           k == SlotOf(s)
<1>2. epoch' = epoch /\ Placed(b, k, p) /\ Moved(b, p)
  BY <1>1, TakePlaces
<1>3. /\ p \in {tx_session, "corrupt"} /\ s \in SequenceNumbers
      /\ p \in Sessions => s < tx_seq
      /\ \A a \in Interfaces :
           (InOrder(queue[a]) /\ OnTime(queue[a], tx_seq) /\ AsSent(queue[a]))'
  BY <1>1, TakeFacts, TakeFirstRun
<1>4. /\ tx_seq = sent /\ epoch = 0 /\ max_block_num * PacketsPerBlock < tx_seq
      /\ OneSession /\ tx_seq \in Nat
  BY <1>1 DEF LinkInv, FirstRun, LoopInv, LoopType
<1> HIDE DEF p, k
<1>5. max_block_num' * PacketsPerBlock < tx_seq'
  <2>1. CASE max_block_num' = max_block_num
    BY <1>0, <1>4, <2>1
  <2>2. CASE p \in Sessions /\ max_block_num' = b
    <3>1. b * PacketsPerBlock <= s /\ s \in Nat /\ b \in Nat /\ PacketsPerBlock \in Nat
      BY <1>3, BlockBounds, Geometry DEF SequenceNumbers
    <3>2. b * PacketsPerBlock \in Nat
      BY <3>1
    <3>3. QED
      BY <1>0, <1>3, <1>4, <2>2, <3>1, <3>2
  <2>3. QED
    BY <1>2, <2>1, <2>2 DEF Moved
<1>6. OneSession'
  BY <1>0, <1>2, <1>3, <1>4 DEF OneSession, Placed
<1>7. QED
  BY <1>0, <1>2, <1>3, <1>4, <1>5, <1>6 DEF FirstRun

-----------------------------------------------------------------------------
LEMMA LinkInit1 == LinkInit => LinkInv
<1> SUFFICES ASSUME LinkInit PROVE LinkInv
  OBVIOUS
<1>1. LoopInv /\ IInv
  BY LoopInit, InitInvariant DEF LinkInit
<1>2. Buffered = {}
  BY DEF LinkInit, Init, Buffered
<1>3. max_block_num * PacketsPerBlock < tx_seq
  BY Geometry DEF LinkInit, Init
<1>4. \A a \in Interfaces : InOrder(queue[a]) /\ OnTime(queue[a], tx_seq) /\ AsSent(queue[a])
  <2>1. \A a \in Interfaces : queue[a] = <<>> /\ Len(queue[a]) = 0
    BY DEF LinkInit
  <2>2. QED
    BY <2>1 DEF InOrder, OnTime, AsSent
<1>5. tx_seq = sent /\ epoch = 0
  BY DEF LinkInit, Init
<1>6. QED
  BY <1>1, <1>2, <1>3, <1>4, <1>5 DEF LinkInv, FirstRun, OneSession

\* Steps that touch neither the ring, nor the transmitter, nor the queues.
LEMMA IdleKeeps ==
  UNCHANGED <<vars, fates, tx_session, tx_past, tx_seq, sent, queue>> =>
    (FirstRun => FirstRun') /\ (LosslessKept => LosslessKept')
<1> SUFFICES ASSUME UNCHANGED <<vars, fates, tx_session, tx_past, tx_seq, sent, queue>>
             PROVE  (FirstRun => FirstRun') /\ (LosslessKept => LosslessKept')
  OBVIOUS
<1>1. FirstRun => FirstRun'
  BY RingUnchanged DEF FirstRun, OneSession, InOrder, OnTime, AsSent
<1>2. LosslessKept => LosslessKept'
  BY RingUnchanged DEF LosslessKept, Complete, Kept
<1>3. QED
  BY <1>1, <1>2

LEMMA LinkRing == ASSUME LinkInv, [LinkNext]_linkVars PROVE IInv'
<1>1. CASE process_packet
  BY <1>1, TakeFacts
<1>2. CASE UNCHANGED vars
  BY <1>2, StepInvariant DEF LinkInv
<1>3. process_packet \/ UNCHANGED vars
  BY DEF LinkNext, wbc_befiReceiver, Transmit, RestartTransmitter, Select, NotReadable,
         ScanEnds, linkVars
<1>4. QED
  BY <1>1, <1>2, <1>3

LEMMA LinkStep ==
  ASSUME MaxLag <= RestartFactor * B * PacketsPerBlock, LinkInv, [LinkNext]_linkVars
  PROVE  LinkInv'
<1>1. LoopInv' /\ IInv'
  BY LoopStep, LinkRing DEF LinkInv
<1>2. CASE Transmit
  BY <1>1, <1>2, TransmitFirst DEF LinkInv
<1>3. CASE RestartTransmitter
  BY <1>1, <1>3 DEF RestartTransmitter, LinkInv, FirstRun
<1>4. CASE process_packet
  BY <1>1, <1>4, TakeFirst DEF LinkInv
<1>5. CASE Select \/ NotReadable \/ ScanEnds \/ UNCHANGED linkVars
  <2>1. UNCHANGED <<vars, fates, tx_session, tx_past, tx_seq, sent, queue>>
    BY <1>5 DEF Select, NotReadable, ScanEnds, linkVars, transmitter
  <2>2. QED
    BY <1>1, <2>1, IdleKeeps DEF LinkInv
<1>6. QED
  BY <1>2, <1>3, <1>4, <1>5 DEF LinkNext, wbc_befiReceiver

\* While no adapter is more than RestartFactor * B blocks behind, process_payload
\* never takes a late packet for one of a transmitter that has been restarted.
THEOREM NoFalseRestartHolds ==
  ASSUME MaxLag <= RestartFactor * B * PacketsPerBlock
  PROVE  LinkSpec => []NoFalseRestart
<1>1. LinkInit => LinkInv
  BY LinkInit1
<1>2. LinkInv /\ [LinkNext]_linkVars => LinkInv'
  BY LinkStep
<1>3. LinkInv => NoFalseRestart
  BY DEF LinkInv, FirstRun, NoFalseRestart
<1> QED
  BY <1>1, <1>2, <1>3, PTL DEF LinkSpec
-----------------------------------------------------------------------------
\* B - 1 blocks are less than what a restart is told by.
LEMMA LagSmall ==
  ASSUME MaxLag <= (B - 1) * PacketsPerBlock
  PROVE  MaxLag <= RestartFactor * B * PacketsPerBlock
<1>1. /\ B \in Nat /\ PacketsPerBlock \in Nat /\ MaxLag \in Nat
      /\ RestartFactor \in Nat /\ RestartFactor >= 1 /\ RestartFactor * B \in Nat
  BY Geometry, ReceiverAssumption, LinkAssumption
<1> HIDE DEF PacketsPerBlock
<1>2. B - 1 <= RestartFactor * B
  BY <1>1
<1>3. (B - 1) * PacketsPerBlock <= (RestartFactor * B) * PacketsPerBlock
  BY <1>1, <1>2, TimesMonotone
<1>4. (B - 1) * PacketsPerBlock \in Int /\ RestartFactor * B * PacketsPerBlock \in Int
  BY <1>1
<1>5. QED
  BY <1>1, <1>3, <1>4

\* A block that has lost its buffer is older than a full ring of blocks: a
\* packet of it would be later than the lag allows.
LEMMA NotTooLate ==
  ASSUME MaxLag <= (B - 1) * PacketsPerBlock,
         LinkInv, process_packet, tx_past = {}, Head(queue[i]).packet \in Sessions,
         BlockOf(Head(queue[i]).seq) \in opened
  PROVE  BlockOf(Head(queue[i]).seq) \in Buffered
<1> DEFINE s == Head(queue[i]).seq
           b == BlockOf(s)
<1>1. /\ s \in SequenceNumbers /\ tx_seq \in Nat /\ tx_seq - 1 <= s + MaxLag
      /\ max_block_num * PacketsPerBlock < tx_seq /\ max_block_num \in Int
  BY TakeNumbers
<1>2. B - 1 \in Nat /\ b \in Nat
  BY <1>1, Geometry, BlockBounds
<1>3. max_block_num <= b + (B - 1)
  BY <1>1, <1>2, AgeBound
<1>4. SUFFICES ASSUME b \notin Buffered PROVE FALSE
  OBVIOUS
<1>5. b \in opened \ Buffered
  BY <1>4
<1> HIDE DEF s, b
<1>6. \A j \in Buffers : b < block_num[j] /\ block_num[j] \in Int
  <2>1. \A j \in Buffers : b < block_num[j]
    BY <1>5 DEF LinkInv, IInv, LatestBlocksBuffered
  <2>2. \A j \in Buffers : block_num[j] \in Int
    BY DEF LinkInv, IInv, TypeOK
  <2>3. QED
    BY <2>1, <2>2
<1>7. \A j \in Buffers : block_num[j] # -1
  BY <1>2, <1>6
<1>8. Cardinality(Buffered) = B /\ \A e \in Buffered : b + 1 <= e
  BY <1>2, <1>6, <1>7, FullRing DEF LinkInv, Buffered
<1>9. b + 1 + B <= max_block_num + 1
  BY <1>2, <1>8, Span DEF LinkInv
<1>10. QED
  BY <1>1, <1>2, <1>3, <1>9, Geometry

LEMMA TakenIs ==
  ASSUME LinkInv, [LinkNext]_linkVars, NEW a \in Interfaces, Taken(a)
  PROVE  process_packet /\ i = a
<1>1. queue[a] \in Seq(LinkPacket) /\ pc = "scan" /\ i = a /\ queue'[a] # queue[a]
      /\ Len(queue'[a]) < Len(queue[a])
  BY DEF Taken, LinkInv, LoopInv, LoopType
<1>2. ~Transmit
  <2> SUFFICES ASSUME Transmit PROVE FALSE
    OBVIOUS
  <2>1. PICK fate \in [Interfaces -> {"lost", "corrupt", "intact"}] :
          \E arrival \in [Interfaces -> UNION {Arrivals(fate[x]) : x \in Interfaces}] :
             arrival[a] \in Arrivals(fate[a]) /\ queue'[a] = queue[a] \o arrival[a]
    BY DEF Transmit
  <2>2. PICK q \in Arrivals(fate[a]) : queue'[a] = queue[a] \o q
    BY <2>1
  <2>3. fate[a] \in {"lost", "corrupt", "intact"} /\ tx_seq \in SequenceNumbers /\ LoopType
    BY DEF Transmit, LinkInv, LoopInv
  <2>4. q \in Seq(LinkPacket)
    <3>1. CASE q = <<>>
      BY <3>1
    <3>2. CASE q # <<>>
      <4>1. PICK e \in LinkPacket : q = <<e>>
        BY <2>3, <3>2, ArrivalIs
      <4>2. QED
        BY <4>1
    <3>3. QED
      BY <3>1, <3>2
  <2>5. Len(queue'[a]) = Len(queue[a]) + Len(q) /\ Len(q) \in Nat /\ Len(queue[a]) \in Nat
    BY <1>1, <2>2, <2>4
  <2>6. QED
    BY <1>1, <2>5
<1>3. QED
  BY <1>1, <1>2 DEF LinkNext, wbc_befiReceiver, RestartTransmitter, Select, NotReadable,
                    ScanEnds, linkVars

\* While no adapter is more than B - 1 blocks behind, an intact packet of a
\* block that has been opened finds its block in the ring, for every number of
\* buffers and of adapters and every block geometry.
THEOREM LateCopyHolds ==
  ASSUME MaxLag <= (B - 1) * PacketsPerBlock
  PROVE  LinkSpec => LateCopyMerged
<1> DEFINE Late(a) == /\ Taken(a) /\ Head(queue[a]).packet \in Sessions /\ tx_past = {}
                      /\ BlockOf(Head(queue[a]).seq) \in opened
<1>0. MaxLag <= RestartFactor * B * PacketsPerBlock
  BY LagSmall
<1>1. LinkInit => LinkInv
  BY LinkInit1
<1>2. LinkInv /\ [LinkNext]_linkVars => LinkInv'
  BY <1>0, LinkStep
<1>3. ASSUME LinkInv, [LinkNext]_linkVars, NEW a \in Interfaces, Late(a)
      PROVE  BlockOf(Head(queue[a]).seq) \in Buffered
  <2>1. process_packet /\ i = a
    BY <1>3, TakenIs
  <2>2. QED
    BY <1>3, <2>1, NotTooLate
<1>4. LinkInv /\ [LinkNext]_linkVars =>
        \A a \in Interfaces : Late(a) => BlockOf(Head(queue[a]).seq) \in Buffered
  BY <1>3
<1> QED
  BY <1>1, <1>2, <1>4, PTL DEF LinkSpec, LateCopyMerged
-----------------------------------------------------------------------------
(***************************************************************************)
(* The adapter that hears everything.                                      *)
(***************************************************************************)
\* No packet takes away what is kept of those before the n-th.
LEMMA KeptStays ==
  ASSUME LinkInv, IInv', NEW n \in Nat, Kept(n), tx_session' = tx_session, tx_session \in Sessions,
         NEW b \in Nat, NEW k \in Slots, NEW p \in {tx_session, "corrupt"},
         Placed(b, k, p), Moved(b, p)
  PROVE  Kept(n)'
<1>1. /\ max_block_num \in Int /\ max_block_num' \in Int /\ max_block_num <= max_block_num'
      /\ PacketsPerBlock \in Nat /\ n \in Int
  BY Geometry DEF Moved, LinkInv, IInv, TypeOK
<1>2. n <= (max_block_num + 1) * PacketsPerBlock
  BY DEF Kept
<1> HIDE DEF PacketsPerBlock
<1>3. n <= (max_block_num' + 1) * PacketsPerBlock
  BY <1>1, <1>2, ReachesFurther, Zenon
<1>4. ASSUME NEW c \in Buffered', NEW j \in Slots, c * PacketsPerBlock + j < n
      PROVE  Window'[c][j] = tx_session
  <2>1. CASE c \in Buffered /\ Window'[c][j] = Window[c][j]
    BY <1>4, <2>1 DEF Kept
  <2>2. CASE /\ Window'[c][j] = p
             /\ p \in Sessions \/ (c \in Buffered /\ Window[c][j] \notin Sessions)
    <3>1. "corrupt" \notin Sessions
      BY ReceiverAssumption
    <3>2. QED
      BY <1>4, <2>2, <3>1 DEF Kept
  <2>3. CASE c = b /\ b > max_block_num
    <3>1. (max_block_num + 1) * PacketsPerBlock <= b * PacketsPerBlock
      BY <1>1, <2>3, TimesMonotone
    <3>2. b * PacketsPerBlock \in Nat /\ (max_block_num + 1) * PacketsPerBlock \in Int /\ j \in Nat
      BY <1>1 DEF Slots
    <3>3. QED
      BY <1>2, <1>4, <2>3, <3>1, <3>2
  <2>4. QED
    BY <2>1, <2>2, <2>3 DEF Placed
<1>5. QED
  BY <1>3, <1>4 DEF Kept

\* The n-th packet itself is kept when it is taken.
LEMMA KeptNext ==
  ASSUME LinkInv, IInv', OneSession', NEW n \in SequenceNumbers, Kept(n)',
         There(BlockOf(n), SlotOf(n), tx_session),
         tx_session' = tx_session, tx_session \in Sessions
  PROVE  Kept(n + 1)'
<1> DEFINE b == BlockOf(n)
           k == SlotOf(n)
<1>1. /\ b \in Nat /\ b \in Int /\ k \in Slots /\ n \in Nat /\ n \in Int /\ n < (b + 1) * PacketsPerBlock
      /\ b <= max_block_num' /\ max_block_num' \in Int /\ PacketsPerBlock \in Nat
      /\ b \in Buffered' => Window'[b][k] \in Sessions
  BY BlockBounds, Geometry DEF There, IInv, TypeOK, SequenceNumbers
<1> HIDE DEF b, k
<1>2. n + 1 <= (max_block_num' + 1) * PacketsPerBlock
  BY <1>1, ReachesFurther, Zenon
<1>3. ASSUME NEW c \in Buffered', NEW j \in Slots, c * PacketsPerBlock + j < n + 1
      PROVE  Window'[c][j] = tx_session
  <2>1. c \in Nat
    <3>1. (IInv => \A e \in Buffered : e \in Nat)'
      BY DEF IInv, TypeOK, Buffered
    <3>2. QED
      BY <3>1
  <2>2. c * PacketsPerBlock \in Nat /\ j \in Nat
    BY <1>1, <2>1 DEF Slots
  <2>3. CASE c * PacketsPerBlock + j < n
    BY <1>3, <2>3 DEF Kept
  <2>4. CASE c * PacketsPerBlock + j = n
    <3>1. c = b /\ j = k
      BY <2>1, <2>4, SamePlace DEF b, k
    <3>2. Window'[c][j] \in Sessions
      BY <1>1, <3>1
    <3>3. QED
      BY <3>2, ReceiverAssumption DEF OneSession
  <2>5. QED
    BY <1>1, <1>3, <2>2, <2>3, <2>4
<1>4. QED
  BY <1>2, <1>3 DEF Kept

\* When the oldest block has to make room, the adapter is past it.
LEMMA OldestComplete ==
  ASSUME MaxLag <= (B - 1) * PacketsPerBlock, LinkInv,
         NEW s \in SequenceNumbers, NEW T \in Nat, s < T, BlockOf(s) > max_block_num,
         NEW n \in Nat, T - 1 <= n + MaxLag, Kept(n),
         Cardinality(Buffered) = B, NEW oldest \in Buffered, \A c \in Buffered : oldest <= c
  PROVE  \A k \in Slots : Window[oldest][k] = tx_session
<1> DEFINE b == BlockOf(s)
           P == PacketsPerBlock
<1>1. /\ b \in Nat /\ b * P <= s /\ s \in Nat /\ P \in Nat
      /\ B \in Nat /\ oldest \in Nat /\ max_block_num \in Int /\ MaxLag \in Nat
  <2>1. b \in Nat /\ b * P <= s
    BY BlockBounds
  <2>2. s \in Nat
    BY DEF SequenceNumbers
  <2>3. P \in Nat /\ B \in Nat
    BY Geometry
  <2>4. oldest \in Nat
    BY WindowType DEF LinkInv
  <2>5. max_block_num \in Int
    BY DEF LinkInv, IInv, TypeOK
  <2>6. QED
    BY <2>1, <2>2, <2>3, <2>4, <2>5, LinkAssumption
<1>2. oldest + B <= max_block_num + 1
  <2>1. IInv /\ oldest \in Int
    BY <1>1 DEF LinkInv
  <2>2. QED
    BY <2>1, Span
<1>3. oldest + B <= b
  BY <1>1, <1>2
<1>4. MaxLag <= (B - 1) * P
  OBVIOUS
<1>5. Slots = 0..(P - 1)
  BY BlockAssumption DEF Slots, PacketsPerBlock, MAX_DATA_OR_FEC_PACKETS_PER_BLOCK
<1> HIDE DEF b, P
<1>6. (oldest + B) * P <= b * P
  BY <1>1, <1>3, TimesMonotone
<1>7. (oldest + B) * P = oldest * P + P + (B - 1) * P
  BY <1>1
<1>8. (B - 1) * P \in Int /\ oldest * P \in Nat /\ b * P \in Nat
  BY <1>1
<1>9. oldest * P + P <= n
  BY <1>1, <1>4, <1>6, <1>7, <1>8
<1>10. ASSUME NEW k \in Slots PROVE oldest * P + k < n
  BY <1>1, <1>5, <1>8, <1>9
<1>11. QED
  BY <1>10 DEF Kept, P
LEMMA TakeLossless ==
  ASSUME MaxLag <= (B - 1) * PacketsPerBlock, LinkInv, LinkInv', LosslessKept, process_packet
  PROVE  LosslessKept'
<1>0. UNCHANGED <<fates, tx_session, tx_past, tx_seq, sent>>
  BY TakeFacts
<1>1. SUFFICES ASSUME tx_past = {}, NEW a \in Interfaces, fates[a] = {"intact"}
               PROVE  /\ Complete(queue[a], tx_seq)'
                      /\ Kept(tx_seq - Len(queue[a]))'
                      /\ (blocks_received > 0 => \A d \in DataNos : stdout.data[d] = tx_session)'
  BY <1>0 DEF LosslessKept
<1> DEFINE p == Head(queue[i]).packet
           s == Head(queue[i]).seq
           b == BlockOf(s)
           k == SlotOf(s)
           q == queue[a]
<1>2. /\ Complete(q, tx_seq) /\ Kept(tx_seq - Len(q))
      /\ blocks_received > 0 => \A d \in DataNos : stdout.data[d] = tx_session
  BY <1>1 DEF LosslessKept
<1>3. /\ q \in Seq(LinkPacket) /\ Len(q) \in Nat /\ tx_seq \in Nat /\ tx_seq - Len(q) \in Nat
      /\ InOrder(q) /\ OnTime(q, tx_seq) /\ AsSent(q)
  <2>1. q \in Seq(LinkPacket) /\ tx_seq \in Nat
    BY <1>1 DEF LinkInv, FirstRun, LoopInv, LoopType
  <2>2. InOrder(q) /\ OnTime(q, tx_seq) /\ AsSent(q)
    BY <1>1 DEF LinkInv, FirstRun
  <2>3. Len(q) \in Nat /\ Len(q) <= tx_seq
    BY <1>2, <2>1 DEF Complete
  <2>4. QED
    BY <2>1, <2>2, <2>3
<1>4. PICK n \in Nat : n = tx_seq - Len(q)
  BY <1>3
<1>5. /\ p \in {tx_session, "corrupt"} /\ tx_session \in Sessions
      /\ s \in SequenceNumbers /\ b \in Nat /\ k \in Slots
      /\ p \in Sessions => s < tx_seq
      /\ i \in Interfaces /\ queue' = [queue EXCEPT ![i] = Tail(@)]
  BY <1>1, TakeFacts, TakeFirstRun, BlockBounds
<1>6. Placed(b, k, p) /\ There(b, k, p) /\ Moved(b, p)
  BY <1>1, LagSmall, TakePlaces
<1>7. /\ a # i => queue'[a] = q
      /\ a = i => queue'[a] = Tail(q) /\ q # <<>>
  BY <1>5, TakeFacts DEF LinkInv, LoopInv, LoopType
<1>8. Complete(queue[a], tx_seq)'
  <2>1. Complete(queue'[a], tx_seq)
    BY <1>2, <1>3, <1>7, QueueTaken
  <2>2. QED
    BY <1>0, <2>1 DEF Complete
<1>9. Kept(n)'
  <2> HIDE DEF b, k, p, q
  <2>1. Kept(n)
    BY <1>2, <1>4
  <2>2. QED
    BY <1>0, <1>5, <1>6, <2>1, KeptStays DEF LinkInv
<1>10. Kept(tx_seq - Len(queue[a]))'
  <2>1. CASE a # i
    <3>1. (tx_seq - Len(queue[a]))' = n
      BY <1>0, <1>7, <1>4, <2>1
    <3>2. QED
      BY <1>9, <3>1 DEF Kept
  <2>2. CASE a = i
    <3>1. p = tx_session /\ s = n /\ tx_seq - Len(Tail(q)) = n + 1
      BY <1>2, <1>3, <1>7, <1>4, <2>2, QueueTaken
    <3>2. OneSession'
      BY <1>0, <1>1 DEF LinkInv, FirstRun
    <3>3. Kept(n + 1)'
      <4>1. There(BlockOf(n), SlotOf(n), tx_session) /\ n \in SequenceNumbers
        BY <1>5, <1>6, <3>1
      <4>2. IInv'
        BY DEF LinkInv
      <4> HIDE DEF q
      <4>3. QED
        BY <1>0, <1>5, <1>9, <3>2, <4>1, <4>2, KeptNext
    <3>4. (tx_seq - Len(queue[a]))' = n + 1
      BY <1>0, <1>7, <2>2, <3>1
    <3>5. QED
      BY <3>3, <3>4 DEF Kept
  <2>3. QED
    BY <2>1, <2>2
<1>11. (blocks_received > 0 => \A d \in DataNos : stdout.data[d] = tx_session)'
  <2>1. CASE stdout' = stdout /\ blocks_received' = blocks_received
    BY <1>0, <1>2, <2>1
  <2>2. CASE /\ p \in Sessions /\ b > max_block_num /\ Cardinality(Buffered) = B
             /\ \E oldest \in Buffered :
                  /\ \A c \in Buffered : oldest <= c
                  /\ stdout'.data = Decoded(Window[oldest]).data
    <3>1. PICK oldest \in Buffered :
                  /\ \A c \in Buffered : oldest <= c
                  /\ stdout'.data = Decoded(Window[oldest]).data
      BY <2>2
    <3>2. tx_seq - 1 <= n + MaxLag
      <4>1. CASE q = <<>>
        BY <1>3, <1>4, <4>1, LinkAssumption
      <4>2. CASE q # <<>>
        <5>1. /\ Head(q).packet = tx_session /\ Head(q).seq = n
              /\ tx_seq - 1 <= Head(q).sent + MaxLag
              /\ Head(q).packet \in Sessions => Head(q).seq = Head(q).sent
          BY <1>2, <1>3, <1>4, <4>2, QueueTaken
        <5>2. QED
          BY <1>5, <5>1
      <4>3. QED
        BY <4>1, <4>2
    <3>3. \A j \in Slots : Window[oldest][j] = tx_session
      <4>1. Kept(n)
        BY <1>2, <1>4
      <4> HIDE DEF s, q
      <4>2. QED
        BY <1>3, <1>5, <2>2, <3>1, <3>2, <4>1, OldestComplete
    <3>4. Window[oldest] \in [Slots -> Packet]
      BY WindowType DEF LinkInv
    <3>5. ASSUME NEW d \in DataNos PROVE Decoded(Window[oldest]).data[d] = tx_session
      <4>1. DataSlot(d) \in Slots
        BY Positions
      <4>2. QED
        BY <1>5, <3>3, <3>4, <4>1, IntactDecoded
    <3>6. QED
      BY <1>0, <3>1, <3>5
  <2>3. QED
    BY <1>6, <2>1, <2>2 DEF Moved
<1>12. QED
  BY <1>8, <1>10, <1>11

LEMMA LosslessInit == LinkInit => LosslessKept
<1> SUFFICES ASSUME LinkInit, NEW a \in Interfaces
             PROVE  /\ Complete(queue[a], tx_seq) /\ Kept(tx_seq - Len(queue[a]))
                    /\ blocks_received > 0 => \A d \in DataNos : stdout.data[d] = tx_session
  BY DEF LosslessKept
<1>1. queue[a] = <<>> /\ tx_seq = 0 /\ blocks_received = 0 /\ max_block_num = -1
  BY DEF LinkInit, Init
<1>2. Complete(queue[a], tx_seq)
  BY <1>1 DEF Complete
<1>3. tx_seq - Len(queue[a]) = 0 /\ (max_block_num + 1) * PacketsPerBlock = 0
  <2>1. tx_seq = 0 /\ Len(queue[a]) = 0 /\ max_block_num + 1 = 0
    BY <1>1
  <2>2. tx_seq - Len(queue[a]) = 0
    BY <2>1
  <2>3. 0 * PacketsPerBlock = 0
    BY Geometry
  <2>4. QED
    BY <2>1, <2>2, <2>3
<1>4. Buffered = {}
  BY DEF LinkInit, Init, Buffered
<1>5. QED
  BY <1>1, <1>2, <1>3, <1>4 DEF Kept

\* With one adapter that hears everything and is at most B - 1 blocks behind,
\* all that is written is intact, whatever the other adapters lose, damage and
\* delay, for every number of adapters and buffers and every block geometry.
THEOREM LosslessHolds ==
  ASSUME MaxLag <= (B - 1) * PacketsPerBlock
  PROVE  LinkSpec => []LosslessAdapterSuffices
<1> DEFINE Inv == LinkInv /\ LosslessKept
<1>0. MaxLag <= RestartFactor * B * PacketsPerBlock
  BY LagSmall
<1>1. LinkInit => Inv
  BY LinkInit1, LosslessInit
<1>2. ASSUME Inv, [LinkNext]_linkVars PROVE Inv'
  <2>1. LinkInv'
    BY <1>0, <1>2, LinkStep
  <2>2. CASE Transmit
    BY <1>2, <2>1, <2>2, TransmitLossless
  <2>3. CASE RestartTransmitter
    BY <2>1, <2>3 DEF RestartTransmitter, LosslessKept
  <2>4. CASE process_packet
    BY <1>2, <2>1, <2>4, TakeLossless
  <2>5. CASE Select \/ NotReadable \/ ScanEnds \/ UNCHANGED linkVars
    <3>1. UNCHANGED <<vars, fates, tx_session, tx_past, tx_seq, sent, queue>>
      BY <2>5 DEF Select, NotReadable, ScanEnds, linkVars, transmitter
    <3>2. QED
      BY <1>2, <2>1, <3>1, IdleKeeps
  <2>6. QED
    BY <1>2, <2>2, <2>3, <2>4, <2>5 DEF LinkNext, wbc_befiReceiver
<1>3. Inv => LosslessAdapterSuffices
  BY DEF LosslessKept, LosslessAdapterSuffices
<1>4. Inv /\ [LinkNext]_linkVars => Inv'
  BY <1>2
<1> QED
  BY <1>1, <1>3, <1>4, PTL DEF LinkSpec
=============================================================================
