---------------------------- MODULE BlockReceiver ----------------------------
(***************************************************************************)
(* process_payload of rx.c: the ring of block buffers into which received  *)
(* packets are sorted, the eviction of the oldest block to STDOUT and the  *)
(* detection of a restarted transmitter.  The packets that arrive are      *)
(* arbitrary here; WifiLink makes them those of a transmitter received by  *)
(* several adapters.                                                       *)
(*                                                                         *)
(* One call of process_payload is one action, the one thread that receives *)
(* runs it to its end.  What a packet buffer holds is abstracted to the    *)
(* transmitter session whose packet it holds intact, or to "corrupt" (not  *)
(* crc_correct) or "missing" (not valid).  Stale bytes in a buffer that is *)
(* not valid are not told apart from garbage.                              *)
(***************************************************************************)
EXTENDS FecBlock

CONSTANTS
  B,               \* param_block_buffers
  RestartFactor,   \* 128 in process_payload
  Sessions,        \* the runs of the transmitter: a restart begins a new one
  MaxBlock,        \* bound on the block numbers received
  MaxFlushed,      \* bound on the blocks written out
  MaxRestarts      \* bound on the transmitter restarts detected

ASSUME ReceiverAssumption ==
  /\ B \in Nat \ {0}
  /\ RestartFactor \in Nat \ {0}
  /\ MaxBlock \in Nat /\ MaxFlushed \in Nat /\ MaxRestarts \in Nat
  /\ Sessions \cap {"missing", "corrupt", "garbage", "none"} = {}

VARIABLES
  block_num,         \* block_buffer_list[i].block_num, -1 if the buffer is free
  packet_list,       \* block_buffer_list[i].packet_buffer_list
  max_block_num,
  blocks_received, blocks_damaged,
  stdout,            \* the block written last: see Block below
  epoch,             \* history: how many transmitter restarts were detected
  opened             \* history: the blocks given a buffer since then

ring    == <<block_num, packet_list, max_block_num>>
output  == <<blocks_received, blocks_damaged, stdout>>
history == <<epoch, opened>>
vars    == <<ring, output, history>>

Buffers == 0..(B - 1)
PacketsPerBlock == D + F
Packet == Sessions \cup {"missing", "corrupt"}
Empty  == [k \in Slots |-> "missing"]

BlockOf(seq) == seq \div PacketsPerBlock
SlotOf(seq)  == seq % PacketsPerBlock

\* What is written for one DATA packet: "none" stands for no write at all.
Written == Sessions \cup {"garbage", "none"}
Block   == [epoch : Nat, block_num : Nat, failed : BOOLEAN, data : [DataNos -> Written]]
NoBlock == [epoch |-> 0, block_num |-> -1, failed |-> FALSE, data |-> [d \in DataNos |-> "none"]]

Init ==
  /\ block_num = [i \in Buffers |-> -1]
  /\ packet_list = [i \in Buffers |-> Empty]
  /\ max_block_num = -1
  /\ blocks_received = 0 /\ blocks_damaged = 0
  /\ stdout = NoBlock
  /\ epoch = 0 /\ opened = {}

-----------------------------------------------------------------------------
(***************************************************************************)
(* Decoding a block: which DATA is replaced is FecBlock's Substitutions;   *)
(* what fec_decode solves for is right exactly when everything it starts   *)
(* from, the DATA that is kept and the FECs that are used, is intact and   *)
(* from one session, and is garbage otherwise.                             *)
(***************************************************************************)
StatusOf(p) == IF p \in Sessions THEN "good" ELSE p
DataOf(list) == [d \in DataNos |-> list[DataSlot(d)]]
FecOf(list)  == [f \in FecNos |-> list[FecSlot(f)]]

Solved(data, fec, pairs) ==
  LET inputs == {data[d] : d \in DataNos \ {p[1] : p \in pairs}} \cup {fec[p[2]] : p \in pairs}
  IN IF \E s \in Sessions : inputs = {s} THEN CHOOSE s \in Sessions : inputs = {s} ELSE "garbage"

Decoded(list) ==
  LET data   == DataOf(list)
      fec    == FecOf(list)
      dstat  == [d \in DataNos |-> StatusOf(data[d])]
      fstat  == [f \in FecNos |-> StatusOf(fec[f])]
      failed == ReconstructionFailed(dstat, fstat)
      pairs  == Substitutions(dstat, fstat)
      out(d) == IF failed /\ data[d] = "missing" THEN "none"
                ELSE IF \E f \in FecNos : <<d, f>> \in pairs THEN Solved(data, fec, pairs)
                ELSE IF data[d] \in Sessions THEN data[d] ELSE "garbage"
  IN [failed |-> failed, data |-> [d \in DataNos |-> out(d)]]

-----------------------------------------------------------------------------
\* Plausible slips: no restart is ever detected; the window is one block short.
NeverRestart(b) == FALSE
EarlyRestart(b) == b + RestartFactor * B <= max_block_num

\* Far enough below the newest block to be a transmitter that has restarted.
TxRestart(b) == b + RestartFactor * B < max_block_num

\* Plausible slip: any other block taken for a new one.
OtherBlock(b) == b # max_block_num
NewBlock(b)   == b > max_block_num

\* Plausible slip: the first buffer, whatever it holds.
IsFirst(nums, v) == \A j \in Buffers : v <= j

\* The buffer to be replaced: the first one with the least block number.
IsVictim(nums, v) ==
  \A j \in Buffers : nums[v] < nums[j] \/ (nums[v] = nums[j] /\ v <= j)

\* The packet goes to the first buffer of its block, if there is one, unless
\* it has already been received intact.
\* Plausible slip: the latest copy kept.
AlwaysOverwritable(old) == TRUE
Overwritable(old) == old \notin Sessions

Store(nums, lists, b, k, p) ==
  [i \in Buffers |->
     IF /\ nums[i] = b /\ \A j \in 0..(i - 1) : nums[j] # b
        /\ Overwritable(lists[i][k])
     THEN [lists[i] EXCEPT ![k] = p]
     ELSE lists[i]]

\* Plausible slip: the buffers reset before they are decoded.
FlushedAfterReset(v) == Decoded(Empty)
Flushed(v) == Decoded(packet_list[v])

\* Plausible slip: the packets of the old block left in the buffer.
NotReset(v) == packet_list
ResetBuffers(v) == [packet_list EXCEPT ![v] = Empty]

\* Plausible slip: only repaired blocks counted as received.
CountRepaired(failed) ==
  /\ blocks_received' = IF failed THEN blocks_received ELSE blocks_received + 1
  /\ blocks_damaged' = IF failed THEN blocks_damaged + 1 ELSE blocks_damaged
CountBlock(failed) ==
  /\ blocks_received' = blocks_received + 1
  /\ blocks_damaged' = IF failed THEN blocks_damaged + 1 ELSE blocks_damaged

\* A packet that opens no block: a late one, or a corrupt one.
BufferPacket(seq, p) ==
  LET b == BlockOf(seq) IN
  /\ ~((NewBlock(b) \/ TxRestart(b)) /\ p \in Sessions)
  /\ packet_list' = Store(block_num, packet_list, b, SlotOf(seq), p)
  /\ UNCHANGED <<block_num, max_block_num, output, history>>

\* The first packet of a new block, while a buffer is free.
OpenBlock(seq, p) ==
  LET b == BlockOf(seq) IN
  /\ NewBlock(b) /\ p \in Sessions
  /\ \E v \in Buffers :
       /\ IsVictim(block_num, v) /\ block_num[v] = -1
       /\ block_num' = [block_num EXCEPT ![v] = b]
       /\ packet_list' = Store(block_num', packet_list, b, SlotOf(seq), p)
  /\ max_block_num' = b
  /\ opened' = opened \cup {b}
  /\ UNCHANGED <<output, epoch>>

\* The first packet of a new block, when the oldest one has to make room: it
\* is decoded and written, and its buffers are reset.
FlushBlock(seq, p) ==
  LET b == BlockOf(seq) IN
  /\ NewBlock(b) /\ p \in Sessions
  /\ blocks_received < MaxFlushed
  /\ \E v \in Buffers :
       LET block == Flushed(v) IN
       /\ IsVictim(block_num, v) /\ block_num[v] # -1
       /\ CountBlock(block.failed)
       /\ stdout' = [epoch |-> epoch, block_num |-> block_num[v],
                     failed |-> block.failed, data |-> block.data]
       /\ block_num' = [block_num EXCEPT ![v] = b]
       /\ packet_list' = Store(block_num', ResetBuffers(v), b, SlotOf(seq), p)
  /\ max_block_num' = b
  /\ opened' = opened \cup {b}
  /\ UNCHANGED epoch

\* A transmitter restart: block_buffer_list_reset, and the block gets the
\* first buffer.  The blocks that were buffered are not written.
RestartRing(seq, p) ==
  LET b == BlockOf(seq) IN
  /\ TxRestart(b) /\ p \in Sessions
  /\ epoch < MaxRestarts
  /\ block_num' = [i \in Buffers |-> IF i = 0 THEN b ELSE -1]
  /\ packet_list' = Store(block_num', [i \in Buffers |-> Empty], b, SlotOf(seq), p)
  /\ max_block_num' = b
  /\ epoch' = epoch + 1 /\ opened' = {b}
  /\ UNCHANGED output

process_payload(seq, p) ==
  \/ BufferPacket(seq, p)
  \/ OpenBlock(seq, p)
  \/ FlushBlock(seq, p)
  \/ RestartRing(seq, p)

SequenceNumbers == 0..((MaxBlock + 1) * PacketsPerBlock - 1)
Received == Sessions \cup {"corrupt"}

Next == \E seq \in SequenceNumbers, p \in Received : process_payload(seq, p)

Spec == Init /\ [][Next]_vars

-----------------------------------------------------------------------------
Buffered == {block_num[i] : i \in Buffers} \ {-1}

TypeOK ==
  /\ block_num \in [Buffers -> Nat \cup {-1}]
  /\ packet_list \in [Buffers -> [Slots -> Packet]]
  /\ max_block_num \in Nat \cup {-1}
  /\ blocks_received \in Nat /\ blocks_damaged \in 0..blocks_received
  /\ stdout \in Block \cup {NoBlock}
  /\ epoch \in Nat /\ opened \subseteq Nat

\* The ring is a window on the newest blocks: no block has two buffers, a free
\* buffer holds nothing, the newest block is max_block_num, and a block that
\* has lost its buffer is older than every one that has one.
LatestBlocksBuffered ==
  /\ \A i, j \in Buffers : block_num[i] = block_num[j] => i = j \/ block_num[i] = -1
  /\ \A i \in Buffers : block_num[i] = -1 => packet_list[i] = Empty
  /\ max_block_num # -1 => max_block_num \in Buffered
  /\ Buffered \subseteq opened
  /\ \A b \in opened : b <= max_block_num
  /\ \A b \in opened \ Buffered : \A i \in Buffers : b < block_num[i]

\* Between two restarts the blocks come out in the order they were sent in,
\* each at most once, whatever the order the packets arrive in.
OutputInOrder ==
  [][stdout' # stdout /\ stdout'.epoch = stdout.epoch
       => stdout'.block_num > stdout.block_num]_vars

\* A packet received intact stays in its buffer, no later copy replaces it,
\* until its block is written out or a transmitter restart is detected.
IntactPacketKept ==
  [][epoch' = epoch =>
       \A n \in Buffers, k \in Slots :
         packet_list[n][k] \in Sessions =>
           \/ packet_list'[n][k] = packet_list[n][k]
           \/ stdout'.block_num = block_num[n] /\ block_num'[n] # block_num[n]]_vars

\* The packet in position k of a block that leaves the ring comes out as it
\* was received, repaired block or not.
IntactPacketWritten ==
  [][\A n \in Buffers :
       epoch' = epoch /\ block_num[n] # -1 /\ block_num'[n] # block_num[n] =>
         \A d \in DataNos :
           packet_list[n][DataSlot(d)] \in Sessions =>
             stdout'.data[d] = packet_list[n][DataSlot(d)]]_vars

\* A block of one session, of which no FEC is corrupt, is written without a
\* single wrong byte and without a gap unless it is counted as damaged.
UndamagedBlockClean ==
  [][\A n \in Buffers, s \in Sessions :
       /\ epoch' = epoch /\ block_num[n] # -1 /\ block_num'[n] # block_num[n]
       /\ \A k \in Slots : packet_list[n][k] \in {s, "missing", "corrupt"}
       /\ \A f \in FecNos : packet_list[n][FecSlot(f)] # "corrupt"
       /\ blocks_damaged' = blocks_damaged
       => \A d \in DataNos : stdout'.data[d] = s]_vars

-----------------------------------------------------------------------------
(***************************************************************************)
(* The ring implements a window without places: BlockStream, in which the  *)
(* packets of a block are those of the buffer the block has.               *)
(***************************************************************************)
BufferOf(b) == CHOOSE i \in Buffers : block_num[i] = b
Window      == [b \in Buffered |-> packet_list[BufferOf(b)]]
BlockNos    == {BlockOf(seq) : seq \in SequenceNumbers}

Stream == INSTANCE BlockStream WITH
  Positions <- Slots, Decode <- Decoded,
  window <- Window, newest <- max_block_num, written <- stdout

\* Where the buffers are, which of them is found first and what is left in
\* them from an earlier block never shows: process_payload merges, writes and
\* drops as BlockStream says.
StreamSpec == Stream!Spec
=============================================================================
