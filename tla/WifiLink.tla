------------------------------ MODULE WifiLink ------------------------------
(***************************************************************************)
(* The receiver of rx.c at the end of its link: a transmitter numbers and  *)
(* sends packets, several adapters each hear them with losses and damage   *)
(* of their own and hand them over late, and wbc_befiReceiver's select     *)
(* loop takes them from the adapters one by one into process_payload       *)
(* (BlockReceiver).                                                        *)
(*                                                                         *)
(* Transmitter and adapters are not part of the repository; they are       *)
(* modelled from what rx.c expects of them: consecutive sequence numbers   *)
(* that start again at zero when the transmitter restarts, and per-adapter *)
(* order.  A frame that process_packet rejects for its length or radiotap  *)
(* header counts as lost; a radiotap header without the flags field, whose *)
(* checksum verdict is undefined in the code, does not occur here.         *)
(***************************************************************************)
EXTENDS BlockReceiver, Sequences

CONSTANTS
  NumInterfaces,   \* num_interfaces
  FateChoices,     \* the links to consider: for each adapter, what may happen to a packet
  MaxLag,          \* bound on how far an adapter is behind the transmitter, in packets
  MaxCorrupt       \* bound on the corrupt packets received

ASSUME LinkAssumption ==
  /\ NumInterfaces \in Nat \ {0}
  /\ FateChoices \subseteq [0..(NumInterfaces - 1) -> SUBSET {"lost", "corrupt", "intact"}]
  /\ MaxLag \in Nat /\ MaxCorrupt \in Nat

VARIABLES
  fates,           \* the link of this behaviour: fates[a] is what may happen on the way to a
  tx_session,      \* the present run of the transmitter
  tx_past,         \* its earlier runs
  tx_seq,          \* the next sequence number
  sent,            \* number of packets sent in all runs
  corrupted,       \* number of corrupt packets so far
  queue,           \* queue[a]: what adapter a has received and pcap not yet returned
  pc,              \* "select" or "scan"
  readset,         \* the adapters select reported
  i,               \* the adapter the scan is at
  waiting          \* history: packets of others taken while a had one pending

transmitter == <<fates, tx_session, tx_past, tx_seq, sent, corrupted>>
loop        == <<pc, readset, i>>
linkVars    == <<vars, transmitter, queue, loop, waiting>>

Interfaces == 0..(NumInterfaces - 1)

LinkInit ==
  /\ Init
  /\ fates \in FateChoices
  /\ tx_session \in Sessions /\ tx_past = {}
  /\ tx_seq = 0 /\ sent = 0 /\ corrupted = 0
  /\ queue = [a \in Interfaces |-> <<>>]
  /\ pc = "select" /\ readset = {} /\ i = 0
  /\ waiting = [a \in Interfaces |-> 0]

-----------------------------------------------------------------------------
\* A corrupt packet may carry any sequence number.
Arrivals(fate) ==
  CASE fate = "lost"    -> {<<>>}
    [] fate = "intact"  -> {<<[seq |-> tx_seq, packet |-> tx_session, sent |-> sent]>>}
    [] fate = "corrupt" -> {<<[seq |-> s, packet |-> "corrupt", sent |-> sent]>> : s \in SequenceNumbers}

Transmit ==
  /\ tx_seq \in SequenceNumbers
  /\ \A a \in Interfaces : queue[a] # <<>> => sent - Head(queue[a]).sent <= MaxLag
  /\ \E fate \in [Interfaces -> {"lost", "corrupt", "intact"}] :
       LET damaged == Cardinality({a \in Interfaces : fate[a] = "corrupt"}) IN
       /\ \A a \in Interfaces : fate[a] \in fates[a]
       /\ corrupted + damaged <= MaxCorrupt
       /\ corrupted' = corrupted + damaged
       /\ \E arrival \in [Interfaces -> UNION {Arrivals(fate[a]) : a \in Interfaces}] :
            /\ \A a \in Interfaces : arrival[a] \in Arrivals(fate[a])
            /\ queue' = [a \in Interfaces |-> queue[a] \o arrival[a]]
  /\ tx_seq' = tx_seq + 1 /\ sent' = sent + 1
  /\ UNCHANGED <<vars, fates, tx_session, tx_past, loop, waiting>>

RestartTransmitter ==
  /\ tx_seq > 0
  /\ \E s \in Sessions \ (tx_past \cup {tx_session}) : tx_session' = s
  /\ tx_past' = tx_past \cup {tx_session}
  /\ tx_seq' = 0
  /\ UNCHANGED <<vars, fates, sent, corrupted, queue, loop, waiting>>

-----------------------------------------------------------------------------
\* Plausible slip: the answer of select not looked at.
AllFds == Interfaces
ReadableFds == {a \in Interfaces : queue[a] # <<>>}

\* select reports the adapters that are readable; without one it times out and
\* is called again.
Select ==
  /\ pc = "select"
  /\ \E a \in Interfaces : queue[a] # <<>>
  /\ readset' = ReadableFds
  /\ i' = 0 /\ pc' = "scan"
  /\ UNCHANGED <<vars, transmitter, queue, waiting>>

\* Plausible slip: back to select after the first readable adapter.
ScanStopsAtFirst == i' = NumInterfaces
ScanGoesOn == i' = i + 1

NotReadable ==
  /\ pc = "scan" /\ i < NumInterfaces /\ i \notin readset
  /\ i' = i + 1
  /\ UNCHANGED <<vars, transmitter, queue, pc, readset, waiting>>

\* One packet is taken from a readable adapter, however many it has.
process_packet ==
  /\ pc = "scan" /\ i < NumInterfaces /\ i \in readset
  /\ process_payload(Head(queue[i]).seq, Head(queue[i]).packet)
  /\ queue' = [queue EXCEPT ![i] = Tail(@)]
  /\ waiting' = [a \in Interfaces |->
                   IF a = i \/ queue[a] = <<>> THEN 0 ELSE waiting[a] + 1]
  /\ ScanGoesOn
  /\ UNCHANGED <<transmitter, pc, readset>>

ScanEnds ==
  /\ pc = "scan" /\ i = NumInterfaces
  /\ pc' = "select"
  /\ UNCHANGED <<vars, transmitter, queue, readset, i, waiting>>

wbc_befiReceiver == Select \/ NotReadable \/ process_packet \/ ScanEnds

LinkNext == Transmit \/ RestartTransmitter \/ wbc_befiReceiver

LinkSpec == LinkInit /\ [][LinkNext]_linkVars

\* The receiver's loop never waits while an adapter is readable, and the
\* transmitter streams as long as it runs.  Nobody has to restart it.
LinkFairSpec == LinkSpec /\ WF_linkVars(wbc_befiReceiver) /\ WF_linkVars(Transmit)

-----------------------------------------------------------------------------
\* No adapter starves: while a packet of one adapter is pending, at most two
\* packets of each other adapter are taken before it.
BoundedOvertaking == \A a \in Interfaces : waiting[a] <= 2 * (NumInterfaces - 1)

Taken(a) == pc = "scan" /\ i = a /\ queue'[a] # queue[a] /\ Len(queue'[a]) < Len(queue[a])

\* What the ring is for (rx.c, the usage text of -d): while no adapter is more
\* than B - 1 blocks behind, an intact packet of a block of which any adapter
\* has delivered something before is never too late for its block.
LateCopyMerged ==
  [][\A a \in Interfaces :
       (/\ Taken(a) /\ Head(queue[a]).packet \in Sessions /\ tx_past = {}
        /\ BlockOf(Head(queue[a]).seq) \in opened)
         => BlockOf(Head(queue[a]).seq) \in Buffered]_linkVars

\* With one adapter that hears everything and is at most B - 1 blocks behind,
\* all of a block that is written is intact, whatever the other adapters lose.
LosslessAdapterSuffices ==
  /\ \E a \in Interfaces : fates[a] = {"intact"}
  /\ blocks_received > 0 /\ tx_past = {}
  => \A d \in DataNos : stdout.data[d] = tx_session

\* While no adapter is more than RestartFactor * B blocks behind, late packets
\* are never taken for those of a transmitter that has been restarted.
NoFalseRestart == tx_past = {} => epoch = 0

\* A restarted transmitter is shown again: however far the earlier run had
\* got, blocks of the new run come out whole in the end.
RestartRecovered ==
  \A s \in Sessions :
    (tx_session = s /\ tx_past # {}) ~> (stdout.data = [d \in DataNos |-> s])

=============================================================================
