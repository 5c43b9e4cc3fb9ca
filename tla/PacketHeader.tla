---------------------------- MODULE PacketHeader ----------------------------
(***************************************************************************)
(* process_packet of rx.c on one captured frame: the checks of its length, *)
(* the walk over the radiotap header (radiotap.c), and what it then tells  *)
(* process_payload of the payload's length and checksum.                   *)
(*                                                                         *)
(* A header is seen through the bits of its first present word, the number *)
(* of words that extend it, and the FLAGS byte. The driver writes each     *)
(* argument at the next offset that is aligned for it; it_len is what the  *)
(* header states, too small included.                                      *)
(***************************************************************************)
EXTENDS Integers, FiniteSets, Sequences

CONSTANTS
  Frames,              \* the frames pcap may return
  n80211HeaderLength   \* of the interface

\* The two bits of the FLAGS byte that are looked at; 0x40 has no name in rx.c.
F_FCS == "fcs"
F_BADFCS == "0x40"
FlagBytes == SUBSET {F_FCS, F_BADFCS}

\* Indices of the arguments, as bits of a present word.
TSFT    == 0
FLAGS   == 1
CHANNEL == 3
EXT     == 31

\* rt_sizes: alignment and length of an argument.
rt_sizes ==
  [k \in 0..13 |->
     CASE k = TSFT             -> [align |-> 8, length |-> 8]
       [] k = CHANNEL          -> [align |-> 2, length |-> 4]
       [] k \in {4, 7, 8, 9}   -> [align |-> 2, length |-> 2]
       [] OTHER                -> [align |-> 1, length |-> 1]]

ASSUME HeaderAssumption ==
  /\ n80211HeaderLength \in Nat
  /\ \A f \in Frames :
       f \in [it_version : {0, 1}, it_len : Nat, present : SUBSET (0..31),
             extensions : Nat, flags : FlagBytes, len : Nat]
  /\ \A f \in Frames : EXT \in f.present <=> f.extensions > 0

VARIABLES
  frame,              \* the frame that was captured
  pc,                 \* "received", "walk", "hand over", "done"
  arg_index, arg,     \* of the iterator; arg as an offset in the header
  m_nRadiotapFlags,   \* of prd; Undefined until it is assigned
  payload,            \* what process_payload is called with, or NoCall
  visited             \* history: the arguments handed out, with their offsets

iterator == <<arg_index, arg>>
vars     == <<frame, pc, iterator, m_nRadiotapFlags, payload, visited>>

Undefined == {"undefined"}

NoCall == [bytes |-> 0, checksum_correct |-> FALSE, called |-> FALSE]

Init ==
  /\ frame \in Frames
  /\ pc = "received"
  /\ arg_index = 0 /\ arg = 0
  /\ m_nRadiotapFlags = Undefined
  /\ payload = NoCall /\ visited = <<>>

-----------------------------------------------------------------------------
SizeOfHeader == 8
SizeOfWord   == 4

\* The end of the present words, as iterator_init finds it, and its check on
\* the way there: the last word but one must still begin inside the header.
\* Plausible slip: the extending words not skipped.
FirstWordOnly == SizeOfHeader
ArgumentsStart == SizeOfHeader + SizeOfWord * frame.extensions

InsaneBitmap ==
  \E n \in 1..(frame.extensions - 1) : SizeOfHeader + SizeOfWord * n > frame.it_len

TooShort == frame.len < frame.it_len + n80211HeaderLength

Discarded == TooShort \/ frame.it_version # 0 \/ frame.len < frame.it_len \/ InsaneBitmap

Discard ==
  /\ pc = "received" /\ Discarded
  /\ pc' = "done"
  /\ UNCHANGED <<frame, iterator, m_nRadiotapFlags, payload, visited>>

iterator_init ==
  /\ pc = "received" /\ ~Discarded
  /\ arg_index' = 0 /\ arg' = ArgumentsStart
  /\ pc' = "walk"
  /\ UNCHANGED <<frame, m_nRadiotapFlags, payload, visited>>

-----------------------------------------------------------------------------
(***************************************************************************)
(* Reference: what the driver has written, each argument of the first word *)
(* at the least aligned offset past the one before it.                     *)
(***************************************************************************)
LeastAligned(from, k) ==
  CHOOSE n \in from..(from + rt_sizes[k].align - 1) : n % rt_sizes[k].align = 0

\* Ends(f)[k]: where the arguments below k end.
Ends(f) ==
  LET end[k \in 0..14] ==
        IF k = 0 THEN SizeOfHeader + SizeOfWord * f.extensions
        ELSE IF k - 1 \in f.present
             THEN LeastAligned(end[k - 1], k - 1) + rt_sizes[k - 1].length
             ELSE end[k - 1]
  IN end

Layout(f) == [k \in 0..13 |-> LeastAligned(Ends(f)[k], k)]

\* The arguments before the first that the stated length cuts off.
Whole(f) ==
  {k \in DOMAIN rt_sizes \cap f.present :
     \A j \in (0..k) \cap f.present : Layout(f)[j] + rt_sizes[j].length <= f.it_len}

\* The byte at an offset; anything, where it is not the FLAGS byte.
FlagsAt(offset) ==
  IF FLAGS \in frame.present /\ offset = Layout(frame)[FLAGS] THEN {frame.flags} ELSE FlagBytes

-----------------------------------------------------------------------------
(***************************************************************************)
(* iterator_next, an index at a time. An argument that is present moves    *)
(* the iterator past its padding and itself.                               *)
(***************************************************************************)
\* Plausible slip: the padding forgotten.
Unpadded == arg

Aligned ==
  LET align == rt_sizes[arg_index].align
      pad   == arg % align
  IN IF pad = 0 THEN arg ELSE arg + align - pad

Moved == Aligned + rt_sizes[arg_index].length

Walking == pc = "walk" /\ arg_index \in DOMAIN rt_sizes

\* Plausible slip: the end of the header not checked.
AlwaysFits == TRUE
Fits       == Moved <= frame.it_len

\* Plausible slip: the index left where it is.
StuckAt(index)   == index
NextIndex(index) == index + 1

SkipEntry ==
  /\ Walking /\ arg_index \notin frame.present
  /\ arg_index' = NextIndex(arg_index)
  /\ UNCHANGED <<frame, pc, arg, m_nRadiotapFlags, payload, visited>>

\* An argument is handed out, and process_packet takes it if it is one it knows.
NextArgument ==
  /\ Walking /\ arg_index \in frame.present /\ Fits
  /\ arg' = Moved /\ arg_index' = arg_index + 1
  /\ visited' = Append(visited, <<arg_index, Aligned>>)
  /\ IF arg_index = FLAGS
     THEN m_nRadiotapFlags' \in FlagsAt(Aligned)
     ELSE UNCHANGED m_nRadiotapFlags
  /\ UNCHANGED <<frame, pc, payload>>

\* -EINVAL, which only ends the walk: the frame is handed over all the same.
ArgumentCutOff ==
  /\ Walking /\ arg_index \in frame.present /\ ~Fits
  /\ arg' = Moved
  /\ pc' = "hand over"
  /\ UNCHANGED <<frame, arg_index, m_nRadiotapFlags, payload, visited>>

\* -ENOENT: the first present word is done with, and the others are not read.
NoMoreArguments ==
  /\ pc = "walk" /\ arg_index \notin DOMAIN rt_sizes
  /\ pc' = "hand over"
  /\ UNCHANGED <<frame, iterator, m_nRadiotapFlags, payload, visited>>

\* Without a FLAGS argument prd holds what the stack held.
HandOver ==
  /\ pc = "hand over"
  /\ \E flags \in IF m_nRadiotapFlags = Undefined THEN FlagBytes ELSE {m_nRadiotapFlags} :
       payload' = [called |-> TRUE,
                   bytes |-> frame.len - (frame.it_len + n80211HeaderLength)
                               - (IF F_FCS \in flags THEN 4 ELSE 0),
                   checksum_correct |-> F_BADFCS \notin flags]
  /\ pc' = "done"
  /\ UNCHANGED <<frame, iterator, m_nRadiotapFlags, visited>>

Next ==
  \/ Discard
  \/ iterator_init
  \/ SkipEntry
  \/ NextArgument
  \/ ArgumentCutOff
  \/ NoMoreArguments
  \/ HandOver

\* One thread, and nothing in it waits.
Spec == Init /\ [][Next]_vars /\ WF_vars(Next)

-----------------------------------------------------------------------------
\* Types, and the iterator's own promise: having handed out an argument it is
\* never past the end of the header, unless it has just refused the next one.
TypeOK ==
  /\ frame.it_len \in Nat /\ frame.len \in Nat
  /\ pc \in {"received", "walk", "hand over", "done"}
  /\ arg_index \in 0..14 /\ arg \in Nat
  /\ m_nRadiotapFlags \in FlagBytes \cup {Undefined}
  /\ payload.bytes \in Int /\ payload.checksum_correct \in BOOLEAN
  /\ pc = "walk" /\ visited # <<>> => arg <= frame.it_len

\* The walk hands out the arguments the driver has written, each where it was
\* written, in order, and all of them up to the first that is cut off.
WalkMatchesLayout ==
  pc = "hand over" =>
    /\ {visited[n] : n \in 1..Len(visited)} = {<<k, Layout(frame)[k]>> : k \in Whole(frame)}
    /\ \A m, n \in 1..Len(visited) : m < n => visited[m][1] < visited[n][1]

\* With a FLAGS argument in the header, however many words extend it and
\* whatever else is there or cut off behind it, the verdict on the checksum is
\* the adapter's and the frame check sequence is taken off when it is there.
VerdictRight ==
  payload.called /\ FLAGS \in Whole(frame) =>
    /\ payload.checksum_correct <=> F_BADFCS \notin frame.flags
    /\ frame.len = frame.it_len + n80211HeaderLength + payload.bytes
                     + (IF F_FCS \in frame.flags THEN 4 ELSE 0)

\* Every frame is dealt with: the walk moves on at each index.
WalkEnds == <>(pc = "done")
=============================================================================
