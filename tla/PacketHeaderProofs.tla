------------------------- MODULE PacketHeaderProofs -------------------------
(***************************************************************************)
(* The walk over the radiotap header and the verdict process_packet draws  *)
(* from it, for every set of frames and every 802.11 header length.        *)
(*                                                                         *)
(* The recursive function that says where the arguments end satisfies its  *)
(* equation (EndsDef, by a least counterexample); the inductive invariant  *)
(* says that the iterator is where it says, and that what has been handed  *)
(* out is the layout up to there (WalkedSoFar).                            *)
(***************************************************************************)
EXTENDS PacketHeader, SequenceTheorems, WellFoundedInduction, TLAPS

\* Every set of natural numbers that is not empty has a least member.
LEMMA LeastNumber ==
  ASSUME NEW S \in SUBSET Nat, S # {}
  PROVE  \E m \in S : \A n \in S : m <= n
<1>1. PICK m \in S : \A n \in S : ~(<<n, m>> \in OpToRel(<, Nat))
  BY NatLessThanWellFounded, WFMin
<1>2. ASSUME NEW n \in S
      PROVE  m <= n
  <2>1. m \in Nat /\ n \in Nat
    OBVIOUS
  <2>2. ~(n < m)
    BY <1>1, <2>1 DEF OpToRel
  <2>3. QED
    BY <2>1, <2>2
<1>3. QED
  BY <1>2

-----------------------------------------------------------------------------
LEMMA Sizes ==
  /\ DOMAIN rt_sizes = 0..13
  /\ \A k \in 0..13 : rt_sizes[k].align \in {1, 2, 8} /\ rt_sizes[k].length \in Nat
BY DEF rt_sizes, TSFT, CHANNEL

\* The C code's padding leads to the least aligned offset.
Padded(a, align) == IF a % align = 0 THEN a ELSE a + align - (a % align)

LEMMA PaddedIs ==
  ASSUME NEW a \in Nat, NEW align \in {1, 2, 8}
  PROVE  /\ Padded(a, align) \in a..(a + align - 1) /\ Padded(a, align) % align = 0
         /\ \A n \in a..(a + align - 1) : n % align = 0 => n = Padded(a, align)
<1>1. CASE align = 1
  BY <1>1 DEF Padded
<1>2. CASE align = 2
  BY <1>2 DEF Padded
<1>3. CASE align = 8
  BY <1>3 DEF Padded
<1>4. QED
  BY <1>1, <1>2, <1>3

LEMMA LeastAlignedIs ==
  ASSUME NEW a \in Nat, NEW k \in 0..13
  PROVE  LeastAligned(a, k) = Padded(a, rt_sizes[k].align) /\ LeastAligned(a, k) \in Nat
<1> DEFINE align == rt_sizes[k].align
<1>1. align \in {1, 2, 8}
  BY Sizes
<1> HIDE DEF align
<1>2. /\ Padded(a, align) \in a..(a + align - 1) /\ Padded(a, align) % align = 0
      /\ \A n \in a..(a + align - 1) : n % align = 0 => n = Padded(a, align)
  BY <1>1, PaddedIs
<1>3. LeastAligned(a, k) = CHOOSE n \in a..(a + align - 1) : n % align = 0
  BY DEF LeastAligned, align
<1>4. LeastAligned(a, k) = Padded(a, align)
  BY <1>2, <1>3
<1>5. Padded(a, align) \in Nat
  BY <1>1, <1>2
<1>6. QED
  BY <1>4, <1>5 DEF align

-----------------------------------------------------------------------------
(***************************************************************************)
(* The recursive function satisfies its equation.                          *)
(***************************************************************************)
\* Where the arguments below k end, if end has it for those below k - 1.
EndAfter(f, end, k) ==
  IF k = 0 THEN SizeOfHeader + SizeOfWord * f.extensions
  ELSE IF k - 1 \in f.present
       THEN LeastAligned(end[k - 1], k - 1) + rt_sizes[k - 1].length
       ELSE end[k - 1]

RightUpTo(f, end, n) == \A k \in 0..14 : k <= n => end[k] = EndAfter(f, end, k)

LEMMA EndAfterDepends ==
  ASSUME NEW f, NEW end, NEW other, NEW k \in 0..14,
         k # 0 => end[k - 1] = other[k - 1]
  PROVE  EndAfter(f, end, k) = EndAfter(f, other, k)
BY DEF EndAfter

LEMMA RightExists ==
  ASSUME NEW f, NEW n \in Nat
  PROVE  \E end : RightUpTo(f, end, n)
<1> DEFINE Without == {m \in Nat : ~\E end : RightUpTo(f, end, m)}
<1>1. SUFFICES ASSUME Without # {} PROVE FALSE
  OBVIOUS
<1>2. PICK m \in Without : \A k \in Without : m <= k
  BY <1>1, LeastNumber
<1>3. CASE m = 0
  <2> DEFINE first == [k \in 0..14 |-> EndAfter(f, <<>>, 0)]
  <2>1. first[0] = EndAfter(f, first, 0)
    BY EndAfterDepends
  <2>2. RightUpTo(f, first, 0)
    BY <2>1 DEF RightUpTo
  <2>3. QED
    BY <1>2, <1>3, <2>2
<1>4. CASE m # 0
  <2>1. m - 1 \in Nat /\ m - 1 \notin Without
    BY <1>2, <1>4
  <2>2. PICK end : RightUpTo(f, end, m - 1)
    BY <2>1
  <2> DEFINE more == [k \in 0..14 |-> EndAfter(f, end, k)]
  <2>3. \A k \in 0..14 : k <= m - 1 => more[k] = end[k]
    BY <2>2 DEF RightUpTo
  <2>4. ASSUME NEW k \in 0..14, k <= m PROVE more[k] = EndAfter(f, more, k)
    <3>1. more[k] = EndAfter(f, end, k)
      OBVIOUS
    <3>2. k # 0 => k - 1 \in 0..14 /\ k - 1 <= m - 1
      BY <2>4
    <3>3. k # 0 => end[k - 1] = more[k - 1]
      BY <2>3, <3>2
    <3> HIDE DEF more
    <3>4. EndAfter(f, end, k) = EndAfter(f, more, k)
      BY <3>3, EndAfterDepends
    <3>5. QED
      BY <3>1, <3>4
  <2>5. RightUpTo(f, more, m)
    BY <2>4 DEF RightUpTo
  <2>6. QED
    BY <1>2, <2>5
<1>5. QED
  BY <1>3, <1>4

LEMMA EndsDef ==
  ASSUME NEW f
  PROVE  \A k \in 0..14 : Ends(f)[k] = EndAfter(f, Ends(f), k)
<1>1. PICK end : RightUpTo(f, end, 14)
  BY RightExists
<1> DEFINE all == [k \in 0..14 |-> EndAfter(f, end, k)]
<1>2. \A k \in 0..14 : all[k] = end[k]
  BY <1>1 DEF RightUpTo
<1> HIDE DEF all
<1>3. \A k \in 0..14 : EndAfter(f, end, k) = EndAfter(f, all, k)
  <2> TAKE k \in 0..14
  <2>1. k # 0 => k - 1 \in 0..14
    OBVIOUS
  <2>2. QED
    BY <1>2, <2>1, EndAfterDepends
<1>4. all = [k \in 0..14 |-> EndAfter(f, all, k)]
  BY <1>3 DEF all
<1>5. Ends(f) = [k \in 0..14 |-> EndAfter(f, Ends(f), k)]
  BY <1>4 DEF Ends, EndAfter
<1> DEFINE ends == Ends(f)
<1> HIDE DEF ends
<1>6. ends = [k \in 0..14 |-> EndAfter(f, ends, k)]
  BY <1>5 DEF ends
<1>7. \A k \in 0..14 : ends[k] = EndAfter(f, ends, k)
  BY <1>6
<1>8. QED
  BY <1>7 DEF ends

\* Where the arguments end is an offset.
LEMMA EndsType ==
  ASSUME NEW f, f.extensions \in Nat
  PROVE  \A k \in 0..14 : Ends(f)[k] \in Nat
<1> DEFINE Odd == {k \in 0..14 : Ends(f)[k] \notin Nat}
<1>1. SUFFICES ASSUME Odd # {} PROVE FALSE
  OBVIOUS
<1>2. PICK k \in Odd : \A j \in Odd : k <= j
  BY <1>1, LeastNumber
<1>3. Ends(f)[k] = EndAfter(f, Ends(f), k) /\ k \in 0..14
  BY EndsDef
<1>4. k # 0
  BY <1>2, <1>3 DEF EndAfter, SizeOfHeader, SizeOfWord
<1>5. k - 1 \in 0..13 /\ Ends(f)[k - 1] \in Nat
  BY <1>2, <1>3, <1>4
<1>6. LeastAligned(Ends(f)[k - 1], k - 1) \in Nat /\ rt_sizes[k - 1].length \in Nat
  BY <1>5, LeastAlignedIs, Sizes
<1>7. Ends(f)[k] \in Nat
  BY <1>3, <1>4, <1>5, <1>6 DEF EndAfter
<1>8. QED
  BY <1>2, <1>7

\* The layout, one argument after the other.
LEMMA LayoutIs ==
  ASSUME NEW f, f.extensions \in Nat, NEW k \in 0..13
  PROVE  /\ Ends(f)[0] = SizeOfHeader + SizeOfWord * f.extensions
         /\ Ends(f)[k] \in Nat
         /\ Layout(f)[k] = Padded(Ends(f)[k], rt_sizes[k].align) /\ Layout(f)[k] \in Nat
         /\ k \in f.present => Ends(f)[k + 1] = Layout(f)[k] + rt_sizes[k].length
         /\ k \notin f.present => Ends(f)[k + 1] = Ends(f)[k]
<1>1. k + 1 \in 0..14 /\ k + 1 # 0 /\ (k + 1) - 1 = k /\ k \in 0..14 /\ 0 \in 0..14
  OBVIOUS
<1>2. Ends(f)[k] \in Nat
  BY <1>1, EndsType
<1>3. /\ Ends(f)[0] = EndAfter(f, Ends(f), 0)
      /\ Ends(f)[k + 1] = EndAfter(f, Ends(f), k + 1)
  BY <1>1, EndsDef
<1>4. Layout(f)[k] = LeastAligned(Ends(f)[k], k)
  BY DEF Layout
<1>5. Layout(f)[k] = Padded(Ends(f)[k], rt_sizes[k].align) /\ Layout(f)[k] \in Nat
  BY <1>2, <1>4, LeastAlignedIs
<1>6. Ends(f)[0] = SizeOfHeader + SizeOfWord * f.extensions
  BY <1>3 DEF EndAfter
<1>7. Ends(f)[k + 1] = IF k \in f.present THEN Layout(f)[k] + rt_sizes[k].length ELSE Ends(f)[k]
  BY <1>1, <1>3, <1>4 DEF EndAfter
<1>8. QED
  BY <1>2, <1>5, <1>6, <1>7

-----------------------------------------------------------------------------
(***************************************************************************)
(* The walk.                                                               *)
(***************************************************************************)
\* The arguments handed out when the iterator is at an index.
Passed(index) == {k \in 0..13 : k \in frame.present /\ k < index}

Places(ks) == {<<k, Layout(frame)[k]>> : k \in ks}

WalkedSoFar ==
  /\ {visited[n] : n \in 1..Len(visited)} = Places(Passed(arg_index))
  /\ \A m, n \in 1..Len(visited) : m < n => visited[m][1] < visited[n][1]
  /\ \A k \in Passed(arg_index) : Layout(frame)[k] + rt_sizes[k].length <= frame.it_len
  /\ m_nRadiotapFlags = IF FLAGS \in Passed(arg_index) THEN frame.flags ELSE Undefined

Verdict(call) ==
  /\ call.checksum_correct <=> F_BADFCS \notin frame.flags
  /\ frame.len = frame.it_len + n80211HeaderLength + call.bytes
                   + (IF F_FCS \in frame.flags THEN 4 ELSE 0)

IInv ==
  /\ TypeOK
  /\ frame \in Frames
  /\ visited \in Seq((0..13) \X Nat)
  /\ pc = "received" => visited = <<>> /\ m_nRadiotapFlags = Undefined
  /\ pc = "walk" => arg = Ends(frame)[arg_index]
  /\ pc \in {"walk", "hand over"} => WalkedSoFar
  /\ pc = "hand over" => Passed(arg_index) = Whole(frame)
  /\ pc # "done" => ~payload.called
  /\ payload.called /\ FLAGS \in Whole(frame) => Verdict(payload)

LEMMA FrameType ==
  ASSUME frame \in Frames
  PROVE  /\ frame.it_len \in Nat /\ frame.len \in Nat /\ frame.extensions \in Nat
         /\ frame.flags \in FlagBytes /\ frame.flags # Undefined /\ n80211HeaderLength \in Nat
<1>1. /\ frame \in [it_version : {0, 1}, it_len : Nat, present : SUBSET (0..31),
                    extensions : Nat, flags : FlagBytes, len : Nat]
      /\ n80211HeaderLength \in Nat
  BY HeaderAssumption
<1>2. "undefined" \notin {F_FCS, F_BADFCS}
  BY DEF F_FCS, F_BADFCS
<1>3. QED
  BY <1>1, <1>2 DEF FlagBytes, Undefined

LEMMA InitInvariant == Init => IInv
<1> SUFFICES ASSUME Init PROVE IInv
  OBVIOUS
<1>1. TypeOK
  BY FrameType DEF Init, TypeOK, NoCall
<1>2. QED
  BY <1>1 DEF Init, IInv, NoCall

LEMMA DiscardInvariant == ASSUME IInv, Discard PROVE IInv'
<1>1. /\ pc = "received" /\ pc' = "done" /\ frame' = frame /\ visited' = visited
      /\ arg_index' = arg_index /\ arg' = arg /\ payload' = payload
      /\ m_nRadiotapFlags' = m_nRadiotapFlags
  BY DEF Discard, iterator
<1>2. QED
  BY <1>1 DEF IInv, TypeOK

LEMMA StartInvariant == ASSUME IInv, iterator_init PROVE IInv'
<1>1. /\ pc = "received" /\ pc' = "walk" /\ frame' = frame /\ visited' = visited
      /\ arg_index' = 0 /\ arg' = ArgumentsStart /\ payload' = payload
      /\ m_nRadiotapFlags' = m_nRadiotapFlags
      /\ visited = <<>> /\ m_nRadiotapFlags = Undefined
  BY DEF iterator_init, IInv
<1>2. arg' = Ends(frame)[0] /\ arg' \in Nat
  <2>1. frame.extensions \in Nat
    BY FrameType DEF IInv
  <2>2. Ends(frame)[0] = SizeOfHeader + SizeOfWord * frame.extensions
    BY <2>1, LayoutIs
  <2>3. SizeOfHeader + SizeOfWord * frame.extensions \in Nat
    BY <2>1 DEF SizeOfHeader, SizeOfWord
  <2>4. QED
    BY <1>1, <2>2, <2>3 DEF ArgumentsStart
<1>3. TypeOK'
  BY <1>1, <1>2 DEF IInv, TypeOK
<1>4. Passed(0) = {}
  BY DEF Passed
<1>5. WalkedSoFar'
  <2>1. {visited[n] : n \in 1..Len(visited)} = {} /\ Len(visited) = 0
    BY <1>1
  <2>2. Passed(0)' = {}
    BY DEF Passed
  <2>3. Passed(arg_index)' = {}
    BY <1>1, <2>2 DEF Passed
  <2>4. QED
    BY <1>1, <2>1, <2>3 DEF WalkedSoFar, Places
<1>6. QED
  BY <1>1, <1>2, <1>3, <1>5 DEF IInv
LEMMA SkipInvariant == ASSUME IInv, SkipEntry PROVE IInv'
<1>1. /\ pc = "walk" /\ pc' = "walk" /\ frame' = frame /\ visited' = visited
      /\ arg_index' = arg_index + 1 /\ arg' = arg /\ payload' = payload
      /\ m_nRadiotapFlags' = m_nRadiotapFlags
      /\ arg_index \in 0..13 /\ arg_index \notin frame.present
  BY Sizes DEF SkipEntry, Walking, NextIndex
<1>2. arg' = Ends(frame)[arg_index + 1]
  BY <1>1, FrameType, LayoutIs DEF IInv
<1>3. Passed(arg_index + 1) = Passed(arg_index)
  BY <1>1 DEF Passed
<1>4. Passed(arg_index)' = Passed(arg_index)
  BY <1>1, <1>3 DEF Passed
<1>5. WalkedSoFar
  BY <1>1 DEF IInv
<1>6. WalkedSoFar'
  BY <1>1, <1>4, <1>5 DEF WalkedSoFar, Places
<1>7. TypeOK'
  BY <1>1 DEF IInv, TypeOK
<1>8. (frame \in Frames)' /\ (visited \in Seq((0..13) \X Nat))'
  BY <1>1 DEF IInv
<1>9. (arg = Ends(frame)[arg_index])'
  BY <1>1, <1>2
<1>10. (~payload.called)' /\ (pc # "received")' /\ (pc = "walk")'
  BY <1>1 DEF IInv
<1>11. QED
  BY <1>6, <1>7, <1>8, <1>9, <1>10 DEF IInv

\* The pairs of a sequence and one more.
LEMMA PairsOfAppend ==
  ASSUME NEW S, NEW s \in Seq(S), NEW e \in S
  PROVE  /\ Append(s, e) \in Seq(S)
         /\ Len(Append(s, e)) = Len(s) + 1
         /\ \A n \in 1..Len(s) : Append(s, e)[n] = s[n]
         /\ Append(s, e)[Len(s) + 1] = e
         /\ {Append(s, e)[n] : n \in 1..Len(Append(s, e))} = {s[n] : n \in 1..Len(s)} \cup {e}
<1>1. /\ Append(s, e) \in Seq(S) /\ Len(Append(s, e)) = Len(s) + 1
      /\ \A n \in 1..Len(s) : Append(s, e)[n] = s[n]
      /\ Append(s, e)[Len(s) + 1] = e
  OBVIOUS
<1>2. 1..(Len(s) + 1) = (1..Len(s)) \cup {Len(s) + 1}
  BY Len(s) \in Nat
<1> DEFINE t == Append(s, e)
<1> HIDE DEF t
<1>3. /\ Len(t) = Len(s) + 1
      /\ \A n \in 1..Len(s) : t[n] = s[n]
      /\ t[Len(s) + 1] = e
  BY <1>1 DEF t
<1>4. {t[n] : n \in 1..Len(t)} = {s[n] : n \in 1..Len(s)} \cup {e}
  BY <1>2, <1>3
<1>5. QED
  BY <1>1, <1>4 DEF t

\* The iterator is at the argument it hands out, and moves behind it.
LEMMA AtArgument ==
  ASSUME IInv, Walking, arg_index \in frame.present
  PROVE  /\ arg_index \in 0..13
         /\ Aligned = Layout(frame)[arg_index] /\ Aligned \in Nat
         /\ Moved = Ends(frame)[arg_index + 1] /\ Moved \in Nat
         /\ Moved = Layout(frame)[arg_index] + rt_sizes[arg_index].length
<1>1. arg_index \in 0..13 /\ arg = Ends(frame)[arg_index]
  BY Sizes DEF Walking, IInv
<1>2. /\ Layout(frame)[arg_index] = Padded(arg, rt_sizes[arg_index].align)
      /\ Layout(frame)[arg_index] \in Nat
      /\ Ends(frame)[arg_index + 1] = Layout(frame)[arg_index] + rt_sizes[arg_index].length
  BY <1>1, FrameType, LayoutIs DEF IInv
<1>3. Aligned = Padded(arg, rt_sizes[arg_index].align)
  BY DEF Aligned, Padded
<1>4. rt_sizes[arg_index].length \in Nat
  BY <1>1, Sizes
<1>5. QED
  BY <1>1, <1>2, <1>3, <1>4 DEF Moved
LEMMA ArgumentInvariant == ASSUME IInv, NextArgument PROVE IInv'
<1> DEFINE place == <<arg_index, Aligned>>
<1>1. /\ Walking /\ arg_index \in frame.present /\ Fits
      /\ pc = "walk" /\ pc' = "walk" /\ frame' = frame /\ payload' = payload
      /\ arg_index' = arg_index + 1 /\ arg' = Moved /\ visited' = Append(visited, place)
  BY DEF NextArgument, Walking
<1>2. /\ arg_index \in 0..13
      /\ Aligned = Layout(frame)[arg_index] /\ Aligned \in Nat
      /\ Moved = Ends(frame)[arg_index + 1] /\ Moved \in Nat
      /\ Moved = Layout(frame)[arg_index] + rt_sizes[arg_index].length
  BY <1>1, AtArgument
<1>3. WalkedSoFar /\ visited \in Seq((0..13) \X Nat) /\ frame \in Frames
  BY <1>1 DEF IInv
<1>4. place \in (0..13) \X Nat
  BY <1>2
<1> HIDE DEF place
<1>5. /\ visited' \in Seq((0..13) \X Nat) /\ Len(visited') = Len(visited) + 1
      /\ \A n \in 1..Len(visited) : visited'[n] = visited[n]
      /\ visited'[Len(visited) + 1] = place
      /\ {visited'[n] : n \in 1..Len(visited')} = {visited[n] : n \in 1..Len(visited)} \cup {place}
  BY <1>1, <1>3, <1>4, PairsOfAppend
<1>6. Passed(arg_index)' = Passed(arg_index) \cup {arg_index}
  <2>1. \A k \in 0..13 : k < arg_index' <=> k < arg_index \/ k = arg_index
    BY <1>1, <1>2
  <2>2. frame' = frame /\ arg_index \in frame.present
    BY <1>1
  <2>3. Passed(arg_index)' = {k \in 0..13 : k \in frame.present /\ k < arg_index'}
    BY <2>2 DEF Passed
  <2>4. QED
    BY <1>2, <2>1, <2>2, <2>3 DEF Passed
<1>7. Moved <= frame.it_len
  BY <1>1 DEF Fits
<1>8. {visited'[n] : n \in 1..Len(visited')} = Places(Passed(arg_index) \cup {arg_index})
  <2>1. place = <<arg_index, Layout(frame)[arg_index]>>
    BY <1>2 DEF place
  <2>2. QED
    BY <1>3, <1>5, <2>1 DEF WalkedSoFar, Places
<1>9. \A m, n \in 1..Len(visited') : m < n => visited'[m][1] < visited'[n][1]
  <2>1. SUFFICES ASSUME NEW m \in 1..Len(visited'), NEW n \in 1..Len(visited'), m < n
                 PROVE  visited'[m][1] < visited'[n][1]
    OBVIOUS
  <2>2. Len(visited) \in Nat
    BY <1>3
  <2>3. m \in 1..Len(visited) /\ visited'[m] = visited[m]
    BY <1>5, <2>1, <2>2
  <2>4. CASE n = Len(visited) + 1
    <3>1. visited[m] \in Places(Passed(arg_index))
      BY <1>3, <2>3 DEF WalkedSoFar
    <3>2. visited[m][1] < arg_index
      BY <3>1 DEF Places, Passed
    <3>3. visited'[n][1] = arg_index
      BY <1>5, <2>4 DEF place
    <3>4. QED
      BY <2>3, <3>2, <3>3
  <2>5. CASE n # Len(visited) + 1
    <3>1. n \in 1..Len(visited) /\ visited'[n] = visited[n]
      BY <1>5, <2>2, <2>5
    <3>2. QED
      BY <1>3, <2>1, <2>3, <3>1 DEF WalkedSoFar
  <2>6. QED
    BY <2>4, <2>5
<1>10. \A k \in Passed(arg_index) \cup {arg_index} : Layout(frame)[k] + rt_sizes[k].length <= frame.it_len
  BY <1>2, <1>3, <1>7 DEF WalkedSoFar
<1>11. m_nRadiotapFlags' = IF FLAGS \in Passed(arg_index) \cup {arg_index} THEN frame.flags ELSE Undefined
  <2>1. CASE arg_index = FLAGS
    <3>1. FlagsAt(Aligned) = {frame.flags}
      BY <1>1, <1>2, <2>1 DEF FlagsAt
    <3>2. m_nRadiotapFlags' = frame.flags
      BY <2>1, <3>1 DEF NextArgument
    <3>3. QED
      BY <2>1, <3>2
  <2>2. CASE arg_index # FLAGS
    <3>1. m_nRadiotapFlags' = m_nRadiotapFlags
      BY <2>2 DEF NextArgument
    <3>2. QED
      BY <1>3, <2>2, <3>1 DEF WalkedSoFar
  <2>3. QED
    BY <2>1, <2>2
<1>12. WalkedSoFar'
  BY <1>1, <1>6, <1>8, <1>9, <1>10, <1>11 DEF WalkedSoFar, Places
<1>13. TypeOK'
  <2>1. m_nRadiotapFlags' \in FlagBytes \cup {Undefined}
    BY <1>3, <1>11, FrameType
  <2>2. arg_index' \in 0..14 /\ arg' \in Nat /\ arg' <= frame.it_len
    BY <1>1, <1>2, <1>7
  <2>3. QED
    BY <1>1, <2>1, <2>2 DEF IInv, TypeOK
<1>14. (arg = Ends(frame)[arg_index])'
  BY <1>1, <1>2
<1>15. ~payload.called
  BY <1>1 DEF IInv
<1>16. QED
  BY <1>1, <1>3, <1>5, <1>12, <1>13, <1>14, <1>15 DEF IInv

\* Where the walk stops, all that is whole has been handed out.
LEMMA StopInvariant ==
  ASSUME IInv, pc = "walk", pc' = "hand over", Passed(arg_index) = Whole(frame), arg' \in Nat,
         UNCHANGED <<frame, arg_index, m_nRadiotapFlags, payload, visited>>
  PROVE  IInv'
<1>1. Passed(arg_index)' = Passed(arg_index) /\ Whole(frame)' = Whole(frame)
  BY DEF Passed, Whole
<1>2. WalkedSoFar'
  <2>1. WalkedSoFar
    BY DEF IInv
  <2>2. Places(Passed(arg_index))' = Places(Passed(arg_index))
    BY <1>1 DEF Places
  <2>3. QED
    BY <1>1, <2>1, <2>2 DEF WalkedSoFar
<1>3. TypeOK'
  BY DEF IInv, TypeOK
<1>4. QED
  BY <1>1, <1>2, <1>3 DEF IInv

LEMMA WholeIs ==
  ASSUME IInv, pc = "walk"
  PROVE  Passed(arg_index) \subseteq Whole(frame)
<1>1. SUFFICES ASSUME NEW k \in Passed(arg_index) PROVE k \in Whole(frame)
  OBVIOUS
<1>2. \A j \in (0..k) \cap frame.present : j \in Passed(arg_index)
  <2>1. k \in 0..13 /\ k < arg_index /\ arg_index \in 0..14
    BY DEF Passed, IInv, TypeOK
  <2>2. QED
    BY <2>1 DEF Passed
<1>3. WalkedSoFar
  BY DEF IInv
<1>4. QED
  BY <1>2, <1>3, Sizes DEF WalkedSoFar, Whole, Passed

LEMMA CutOffInvariant == ASSUME IInv, ArgumentCutOff PROVE IInv'
<1>1. /\ Walking /\ arg_index \in frame.present /\ ~(Moved <= frame.it_len)
      /\ pc = "walk" /\ pc' = "hand over" /\ arg' = Moved
      /\ UNCHANGED <<frame, arg_index, m_nRadiotapFlags, payload, visited>>
  BY DEF ArgumentCutOff, Walking, Fits
<1>2. /\ arg_index \in 0..13 /\ Moved \in Nat
      /\ Moved = Layout(frame)[arg_index] + rt_sizes[arg_index].length
  BY <1>1, AtArgument
<1>3. ASSUME NEW k \in Whole(frame) PROVE k \in Passed(arg_index)
  <2>1. /\ k \in 0..13 /\ k \in frame.present
        /\ \A j \in (0..k) \cap frame.present : Layout(frame)[j] + rt_sizes[j].length <= frame.it_len
    BY Sizes DEF Whole
  <2>2. arg_index \notin 0..k
    BY <1>1, <1>2, <2>1
  <2>3. QED
    BY <1>2, <2>1, <2>2 DEF Passed
<1>4. Passed(arg_index) = Whole(frame)
  BY <1>1, <1>3, WholeIs
<1>5. QED
  BY <1>1, <1>2, <1>4, StopInvariant

LEMMA EndInvariant == ASSUME IInv, NoMoreArguments PROVE IInv'
<1>1. /\ pc = "walk" /\ pc' = "hand over" /\ arg_index \notin 0..13 /\ arg' = arg
      /\ UNCHANGED <<frame, arg_index, m_nRadiotapFlags, payload, visited>>
  BY Sizes DEF NoMoreArguments, iterator
<1>2. arg_index = 14 /\ arg \in Nat
  <2>1. arg_index \in 0..14 /\ arg \in Nat
    BY DEF IInv, TypeOK
  <2>2. arg_index \notin 0..13
    BY <1>1
  <2>3. QED
    BY <2>1, <2>2
<1>3. Whole(frame) \subseteq Passed(arg_index)
  BY <1>2, Sizes DEF Whole, Passed
<1>4. Passed(arg_index) = Whole(frame)
  BY <1>1, <1>3, WholeIs
<1>5. QED
  BY <1>1, <1>2, <1>4, StopInvariant

LEMMA HandOverInvariant == ASSUME IInv, HandOver PROVE IInv'
<1>1. /\ pc = "hand over" /\ pc' = "done" /\ frame' = frame /\ visited' = visited
      /\ arg_index' = arg_index /\ arg' = arg /\ m_nRadiotapFlags' = m_nRadiotapFlags
  BY DEF HandOver, iterator
<1>2. PICK flags \in IF m_nRadiotapFlags = Undefined THEN FlagBytes ELSE {m_nRadiotapFlags} :
        payload' = [called |-> TRUE,
                    bytes |-> frame.len - (frame.it_len + n80211HeaderLength)
                                - (IF F_FCS \in flags THEN 4 ELSE 0),
                    checksum_correct |-> F_BADFCS \notin flags]
  BY DEF HandOver
<1>3. /\ frame.it_len \in Nat /\ frame.len \in Nat /\ n80211HeaderLength \in Nat
      /\ frame.flags # Undefined /\ frame \in Frames
  BY FrameType DEF IInv
<1>4. ASSUME FLAGS \in Whole(frame) PROVE Verdict(payload')
  <2>1. FLAGS \in Passed(arg_index) /\ WalkedSoFar
    BY <1>1, <1>4 DEF IInv
  <2>2. flags = frame.flags
    BY <1>2, <1>3, <2>1 DEF WalkedSoFar
  <2>3. payload'.checksum_correct <=> F_BADFCS \notin frame.flags
    BY <1>2, <2>2
  <2>4. payload'.bytes = frame.len - (frame.it_len + n80211HeaderLength)
                           - (IF F_FCS \in frame.flags THEN 4 ELSE 0)
    BY <1>2, <2>2
  <2>5. QED
    BY <1>3, <2>3, <2>4 DEF Verdict
<1>5. payload'.bytes \in Int /\ payload'.checksum_correct \in BOOLEAN
  BY <1>2, <1>3
<1>6. TypeOK'
  BY <1>1, <1>5 DEF IInv, TypeOK
<1>7. FLAGS \in Whole(frame)' => Verdict(payload)'
  BY <1>1, <1>4 DEF Verdict, Whole
<1>8. QED
  BY <1>1, <1>6, <1>7 DEF IInv

LEMMA StepInvariant == IInv /\ [Next]_vars => IInv'
<1> SUFFICES ASSUME IInv, [Next]_vars PROVE IInv'
  OBVIOUS
<1>1. CASE Discard
  BY <1>1, DiscardInvariant
<1>2. CASE iterator_init
  BY <1>2, StartInvariant
<1>3. CASE SkipEntry
  BY <1>3, SkipInvariant
<1>4. CASE NextArgument
  BY <1>4, ArgumentInvariant
<1>5. CASE ArgumentCutOff
  BY <1>5, CutOffInvariant
<1>6. CASE NoMoreArguments
  BY <1>6, EndInvariant
<1>7. CASE HandOver
  BY <1>7, HandOverInvariant
<1>8. CASE UNCHANGED vars
  <2>1. UNCHANGED <<frame, pc, arg_index, arg, m_nRadiotapFlags, payload, visited>>
    BY <1>8 DEF vars, iterator
  <2>2. Passed(arg_index)' = Passed(arg_index) /\ Whole(frame)' = Whole(frame)
    BY <2>1 DEF Passed, Whole
  <2>3. WalkedSoFar <=> WalkedSoFar'
    BY <2>1, <2>2 DEF WalkedSoFar, Places
  <2>4. Verdict(payload) <=> Verdict(payload)'
    BY <2>1 DEF Verdict
  <2>5. TypeOK'
    BY <2>1 DEF IInv, TypeOK
  <2>6. QED
    BY <2>1, <2>2, <2>3, <2>4, <2>5 DEF IInv
<1>9. QED
  BY <1>1, <1>2, <1>3, <1>4, <1>5, <1>6, <1>7, <1>8 DEF Next

LEMMA InvariantHolds == Spec => []IInv
BY InitInvariant, StepInvariant, PTL DEF Spec

-----------------------------------------------------------------------------
\* The iterator that radiotap.c keeps: every field within its range, and the
\* argument just handed out inside the length the header states, for every
\* frame.
THEOREM TypeCorrect == Spec => []TypeOK
<1>1. IInv => TypeOK
  BY DEF IInv
<1>2. QED
  BY <1>1, InvariantHolds, PTL

\* ieee80211_radiotap_iterator_next hands out exactly the arguments that the
\* stated length leaves whole, each at the least aligned offset behind the one
\* before it, in the order of their bits: for every frame.
THEOREM WalkHolds == Spec => []WalkMatchesLayout
<1>1. IInv => WalkMatchesLayout
  BY DEF IInv, WalkedSoFar, Places, WalkMatchesLayout
<1>2. QED
  BY <1>1, InvariantHolds, PTL

\* What process_packet tells process_payload: a FLAGS argument in the header
\* decides on the checksum and on the frame check sequence, whatever else the
\* header holds, for every frame and every 802.11 header length.
THEOREM VerdictHolds == Spec => []VerdictRight
<1>1. IInv => VerdictRight
  BY DEF IInv, Verdict, VerdictRight
<1>2. QED
  BY <1>1, InvariantHolds, PTL
=============================================================================
