------------------------- MODULE FecSelectionProofs -------------------------
(***************************************************************************)
(* What the pairing loop of process_payload and the walk of reduce         *)
(* guarantee for every block geometry and every pattern of damage.         *)
(*                                                                         *)
(* The counters of the loop are exact: datas_missing and good_fecs always  *)
(* count what lies ahead of the two indices (Counts).  The priority and    *)
(* the completeness of the repair are then invariants of the loop, not     *)
(* only of its end, and the list of erased DATA is increasing and behind   *)
(* di, which is what lets reduce find each of them.                        *)
(***************************************************************************)
EXTENDS FecSelection, FecBlockProofs

MissingData == {k \in DataNos : data[k] = "missing"}
CorruptData == {k \in DataNos : data[k] = "corrupt"}

(***************************************************************************)
(* The parts of the inductive invariant.                                   *)
(***************************************************************************)
Shape ==
  /\ data \in [DataNos -> Status]
  /\ fec \in [FecNos -> Status]
  /\ pc \in {"select", "reduce", "done"}
  /\ di \in 0..D /\ fi \in 0..F
  /\ datas_missing \in Int /\ datas_corrupt \in Int /\ good_fecs \in Int
  /\ erased_blocks \in Seq(DataNos) /\ fec_block_nos \in Seq(FecNos)
  /\ Len(erased_blocks) = Len(fec_block_nos)
  /\ col \in 0..D /\ erasedIdx \in 0..Len(erased_blocks)

Counts ==
  /\ datas_missing = Cardinality(Ahead(MissingData, di, D - 1))
  /\ good_fecs = Cardinality(Ahead(GoodFecs(fec), fi, F - 1))
  /\ datas_corrupt \in 0..D
  /\ datas_corrupt >= Cardinality(Ahead(CorruptData, di, D - 1))

\* What the two lists hold: numbers already passed, in increasing order.
Lists ==
  /\ \A k \in 1..Len(erased_blocks) :
       /\ erased_blocks[k] < di /\ data[erased_blocks[k]] # "good"
       /\ fec_block_nos[k] < fi /\ fec[fec_block_nos[k]] # "missing"
  /\ \A j, k \in 1..Len(erased_blocks) :
       j < k => erased_blocks[j] < erased_blocks[k] /\ fec_block_nos[j] < fec_block_nos[k]

\* Missing DATA is never passed without a substitute, and once a corrupt DATA
\* has one there are good FECs for all the missing DATA ahead.
Priority ==
  /\ \A d \in MissingData : d < di => \E k \in 1..Len(erased_blocks) : erased_blocks[k] = d
  /\ \A k \in 1..Len(erased_blocks) :
       data[erased_blocks[k]] = "corrupt" => good_fecs >= datas_missing

\* While no FEC of the block is corrupt and there are enough of them, nothing
\* damaged is passed and enough of them are left for what is ahead.
Repair ==
  (\A f \in FecNos : fec[f] # "corrupt") /\ ~ReconstructionFailed(data, fec) =>
    /\ Cardinality(Ahead(Bad(data), di, D - 1)) <= good_fecs
    /\ \A d \in Bad(data) : d < di => \E k \in 1..Len(erased_blocks) : erased_blocks[k] = d

Walk ==
  /\ pc = "select" => col = 0
  /\ pc # "select" => di = D \/ fi = F
  /\ pc = "done" => col = D
  /\ \A k \in 1..Len(erased_blocks) : k <= erasedIdx <=> erased_blocks[k] < col

IInv == Shape /\ Counts /\ Lists /\ Priority /\ Repair /\ Walk

-----------------------------------------------------------------------------
\* The counts ahead of DATA number di, when it is passed.
LEMMA PassData ==
  ASSUME Shape, di < D
  PROVE  /\ \A P : /\ Cardinality(Ahead(P, di, D - 1)) \in Nat
                  /\ Cardinality(Ahead(P, di + 1, D - 1)) \in Nat
         /\ Cardinality(Ahead(MissingData, di, D - 1)) =
              Cardinality(Ahead(MissingData, di + 1, D - 1)) + (IF data[di] = "missing" THEN 1 ELSE 0)
         /\ Cardinality(Ahead(CorruptData, di, D - 1)) =
              Cardinality(Ahead(CorruptData, di + 1, D - 1)) + (IF data[di] = "corrupt" THEN 1 ELSE 0)
         /\ Cardinality(Ahead(Bad(data), di, D - 1)) =
              Cardinality(Ahead(Bad(data), di + 1, D - 1)) + (IF data[di] = "good" THEN 0 ELSE 1)
<1>1. data \in [DataNos -> Status] /\ di \in 0..D
  BY DEF Shape
<1>2. MissingData = MissingIn(data) /\ CorruptData = CorruptIn(data)
  BY DEF MissingData, MissingIn, CorruptData, CorruptIn
<1>3. QED
  BY <1>1, <1>2, DataPass

\* The count of good FECs ahead of FEC number fi, when it is passed.
LEMMA PassFec ==
  ASSUME Shape, fi < F
  PROVE  /\ Cardinality(Ahead(GoodFecs(fec), fi, F - 1)) \in Nat
         /\ Cardinality(Ahead(GoodFecs(fec), fi + 1, F - 1)) \in Nat
         /\ Cardinality(Ahead(GoodFecs(fec), fi, F - 1)) =
              Cardinality(Ahead(GoodFecs(fec), fi + 1, F - 1)) + (IF fec[fi] = "good" THEN 1 ELSE 0)
BY FecPass DEF Shape

\* A corrupt DATA ahead is damaged besides the missing ones ahead.
LEMMA DamageAhead ==
  ASSUME Shape, di < D, data[di] = "corrupt"
  PROVE  Cardinality(Ahead(MissingData, di, D - 1)) + 1 <= Cardinality(Ahead(Bad(data), di, D - 1))
BY CorruptAhead DEF Shape, MissingData, MissingIn

-----------------------------------------------------------------------------
\* The invariant holds of every block before the loop starts.
LEMMA InitInvariant == Init => IInv
<1> SUFFICES ASSUME Init PROVE IInv
  OBVIOUS
<1>1. /\ D \in Nat /\ F \in Nat /\ D - 1 \in Int /\ F - 1 \in Int /\ 0 \in 0..D /\ 0 \in 0..F
  BY BlockAssumption DEF MAX_DATA_OR_FEC_PACKETS_PER_BLOCK
<1>2. /\ {k \in 0..(D - 1) : data[k] = "missing"} = Ahead(MissingData, 0, D - 1)
      /\ {k \in DataNos : data[k] = "corrupt"} = Ahead(CorruptData, 0, D - 1)
      /\ {k \in 0..(F - 1) : fec[k] = "good"} = Ahead(GoodFecs(fec), 0, F - 1)
      /\ GoodFecs(fec) = Ahead(GoodFecs(fec), 0, F - 1)
      /\ Bad(data) = Ahead(Bad(data), 0, D - 1)
  BY DEF Ahead, MissingData, CorruptData, GoodFecs, Bad, DataNos, FecNos
<1>3. /\ Cardinality(Ahead(MissingData, 0, D - 1)) \in Nat
      /\ Cardinality(Ahead(CorruptData, 0, D - 1)) \in Nat
      /\ Cardinality(Ahead(GoodFecs(fec), 0, F - 1)) \in Nat
      /\ Cardinality(Ahead(Bad(data), 0, D - 1)) \in Nat
  BY <1>1, CountAhead
<1>0. /\ MissingFrom(data, 0) = Cardinality(Ahead(MissingData, 0, D - 1))
      /\ GoodFrom(fec, 0) = Cardinality(Ahead(GoodFecs(fec), 0, F - 1))
      /\ Cardinality({k \in DataNos : data[k] = "corrupt"}) = Cardinality(Ahead(CorruptData, 0, D - 1))
  BY <1>2 DEF MissingFrom, GoodFrom
<1>4. Shape
  <2>1. <<>> \in Seq(DataNos) /\ <<>> \in Seq(FecNos) /\ Len(<<>>) = 0
    OBVIOUS
  <2>2. datas_missing \in Int /\ datas_corrupt \in Int /\ good_fecs \in Int
    BY <1>0, <1>3 DEF Init
  <2> QED
    BY <1>1, <2>1, <2>2 DEF Init, Shape
<1>5. Counts
  <2>1. IsFiniteSet(0..(D - 1)) /\ Cardinality(0..(D - 1)) = D
    BY <1>1, FS_Interval
  <2>2. Ahead(CorruptData, 0, D - 1) \subseteq 0..(D - 1)
    BY DEF Ahead
  <2>3. Cardinality(Ahead(CorruptData, 0, D - 1)) <= D
    BY <2>1, <2>2, FS_Subset
  <2> QED
    BY <1>0, <1>1, <1>3, <2>3 DEF Init, Counts
<1>6. Lists /\ Priority /\ Walk
  BY <1>1 DEF Init, Lists, Priority, Walk, MissingData, DataNos
<1>7. Repair
  <2>1. good_fecs = Cardinality(GoodFecs(fec)) /\ di = 0
    BY <1>2 DEF Init, GoodFrom
  <2>2. ~ReconstructionFailed(data, fec) => Cardinality(Ahead(Bad(data), 0, D - 1)) <= good_fecs
    BY <1>2, <1>3, <2>1 DEF ReconstructionFailed
  <2>3. \A d \in Bad(data) : ~(d < 0)
    BY DEF Bad, DataNos
  <2> QED
    BY <2>1, <2>2, <2>3 DEF Repair
<1> QED
  BY <1>4, <1>5, <1>6, <1>7 DEF IInv

\* The lists hold numbers of DATA and of FECs.
LEMMA ListNumbers ==
  ASSUME Shape, NEW k \in 1..Len(erased_blocks)
  PROVE  /\ erased_blocks[k] \in DataNos /\ erased_blocks[k] \in Int
         /\ fec_block_nos[k] \in FecNos /\ fec_block_nos[k] \in Int
<1>1. /\ D \in Int /\ F \in Int /\ DataNos \subseteq Int /\ FecNos \subseteq Int
  BY BlockAssumption DEF DataNos, FecNos, MAX_DATA_OR_FEC_PACKETS_PER_BLOCK
<1>2. erased_blocks[k] \in DataNos /\ fec_block_nos[k] \in FecNos
  BY DEF Shape
<1> QED
  BY <1>1, <1>2

LEMMA SkipDataInvariant == IInv /\ SkipData => IInv'
<1> SUFFICES ASSUME IInv, SkipData PROVE IInv'
  OBVIOUS
<1> USE DEF IInv
<1>1. /\ D \in Nat /\ F \in Nat /\ di \in Int /\ di < D /\ di \in DataNos
      /\ data[di] \in Status
  BY BlockAssumption DEF SkipData, InLoop, Shape, DataNos, MAX_DATA_OR_FEC_PACKETS_PER_BLOCK
<1>2. /\ data' = data /\ fec' = fec /\ fi' = fi /\ di' = di + 1
      /\ MissingData' = MissingData /\ CorruptData' = CorruptData
      /\ pc = "select" /\ fi < F
  BY DEF SkipData, InLoop, MissingData, CorruptData
<1>3. data[di] # "missing" /\ (data[di] = "good" \/ (data[di] = "corrupt" /\ good_fecs <= datas_missing))
  BY DEF SkipData, DataFine, Hopeless
<1>4. Shape'
  BY <1>1, <1>2 DEF SkipData, Shape, counters, result, walk
<1>5. Counts'
  BY <1>1, <1>2, <1>3, PassData DEF SkipData, Counts, counters
<1>6. Lists'
  BY <1>1, <1>2, ListNumbers DEF SkipData, Lists, result
<1>7. Priority'
  BY <1>1, <1>2, <1>3 DEF SkipData, Priority, result, counters, Shape, MissingData
<1>8. Repair'
  <2> SUFFICES ASSUME \A f \in FecNos : fec[f] # "corrupt", ~ReconstructionFailed(data, fec)
               PROVE  /\ Cardinality(Ahead(Bad(data), di + 1, D - 1)) <= good_fecs
                      /\ \A d \in Bad(data) : d < di + 1 =>
                           \E k \in 1..Len(erased_blocks) : erased_blocks[k] = d
    BY <1>2 DEF Repair, SkipData, counters, result, ReconstructionFailed
  <2>1. /\ Cardinality(Ahead(Bad(data), di, D - 1)) <= good_fecs
        /\ \A d \in Bad(data) : d < di => \E k \in 1..Len(erased_blocks) : erased_blocks[k] = d
    BY DEF Repair
  <2>2. data[di] = "good"
    <3> SUFFICES ASSUME data[di] = "corrupt", good_fecs <= datas_missing PROVE FALSE
      BY <1>3
    <3> DEFINE lost    == Cardinality(Ahead(MissingData, di, D - 1))
               damaged == Cardinality(Ahead(Bad(data), di, D - 1))
    <3>1. datas_missing = lost /\ damaged <= good_fecs
      BY <2>1 DEF Counts
    <3>2. lost + 1 <= damaged
      BY <1>1, DamageAhead
    <3>3. lost \in Nat /\ damaged \in Nat /\ good_fecs \in Int
      BY <1>1, PassData DEF Shape
    <3> HIDE DEF lost, damaged
    <3>4. QED
      BY <3>1, <3>2, <3>3
  <2>3. Cardinality(Ahead(Bad(data), di + 1, D - 1)) <= good_fecs
    BY <1>1, <2>1, <2>2, PassData DEF Shape
  <2> QED
    BY <1>1, <2>1, <2>2, <2>3 DEF Bad, DataNos
<1>9. Walk'
  BY <1>1, <1>2 DEF SkipData, Walk, result, walk
<1> QED
  BY <1>4, <1>5, <1>6, <1>7, <1>8, <1>9

LEMMA SkipFecInvariant == IInv /\ SkipFec => IInv'
<1> SUFFICES ASSUME IInv, SkipFec PROVE IInv'
  OBVIOUS
<1> USE DEF IInv
<1>1. /\ D \in Nat /\ F \in Nat /\ fi \in Int /\ fi < F /\ fec[fi] # "good"
  BY BlockAssumption DEF SkipFec, InLoop, Shape, FecMissing, FecRefused, MAX_DATA_OR_FEC_PACKETS_PER_BLOCK
<1>2. /\ data' = data /\ fec' = fec /\ di' = di /\ fi' = fi + 1
      /\ MissingData' = MissingData /\ CorruptData' = CorruptData
      /\ pc = "select" /\ di < D
  BY DEF SkipFec, InLoop, MissingData, CorruptData
<1>3. Cardinality(Ahead(GoodFecs(fec), fi + 1, F - 1)) = Cardinality(Ahead(GoodFecs(fec), fi, F - 1))
  BY <1>1, PassFec
<1>4. Shape'
  BY <1>1, <1>2 DEF SkipFec, Shape, counters, result, walk
<1>5. Counts'
  BY <1>1, <1>2, <1>3 DEF SkipFec, Counts, counters
<1>6. Lists'
  BY <1>1, <1>2, ListNumbers DEF SkipFec, Lists, result
<1>7. Priority'
  BY <1>1, <1>2 DEF SkipFec, Priority, result, counters
<1>8. Repair'
  BY <1>1, <1>2 DEF SkipFec, Repair, result, counters
<1>9. Walk'
  BY <1>1, <1>2 DEF SkipFec, Walk, result, walk
<1> QED
  BY <1>4, <1>5, <1>6, <1>7, <1>8, <1>9

LEMMA SubstituteInvariant == IInv /\ Substitute => IInv'
<1> SUFFICES ASSUME IInv, Substitute PROVE IInv'
  OBVIOUS
<1> USE DEF IInv
<1> DEFINE n == Len(erased_blocks)
<1>1. /\ D \in Nat /\ F \in Nat /\ DataNos \subseteq Int /\ FecNos \subseteq Int
      /\ di \in Int /\ di < D /\ di \in DataNos /\ data[di] \in Status
      /\ fi \in Int /\ fi < F /\ fi \in FecNos /\ fec[fi] \in Status
  BY BlockAssumption DEF Substitute, InLoop, Shape, DataNos, FecNos, MAX_DATA_OR_FEC_PACKETS_PER_BLOCK
<1>2. /\ data' = data /\ fec' = fec /\ di' = di + 1 /\ fi' = fi + 1
      /\ MissingData' = MissingData /\ CorruptData' = CorruptData
      /\ pc = "select" /\ pc' = pc /\ col' = col /\ erasedIdx' = erasedIdx
  BY DEF Substitute, InLoop, walk, MissingData, CorruptData
<1>3. /\ data[di] # "good" /\ (data[di] = "corrupt" => good_fecs > datas_missing)
      /\ fec[fi] # "missing"
  BY DEF Substitute, DataFine, Hopeless, FecMissing, Shape
<1>4. /\ datas_missing' = datas_missing - (IF data[di] = "missing" THEN 1 ELSE 0)
      /\ datas_corrupt' = datas_corrupt - (IF data[di] = "corrupt" THEN 1 ELSE 0)
      /\ good_fecs' = good_fecs - (IF fec[fi] = "good" THEN 1 ELSE 0)
  BY DEF Substitute, GoodFecsLeft, DatasMissingLeft, Shape
<1>5. /\ n \in Nat /\ Len(fec_block_nos) = n
      /\ erased_blocks' = Append(erased_blocks, di) /\ fec_block_nos' = Append(fec_block_nos, fi)
      /\ Len(erased_blocks') = n + 1 /\ Len(fec_block_nos') = n + 1
      /\ erased_blocks' \in Seq(DataNos) /\ fec_block_nos' \in Seq(FecNos)
  BY <1>1 DEF Substitute, Shape
<1>6. /\ \A k \in 1..n : erased_blocks'[k] = erased_blocks[k] /\ fec_block_nos'[k] = fec_block_nos[k]
      /\ erased_blocks'[n + 1] = di /\ fec_block_nos'[n + 1] = fi
  BY <1>5 DEF Shape
<1>7. Shape'
  BY <1>1, <1>2, <1>4, <1>5 DEF Shape
<1>8. Counts'
  <2>1. /\ datas_missing' = Cardinality(Ahead(MissingData, di + 1, D - 1))
        /\ good_fecs' = Cardinality(Ahead(GoodFecs(fec), fi + 1, F - 1))
    BY <1>1, <1>4, PassData, PassFec DEF Counts
  <2>2. /\ datas_corrupt' \in 0..D
        /\ datas_corrupt' >= Cardinality(Ahead(CorruptData, di + 1, D - 1))
    BY <1>1, <1>4, PassData DEF Counts
  <2> QED
    BY <1>2, <2>1, <2>2 DEF Counts
<1>9. Lists'
  <2>1. \A k \in 1..(n + 1) : k \in 1..n \/ k = n + 1
    BY <1>5
  <2>2. ASSUME NEW k \in 1..(n + 1)
        PROVE  /\ erased_blocks'[k] < di + 1 /\ data[erased_blocks'[k]] # "good"
               /\ fec_block_nos'[k] < fi + 1 /\ fec[fec_block_nos'[k]] # "missing"
    <3>1. CASE k \in 1..n
      BY <1>1, <1>6, <3>1, ListNumbers DEF Lists
    <3>2. CASE k = n + 1
      BY <1>1, <1>3, <1>6, <3>2
    <3> QED
      BY <2>1, <3>1, <3>2
  <2>3. ASSUME NEW j \in 1..(n + 1), NEW k \in 1..(n + 1), j < k
        PROVE  erased_blocks'[j] < erased_blocks'[k] /\ fec_block_nos'[j] < fec_block_nos'[k]
    <3>1. j \in 1..n
      BY <1>5, <2>3
    <3>2. CASE k \in 1..n
      BY <1>6, <2>3, <3>1, <3>2 DEF Lists
    <3>3. CASE k = n + 1
      BY <1>6, <3>1, <3>3 DEF Lists
    <3> QED
      BY <2>1, <3>2, <3>3
  <2> QED
    BY <1>2, <1>5, <2>2, <2>3 DEF Lists
<1>10. Priority'
  <2>1. ASSUME NEW d \in MissingData, d < di + 1
        PROVE  \E k \in 1..(n + 1) : erased_blocks'[k] = d
    <3>1. CASE d < di
      <4>1. PICK k \in 1..n : erased_blocks[k] = d
        BY <3>1 DEF Priority
      <4> QED
        BY <1>5, <1>6, <4>1
    <3>2. CASE d = di
      BY <1>5, <1>6, <3>2
    <3>3. d \in Int
      BY <1>1 DEF MissingData
    <3> QED
      BY <1>1, <2>1, <3>1, <3>2, <3>3
  <2>2. ASSUME NEW k \in 1..(n + 1), data[erased_blocks'[k]] = "corrupt"
        PROVE  good_fecs' >= datas_missing'
    <3>0. good_fecs \in Nat /\ datas_missing \in Nat
      BY <1>1, PassData, PassFec DEF Counts
    <3>1. CASE data[di] = "corrupt"
      BY <1>3, <1>4, <3>0, <3>1
    <3>2. CASE data[di] = "missing"
      <4>1. k \in 1..n
        BY <1>5, <1>6, <2>2, <3>2
      <4>2. good_fecs >= datas_missing
        BY <1>6, <2>2, <4>1 DEF Priority
      <4> QED
        BY <1>4, <3>0, <3>2, <4>2
    <3> QED
      BY <1>1, <1>3, <3>1, <3>2 DEF Status
  <2> QED
    BY <1>2, <1>5, <2>1, <2>2 DEF Priority
<1>11. Repair'
  <2> SUFFICES ASSUME \A f \in FecNos : fec[f] # "corrupt", ~ReconstructionFailed(data, fec)
               PROVE  /\ Cardinality(Ahead(Bad(data), di + 1, D - 1)) <= good_fecs'
                      /\ \A d \in Bad(data) : d < di + 1 =>
                           \E k \in 1..(n + 1) : erased_blocks'[k] = d
    BY <1>2, <1>5 DEF Repair
  <2>1. /\ Cardinality(Ahead(Bad(data), di, D - 1)) <= good_fecs
        /\ \A d \in Bad(data) : d < di => \E k \in 1..n : erased_blocks[k] = d
    BY DEF Repair
  <2>2. fec[fi] = "good"
    BY <1>1, <1>3 DEF Status
  <2>3. Cardinality(Ahead(Bad(data), di + 1, D - 1)) <= good_fecs'
    BY <1>1, <1>3, <1>4, <2>1, <2>2, PassData DEF Shape
  <2>4. ASSUME NEW d \in Bad(data), d < di + 1
        PROVE  \E k \in 1..(n + 1) : erased_blocks'[k] = d
    <3>1. CASE d < di
      <4>1. PICK k \in 1..n : erased_blocks[k] = d
        BY <2>1, <3>1
      <4> QED
        BY <1>5, <1>6, <4>1
    <3>2. CASE d = di
      BY <1>5, <1>6, <3>2
    <3>3. d \in Int
      BY <1>1 DEF Bad
    <3> QED
      BY <1>1, <2>4, <3>1, <3>2, <3>3
  <2> QED
    BY <2>3, <2>4
<1>12. Walk'
  <2>1. col = 0 /\ erasedIdx \in Nat /\ erasedIdx <= n
    BY <1>2 DEF Walk, Shape
  <2>2. ASSUME NEW k \in 1..(n + 1)
        PROVE  k <= erasedIdx <=> erased_blocks'[k] < 0
    <3>1. CASE k \in 1..n
      BY <1>6, <2>1, <3>1 DEF Walk
    <3>2. CASE k = n + 1
      BY <1>1, <1>5, <1>6, <2>1, <3>2 DEF DataNos
    <3> QED
      BY <1>5, <3>1, <3>2
  <2> QED
    BY <1>2, <1>5, <2>1, <2>2 DEF Walk
<1> QED
  BY <1>7, <1>8, <1>9, <1>10, <1>11, <1>12

LEMMA LoopEndsInvariant == IInv /\ LoopEnds => IInv'
<1> SUFFICES ASSUME IInv, LoopEnds PROVE IInv'
  OBVIOUS
<1> USE DEF IInv
<1>1. /\ data' = data /\ fec' = fec /\ di' = di /\ fi' = fi /\ pc' = "reduce"
      /\ datas_missing' = datas_missing /\ datas_corrupt' = datas_corrupt /\ good_fecs' = good_fecs
      /\ erased_blocks' = erased_blocks /\ fec_block_nos' = fec_block_nos
      /\ col' = col /\ erasedIdx' = erasedIdx
      /\ MissingData' = MissingData /\ CorruptData' = CorruptData
  BY DEF LoopEnds, counters, result, walk, MissingData, CorruptData
<1>2. di = D \/ fi = F
  BY BlockAssumption DEF LoopEnds, Shape, MAX_DATA_OR_FEC_PACKETS_PER_BLOCK
<1>3. Shape' /\ Counts' /\ Lists'
  BY <1>1 DEF Shape, Counts, Lists
<1>4. Priority' /\ Repair'
  BY <1>1 DEF Priority, Repair
<1>5. Walk'
  BY <1>1, <1>2 DEF Walk
<1> QED
  BY <1>3, <1>4, <1>5

LEMMA ReduceInvariant == IInv /\ (ReduceColumn \/ ReduceEnds) => IInv'
<1> SUFFICES ASSUME IInv, ReduceColumn \/ ReduceEnds PROVE IInv'
  OBVIOUS
<1> USE DEF IInv
<1>1. /\ data' = data /\ fec' = fec /\ di' = di /\ fi' = fi
      /\ datas_missing' = datas_missing /\ datas_corrupt' = datas_corrupt /\ good_fecs' = good_fecs
      /\ erased_blocks' = erased_blocks /\ fec_block_nos' = fec_block_nos
      /\ MissingData' = MissingData /\ CorruptData' = CorruptData
      /\ pc = "reduce"
  BY DEF ReduceColumn, ReduceEnds, counters, result, walk, MissingData, CorruptData
<1>2. D \in Nat /\ col \in Int /\ erasedIdx \in Nat /\ Len(erased_blocks) \in Nat
      /\ erasedIdx <= Len(erased_blocks)
  BY BlockAssumption DEF Shape, MAX_DATA_OR_FEC_PACKETS_PER_BLOCK
<1>3. Counts' /\ Lists'
  BY <1>1 DEF Counts, Lists
<1>4. Priority' /\ Repair'
  BY <1>1 DEF Priority, Repair
<1>5. CASE ReduceColumn
  <2>1. /\ col < D /\ col' = col + 1 /\ pc' = "reduce"
        /\ erasedIdx' = IF NextErased THEN erasedIdx + 1 ELSE erasedIdx
    BY <1>1, <1>5 DEF ReduceColumn
  <2>2. Shape'
    BY <1>1, <1>2, <2>1 DEF Shape, NextErased
  <2>3. ASSUME NEW k \in 1..Len(erased_blocks)
        PROVE  k <= erasedIdx' <=> erased_blocks[k] < col + 1
    <3>1. k \in Int /\ erased_blocks[k] \in Int /\ (k <= erasedIdx <=> erased_blocks[k] < col)
      BY ListNumbers DEF Walk
    <3>2. CASE NextErased
      <4>1. erasedIdx + 1 \in 1..Len(erased_blocks) /\ erased_blocks[erasedIdx + 1] = col
        BY <1>2, <3>2 DEF NextErased
      <4>2. k > erasedIdx + 1 => erased_blocks[k] > col
        BY <1>2, <3>1, <4>1 DEF Lists
      <4>3. k < erasedIdx + 1 \/ k = erasedIdx + 1 \/ k > erasedIdx + 1
        BY <1>2, <3>1
      <4> QED
        BY <1>2, <2>1, <3>1, <3>2, <4>1, <4>2, <4>3
    <3>3. CASE ~NextErased
      <4>1. erased_blocks[k] # col
        <5> SUFFICES ASSUME erased_blocks[k] = col PROVE FALSE
          OBVIOUS
        <5>1. erasedIdx < k /\ erasedIdx + 1 \in 1..Len(erased_blocks)
          BY <1>2, <3>1
        <5>2. k # erasedIdx + 1
          BY <1>2, <3>3, <5>1 DEF NextErased
        <5>3. erased_blocks[erasedIdx + 1] < erased_blocks[k]
          BY <1>2, <3>1, <5>1, <5>2 DEF Lists
        <5>4. erasedIdx + 1 <= erasedIdx
          BY <5>1, <5>3 DEF Walk
        <5> QED
          BY <1>2, <5>4
      <4> QED
        BY <1>2, <2>1, <3>1, <3>3, <4>1
    <3> QED
      BY <3>2, <3>3
  <2>4. Walk'
    BY <1>1, <1>2, <2>1, <2>3 DEF Walk
  <2> QED
    BY <1>3, <1>4, <2>2, <2>4
<1>6. CASE ReduceEnds
  <2>1. col = D /\ col' = col /\ erasedIdx' = erasedIdx /\ pc' = "done"
    BY <1>6 DEF ReduceEnds, walk
  <2>2. Shape' /\ Walk'
    BY <1>1, <2>1 DEF Shape, Walk
  <2> QED
    BY <1>3, <1>4, <2>2
<1> QED
  BY <1>5, <1>6

-----------------------------------------------------------------------------
LEMMA StepInvariant == IInv /\ [Next]_vars => IInv'
<1> SUFFICES ASSUME IInv, [Next]_vars PROVE IInv'
  OBVIOUS
<1>1. CASE SkipData
  BY <1>1, SkipDataInvariant
<1>2. CASE SkipFec
  BY <1>2, SkipFecInvariant
<1>3. CASE Substitute
  BY <1>3, SubstituteInvariant
<1>4. CASE LoopEnds
  BY <1>4, LoopEndsInvariant
<1>5. CASE ReduceColumn \/ ReduceEnds
  BY <1>5, ReduceInvariant
<1>6. CASE UNCHANGED vars
  <2>1. /\ data' = data /\ fec' = fec /\ pc' = pc /\ di' = di /\ fi' = fi
        /\ datas_missing' = datas_missing /\ datas_corrupt' = datas_corrupt /\ good_fecs' = good_fecs
        /\ erased_blocks' = erased_blocks /\ fec_block_nos' = fec_block_nos
        /\ col' = col /\ erasedIdx' = erasedIdx
        /\ MissingData' = MissingData /\ CorruptData' = CorruptData
    BY <1>6 DEF vars, counters, result, walk, MissingData, CorruptData
  <2>2. Shape' /\ Counts' /\ Lists'
    BY <2>1 DEF IInv, Shape, Counts, Lists
  <2>3. Priority' /\ Repair' /\ Walk'
    BY <2>1 DEF IInv, Priority, Repair, Walk
  <2> QED
    BY <2>2, <2>3 DEF IInv
<1> QED
  BY <1>1, <1>2, <1>3, <1>4, <1>5, <1>6 DEF Next

\* The inductive invariant holds in every state of the decoder.
THEOREM Invariant == Spec => []IInv
<1>1. Init => IInv
  BY InitInvariant
<1>2. IInv /\ [Next]_vars => IInv'
  BY StepInvariant
<1> QED
  BY <1>1, <1>2, PTL DEF Spec

-----------------------------------------------------------------------------
\* Every variable of process_payload's loop stays within its range: no index
\* leaves its array, and no counter becomes negative.
THEOREM TypeCorrect == Spec => []TypeOK
<1>1. IInv => TypeOK
  <2> SUFFICES ASSUME IInv PROVE TypeOK
    OBVIOUS
  <2>1. D \in Nat /\ F \in Nat /\ di \in 0..D /\ fi \in 0..F
    BY BlockAssumption DEF IInv, Shape, MAX_DATA_OR_FEC_PACKETS_PER_BLOCK
  <2>2. datas_missing \in 0..D
    BY <2>1, CountBound DEF IInv, Counts
  <2>3. good_fecs \in 0..F
    BY <2>1, CountBound DEF IInv, Counts
  <2> QED
    BY <2>2, <2>3 DEF IInv, Shape, Counts, TypeOK
<1> QED
  BY <1>1, Invariant, PTL

\* The assertion at the end of reduce (fec.c:834) never fails on the list that
\* process_payload hands to fec_decode.
THEOREM ReduceAssertionHolds == Spec => []ReduceAssertion
<1>1. IInv => ReduceAssertion
  <2> SUFFICES ASSUME IInv, pc = "done" PROVE erasedIdx = Len(erased_blocks)
    BY DEF ReduceAssertion
  <2> DEFINE n == Len(erased_blocks)
  <2>1. /\ D \in Nat /\ Shape /\ col = D /\ erasedIdx \in Nat /\ n \in Nat /\ erasedIdx <= n
    BY BlockAssumption DEF IInv, Shape, Walk, MAX_DATA_OR_FEC_PACKETS_PER_BLOCK
  <2>2. CASE n = 0
    BY <2>1, <2>2
  <2>3. CASE n > 0
    <3>1. n \in 1..n
      BY <2>1, <2>3
    <3>2. erased_blocks[n] < col
      BY <2>1, <3>1, ListNumbers DEF DataNos
    <3>3. n <= erasedIdx
      BY <3>1, <3>2 DEF IInv, Walk
    <3> QED
      BY <2>1, <3>3
  <2> QED
    BY <2>1, <2>2, <2>3
<1> QED
  BY <1>1, Invariant, PTL

\* When the loop ends for want of FECs, none that is good is left.
LEMMA EndOfFecs ==
  ASSUME IInv, fi = F
  PROVE  good_fecs = 0
<1>1. F \in Int /\ F - 1 \in Int /\ F > F - 1
  BY BlockAssumption DEF MAX_DATA_OR_FEC_PACKETS_PER_BLOCK
<1>2. Cardinality(Ahead(GoodFecs(fec), F, F - 1)) = 0
  BY <1>1, CountAhead
<1> QED
  BY <1>2 DEF IInv, Counts

\* A corrupt DATA is never repaired at the expense of a missing one
\* (process_payload's "less good fecs than missing datas" test).
THEOREM PriorityHolds == Spec => []MissingHasPriority
<1>1. IInv => MissingHasPriority
  <2> SUFFICES ASSUME IInv, pc # "select",
                      NEW c \in Erased, data[c] = "corrupt",
                      NEW d \in DataNos, data[d] = "missing"
               PROVE  d \in Erased
    BY DEF MissingHasPriority
  <2>1. /\ D \in Nat /\ di \in Int /\ D - 1 \in Int /\ d \in 0..(D - 1) /\ d \in MissingData
    BY BlockAssumption DEF IInv, Shape, DataNos, MissingData, MAX_DATA_OR_FEC_PACKETS_PER_BLOCK
  <2>2. good_fecs >= datas_missing
    BY DEF IInv, Priority, Erased
  <2>3. di = D \/ fi = F
    BY DEF IInv, Walk
  <2>4. d < di
    <3>1. CASE di = D
      BY <2>1, <3>1
    <3>2. CASE fi = F
      <4>1. Cardinality(Ahead(MissingData, di, D - 1)) \in Nat
        BY <2>1, CountAhead
      <4>2. Cardinality(Ahead(MissingData, di, D - 1)) = 0
        BY <2>2, <3>2, <4>1, EndOfFecs DEF IInv, Counts
      <4>3. ~(d \in di..(D - 1))
        BY <2>1, <4>2, NothingAhead
      <4> QED
        BY <2>1, <4>3
    <3> QED
      BY <2>3, <3>1, <3>2
  <2> QED
    BY <2>1, <2>4 DEF IInv, Priority, Erased
<1> QED
  BY <1>1, Invariant, PTL

\* The numbers of a list without repetition are as many as its length.
LEMMA ListCardinality ==
  ASSUME NEW S, NEW s \in Seq(S),
         \A j, k \in 1..Len(s) : j # k => s[j] # s[k]
  PROVE  Cardinality({s[k] : k \in 1..Len(s)}) = Len(s)
<1> DEFINE T == {s[k] : k \in 1..Len(s)}
           f == [k \in 1..Len(s) |-> s[k]]
<1>1. Len(s) \in Nat /\ Len(s) \in Int /\ 1 \in Int
  OBVIOUS
<1>2. IsFiniteSet(1..Len(s)) /\ Cardinality(1..Len(s)) = Len(s)
  <2>1. /\ IsFiniteSet(1..Len(s))
        /\ Cardinality(1..Len(s)) = IF 1 > Len(s) THEN 0 ELSE Len(s) - 1 + 1
    BY <1>1, FS_Interval
  <2> QED
    BY <1>1, <2>1
<1>3. f \in Bijection(1..Len(s), T)
  <2>1. f \in [1..Len(s) -> T]
    OBVIOUS
  <2>2. f \in Injection(1..Len(s), T)
    BY <2>1 DEF Injection, IsInjective
  <2>3. f \in Surjection(1..Len(s), T)
    BY <2>1 DEF Surjection
  <2> QED
    BY <2>2, <2>3 DEF Bijection
<1>4. ExistsBijection(1..Len(s), T)
  BY <1>3 DEF ExistsBijection
<1>5. Cardinality(T) = Cardinality(1..Len(s))
  BY <1>2, <1>4, FS_Bijection
<1> QED
  BY <1>2, <1>5

\* A block without corrupt FECs that process_payload does not report as failed
\* is handed to fec_decode with a good FEC for every damaged DATA.
THEOREM RepairHolds == Spec => []RepairComplete
<1>1. IInv => RepairComplete
  <2> SUFFICES ASSUME IInv, pc # "select",
                      \A f \in FecNos : fec[f] # "corrupt",
                      ~ReconstructionFailed(data, fec)
               PROVE  /\ Erased = Bad(data)
                      /\ UsedFecs \subseteq GoodFecs(fec)
                      /\ Cardinality(UsedFecs) = Cardinality(Erased)
    BY DEF RepairComplete
  <2>1. /\ D \in Nat /\ di \in Int /\ D - 1 \in Int /\ DataNos = 0..(D - 1)
        /\ Shape /\ fec \in [FecNos -> Status] /\ Len(fec_block_nos) = Len(erased_blocks)
    BY BlockAssumption DEF IInv, Shape, DataNos, MAX_DATA_OR_FEC_PACKETS_PER_BLOCK
  <2>2. /\ Cardinality(Ahead(Bad(data), di, D - 1)) <= good_fecs
        /\ \A d \in Bad(data) : d < di => d \in Erased
    BY DEF IInv, Repair, Erased
  <2>3. \A d \in Bad(data) : d < di
    <3>1. CASE di = D
      BY <2>1, <3>1 DEF Bad
    <3>2. CASE fi = F
      <4>1. Cardinality(Ahead(Bad(data), di, D - 1)) \in Nat
        BY <2>1, CountAhead
      <4>2. Cardinality(Ahead(Bad(data), di, D - 1)) = 0
        BY <2>2, <3>2, <4>1, EndOfFecs
      <4>3. \A d \in Bad(data) : ~(d \in di..(D - 1))
        BY <2>1, <4>2, NothingAhead
      <4> QED
        BY <2>1, <4>3 DEF Bad
    <3> QED
      BY <3>1, <3>2 DEF IInv, Walk
  <2>4. Erased = Bad(data)
    <3>1. Bad(data) \subseteq Erased
      BY <2>2, <2>3
    <3>2. Erased \subseteq Bad(data)
      BY <2>1, ListNumbers DEF IInv, Lists, Erased, Bad
    <3> QED
      BY <3>1, <3>2
  <2>5. UsedFecs \subseteq GoodFecs(fec)
    BY <2>1, ListNumbers DEF IInv, Lists, UsedFecs, GoodFecs, Status
  <2>6. Cardinality(Erased) = Len(erased_blocks) /\ Cardinality(UsedFecs) = Len(fec_block_nos)
    <3>1. \A j, k \in 1..Len(erased_blocks) :
            j # k => erased_blocks[j] # erased_blocks[k] /\ fec_block_nos[j] # fec_block_nos[k]
      <4> SUFFICES ASSUME NEW j \in 1..Len(erased_blocks), NEW k \in 1..Len(erased_blocks), j # k
                   PROVE  erased_blocks[j] # erased_blocks[k] /\ fec_block_nos[j] # fec_block_nos[k]
        OBVIOUS
      <4>1. j < k \/ k < j
        OBVIOUS
      <4> QED
        BY <2>1, <4>1, ListNumbers DEF IInv, Lists
    <3>2. erased_blocks \in Seq(DataNos) /\ fec_block_nos \in Seq(FecNos)
      BY <2>1 DEF Shape
    <3>3. Cardinality(Erased) = Len(erased_blocks)
      BY <3>1, <3>2, ListCardinality DEF Erased
    <3>4. Cardinality(UsedFecs) = Len(fec_block_nos)
      BY <2>1, <3>1, <3>2, ListCardinality DEF UsedFecs
    <3> QED
      BY <3>3, <3>4
  <2> QED
    BY <2>1, <2>4, <2>5, <2>6
<1> QED
  BY <1>1, Invariant, PTL

-----------------------------------------------------------------------------
(***************************************************************************)
(* The loop computes the recursive function: the pairs it has made so far, *)
(* and those the function has from the loop's indices on, are all of them. *)
(***************************************************************************)
PairsMade == {<<erased_blocks[k], fec_block_nos[k]>> : k \in 1..Len(erased_blocks)}

Matches == Substitutions(data, fec) = PairsMade \cup Selection(data, fec)[<<di, fi>>]

LEMMA InitMatches == Init => Matches
<1> SUFFICES ASSUME Init PROVE Matches
  OBVIOUS
<1>1. Len(erased_blocks) = 0 /\ di = 0 /\ fi = 0
  BY DEF Init
<1>2. PairsMade = {}
  BY <1>1 DEF PairsMade
<1>3. QED
  BY <1>1, <1>2 DEF Matches, Substitutions

\* The loop's tests are those of the recursive function.
LEMMA SameTests ==
  ASSUME IInv, InLoop
  PROVE  /\ DataFine \/ Hopeless <=> DataPassed(data, fec, di, fi)
         /\ FecMissing \/ FecRefused <=> FecPassed(data, fec, di, fi)
<1>1. MissingData = MissingIn(data)
  BY DEF MissingData, MissingIn
<1>2. datas_missing = MissingFrom(data, di) /\ good_fecs = GoodFrom(fec, fi)
  BY <1>1, CountersAhead DEF IInv, Shape, Counts
<1>3. QED
  BY <1>2 DEF DataFine, Hopeless, FecMissing, FecRefused, DataPassed, FecPassed

LEMMA StepMatches == IInv /\ Matches /\ [Next]_vars => Matches'
<1> SUFFICES ASSUME IInv, Matches, [Next]_vars PROVE Matches'
  OBVIOUS
<1>1. di \in 0..D /\ fi \in 0..F /\ (InLoop => di # D /\ fi # F)
  BY Bounds DEF IInv, Shape, InLoop
<1>2. InLoop =>
        Selection(data, fec)[<<di, fi>>] =
          IF DataPassed(data, fec, di, fi) THEN Selection(data, fec)[<<di + 1, fi>>]
          ELSE IF FecPassed(data, fec, di, fi) THEN Selection(data, fec)[<<di, fi + 1>>]
          ELSE {<<di, fi>>} \cup Selection(data, fec)[<<di + 1, fi + 1>>]
  BY <1>1, SelectionDef
<1>3. CASE SkipData
  BY <1>2, <1>3, SameTests DEF SkipData, Matches, PairsMade, result
<1>4. CASE SkipFec
  BY <1>2, <1>4, SameTests DEF SkipFec, Matches, PairsMade, result
<1>5. CASE Substitute
  <2> DEFINE n == Len(erased_blocks)
  <2>1. /\ n \in Nat /\ Len(fec_block_nos) = n
        /\ erased_blocks \in Seq(DataNos) /\ fec_block_nos \in Seq(FecNos)
        /\ di \in DataNos /\ fi \in FecNos
    BY <1>1, <1>5, Bounds DEF IInv, Shape, Substitute, InLoop, DataNos, FecNos
  <2>2. /\ data' = data /\ fec' = fec /\ di' = di + 1 /\ fi' = fi + 1
        /\ erased_blocks' = Append(erased_blocks, di) /\ fec_block_nos' = Append(fec_block_nos, fi)
        /\ InLoop /\ ~DataPassed(data, fec, di, fi) /\ ~FecPassed(data, fec, di, fi)
    BY <1>5, SameTests DEF Substitute
  <2>3. /\ Len(erased_blocks') = n + 1
        /\ erased_blocks'[n + 1] = di /\ fec_block_nos'[n + 1] = fi
        /\ \A k \in 1..n : erased_blocks'[k] = erased_blocks[k] /\ fec_block_nos'[k] = fec_block_nos[k]
    BY <2>1, <2>2
  <2>4. 1..(n + 1) = (1..n) \cup {n + 1}
    BY <2>1
  <2>5. PairsMade' = PairsMade \cup {<<di, fi>>}
    BY <2>3, <2>4 DEF PairsMade
  <2>6. QED
    BY <1>2, <2>2, <2>5 DEF Matches
<1>6. CASE LoopEnds \/ ReduceColumn \/ ReduceEnds \/ UNCHANGED vars
  BY <1>6 DEF LoopEnds, ReduceColumn, ReduceEnds, vars, result, Matches, PairsMade
<1>7. QED
  BY <1>3, <1>4, <1>5, <1>6 DEF Next

\* The loop of process_payload, which keeps its counters from one iteration to
\* the next, pairs exactly what the recursive function pairs.
THEOREM SelectionRight == Spec => []SelectionMatches
<1>1. Init => Matches
  BY InitMatches
<1>2. IInv /\ Matches /\ [Next]_vars => Matches'
  BY StepMatches
<1>3. IInv /\ Matches => SelectionMatches
  <2> SUFFICES ASSUME IInv, Matches, pc # "select"
               PROVE  Substitutions(data, fec) = PairsMade
    BY DEF SelectionMatches, PairsMade
  <2>1. di \in 0..D /\ fi \in 0..F /\ (di = D \/ fi = F)
    BY DEF IInv, Shape, Walk
  <2>2. Selection(data, fec)[<<di, fi>>] = {}
    BY <2>1, SelectionDef
  <2>3. QED
    BY <2>2 DEF Matches
<1>4. QED
  BY <1>1, <1>2, <1>3, Invariant, PTL DEF Spec
=============================================================================
