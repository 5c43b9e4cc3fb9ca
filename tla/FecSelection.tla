---------------------------- MODULE FecSelection ----------------------------
(***************************************************************************)
(* The loop of process_payload (rx.c) that pairs damaged DATA packets with *)
(* FEC packets, one iteration per step, followed by the walk of reduce     *)
(* (fec.c) over the list of erased DATA the loop has built.                *)
(*                                                                         *)
(* The block to decode is arbitrary: every combination of missing, corrupt *)
(* and good packets is an initial state.                                   *)
(***************************************************************************)
EXTENDS FecBlock, Sequences

VARIABLES
  data,            \* data_pkgs[], each packet by its status
  fec,             \* fec_pkgs[], likewise
  pc,              \* "select" in process_payload's loop, "reduce" in fec.c, "done"
  di, fi,          \* the loop's indices
  datas_missing,   \* missing DATA not yet replaced
  datas_corrupt,   \* corrupt DATA not yet replaced
  good_fecs,       \* good FEC not yet used
  erased_blocks,   \* DATA numbers handed to fec_decode (nr_fec_blocks of them)
  fec_block_nos,   \* FEC numbers handed to fec_decode
  col, erasedIdx   \* reduce's indices

counters == <<datas_missing, datas_corrupt, good_fecs>>
result   == <<erased_blocks, fec_block_nos>>
walk     == <<col, erasedIdx>>
vars     == <<data, fec, pc, di, fi, counters, result, walk>>

Init ==
  /\ data \in [DataNos -> Status]
  /\ fec \in [FecNos -> Status]
  /\ pc = "select"
  /\ di = 0 /\ fi = 0
  /\ datas_missing = MissingFrom(data, 0)
  /\ datas_corrupt = Cardinality({k \in DataNos : data[k] = "corrupt"})
  /\ good_fecs = GoodFrom(fec, 0)
  /\ erased_blocks = <<>> /\ fec_block_nos = <<>>
  /\ col = 0 /\ erasedIdx = 0

-----------------------------------------------------------------------------
(***************************************************************************)
(* The tests of the loop, in the order the code makes them.                *)
(***************************************************************************)
InLoop == pc = "select" /\ di < D /\ fi < F

DataFine == data[di] = "good"

\* Plausible slips: the comparison made strict; all the damaged DATA counted.
HopelessIfFewer == data[di] = "corrupt" /\ good_fecs < datas_missing
HopelessIfDamaged == data[di] = "corrupt" /\ good_fecs <= datas_missing + datas_corrupt

Hopeless == data[di] = "corrupt" /\ good_fecs <= datas_missing

FecMissing == fec[fi] = "missing"

\* Plausible slip: the comparison made weak.
FecRefusedWhenEqual == fec[fi] = "corrupt" /\ datas_missing >= good_fecs

FecRefused == fec[fi] = "corrupt" /\ datas_missing > good_fecs

SkipData ==
  /\ InLoop
  /\ (DataFine \/ Hopeless)
  /\ di' = di + 1
  /\ UNCHANGED <<data, fec, pc, fi, counters, result, walk>>

\* Plausible slip: continue without fi++.
SkipFecForgetsIncrement ==
  /\ InLoop
  /\ ~DataFine /\ ~Hopeless
  /\ (FecMissing \/ FecRefused)
  /\ UNCHANGED vars

SkipFec ==
  /\ InLoop
  /\ ~DataFine /\ ~Hopeless
  /\ (FecMissing \/ FecRefused)
  /\ fi' = fi + 1
  /\ UNCHANGED <<data, fec, pc, di, counters, result, walk>>

\* Plausible slip: every DATA replaced counted as a missing one.
DatasMissingLeftIfAny == datas_missing - 1

DatasMissingLeft == IF data[di] = "missing" THEN datas_missing - 1 ELSE datas_missing

GoodFecsLeft == IF fec[fi] = "good" THEN good_fecs - 1 ELSE good_fecs

Substitute ==
  /\ InLoop
  /\ ~DataFine /\ ~Hopeless
  /\ ~FecMissing /\ ~FecRefused
  /\ datas_missing' = DatasMissingLeft
  /\ datas_corrupt' = IF data[di] = "corrupt" THEN datas_corrupt - 1 ELSE datas_corrupt
  /\ good_fecs' = GoodFecsLeft
  /\ erased_blocks' = Append(erased_blocks, di)
  /\ fec_block_nos' = Append(fec_block_nos, fi)
  /\ di' = di + 1 /\ fi' = fi + 1
  /\ UNCHANGED <<data, fec, pc, walk>>

LoopEnds ==
  /\ pc = "select" /\ ~(di < D /\ fi < F)
  /\ pc' = "reduce"
  /\ UNCHANGED <<data, fec, di, fi, counters, result, walk>>

-----------------------------------------------------------------------------
(***************************************************************************)
(* reduce: a column is either the next erased one, or known DATA that is   *)
(* subtracted from every FEC block.                                        *)
(***************************************************************************)
\* Plausible slip: the numbers in the list taken to start at one.
NextErasedOffByOne == erasedIdx < Len(erased_blocks) /\ erased_blocks[erasedIdx + 1] = col + 1

NextErased == erasedIdx < Len(erased_blocks) /\ erased_blocks[erasedIdx + 1] = col

ReduceColumn ==
  /\ pc = "reduce" /\ col < D
  /\ erasedIdx' = IF NextErased THEN erasedIdx + 1 ELSE erasedIdx
  /\ col' = col + 1
  /\ UNCHANGED <<data, fec, pc, di, fi, counters, result>>

ReduceEnds ==
  /\ pc = "reduce" /\ col = D
  /\ pc' = "done"
  /\ UNCHANGED <<data, fec, di, fi, counters, result, walk>>

Next == SkipData \/ SkipFec \/ Substitute \/ LoopEnds \/ ReduceColumn \/ ReduceEnds

Spec == Init /\ [][Next]_vars

\* One thread runs the decoder and nothing in it blocks.
FairSpec == Spec /\ WF_vars(Next)

-----------------------------------------------------------------------------
Erased   == {erased_blocks[k] : k \in 1..Len(erased_blocks)}
UsedFecs == {fec_block_nos[k] : k \in 1..Len(fec_block_nos)}

TypeOK ==
  /\ data \in [DataNos -> Status]
  /\ fec \in [FecNos -> Status]
  /\ pc \in {"select", "reduce", "done"}
  /\ di \in 0..D /\ fi \in 0..F
  /\ datas_missing \in 0..D /\ datas_corrupt \in 0..D /\ good_fecs \in 0..F
  /\ erased_blocks \in Seq(DataNos) /\ fec_block_nos \in Seq(FecNos)
  /\ col \in 0..D /\ erasedIdx \in 0..Len(erased_blocks)

\* The assertion that ends reduce (fec.c), "nr_fec_blocks == erasedIdx": the
\* walk has met every erased DATA, so none of them was subtracted as known.
ReduceAssertion == pc = "done" => erasedIdx = Len(erased_blocks)

\* A block with no corrupt FEC that the code does not report as failed is
\* repaired entirely: fec_decode is handed every damaged DATA, each with a
\* good FEC of its own.
RepairComplete ==
  /\ pc # "select"
  /\ \A f \in FecNos : fec[f] # "corrupt"
  /\ ~ReconstructionFailed(data, fec)
  => /\ Erased = Bad(data)
     /\ UsedFecs \subseteq GoodFecs(fec)
     /\ Cardinality(UsedFecs) = Cardinality(Erased)

\* A corrupt DATA, of which something can still be shown, never gets a FEC at
\* the expense of a missing one: if any corrupt DATA is replaced, no missing
\* DATA is left without a substitute, corrupt FECs or not.
MissingHasPriority ==
  pc # "select" /\ (\E d \in Erased : data[d] = "corrupt")
    => \A d \in DataNos : data[d] = "missing" => d \in Erased

\* The loop does its bookkeeping right: at its end the pairs handed to
\* fec_decode are those of the recursive function, which counts what is left
\* afresh at each index.
SelectionMatches ==
  pc # "select" =>
    Substitutions(data, fec) = {<<erased_blocks[k], fec_block_nos[k]>> : k \in 1..Len(erased_blocks)}

\* The loop and the walk both end: no iteration continues without moving on.
Terminates == <>(pc = "done")

-----------------------------------------------------------------------------
\* The comment "at this point, data is invalid and fec is good -> replace data
\* with fec" (rx.c): what is handed to fec_decode is never a corrupt FEC.
OnlyGoodFecs == UsedFecs \subseteq GoodFecs(fec)
=============================================================================
