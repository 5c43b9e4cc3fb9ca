------------------------------ MODULE FecBlock ------------------------------
(***************************************************************************)
(* A block of the wifibroadcast link: D DATA packets and F FEC packets,    *)
(* interleaved on the air, and which FEC packet rx.c substitutes for which *)
(* DATA packet when the block is decoded.                                  *)
(*                                                                         *)
(* A packet is seen here only through the two flags of packet_buffer_t     *)
(* (lib.h): it is "missing" (valid = 0), "corrupt" (valid, crc_correct =   *)
(* 0) or "good".                                                           *)
(***************************************************************************)
EXTENDS Integers, FiniteSets

CONSTANTS
  D,   \* param_data_packets_per_block
  F    \* param_fec_packets_per_block

\* The size of the arrays of process_payload (rx.c) that are indexed by a
\* DATA or a FEC number.
MAX_DATA_OR_FEC_PACKETS_PER_BLOCK == 32

ASSUME BlockAssumption ==
  /\ D \in 1..MAX_DATA_OR_FEC_PACKETS_PER_BLOCK
  /\ F \in 0..MAX_DATA_OR_FEC_PACKETS_PER_BLOCK

DataNos == 0..(D - 1)
FecNos  == 0..(F - 1)
Slots   == 0..(D + F - 1)

Status == {"missing", "corrupt", "good"}

(***************************************************************************)
(* The position of DATA d and of FEC f among the D + F packets of a block: *)
(* one DATA, one FEC, one DATA, ... until one of the two kinds runs out.   *)
(***************************************************************************)
Lesser(a, b) == IF a < b THEN a ELSE b
DataSlot(d) == d + Lesser(d, F)
FecSlot(f)  == f + Lesser(f + 1, D)

(***************************************************************************)
(* What the loop's counters datas_missing and good_fecs stand for when it  *)
(* has got as far as DATA d and FEC f.                                     *)
(***************************************************************************)
MissingFrom(data, d) == Cardinality({k \in d..(D - 1) : data[k] = "missing"})
GoodFrom(fec, f)     == Cardinality({k \in f..(F - 1) : fec[k] = "good"})

Bad(data)       == {k \in DataNos : data[k] # "good"}
GoodFecs(fec)   == {k \in FecNos : fec[k] = "good"}

\* Plausible slip: corrupt DATA not counted.
FailedIfMissing(data, fec) == MissingFrom(data, 0) > Cardinality(GoodFecs(fec))

\* reconstruction_failed: more damaged DATA than intact FEC in the block.
ReconstructionFailed(data, fec) == Cardinality(Bad(data)) > Cardinality(GoodFecs(fec))

\* The loop passes DATA d at once if it is good, or corrupt and the good FECs
\* left are all needed for missing DATA; FEC f likewise.
DataPassed(data, fec, d, f) ==
  data[d] = "good" \/ (data[d] = "corrupt" /\ GoodFrom(fec, f) <= MissingFrom(data, d))
FecPassed(data, fec, d, f) ==
  fec[f] = "missing" \/ (fec[f] = "corrupt" /\ MissingFrom(data, d) > GoodFrom(fec, f))

(***************************************************************************)
(* The pairs <<DATA number, FEC number>> the loop of process_payload ends  *)
(* up with, as a recursive function of the two indices it walks.           *)
(***************************************************************************)
Selection(data, fec) ==
  LET sub[p \in (0..D) \X (0..F)] ==
        LET d == p[1]
            f == p[2]
        IN IF d = D \/ f = F THEN {}
           ELSE IF DataPassed(data, fec, d, f) THEN sub[<<d + 1, f>>]
           ELSE IF FecPassed(data, fec, d, f) THEN sub[<<d, f + 1>>]
           ELSE {<<d, f>>} \cup sub[<<d + 1, f + 1>>]
  IN sub

Substitutions(data, fec) == Selection(data, fec)[<<0, 0>>]
=============================================================================
