------------------------------ MODULE FecCode ------------------------------
(***************************************************************************)
(* The erasure code of fec.c on one byte of every packet: how fec_decode   *)
(* rebuilds the erased DATA of a block from as many FEC packets, in the    *)
(* steps reduce, resolve (the matrix, invert_mat, the multiplication), and *)
(* what invert_mat does of any matrix it may be given.                     *)
(*                                                                         *)
(* The packets are as long as one byte: the code treats every offset alike *)
(* and apart. The transmitter's fec_encode runs before the first state.    *)
(***************************************************************************)
EXTENDS GaloisField, FecBlock

CONSTANTS
  DataValues,  \* the bytes a DATA packet is made of
  Matrices     \* the matrices invert_mat is tried on by itself

ASSUME FecCodeAssumption ==
  /\ D <= 128 /\ F <= 128        \* the asserts of fec_encode
  /\ DataValues \subseteq gf
  /\ \A m \in Matrices : \E k \in 1..GF_SIZE : m \in [0..(k - 1) -> [0..(k - 1) -> gf]]

VARIABLES
  stage,          \* how far fec_decode has got
  sent,           \* the DATA the transmitter sent; never read by the code
  data,           \* data_blocks
  fec,            \* fec_blocks: the FEC packets chosen, by position in the list
  fec_block_nos,  \* their numbers
  erased_blocks,  \* the DATA numbers they stand for, ascending
  matrix,         \* src of invert_mat, a function of row and column
  original,       \* the matrix invert_mat was called on; never read by the code
  ipiv,           \* how often each column has been a pivot
  col,            \* the loop counter of invert_mat
  indxr, indxc    \* the pivot's row and column at each value of col

given    == <<sent, erased_blocks, fec_block_nos>>
packets  == <<data, fec>>
pivoting == <<ipiv, col, indxr, indxc>>
vars     == <<stage, given, packets, matrix, original, pivoting>>

Indices == DOMAIN matrix         \* 0..(nr_fec_blocks - 1), or 0..(k - 1)
Last    == Cardinality(Indices) - 1

-----------------------------------------------------------------------------
\* The sum of f(i) for i in S, in a field where addition is ^.
Sum(S, f(_)) == {b \in 0..(GF_BITS - 1) : Cardinality({i \in S : b \in f(i)}) % 2 = 1}

\* addmul, of one byte.
addmul(dst, c, x) == Xor(dst, gf_mul(c, x))

\* What DATA d is multiplied by in FEC f, as each of the three functions has it.
EncodeCoefficient(f, d) == inverse[Xor(Byte(f), Byte(128 + d))]
ReduceCoefficient(f, d) == inverse[Xor(Xor(Byte(f), Byte(d)), Byte(128))]

\* Plausible slip: the FEC row not moved past the DATA columns.
UnshiftedCoefficient(f, d) == inverse[Xor(Byte(f), Byte(d))]
ResolveCoefficient(f, d)   == inverse[Xor(Byte(128 + f), Byte(d))]

\* fec_encode, one of its fec_blocks.
Encoded(block, f) == Sum(DataNos, LAMBDA d : gf_mul(EncodeCoefficient(f, d), block[d]))

\* What is left in the buffer of a packet that was not received.
Stale == Byte(165)

Ascending(S) ==
  [i \in 0..(Cardinality(S) - 1) |-> CHOOSE x \in S : Cardinality({y \in S : y < x}) = i]

NoPivots(indices) ==
  /\ ipiv = [i \in indices |-> 0]
  /\ indxr = [i \in indices |-> 0] /\ indxc = [i \in indices |-> 0]
  /\ col = 0

\* A call of fec_decode as process_payload makes it: as many FEC as erased DATA.
DecodeCall ==
  /\ stage = "received"
  /\ sent \in [DataNos -> DataValues]
  /\ \E E \in SUBSET DataNos, C \in SUBSET FecNos :
       /\ E # {} /\ Cardinality(E) = Cardinality(C)
       /\ erased_blocks = Ascending(E) /\ fec_block_nos = Ascending(C)
       /\ data = [d \in DataNos |-> IF d \in E THEN Stale ELSE sent[d]]
  /\ fec = [j \in DOMAIN fec_block_nos |-> Encoded(sent, fec_block_nos[j])]
  /\ matrix = [i \in DOMAIN erased_blocks |-> [j \in DOMAIN erased_blocks |-> Zero]]
  /\ original = matrix
  /\ NoPivots(DOMAIN erased_blocks)

\* A call of invert_mat alone.
InvertCall ==
  /\ stage = "inverting"
  /\ matrix \in Matrices /\ original = matrix
  /\ NoPivots(DOMAIN matrix)
  /\ sent = <<>> /\ data = <<>> /\ fec = <<>>
  /\ erased_blocks = <<>> /\ fec_block_nos = <<>>

Init == DecodeCall \/ InvertCall

Decoding == erased_blocks # <<>>

-----------------------------------------------------------------------------
(***************************************************************************)
(* reduce: subtract from the FEC packets what the intact DATA put into     *)
(* them. The list erased_blocks is walked along with the columns.          *)
(***************************************************************************)
erasedIdx ==
  LET idx[c \in 0..D] ==
        IF c = 0 THEN 0
        ELSE IF idx[c - 1] <= Last /\ erased_blocks[idx[c - 1]] = c - 1
             THEN idx[c - 1] + 1
             ELSE idx[c - 1]
  IN idx

\* Plausible slip: the walk stops at the first erased DATA.
KnownButFirst == DataNos \ {erased_blocks[0]}

Known == {c \in DataNos : erasedIdx[c + 1] = erasedIdx[c]}

Reduce ==
  /\ stage = "received"
  /\ fec' = [j \in Indices |->
       Xor(fec[j], Sum(Known,
         LAMBDA c : gf_mul(ReduceCoefficient(fec_block_nos[j], c), data[c])))]
  /\ stage' = IF erasedIdx[D] = Last + 1 THEN "reduced" ELSE "aborted"
  /\ UNCHANGED <<given, data, matrix, original, pivoting>>

(***************************************************************************)
(* resolve, before the call of invert_mat: the coefficients of the erased  *)
(* DATA in the FEC packets at hand.                                        *)
(***************************************************************************)
BuildMatrix ==
  /\ stage = "reduced"
  /\ matrix' = [row \in Indices |->
       [c \in Indices |-> ResolveCoefficient(fec_block_nos[row], erased_blocks[c])]]
  /\ original' = matrix'
  /\ stage' = "inverting"
  /\ UNCHANGED <<given, packets, pivoting>>

-----------------------------------------------------------------------------
(***************************************************************************)
(* invert_mat: Gauss-Jordan in place, one column at a time. A pivot is     *)
(* looked for on the diagonal, then row by row where neither the row nor   *)
(* the column has had one. (The exits for ipiv > 1 and for a zero pivot    *)
(* cannot be taken: TypeOK, and the choice of the pivot.)                  *)
(***************************************************************************)
\* Plausible slip: the column not asked whether it was a pivot before.
DiagonalEvenIfUsed(c) == matrix[c][c] # Zero
DiagonalServes(c)     == ipiv[c] # 1 /\ matrix[c][c] # Zero

\* Plausible slip: no search outside the diagonal.
DiagonalOnly == {p \in Indices \X Indices : p[1] = p[2] /\ DiagonalServes(p[1])}

Candidates ==
  {p \in Indices \X Indices : ipiv[p[1]] # 1 /\ ipiv[p[2]] = 0 /\ matrix[p[1]][p[2]] # Zero}

Pivot ==
  IF DiagonalServes(col) THEN <<col, col>>
  ELSE CHOOSE p \in Candidates :
         \A q \in Candidates : p[1] < q[1] \/ (p[1] = q[1] /\ p[2] <= q[2])

\* The pivot row is divided by the pivot, whose own place takes the inverse.
Divided(row, icol) ==
  IF row[icol] = One THEN row
  ELSE [ix \in Indices |->
          gf_mul(inverse[row[icol]], IF ix = icol THEN One ELSE row[ix])]

UnitRow(icol) == [ix \in Indices |-> IF ix = icol THEN One ELSE Zero]

\* Another row, less so much of the pivot row that its pivot column is cleared.
Subtracted(row, pivot_row, icol) ==
  [ix \in Indices |->
     addmul(IF ix = icol THEN Zero ELSE row[ix], row[icol], pivot_row[ix])]

EliminateColumn ==
  /\ stage = "inverting"
  /\ DiagonalServes(col) \/ Candidates # {}
  /\ LET irow      == Pivot[1]
         icol      == Pivot[2]
         swapped   == [matrix EXCEPT ![irow] = matrix[icol], ![icol] = matrix[irow]]
         pivot_row == Divided(swapped[icol], icol)
     IN /\ ipiv'  = [ipiv EXCEPT ![icol] = @ + 1]
        /\ indxr' = [indxr EXCEPT ![col] = irow]
        /\ indxc' = [indxc EXCEPT ![col] = icol]
        /\ matrix' = [r \in Indices |->
             IF r = icol THEN pivot_row
             ELSE IF pivot_row = UnitRow(icol) THEN swapped[r]
             ELSE Subtracted(swapped[r], pivot_row, icol)]
  /\ IF col = Last
     THEN stage' = "unscrambling" /\ UNCHANGED col
     ELSE UNCHANGED stage /\ col' = col + 1
  /\ UNCHANGED <<given, packets, original>>

\* "pivot not found": resolve's assert(0) aborts on it.
PivotMissing ==
  /\ stage = "inverting"
  /\ ~DiagonalServes(col) /\ Candidates = {}
  /\ stage' = "singular"
  /\ UNCHANGED <<given, packets, matrix, original, pivoting>>

ColumnsSwapped(a, b) ==
  [r \in Indices |-> [matrix[r] EXCEPT ![a] = matrix[r][b], ![b] = matrix[r][a]]]

\* Plausible slip: put back in the order of the swaps.
UndoneForwards == Last - col
Undone         == col

\* The columns are put back in the reverse of the order the rows were swapped.
SwapBack ==
  /\ stage = "unscrambling"
  /\ matrix' = ColumnsSwapped(indxr[Undone], indxc[Undone])
  /\ IF col = 0
     THEN stage' = "inverted" /\ UNCHANGED col
     ELSE UNCHANGED stage /\ col' = col - 1
  /\ UNCHANGED <<given, packets, original, ipiv, indxr, indxc>>

(***************************************************************************)
(* resolve, after it: the erased DATA are the inverse times the FEC.       *)
(***************************************************************************)
Multiply ==
  /\ stage = "inverted" /\ Decoding
  /\ data' = [d \in DataNos |->
       IF \E row \in Indices : erased_blocks[row] = d
       THEN LET row == CHOOSE r \in Indices : erased_blocks[r] = d
            IN Sum(Indices, LAMBDA c : gf_mul(matrix[row][c], fec[c]))
       ELSE data[d]]
  /\ stage' = "decoded"
  /\ UNCHANGED <<given, fec, matrix, original, pivoting>>

Next ==
  \/ Reduce
  \/ BuildMatrix
  \/ EliminateColumn
  \/ PivotMissing
  \/ SwapBack
  \/ Multiply

Spec == Init /\ [][Next]_vars

-----------------------------------------------------------------------------
(***************************************************************************)
(* Types. That ipiv stays below 2 is what makes the exit "singular matrix" *)
(* of the pivot search dead code; "aborted" (reduce's assert) is no stage. *)
(***************************************************************************)
TypeOK ==
  /\ stage \in {"received", "reduced", "inverting", "unscrambling", "inverted",
                "singular", "decoded"}
  /\ matrix \in [Indices -> [Indices -> gf]]
  /\ ipiv \in [Indices -> 0..1]
  /\ indxr \in [Indices -> Indices] /\ indxc \in [Indices -> Indices]
  /\ col \in Indices
  /\ Decoding => data \in [DataNos -> gf] /\ fec \in [Indices -> gf]

(***************************************************************************)
(* fec_decode gives back every DATA packet of the block as it was sent,    *)
(* whichever were erased and whichever FEC packets replace them; and every *)
(* matrix resolve builds on the way can be inverted: the assert(0) after   *)
(* "Pivot not found" is never reached.                                     *)
(***************************************************************************)
DecodeRestores ==
  /\ stage = "decoded" => data = sent
  /\ Decoding => stage # "singular"

\* Reference: the product of two square matrices over the field.
MatrixProduct(a, b) ==
  [r \in DOMAIN a |-> [c \in DOMAIN a |-> Sum(DOMAIN a, LAMBDA i : Product(a[r][i], b[i][c]))]]

\* Reference: the determinant; signs do not matter where x + x = 0.
Determinant(m) ==
  LET n == Cardinality(DOMAIN m)
      bijections == {p \in [DOMAIN m -> DOMAIN m] : \A i, j \in DOMAIN m : p[i] = p[j] => i = j}
      term(p) == LET prod[i \in 0..n] == IF i = n THEN One ELSE Product(m[i][p[i]], prod[i + 1])
                 IN prod[0]
  IN Sum(bijections, term)

(***************************************************************************)
(* What invert_mat returns without an error is the inverse of what it was  *)
(* given, wherever its pivots were and in whichever order rows moved, and  *)
(* it reports a singular matrix only when there is no inverse: a zero on   *)
(* the diagonal does not make it give up.                                  *)
(***************************************************************************)
InverseReturned == stage = "inverted" => MatrixProduct(original, matrix) = [r \in Indices |-> UnitRow(r)]
SingularReported == stage = "singular" => Determinant(original) = Zero

InverseRight == InverseReturned /\ SingularReported
=============================================================================
