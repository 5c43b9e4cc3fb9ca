---------------------------- MODULE GaloisField ----------------------------
(***************************************************************************)
(* The field GF(2^8) as fec.c computes in it: the tables generate_gf and   *)
(* init_mul_table fill once, and the lookups everything else is made of.   *)
(*                                                                         *)
(* A byte is the set of the positions of its one bits, so that ^ is the    *)
(* symmetric difference and << 1 moves every position up by one.           *)
(***************************************************************************)
EXTENDS Integers, FiniteSets

GF_BITS == 8
GF_SIZE == 2^GF_BITS - 1

gf   == SUBSET (0..(GF_BITS - 1))
Zero == {}
One  == {0}

Xor(x, y) == (x \ y) \cup (y \ x)
ShiftLeft(x) == {b + 1 : b \in x}

\* The byte of a number below 256.
Byte(n) == {b \in 0..(GF_BITS - 1) : (n \div 2^b) % 2 = 1}

\* allPp[8]: the terms of 1 + x^2 + x^3 + x^4 + x^8, without the highest.
Pp == {0, 2, 3, 4}

\* Times \alpha: a shift, and the terms of \alpha^8 for the bit that leaves.
times_alpha ==
  [x \in gf |-> IF GF_BITS - 1 \in x THEN Xor(Pp, ShiftLeft(x \ {GF_BITS - 1}))
                ELSE ShiftLeft(x)]

\* generate_gf: the powers of \alpha, each from the one before.
gf_exp ==
  LET power[i \in 0..(GF_SIZE - 1)] ==
        IF i < GF_BITS THEN {i} ELSE times_alpha[power[i - 1]]
  IN [i \in 0..(GF_SIZE - 1) |-> power[i]]

\* Zero has no logarithm: a special value is entered for it.
gf_log ==
  [x \in gf |-> IF x = Zero THEN GF_SIZE ELSE CHOOSE i \in DOMAIN gf_exp : gf_exp[i] = x]

\* x % GF_SIZE without a division, for sums of two logarithms.
modnn ==
  [x \in 0..(2 * GF_SIZE) |->
     LET mod[y \in 0..(2 * GF_SIZE)] ==
           IF y < GF_SIZE THEN y
           ELSE LET less == y - GF_SIZE IN mod[(less \div 2^GF_BITS) + (less % 2^GF_BITS)]
     IN mod[x]]

\* Plausible slip: the exponent of the inverse short by one.
InverseExponentOffByOne(x) == GF_SIZE - gf_log[x] - 1
InverseExponent(x)         == GF_SIZE - gf_log[x]

inverse ==
  [x \in gf |-> IF x \in {Zero, One} THEN x ELSE gf_exp[InverseExponent(x)]]

\* Plausible slip: the special value for the logarithm of zero used as one.
MulByLogs(x, y) == gf_exp[modnn[gf_log[x] + gf_log[y]]]

\* gf_mul_table; init_mul_table clears its first row and column.
gf_mul(x, y) == IF x = Zero \/ y = Zero THEN Zero ELSE gf_exp[modnn[gf_log[x] + gf_log[y]]]

-----------------------------------------------------------------------------
(***************************************************************************)
(* What the tables hold, where it takes computing them to know. There is   *)
(* no parameter in it: the model checker has been through every case.      *)
(* \alpha is primitive, its powers are all the bytes but zero and then     *)
(* start again; modnn is a remainder; numbers below 256 are the bytes, and *)
(* the upper half of them has one bit more.                                *)
(***************************************************************************)
ASSUME TablesAssumption ==
  /\ GF_SIZE = 255
  /\ gf_exp \in [0..(GF_SIZE - 1) -> gf \ {Zero}] /\ gf_exp[0] = One
  /\ \A i \in 0..(GF_SIZE - 1) : times_alpha[gf_exp[i]] = gf_exp[(i + 1) % GF_SIZE]
  /\ \A i \in 0..(GF_SIZE - 1) : gf_log[gf_exp[i]] = i
  /\ \A x \in gf \ {Zero} : gf_log[x] \in 0..(GF_SIZE - 1) /\ gf_exp[gf_log[x]] = x
  /\ \A s \in 0..(2 * GF_SIZE) : modnn[s] = s % GF_SIZE

ASSUME BytesAssumption ==
  /\ Byte(0) = Zero
  /\ \A m, n \in 0..GF_SIZE : Byte(m) = Byte(n) => m = n
  /\ \A n \in 0..127 : 7 \notin Byte(n) /\ Byte(128 + n) = Byte(n) \cup {7}

-----------------------------------------------------------------------------
(***************************************************************************)
(* Reference: the product of two polynomials modulo 1+x^2+x^3+x^4+x^8.     *)
(***************************************************************************)
Product(x, y) ==
  LET partial[b \in 0..GF_BITS] ==      \* x times the bits b and above of y
        IF b = GF_BITS THEN Zero
        ELSE Xor(times_alpha[partial[b + 1]], IF b \in y THEN x ELSE Zero)
  IN partial[0]
=============================================================================
