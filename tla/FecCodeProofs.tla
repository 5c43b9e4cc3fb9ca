---------------------------- MODULE FecCodeProofs ----------------------------
(***************************************************************************)
(* The erasure code for every block geometry, every choice of erased and   *)
(* received packets and every matrix.                                      *)
(*                                                                         *)
(* From what the tables hold follow the laws of the field, and sums over   *)
(* any finite set. A matrix is a system of equations: invert_mat exchanges *)
(* what is given for what is sought, one place at a time (SolvedBy), so    *)
(* that it ends with the inverse, or finds a kernel, and then the          *)
(* determinant is zero. The matrices of resolve stay Cauchy matrices while *)
(* they are cleared (CauchyInv) and always have an inverse, which gives    *)
(* back the DATA the FEC packets were made of (DecodeInv).                 *)
(***************************************************************************)
EXTENDS FecCode, FecBlockProofs

-----------------------------------------------------------------------------
(***************************************************************************)
(* The field: addition is ^, and products are sums of logarithms.          *)
(***************************************************************************)
LEMMA XorClosed ==
  ASSUME NEW x \in gf, NEW y \in gf
  PROVE  Xor(x, y) \in gf
BY DEF Xor, gf

LEMMA ZeroOne == Zero \in gf /\ One \in gf /\ Zero # One
BY DEF Zero, One, gf, GF_BITS

LEMMA XorZero ==
  ASSUME NEW x \in gf
  PROVE  Xor(x, Zero) = x /\ Xor(Zero, x) = x /\ Xor(x, x) = Zero
BY DEF Xor, Zero

LEMMA XorComm ==
  ASSUME NEW x \in gf, NEW y \in gf
  PROVE  Xor(x, y) = Xor(y, x)
BY DEF Xor

LEMMA XorAssoc ==
  ASSUME NEW x \in gf, NEW y \in gf, NEW z \in gf
  PROVE  Xor(Xor(x, y), z) = Xor(x, Xor(y, z))
<1>1. \A b : b \in Xor(Xor(x, y), z) <=> b \in Xor(x, Xor(y, z))
  BY DEF Xor
<1>2. QED
  BY <1>1, Zenon

\* What is added twice disappears.
LEMMA XorCancel ==
  ASSUME NEW x \in gf, NEW y \in gf
  PROVE  Xor(x, Xor(x, y)) = y /\ Xor(Xor(x, y), y) = x /\ Xor(Xor(x, y), x) = y
<1>1. Xor(x, Xor(x, y)) = y
  BY XorAssoc, XorZero
<1>2. Xor(Xor(x, y), y) = x
  BY XorAssoc, XorZero
<1>3. QED
  BY <1>1, <1>2, XorComm, XorClosed

\* Two sums, added up in either order.
LEMMA XorSwap ==
  ASSUME NEW x \in gf, NEW y \in gf, NEW z \in gf, NEW w \in gf
  PROVE  Xor(Xor(x, y), Xor(z, w)) = Xor(Xor(x, z), Xor(y, w))
<1>1. \A b : b \in Xor(Xor(x, y), Xor(z, w)) <=> b \in Xor(Xor(x, z), Xor(y, w))
  BY DEF Xor
<1>2. QED
  BY <1>1, Zenon

-----------------------------------------------------------------------------
LEMMA Tables ==
  /\ \A n \in 0..254 : gf_exp[n] \in gf \ {Zero} /\ gf_log[gf_exp[n]] = n
  /\ \A n \in 0..254 : times_alpha[gf_exp[n]] = gf_exp[(n + 1) % 255]
  /\ \A x \in gf \ {Zero} : gf_log[x] \in 0..254 /\ gf_exp[gf_log[x]] = x
<1>0. GF_SIZE = 255
  BY TablesAssumption, Zenon
<1>1. GF_SIZE - 1 = 254
  BY <1>0
<1>2. \A n \in 0..254 : gf_exp[n] \in gf \ {Zero} /\ gf_log[gf_exp[n]] = n
  <2>1. gf_exp \in [0..254 -> gf \ {Zero}]
    BY <1>1, TablesAssumption, Zenon
  <2>2. \A n \in 0..254 : gf_log[gf_exp[n]] = n
    BY <1>1, TablesAssumption, Zenon
  <2>3. QED
    BY <2>1, <2>2, Zenon
<1>3. \A n \in 0..254 : times_alpha[gf_exp[n]] = gf_exp[(n + 1) % 255]
  <2>1. \A n \in 0..(GF_SIZE - 1) : times_alpha[gf_exp[n]] = gf_exp[(n + 1) % GF_SIZE]
    BY TablesAssumption, Zenon
  <2> HIDE DEF GF_SIZE
  <2>2. QED
    BY <1>0, <1>1, <2>1
<1>4. \A x \in gf \ {Zero} : gf_log[x] \in 0..254 /\ gf_exp[gf_log[x]] = x
  BY <1>1, TablesAssumption, Zenon
<1>5. QED
  BY <1>2, <1>3, <1>4

\* The product of two bytes that are not zero.
LEMMA MulIs ==
  ASSUME NEW x \in gf \ {Zero}, NEW y \in gf \ {Zero}
  PROVE  /\ gf_log[x] \in 0..254 /\ gf_log[y] \in 0..254
         /\ gf_mul(x, y) = gf_exp[(gf_log[x] + gf_log[y]) % 255]
         /\ gf_mul(x, y) \in gf \ {Zero}
         /\ gf_log[gf_mul(x, y)] = (gf_log[x] + gf_log[y]) % 255
<1>1. gf_log[x] \in 0..254 /\ gf_log[y] \in 0..254
  BY Tables, Zenon
<1>2. PICK m \in 0..254, n \in 0..254 : m = gf_log[x] /\ n = gf_log[y]
  BY <1>1
<1>3. modnn[m + n] = (m + n) % 255
  <2>1. m + n \in 0..(2 * 255)
    BY SMT
  <2>2. GF_SIZE = 255 /\ \A t \in 0..(2 * GF_SIZE) : modnn[t] = t % GF_SIZE
    BY TablesAssumption, Zenon
  <2>3. QED
    BY <2>1, <2>2, Zenon
<1>4. (m + n) % 255 \in 0..254
  BY SMT
<1>5. gf_mul(x, y) = gf_exp[(m + n) % 255]
  BY <1>2, <1>3, Zenon DEF gf_mul
<1>6. gf_exp[(m + n) % 255] \in gf \ {Zero} /\ gf_log[gf_exp[(m + n) % 255]] = (m + n) % 255
  BY <1>4, Tables
<1>7. QED
  BY <1>1, <1>2, <1>5, <1>6

LEMMA MulClosed ==
  ASSUME NEW x \in gf, NEW y \in gf
  PROVE  gf_mul(x, y) \in gf
<1>1. CASE x = Zero \/ y = Zero
  BY <1>1, ZeroOne DEF gf_mul
<1>2. CASE x # Zero /\ y # Zero
  BY <1>2, MulIs
<1>3. QED
  BY <1>1, <1>2

LEMMA MulZero ==
  ASSUME NEW x \in gf
  PROVE  gf_mul(x, Zero) = Zero /\ gf_mul(Zero, x) = Zero
BY DEF gf_mul

\* A byte is determined by its logarithm.
LEMMA SameLog ==
  ASSUME NEW x \in gf \ {Zero}, NEW y \in gf \ {Zero}, gf_log[x] = gf_log[y]
  PROVE  x = y
<1>1. gf_exp[gf_log[x]] = x /\ gf_exp[gf_log[y]] = y
  BY Tables
<1>2. QED
  BY <1>1

LEMMA LogOfOne == One \in gf \ {Zero} /\ gf_log[One] = 0
<1>1. gf_exp[0] = One
  BY TablesAssumption, Zenon
<1>2. 0 \in 0..254
  OBVIOUS
<1>3. gf_log[gf_exp[0]] = 0
  BY <1>2, Tables, Zenon
<1>4. QED
  BY <1>1, <1>3, ZeroOne, Zenon

LEMMA MulComm ==
  ASSUME NEW x \in gf, NEW y \in gf
  PROVE  gf_mul(x, y) = gf_mul(y, x)
<1>1. CASE x = Zero \/ y = Zero
  BY <1>1 DEF gf_mul
<1>2. CASE x # Zero /\ y # Zero
  <2>1. /\ gf_log[x] \in 0..254 /\ gf_log[y] \in 0..254
        /\ gf_mul(x, y) = gf_exp[(gf_log[x] + gf_log[y]) % 255]
        /\ gf_mul(y, x) = gf_exp[(gf_log[y] + gf_log[x]) % 255]
    BY <1>2, MulIs
  <2>2. PICK m \in 0..254, n \in 0..254 : m = gf_log[x] /\ n = gf_log[y]
    BY <2>1
  <2>3. m + n = n + m
    BY SMT
  <2>4. QED
    BY <2>1, <2>2, <2>3
<1>3. QED
  BY <1>1, <1>2

LEMMA MulOne ==
  ASSUME NEW x \in gf
  PROVE  gf_mul(x, One) = x /\ gf_mul(One, x) = x
<1>1. CASE x = Zero
  BY <1>1, MulZero, ZeroOne
<1>2. CASE x # Zero
  <2>1. /\ gf_log[x] \in 0..254 /\ gf_mul(x, One) \in gf \ {Zero}
        /\ gf_log[gf_mul(x, One)] = (gf_log[x] + 0) % 255
    BY <1>2, LogOfOne, MulIs
  <2>2. PICK n \in 0..254 : n = gf_log[x]
    BY <2>1
  <2>3. (n + 0) % 255 = n
    BY SMT
  <2>4. gf_mul(x, One) = x
    BY <1>2, <2>1, <2>2, <2>3, SameLog
  <2>5. QED
    BY <2>4, MulComm, ZeroOne
<1>3. QED
  BY <1>1, <1>2

LEMMA MulAssoc ==
  ASSUME NEW x \in gf, NEW y \in gf, NEW z \in gf
  PROVE  gf_mul(gf_mul(x, y), z) = gf_mul(x, gf_mul(y, z))
<1>1. CASE x = Zero \/ y = Zero \/ z = Zero
  BY <1>1, MulZero, MulClosed, ZeroOne
<1>2. CASE x # Zero /\ y # Zero /\ z # Zero
  <2>0. gf_log[x] \in 0..254 /\ gf_log[y] \in 0..254 /\ gf_log[z] \in 0..254
    BY <1>2, Tables
  <2>1. PICK l \in 0..254, m \in 0..254, n \in 0..254 :
          l = gf_log[x] /\ m = gf_log[y] /\ n = gf_log[z]
    BY <2>0, Zenon
  <2>2. /\ gf_mul(x, y) \in gf \ {Zero} /\ gf_log[gf_mul(x, y)] = (l + m) % 255
        /\ gf_mul(y, z) \in gf \ {Zero} /\ gf_log[gf_mul(y, z)] = (m + n) % 255
    BY <1>2, <2>1, MulIs
  <2>3. /\ gf_mul(gf_mul(x, y), z) \in gf \ {Zero}
        /\ gf_log[gf_mul(gf_mul(x, y), z)] = (((l + m) % 255) + n) % 255
        /\ gf_mul(x, gf_mul(y, z)) \in gf \ {Zero}
        /\ gf_log[gf_mul(x, gf_mul(y, z))] = (l + ((m + n) % 255)) % 255
    BY <1>2, <2>1, <2>2, MulIs
  <2>4. (((l + m) % 255) + n) % 255 = (l + ((m + n) % 255)) % 255
    BY SMT
  <2>5. QED
    BY <2>3, <2>4, SameLog
<1>3. QED
  BY <1>1, <1>2

LEMMA InverseIs ==
  ASSUME NEW x \in gf \ {Zero}
  PROVE  /\ inverse[x] \in gf \ {Zero}
         /\ gf_mul(x, inverse[x]) = One /\ gf_mul(inverse[x], x) = One
<1>1. CASE x = One
  BY <1>1, ZeroOne, MulOne DEF inverse
<1>2. CASE x # One
  <2>1. PICK n \in 0..254 : n = gf_log[x]
    BY MulIs
  <2>2. n # 0
    BY <1>2, <2>1, LogOfOne, SameLog
  <2>3. inverse[x] = gf_exp[255 - n]
    BY <1>2, <2>1, TablesAssumption DEF inverse, InverseExponent
  <2>4. PICK m \in 0..254 : m = 255 - n /\ (n + m) % 255 = 0
    <3>1. 255 - n \in 0..254 /\ (n + (255 - n)) % 255 = 0
      BY <2>2
    <3>2. QED
      BY <3>1
  <2>5. inverse[x] \in gf \ {Zero} /\ gf_log[inverse[x]] = m
    <3>1. inverse[x] = gf_exp[m]
      BY <2>3, <2>4
    <3>2. m \in 0..254
      BY <2>4
    <3>3. gf_exp[m] \in gf \ {Zero} /\ gf_log[gf_exp[m]] = m
      BY <3>2, Tables
    <3>4. QED
      BY <3>1, <3>3, Zenon
  <2>6. gf_mul(x, inverse[x]) \in gf \ {Zero} /\ gf_log[gf_mul(x, inverse[x])] = (n + m) % 255
    BY <2>1, <2>5, MulIs
  <2>7. gf_mul(x, inverse[x]) = One
    BY <2>4, <2>6, LogOfOne, SameLog
  <2>8. QED
    BY <2>5, <2>7, MulComm
<1>3. QED
  BY <1>1, <1>2

LEMMA InverseOfZero == inverse[Zero] = Zero
BY ZeroOne DEF inverse
-----------------------------------------------------------------------------
(***************************************************************************)
(* Products distribute over ^: times \alpha does, bit by bit, and every    *)
(* byte but zero is a power of \alpha.                                     *)
(***************************************************************************)
LEMMA AlphaBits ==
  ASSUME NEW x \in gf
  PROVE  \A b : b \in times_alpha[x] <=>
           b \in 0..7 /\ ~((b - 1 \in x) <=> (7 \in x /\ b \in Pp))
<1>1. x \subseteq 0..7 /\ \A b \in x : b \in Int /\ 0 <= b /\ b <= 7
  BY DEF gf, GF_BITS
<1>2. ASSUME NEW y, y \subseteq x, 7 \notin y
      PROVE  \A b : b \in ShiftLeft(y) <=> b \in 0..7 /\ b - 1 \in y
  <2>1. ASSUME NEW b \in ShiftLeft(y) PROVE b \in 0..7 /\ b - 1 \in y
    <3>1. PICK c \in y : b = c + 1
      BY DEF ShiftLeft
    <3>2. c \in 0..7 /\ c # 7
      BY <1>1, <1>2
    <3>3. b \in 0..7 /\ b - 1 = c
      BY <3>1, <3>2
    <3>4. QED
      BY <3>3
  <2>2. ASSUME NEW b \in 0..7, b - 1 \in y PROVE b \in ShiftLeft(y)
    <3>1. b = (b - 1) + 1
      OBVIOUS
    <3>2. QED
      BY <2>2, <3>1, Zenon DEF ShiftLeft
  <2>3. QED
    BY <2>1, <2>2
<1>3. \A b \in 0..7 : b - 1 # 7
  OBVIOUS
<1>4. CASE 7 \in x
  <2>1. times_alpha[x] = Xor(Pp, ShiftLeft(x \ {7}))
    BY <1>4 DEF times_alpha, GF_BITS
  <2>2. \A b : b \in ShiftLeft(x \ {7}) <=> b \in 0..7 /\ b - 1 \in x
    <3>1. \A b : b \in ShiftLeft(x \ {7}) <=> b \in 0..7 /\ b - 1 \in x \ {7}
      BY <1>2
    <3>2. QED
      BY <1>3, <3>1
  <2>3. \A b : b \in Pp => b \in 0..7
    BY DEF Pp
  <2>4. QED
    BY <1>4, <2>1, <2>2, <2>3 DEF Xor
<1>5. CASE 7 \notin x
  <2>1. times_alpha[x] = ShiftLeft(x)
    BY <1>5 DEF times_alpha, GF_BITS
  <2>2. \A b : b \in ShiftLeft(x) <=> b \in 0..7 /\ b - 1 \in x
    BY <1>2, <1>5
  <2>3. QED
    BY <1>5, <2>1, <2>2
<1>6. QED
  BY <1>4, <1>5

LEMMA AlphaAdds ==
  ASSUME NEW x \in gf, NEW y \in gf
  PROVE  times_alpha[Xor(x, y)] = Xor(times_alpha[x], times_alpha[y])
<1>1. \A b : b \in times_alpha[Xor(x, y)] <=>
         b \in 0..7 /\ ~((b - 1 \in Xor(x, y)) <=> (7 \in Xor(x, y) /\ b \in Pp))
  BY XorClosed, AlphaBits
<1>2. \A b : b \in Xor(x, y) <=> ~(b \in x <=> b \in y)
  BY DEF Xor
<1>3. \A b : b \in Xor(times_alpha[x], times_alpha[y]) <=>
               ~(b \in times_alpha[x] <=> b \in times_alpha[y])
  BY DEF Xor
<1>4. /\ \A b : b \in times_alpha[x] <=>
                  b \in 0..7 /\ ~((b - 1 \in x) <=> (7 \in x /\ b \in Pp))
      /\ \A b : b \in times_alpha[y] <=>
                  b \in 0..7 /\ ~((b - 1 \in y) <=> (7 \in y /\ b \in Pp))
  BY AlphaBits
<1>5. \A b : b \in times_alpha[Xor(x, y)] <=> b \in Xor(times_alpha[x], times_alpha[y])
  <2> TAKE b
  <2>1. b - 1 \in Xor(x, y) <=> ~(b - 1 \in x <=> b - 1 \in y)
    BY <1>2
  <2>2. 7 \in Xor(x, y) <=> ~(7 \in x <=> 7 \in y)
    BY <1>2
  <2>3. QED
    BY <1>1, <1>3, <1>4, <2>1, <2>2, Zenon
<1>6. QED
  BY <1>5, Zenon

\* Times \alpha is the product with \alpha, the power 1.
LEMMA AlphaIsMul ==
  ASSUME NEW x \in gf
  PROVE  times_alpha[x] = gf_mul(gf_exp[1], x)
<1>1. gf_exp[1] \in gf \ {Zero} /\ gf_log[gf_exp[1]] = 1
  <2>1. 1 \in 0..254
    OBVIOUS
  <2>2. QED
    BY <2>1, Tables, Zenon
<1>2. CASE x = Zero
  <2>1. \A b : b \notin times_alpha[Zero]
    BY ZeroOne, AlphaBits DEF Zero
  <2>2. times_alpha[Zero] = Zero
    BY <2>1 DEF Zero
  <2>3. QED
    BY <1>1, <1>2, <2>2, MulZero
<1>3. CASE x # Zero
  <2>1. PICK n \in 0..254 : n = gf_log[x]
    BY <1>3, MulIs
  <2>2. x = gf_exp[n]
    BY <1>3, <2>1, Tables
  <2>3. times_alpha[x] = gf_exp[(n + 1) % 255]
    BY <2>2, Tables
  <2>4. gf_mul(gf_exp[1], x) = gf_exp[(1 + n) % 255]
    BY <1>1, <1>3, <2>1, MulIs
  <2>5. 1 + n = n + 1
    OBVIOUS
  <2>6. QED
    BY <2>3, <2>4, <2>5
<1>4. QED
  BY <1>2, <1>3

Distributes(n) ==
  \A x, y \in gf : gf_mul(gf_exp[n], Xor(x, y)) = Xor(gf_mul(gf_exp[n], x), gf_mul(gf_exp[n], y))

LEMMA PowersDistribute == \A n \in 0..254 : Distributes(n)
<1> DEFINE W == {n \in 0..254 : ~Distributes(n)}
<1>1. SUFFICES ASSUME W # {} PROVE FALSE
  OBVIOUS
<1>2. PICK n \in W : \A m \in W : n <= m
  <2>1. W \in SUBSET Nat
    OBVIOUS
  <2>2. QED
    BY <1>1, <2>1, LeastNumber
<1>3. CASE n = 0
  <2>1. gf_exp[n] = One
    BY <1>3, TablesAssumption
  <2>2. Distributes(n)
    BY <2>1, MulOne, XorClosed DEF Distributes
  <2>3. QED
    BY <2>2
<1>4. CASE n # 0
  <2>1. n - 1 \in 0..254 /\ n - 1 \notin W /\ n \in 0..254 /\ (n - 1 + 1) % 255 = n
    BY <1>2, <1>4
  <2>2. PICK k \in 0..254 : k = n - 1 /\ Distributes(k) /\ (k + 1) % 255 = n
    BY <2>1
  <2> DEFINE a == gf_exp[1]
             p == gf_exp[k]
  <2>3. a \in gf /\ p \in gf
    <3>1. 1 \in 0..254
      OBVIOUS
    <3>2. QED
      BY <3>1, Tables, Zenon
  <2>4. gf_exp[n] = gf_mul(a, p)
    <3>1. times_alpha[p] = gf_exp[(k + 1) % 255]
      BY Tables
    <3>2. QED
      BY <2>2, <2>3, <3>1, AlphaIsMul
  <2>5. ASSUME NEW x \in gf, NEW y \in gf
        PROVE  gf_mul(gf_exp[n], Xor(x, y)) = Xor(gf_mul(gf_exp[n], x), gf_mul(gf_exp[n], y))
    <3>1. gf_mul(p, x) \in gf /\ gf_mul(p, y) \in gf /\ Xor(x, y) \in gf
      BY <2>3, MulClosed, XorClosed
    <3>2. gf_mul(gf_exp[n], Xor(x, y)) = gf_mul(a, gf_mul(p, Xor(x, y)))
      BY <2>3, <2>4, <3>1, MulAssoc
    <3>3. gf_mul(p, Xor(x, y)) = Xor(gf_mul(p, x), gf_mul(p, y))
      BY <2>2 DEF Distributes
    <3>4. gf_mul(a, Xor(gf_mul(p, x), gf_mul(p, y)))
            = Xor(gf_mul(a, gf_mul(p, x)), gf_mul(a, gf_mul(p, y)))
      BY <3>1, AlphaAdds, AlphaIsMul, XorClosed
    <3>5. gf_mul(gf_exp[n], x) = gf_mul(a, gf_mul(p, x)) /\ gf_mul(gf_exp[n], y) = gf_mul(a, gf_mul(p, y))
      BY <2>3, <2>4, MulAssoc
    <3>6. QED
      BY <3>2, <3>3, <3>4, <3>5
  <2>6. Distributes(n)
    BY <2>5 DEF Distributes
  <2>7. QED
    BY <2>6
<1>5. QED
  BY <1>3, <1>4

LEMMA MulAdds ==
  ASSUME NEW a \in gf, NEW x \in gf, NEW y \in gf
  PROVE  /\ gf_mul(a, Xor(x, y)) = Xor(gf_mul(a, x), gf_mul(a, y))
         /\ gf_mul(Xor(x, y), a) = Xor(gf_mul(x, a), gf_mul(y, a))
<1>1. gf_mul(a, Xor(x, y)) = Xor(gf_mul(a, x), gf_mul(a, y))
  <2>1. CASE a = Zero
    BY <2>1, MulZero, XorZero, XorClosed, ZeroOne
  <2>2. CASE a # Zero
    <3>1. PICK n \in 0..254 : a = gf_exp[n]
      BY <2>2, Tables
    <3>2. QED
      BY <3>1, PowersDistribute DEF Distributes
  <2>3. QED
    BY <2>1, <2>2
<1>2. QED
  BY <1>1, MulComm, XorClosed
-----------------------------------------------------------------------------
(***************************************************************************)
(* Sums of bytes over a finite set, of the values of a function there.     *)
(***************************************************************************)
Odd(T, g, b) == Cardinality({i \in T : b \in g[i]}) % 2 = 1
Total(T, g)  == {b \in 0..(GF_BITS - 1) : Odd(T, g, b)}

LEMMA TotalClosed == ASSUME NEW T, NEW g PROVE Total(T, g) \in gf
BY DEF Total, gf

\* Of the subsets of a finite set with some property, if the empty set is not
\* one of them, some has a member without which it is not.
LEMMA SmallestSet ==
  ASSUME NEW T, IsFiniteSet(T), NEW W \in SUBSET SUBSET T, W # {}, {} \notin W
  PROVE  \E U \in W : \E i \in U : U \ {i} \notin W
<1> DEFINE N == {n \in Nat : \E U \in W : Cardinality(U) = n}
<1>1. \A U \in W : IsFiniteSet(U) /\ Cardinality(U) \in Nat
  BY FS_Subset, FS_CardinalityType
<1>2. N # {} /\ N \in SUBSET Nat
  BY <1>1
<1>3. PICK n \in N : \A m \in N : n <= m
  BY <1>2, LeastNumber
<1>4. PICK U \in W : Cardinality(U) = n
  BY <1>3
<1>5. PICK i \in U : TRUE
  BY <1>4
<1>6. Cardinality(U \ {i}) = n - 1 /\ n \in Nat
  BY <1>1, <1>4, FS_RemoveElement
<1>7. U \ {i} \notin W
  <2>1. ASSUME U \ {i} \in W PROVE FALSE
    <3>1. n - 1 \in N
      BY <1>1, <1>6, <2>1
    <3>2. QED
      BY <1>3, <1>6, <3>1
  <2>2. QED
    BY <2>1
<1>8. QED
  BY <1>7

LEMMA TotalEmpty == ASSUME NEW g PROVE Total({}, g) = Zero
<1>1. \A b : {i \in {} : b \in g[i]} = {}
  OBVIOUS
<1>2. \A b : ~Odd({}, g, b)
  BY <1>1, FS_EmptySet DEF Odd
<1>3. QED
  BY <1>2 DEF Total, Zero

LEMMA TotalAdd ==
  ASSUME NEW T, IsFiniteSet(T), NEW i, i \notin T, NEW g, g[i] \in gf
  PROVE  Total(T \cup {i}, g) = Xor(Total(T, g), g[i])
<1>1. ASSUME NEW b \in 0..(GF_BITS - 1)
      PROVE  Odd(T \cup {i}, g, b) <=> ~(Odd(T, g, b) <=> b \in g[i])
  <2> DEFINE P == {j \in T : b \in g[j]}
             Q == {j \in T \cup {i} : b \in g[j]}
  <2>1. IsFiniteSet(P) /\ Cardinality(P) \in Nat /\ i \notin P
    BY FS_Subset, FS_CardinalityType
  <2>2. CASE b \in g[i]
    <3>1. Q = P \cup {i}
      BY <2>2
    <3>2. Cardinality(Q) = Cardinality(P) + 1
      BY <2>1, <3>1, FS_AddElement
    <3>3. (Cardinality(P) + 1) % 2 = 1 <=> Cardinality(P) % 2 # 1
      BY <2>1
    <3>4. QED
      BY <2>2, <3>2, <3>3 DEF Odd
  <2>3. CASE b \notin g[i]
    <3>1. Q = P
      BY <2>3
    <3>2. QED
      BY <2>3, <3>1, Zenon DEF Odd
  <2>4. QED
    BY <2>2, <2>3
<1>2. \A b : b \in g[i] => b \in 0..(GF_BITS - 1)
  BY DEF gf
<1>3. \A b : b \in Total(T \cup {i}, g) <=> b \in Xor(Total(T, g), g[i])
  BY <1>1, <1>2 DEF Total, Xor
<1>4. QED
  BY <1>3, Zenon

LEMMA TotalSame ==
  ASSUME NEW T, NEW g, NEW h, \A i \in T : g[i] = h[i]
  PROVE  Total(T, g) = Total(T, h)
<1>1. \A b : {i \in T : b \in g[i]} = {i \in T : b \in h[i]}
  OBVIOUS
<1>2. QED
  BY <1>1, Zenon DEF Total, Odd

\* A term taken out of a sum.
LEMMA TotalSplit ==
  ASSUME NEW T, IsFiniteSet(T), NEW i \in T, NEW g, g[i] \in gf
  PROVE  Total(T, g) = Xor(g[i], Total(T \ {i}, g))
<1>1. IsFiniteSet(T \ {i}) /\ i \notin T \ {i} /\ (T \ {i}) \cup {i} = T
  BY FS_Subset
<1>2. Total((T \ {i}) \cup {i}, g) = Xor(Total(T \ {i}, g), g[i])
  BY <1>1, TotalAdd
<1>3. Xor(Total(T \ {i}, g), g[i]) = Xor(g[i], Total(T \ {i}, g))
  BY TotalClosed, XorComm
<1>4. QED
  BY <1>1, <1>2, <1>3

LEMMA TotalXor ==
  ASSUME NEW T, IsFiniteSet(T), NEW g, NEW h, NEW k,
         \A i \in T : g[i] \in gf /\ h[i] \in gf /\ k[i] = Xor(g[i], h[i])
  PROVE  Total(T, k) = Xor(Total(T, g), Total(T, h))
<1> DEFINE Adds(U) == Total(U, k) = Xor(Total(U, g), Total(U, h))
           W == {U \in SUBSET T : ~Adds(U)}
<1>1. SUFFICES ASSUME W # {} PROVE FALSE
  OBVIOUS
<1>2. Adds({})
  BY TotalEmpty, XorZero, ZeroOne
<1>3. PICK U \in SUBSET T, i \in T : U \in W /\ i \in U /\ U \ {i} \notin W
  BY <1>1, <1>2, SmallestSet
<1>4. IsFiniteSet(U) /\ i \in U /\ i \in T /\ Adds(U \ {i})
  BY <1>3, FS_Subset
<1>5. g[i] \in gf /\ h[i] \in gf /\ k[i] = Xor(g[i], h[i]) /\ k[i] \in gf
  BY <1>4, XorClosed
<1>6. /\ Total(U, g) = Xor(g[i], Total(U \ {i}, g))
      /\ Total(U, h) = Xor(h[i], Total(U \ {i}, h))
      /\ Total(U, k) = Xor(k[i], Total(U \ {i}, k))
  BY <1>4, <1>5, TotalSplit
<1>7. Adds(U)
  BY <1>4, <1>5, <1>6, XorSwap, TotalClosed
<1>8. QED
  BY <1>3, <1>7

LEMMA TotalMul ==
  ASSUME NEW T, IsFiniteSet(T), NEW a \in gf, NEW g, NEW k,
         \A i \in T : g[i] \in gf /\ k[i] = gf_mul(a, g[i])
  PROVE  Total(T, k) = gf_mul(a, Total(T, g))
<1> DEFINE Scales(U) == Total(U, k) = gf_mul(a, Total(U, g))
           W == {U \in SUBSET T : ~Scales(U)}
<1>1. SUFFICES ASSUME W # {} PROVE FALSE
  OBVIOUS
<1>2. Scales({})
  BY TotalEmpty, MulZero
<1>3. PICK U \in SUBSET T, i \in T : U \in W /\ i \in U /\ U \ {i} \notin W
  BY <1>1, <1>2, SmallestSet
<1>4. IsFiniteSet(U) /\ i \in U /\ i \in T /\ Scales(U \ {i})
  BY <1>3, FS_Subset
<1>5. g[i] \in gf /\ k[i] = gf_mul(a, g[i]) /\ k[i] \in gf
  BY <1>4, MulClosed
<1>6. /\ Total(U, g) = Xor(g[i], Total(U \ {i}, g))
      /\ Total(U, k) = Xor(k[i], Total(U \ {i}, k))
  BY <1>4, <1>5, TotalSplit
<1>7. Scales(U)
  BY <1>4, <1>5, <1>6, MulAdds, TotalClosed
<1>8. QED
  BY <1>3, <1>7

LEMMA TotalUnion ==
  ASSUME NEW S, IsFiniteSet(S), NEW T, IsFiniteSet(T), S \cap T = {}, NEW g,
         \A i \in S \cup T : g[i] \in gf
  PROVE  Total(S \cup T, g) = Xor(Total(S, g), Total(T, g))
<1> DEFINE Joins(U) == Total(S \cup U, g) = Xor(Total(S, g), Total(U, g))
           W == {U \in SUBSET T : ~Joins(U)}
<1>1. SUFFICES ASSUME W # {} PROVE FALSE
  OBVIOUS
<1>2. Joins({})
  <2>1. S \cup {} = S
    OBVIOUS
  <2>2. QED
    BY <2>1, TotalEmpty, TotalClosed, XorZero
<1>3. PICK U \in SUBSET T, i \in T : U \in W /\ i \in U /\ U \ {i} \notin W
  BY <1>1, <1>2, SmallestSet
<1>4. IsFiniteSet(U) /\ i \in U /\ i \in T /\ Joins(U \ {i})
  BY <1>3, FS_Subset
<1>5. g[i] \in gf /\ i \notin S
  BY <1>4
<1>6. Total(U, g) = Xor(g[i], Total(U \ {i}, g))
  BY <1>4, <1>5, TotalSplit
<1>7. Total(S \cup U, g) = Xor(Total(S \cup (U \ {i}), g), g[i])
  <2>1. IsFiniteSet(U \ {i}) /\ IsFiniteSet(S \cup (U \ {i}))
    BY <1>4, FS_Subset, FS_Union
  <2>2. S \cup U = (S \cup (U \ {i})) \cup {i} /\ i \notin S \cup (U \ {i})
    BY <1>4, <1>5
  <2>3. QED
    BY <1>5, <2>1, <2>2, TotalAdd
<1>8. Joins(U)
  <2> DEFINE s == Total(S, g)
             t == Total(U \ {i}, g)
  <2>1. s \in gf /\ t \in gf
    BY TotalClosed
  <2>2. Total(S \cup U, g) = Xor(Xor(s, t), g[i])
    BY <1>4, <1>7
  <2>3. Xor(Xor(s, t), g[i]) = Xor(s, Xor(g[i], t))
    BY <1>5, <2>1, XorAssoc, XorComm
  <2>4. QED
    BY <1>6, <2>2, <2>3
<1>9. QED
  BY <1>3, <1>8

LEMMA ImageFinite ==
  ASSUME NEW T, IsFiniteSet(T), NEW e
  PROVE  IsFiniteSet({e[i] : i \in T})
<1> DEFINE f == [i \in T |-> e[i]]
<1>1. f \in Surjection(T, {e[i] : i \in T})
  BY DEF Surjection
<1>2. QED
  BY <1>1, FS_Surjection

\* The terms renamed.
LEMMA TotalImage ==
  ASSUME NEW T, IsFiniteSet(T), NEW e, \A i, j \in T : e[i] = e[j] => i = j,
         NEW g, NEW k, \A i \in T : g[e[i]] \in gf /\ k[i] = g[e[i]]
  PROVE  Total({e[i] : i \in T}, g) = Total(T, k)
<1> DEFINE Image(U)  == {e[i] : i \in U}
           Same(U) == Total(Image(U), g) = Total(U, k)
           W == {U \in SUBSET T : ~Same(U)}
<1>1. SUFFICES ASSUME W # {} PROVE FALSE
  OBVIOUS
<1>2. Same({})
  <2>1. Image({}) = {}
    OBVIOUS
  <2>2. QED
    BY <2>1, TotalEmpty
<1>3. PICK U \in SUBSET T, i \in T : U \in W /\ i \in U /\ U \ {i} \notin W
  BY <1>1, <1>2, SmallestSet
<1>4. IsFiniteSet(U) /\ i \in U /\ i \in T /\ U \subseteq T /\ Same(U \ {i})
  BY <1>3, FS_Subset
<1>5. Image(U) = Image(U \ {i}) \cup {e[i]} /\ e[i] \notin Image(U \ {i})
  BY <1>3, <1>4
<1>6. IsFiniteSet(Image(U \ {i}))
  <2>1. IsFiniteSet(U \ {i})
    BY <1>4, FS_Subset
  <2>2. QED
    BY <2>1, ImageFinite
<1>7. Total(Image(U), g) = Xor(Total(Image(U \ {i}), g), g[e[i]])
  <2> DEFINE V == Image(U \ {i})
             x == e[i]
  <2>1. Image(U) = V \cup {x} /\ x \notin V /\ IsFiniteSet(V)
    BY <1>5, <1>6, Zenon
  <2>2. g[x] \in gf
    BY <1>4
  <2>3. ASSUME NEW A, IsFiniteSet(A), NEW b, b \notin A, g[b] \in gf
        PROVE  Total(A \cup {b}, g) = Xor(Total(A, g), g[b])
    BY <2>3, TotalAdd
  <2> HIDE DEF V, x
  <2>4. Total(V \cup {x}, g) = Xor(Total(V, g), g[x])
    BY <2>1, <2>2, <2>3, Zenon
  <2>5. QED
    BY <2>1, <2>4, Zenon DEF V, x
<1>8. Total(U, k) = Xor(k[i], Total(U \ {i}, k))
  BY <1>3, <1>4, TotalSplit
<1>9. Same(U)
  BY <1>4, <1>7, <1>8, XorComm, TotalClosed
<1>10. QED
  BY <1>3, <1>9

\* A sum of which one term is not zero.
LEMMA TotalOfOne ==
  ASSUME NEW T, IsFiniteSet(T), NEW i \in T, NEW g, g[i] \in gf,
         \A j \in T \ {i} : g[j] = Zero
  PROVE  Total(T, g) = g[i]
<1>1. \A b : {j \in T \ {i} : b \in g[j]} = {}
  BY DEF Zero
<1>2. \A b : ~Odd(T \ {i}, g, b)
  BY <1>1, FS_EmptySet DEF Odd
<1>3. Total(T \ {i}, g) = Zero
  BY <1>2 DEF Total, Zero
<1>4. QED
  BY <1>3, TotalSplit, XorZero
-----------------------------------------------------------------------------
(***************************************************************************)
(* Square matrices as equations: m gives w from v. Clearing the column k   *)
(* turns a matrix that gives w from v into one that gives the same with    *)
(* the k-th of v and of w changed over.                                    *)
(***************************************************************************)
Square(I) == [I -> [I -> gf]]
Vector(I) == [I -> gf]

Terms(I, m, r, v)   == [c \in I |-> gf_mul(m[r][c], v[c])]
Row(I, m, r, v)     == Total(I, Terms(I, m, r, v))
Rest(I, m, r, v, k) == Total(I \ {k}, Terms(I, m, r, v))
Gives(I, m, v, w)   == \A r \in I : w[r] = Row(I, m, r, v)

\* The matrix t is s with the column k cleared.
Cleared(I, s, t, k) ==
  /\ t[k][k] = inverse[s[k][k]]
  /\ \A c \in I \ {k} : t[k][c] = gf_mul(inverse[s[k][k]], s[k][c])
  /\ \A r \in I \ {k} : t[r][k] = gf_mul(s[r][k], t[k][k])
  /\ \A r, c \in I \ {k} : t[r][c] = Xor(s[r][c], gf_mul(s[r][k], t[k][c]))

LEMMA TermsIn ==
  ASSUME NEW I, NEW m \in Square(I), NEW r \in I, NEW v \in Vector(I)
  PROVE  /\ \A c \in I : Terms(I, m, r, v)[c] = gf_mul(m[r][c], v[c])
         /\ \A c \in I : Terms(I, m, r, v)[c] \in gf
BY MulClosed DEF Square, Vector, Terms

LEMMA RowSplit ==
  ASSUME NEW I, IsFiniteSet(I), NEW m \in Square(I), NEW r \in I, NEW v \in Vector(I),
         NEW k \in I
  PROVE  Row(I, m, r, v) = Xor(gf_mul(m[r][k], v[k]), Rest(I, m, r, v, k))
BY TermsIn, TotalSplit DEF Row, Rest

LEMMA RestIs ==
  ASSUME NEW I, IsFiniteSet(I), NEW s \in Square(I), NEW t \in Square(I), NEW k \in I,
         Cleared(I, s, t, k), NEW v \in Vector(I), NEW u \in Vector(I),
         \A c \in I \ {k} : u[c] = v[c],
         NEW r \in I, r # k
  PROVE  /\ Rest(I, t, k, u, k) = gf_mul(inverse[s[k][k]], Rest(I, s, k, v, k))
         /\ Rest(I, t, r, u, k) = Xor(Rest(I, s, r, v, k), gf_mul(s[r][k], Rest(I, t, k, u, k)))
<1>1. IsFiniteSet(I \ {k})
  BY FS_Subset
<1>2. inverse[s[k][k]] \in gf /\ s[r][k] \in gf
  BY InverseIs, InverseOfZero, ZeroOne DEF Square
<1>3. Rest(I, t, k, u, k) = gf_mul(inverse[s[k][k]], Rest(I, s, k, v, k))
  <2> DEFINE g == Terms(I, s, k, v)
             h == Terms(I, t, k, u)
  <2>1. \A c \in I \ {k} : g[c] \in gf /\ h[c] = gf_mul(inverse[s[k][k]], g[c])
    <3> TAKE c \in I \ {k}
    <3>1. g[c] = gf_mul(s[k][c], v[c]) /\ h[c] = gf_mul(t[k][c], v[c]) /\ g[c] \in gf
      BY TermsIn
    <3>2. t[k][c] = gf_mul(inverse[s[k][k]], s[k][c])
      BY DEF Cleared
    <3>3. s[k][c] \in gf /\ v[c] \in gf
      BY DEF Square, Vector
    <3>4. QED
      BY <1>2, <3>1, <3>2, <3>3, MulAssoc
  <2> HIDE DEF g, h
  <2>2. Total(I \ {k}, h) = gf_mul(inverse[s[k][k]], Total(I \ {k}, g))
    BY <1>1, <1>2, <2>1, TotalMul
  <2>3. QED
    BY <2>2 DEF Rest, g, h
<1>4. Rest(I, t, r, u, k) = Xor(Rest(I, s, r, v, k), gf_mul(s[r][k], Rest(I, t, k, u, k)))
  <2> DEFINE g == Terms(I, s, r, v)
             h == Terms(I, t, k, u)
             l == [c \in I |-> gf_mul(s[r][k], h[c])]
             x == Terms(I, t, r, u)
  <2>1. \A c \in I \ {k} : g[c] \in gf /\ h[c] \in gf /\ l[c] \in gf
                         /\ l[c] = gf_mul(s[r][k], h[c]) /\ x[c] = Xor(g[c], l[c])
    <3> TAKE c \in I \ {k}
    <3>1. /\ g[c] = gf_mul(s[r][c], v[c]) /\ h[c] = gf_mul(t[k][c], v[c])
          /\ x[c] = gf_mul(t[r][c], v[c]) /\ g[c] \in gf /\ h[c] \in gf
      BY TermsIn
    <3>2. t[r][c] = Xor(s[r][c], gf_mul(s[r][k], t[k][c]))
      BY DEF Cleared
    <3>3. s[r][c] \in gf /\ t[k][c] \in gf /\ v[c] \in gf
      BY DEF Square, Vector
    <3>4. gf_mul(t[r][c], v[c]) = Xor(gf_mul(s[r][c], v[c]), gf_mul(gf_mul(s[r][k], t[k][c]), v[c]))
      <4>1. gf_mul(s[r][k], t[k][c]) \in gf
        BY <1>2, <3>3, MulClosed
      <4>2. QED
        BY <3>2, <3>3, <4>1, MulAdds
    <3>5. l[c] = gf_mul(s[r][k], h[c])
      OBVIOUS
    <3>6. gf_mul(gf_mul(s[r][k], t[k][c]), v[c]) = gf_mul(s[r][k], h[c])
      BY <1>2, <3>1, <3>3, MulAssoc
    <3> HIDE DEF g, h, l, x
    <3>7. QED
      BY <1>2, <3>1, <3>4, <3>5, <3>6, MulClosed
  <2> HIDE DEF g, h, l, x
  <2>2. Total(I \ {k}, x) = Xor(Total(I \ {k}, g), Total(I \ {k}, l))
    BY <1>1, <2>1, TotalXor
  <2>3. Total(I \ {k}, l) = gf_mul(s[r][k], Total(I \ {k}, h))
    BY <1>1, <1>2, <2>1, TotalMul
  <2>4. QED
    BY <2>2, <2>3 DEF Rest, g, h, x
<1>5. QED
  BY <1>3, <1>4

\* The k-th equation solved for the k-th unknown, and back.
LEMMA Solve ==
  ASSUME NEW p \in gf \ {Zero}, NEW x \in gf, NEW y \in gf, NEW z \in gf
  PROVE  y = Xor(gf_mul(p, x), z) <=> x = Xor(gf_mul(inverse[p], y), gf_mul(inverse[p], z))
<1> DEFINE q == inverse[p]
<1>1. p \in gf /\ q \in gf /\ gf_mul(p, q) = One /\ gf_mul(q, p) = One
  BY InverseIs
<1> HIDE DEF q
<1>2. gf_mul(p, x) \in gf /\ gf_mul(q, y) \in gf /\ gf_mul(q, z) \in gf
  BY <1>1, MulClosed
<1>3. ASSUME y = Xor(gf_mul(p, x), z) PROVE x = Xor(gf_mul(q, y), gf_mul(q, z))
  <2>1. gf_mul(q, y) = Xor(gf_mul(q, gf_mul(p, x)), gf_mul(q, z))
    BY <1>1, <1>2, <1>3, MulAdds
  <2>2. gf_mul(q, gf_mul(p, x)) = x
    BY <1>1, MulAssoc, MulOne
  <2>3. QED
    BY <1>2, <2>1, <2>2, XorCancel
<1>4. ASSUME x = Xor(gf_mul(q, y), gf_mul(q, z)) PROVE y = Xor(gf_mul(p, x), z)
  <2>1. gf_mul(p, x) = Xor(gf_mul(p, gf_mul(q, y)), gf_mul(p, gf_mul(q, z)))
    BY <1>1, <1>2, <1>4, MulAdds
  <2>2. gf_mul(p, gf_mul(q, y)) = y /\ gf_mul(p, gf_mul(q, z)) = z
    BY <1>1, MulAssoc, MulOne
  <2>3. QED
    BY <2>1, <2>2, XorCancel
<1>5. QED
  BY <1>3, <1>4 DEF q

LEMMA Exchange ==
  ASSUME NEW I, IsFiniteSet(I), NEW s \in Square(I), NEW t \in Square(I), NEW k \in I,
         s[k][k] # Zero, Cleared(I, s, t, k), NEW v \in Vector(I), NEW w \in Vector(I)
  PROVE  Gives(I, s, v, w) <=> Gives(I, t, [v EXCEPT ![k] = w[k]], [w EXCEPT ![k] = v[k]])
<1> DEFINE u == [v EXCEPT ![k] = w[k]]
           z == [w EXCEPT ![k] = v[k]]
           p == s[k][k]
           q == inverse[p]
           a == Rest(I, s, k, v, k)
<1>1. u \in Vector(I) /\ z \in Vector(I) /\ \A c \in I \ {k} : u[c] = v[c] /\ z[c] = w[c]
  BY DEF Vector
<1>2. u[k] = w[k] /\ z[k] = v[k] /\ v[k] \in gf /\ w[k] \in gf
  BY DEF Vector
<1> HIDE DEF u, z
<1>r. ASSUME NEW r \in I, r # k
      PROVE  /\ Rest(I, t, k, u, k) = gf_mul(inverse[s[k][k]], Rest(I, s, k, v, k))
             /\ Rest(I, t, r, u, k)
                  = Xor(Rest(I, s, r, v, k), gf_mul(s[r][k], Rest(I, t, k, u, k)))
  <2>1. \A c \in I \ {k} : u[c] = v[c]
    BY <1>1
  <2>2. QED
    BY <1>1, <1>r, <2>1, RestIs
<1>3. p \in gf \ {Zero} /\ q \in gf \ {Zero} /\ a \in gf
  BY InverseIs, TotalClosed DEF Square, Rest
<1>4. t[k][k] = q
  BY DEF Cleared
<1>5. Row(I, s, k, v) = Xor(gf_mul(p, v[k]), a)
  BY RowSplit
<1>6. Row(I, t, k, u) = Xor(gf_mul(q, w[k]), gf_mul(q, a))
  <2>1. Row(I, t, k, u) = Xor(gf_mul(q, w[k]), Rest(I, t, k, u, k))
    <3>1. Row(I, t, k, u) = Xor(gf_mul(t[k][k], u[k]), Rest(I, t, k, u, k))
      BY <1>1, RowSplit
    <3>2. QED
      BY <1>2, <1>4, <3>1
  <2>2. Rest(I, t, k, u, k) = gf_mul(q, a)
    <3>1. CASE I = {k}
      <4>1. I \ {k} = {}
        BY <3>1
      <4>2. QED
        BY <1>3, <4>1, TotalEmpty, MulZero DEF Rest
    <3>2. CASE I # {k}
      <4>1. PICK r \in I : r # k
        BY <3>2
      <4>2. QED
        BY <1>r, <4>1
    <3>3. QED
      BY <3>1, <3>2
  <2>3. QED
    BY <2>1, <2>2
<1>7. w[k] = Row(I, s, k, v) <=> z[k] = Row(I, t, k, u)
  BY <1>2, <1>3, <1>5, <1>6, Solve
<1>8. ASSUME z[k] = Row(I, t, k, u), NEW r \in I, r # k
      PROVE  Row(I, t, r, u) = Row(I, s, r, v)
  <2> DEFINE b == Rest(I, s, r, v, k)
             e == s[r][k]
             f == Rest(I, t, k, u, k)
  <2>1. b \in gf /\ e \in gf /\ f \in gf
    BY TotalClosed DEF Square, Rest
  <2>2. t[r][k] = gf_mul(e, q)
    BY <1>4, <1>8 DEF Cleared
  <2>3. Row(I, t, r, u) = Xor(gf_mul(gf_mul(e, q), w[k]), Xor(b, gf_mul(e, f)))
    <3>1. Row(I, t, r, u) = Xor(gf_mul(t[r][k], u[k]), Rest(I, t, r, u, k))
      BY <1>1, <1>8, RowSplit
    <3>2. Rest(I, t, r, u, k) = Xor(b, gf_mul(e, f))
      BY <1>8, <1>r
    <3>3. QED
      BY <1>2, <2>2, <3>1, <3>2
  <2>4. v[k] = Xor(gf_mul(q, w[k]), f)
    <3>1. Row(I, t, k, u) = Xor(gf_mul(t[k][k], u[k]), f)
      BY <1>1, RowSplit
    <3>2. QED
      BY <1>2, <1>4, <1>8, <3>1
  <2>5. Row(I, s, r, v) = Xor(gf_mul(e, v[k]), b)
    BY RowSplit
  <2> HIDE DEF b, e, f, u, z, p, q, a
  <2>6. gf_mul(e, v[k]) = Xor(gf_mul(gf_mul(e, q), w[k]), gf_mul(e, f))
    <3>1. q \in gf /\ gf_mul(q, w[k]) \in gf
      BY <1>2, <1>3, MulClosed
    <3>2. gf_mul(e, v[k]) = Xor(gf_mul(e, gf_mul(q, w[k])), gf_mul(e, f))
      BY <2>1, <2>4, <3>1, MulAdds
    <3>3. QED
      BY <1>2, <2>1, <3>1, <3>2, MulAssoc
  <2> DEFINE g == gf_mul(gf_mul(e, q), w[k])
             h == gf_mul(e, f)
  <2>7. g \in gf /\ h \in gf
    BY <1>2, <1>3, <2>1, MulClosed
  <2> HIDE DEF g, h
  <2>8. Xor(g, Xor(b, h)) = Xor(Xor(g, h), b)
    BY <2>1, <2>7, XorAssoc, XorComm, XorClosed
  <2>9. QED
    BY <2>3, <2>5, <2>6, <2>8 DEF g, h
<1>9. \A r \in I : (z[k] = Row(I, t, k, u)) =>
                     (w[r] = Row(I, s, r, v) <=> z[r] = Row(I, t, r, u))
  BY <1>1, <1>7, <1>8
<1>10. Gives(I, s, v, w) <=> Gives(I, t, u, z)
  BY <1>7, <1>9 DEF Gives
<1>11. QED
  BY <1>10 DEF u, z
-----------------------------------------------------------------------------
(***************************************************************************)
(* Rows and columns that change places.                                    *)
(***************************************************************************)
Swapped(v, a, b) == [v EXCEPT ![a] = v[b], ![b] = v[a]]

LEMMA SwappedIs ==
  ASSUME NEW I, NEW S, NEW v \in [I -> S], NEW a \in I, NEW b \in I
  PROVE  /\ Swapped(v, a, b) \in [I -> S]
         /\ \A i \in I : Swapped(v, a, b)[i] = v[IF i = b THEN a ELSE IF i = a THEN b ELSE i]
BY DEF Swapped

LEMMA RowsSwapped ==
  ASSUME NEW I, NEW s \in Square(I), NEW a \in I, NEW b \in I,
         NEW v \in Vector(I), NEW w \in Vector(I)
  PROVE  /\ Swapped(s, a, b) \in Square(I)
         /\ Gives(I, s, v, w) <=> Gives(I, Swapped(s, a, b), v, Swapped(w, a, b))
<1> DEFINE t == Swapped(s, a, b)
           z == Swapped(w, a, b)
           e(i) == IF i = b THEN a ELSE IF i = a THEN b ELSE i
<1>1. t \in Square(I) /\ \A i \in I : t[i] = s[e(i)]
  BY DEF Square, Swapped
<1>2. \A i \in I : z[i] = w[e(i)]
  BY SwappedIs DEF Vector
<1> HIDE DEF t, z
<1>3. \A i \in I : Row(I, t, i, v) = Row(I, s, e(i), v)
  BY <1>1 DEF Row, Terms
<1>4. \A i \in I : e(i) \in I /\ e(e(i)) = i
  OBVIOUS
<1> HIDE DEF e
<1>5. ASSUME Gives(I, s, v, w) PROVE Gives(I, t, v, z)
  BY <1>2, <1>3, <1>4, <1>5 DEF Gives
<1>6. ASSUME Gives(I, t, v, z) PROVE Gives(I, s, v, w)
  BY <1>2, <1>3, <1>4, <1>6 DEF Gives
<1>7. QED
  BY <1>1, <1>5, <1>6 DEF t, z

LEMMA ColumnsChanged ==
  ASSUME NEW I, IsFiniteSet(I), NEW s \in Square(I), NEW a \in I, NEW b \in I,
         NEW t \in Square(I), \A r \in I : t[r] = Swapped(s[r], a, b),
         NEW v \in Vector(I), NEW w \in Vector(I)
  PROVE  Gives(I, t, v, w) <=> Gives(I, s, Swapped(v, a, b), w)
<1> DEFINE u == Swapped(v, a, b)
           e == [i \in I |-> IF i = b THEN a ELSE IF i = a THEN b ELSE i]
<1>1. u \in Vector(I) /\ \A i \in I : u[i] = v[e[i]]
  <2>1. v \in [I -> gf]
    BY DEF Vector
  <2>2. u \in [I -> gf] /\ \A i \in I : u[i] = v[IF i = b THEN a ELSE IF i = a THEN b ELSE i]
    <3>1. ASSUME NEW h \in [I -> gf]
          PROVE  /\ Swapped(h, a, b) \in [I -> gf]
                 /\ \A i \in I : Swapped(h, a, b)[i] = h[IF i = b THEN a ELSE IF i = a THEN b ELSE i]
      BY <3>1 DEF Swapped
    <3>2. QED
      BY <2>1, <3>1, Zenon
  <2>3. \A i \in I : e[i] = IF i = b THEN a ELSE IF i = a THEN b ELSE i
    OBVIOUS
  <2> HIDE DEF u, e
  <2>4. QED
    BY <2>2, <2>3 DEF Vector
<1> HIDE DEF u
<1>2. /\ \A i \in I : e[i] \in I /\ e[e[i]] = i
      /\ \A i, j \in I : e[i] = e[j] => i = j
  OBVIOUS
<1>3. \A r, i \in I : t[r][i] = s[r][e[i]]
  <2> TAKE r, i \in I
  <2>1. s[r] \in [I -> gf] /\ t[r] = Swapped(s[r], a, b)
    BY DEF Square
  <2>2. QED
    BY <1>2, <2>1 DEF Swapped
<1> HIDE DEF e
<1>4. {e[i] : i \in I} = I
  <2>1. \A j \in I : e[j] \in I /\ j = e[e[j]]
    BY <1>2
  <2>2. QED
    BY <2>1
<1>5. ASSUME NEW r \in I PROVE Row(I, t, r, v) = Row(I, s, r, u)
  <2> DEFINE g == Terms(I, s, r, u)
             k == Terms(I, t, r, v)
  <2>1. \A i \in I : g[e[i]] \in gf /\ k[i] = g[e[i]]
    <3> TAKE i \in I
    <3>1. e[i] \in I /\ u[e[i]] = v[i] /\ t[r][i] = s[r][e[i]]
      BY <1>1, <1>2, <1>3
    <3>2. g[e[i]] \in gf /\ g[e[i]] = gf_mul(s[r][e[i]], u[e[i]])
      BY <1>1, <3>1, TermsIn
    <3>3. k[i] = gf_mul(t[r][i], v[i])
      BY TermsIn
    <3>4. QED
      BY <3>1, <3>2, <3>3
  <2> HIDE DEF g, k
  <2>2. Total({e[i] : i \in I}, g) = Total(I, k)
    BY <1>2, <2>1, TotalImage
  <2>3. QED
    BY <1>4, <2>2 DEF Row, g, k
<1>6. QED
  BY <1>5 DEF Gives, u
-----------------------------------------------------------------------------
(***************************************************************************)
(* The lists erased_blocks and fec_block_nos: numbers in ascending order,  *)
(* each at the place that is the count of those below it.                  *)
(***************************************************************************)
Below(S, x) == {y \in S : y < x}
Rank(S, x)  == Cardinality(Below(S, x))

LEMMA RankIs ==
  ASSUME NEW S \in SUBSET Nat, IsFiniteSet(S), NEW x \in Nat
  PROVE  /\ Rank(S, x) \in Nat /\ Rank(S, x) <= Cardinality(S)
         /\ x = 0 => Rank(S, x) = 0
         /\ x \in S => Rank(S, x + 1) = Rank(S, x) + 1
         /\ x \notin S => Rank(S, x + 1) = Rank(S, x)
         /\ (\A y \in S : y < x) => Rank(S, x) = Cardinality(S)
<1>0. \A y \in S : y \in Nat /\ ~(y < 0) /\ (y < x + 1 <=> y < x \/ y = x)
  <2> TAKE y \in S
  <2>1. y \in Nat
    OBVIOUS
  <2>2. QED
    BY <2>1
<1>1. IsFiniteSet(Below(S, x)) /\ Rank(S, x) \in Nat /\ Rank(S, x) <= Cardinality(S)
  <2>1. Below(S, x) \in SUBSET S
    BY DEF Below
  <2>2. QED
    BY <2>1, FS_Subset, FS_CardinalityType DEF Rank
<1>2. ASSUME x = 0 PROVE Rank(S, x) = 0
  <2>1. Below(S, x) = {}
    BY <1>0, <1>2 DEF Below
  <2>2. QED
    BY <2>1, FS_EmptySet DEF Rank
<1>3. ASSUME x \in S PROVE Rank(S, x + 1) = Rank(S, x) + 1
  <2>1. Below(S, x + 1) = Below(S, x) \cup {x} /\ x \notin Below(S, x)
    <3>1. ~(x < x)
      OBVIOUS
    <3>2. \A y : y \in Below(S, x + 1) <=> y \in Below(S, x) \cup {x}
      BY <1>0, <1>3, Zenon DEF Below
    <3>3. QED
      BY <3>1, <3>2, Zenon DEF Below
  <2>2. QED
    BY <1>1, <2>1, FS_AddElement DEF Rank
<1>4. ASSUME x \notin S PROVE Rank(S, x + 1) = Rank(S, x)
  <2>1. Below(S, x + 1) = Below(S, x)
    BY <1>0, <1>4 DEF Below
  <2>2. QED
    BY <2>1 DEF Rank
<1>5. ASSUME \A y \in S : y < x PROVE Rank(S, x) = Cardinality(S)
  <2>1. Below(S, x) = S
    BY <1>5 DEF Below
  <2>2. QED
    BY <2>1 DEF Rank
<1>6. QED
  BY <1>1, <1>2, <1>3, <1>4, <1>5

LEMMA RankGrows ==
  ASSUME NEW S \in SUBSET Nat, IsFiniteSet(S), NEW x \in S, NEW y \in S, x < y
  PROVE  Rank(S, x) < Rank(S, y)
<1>1. x + 1 \in Nat /\ Rank(S, x + 1) = Rank(S, x) + 1 /\ Rank(S, x) \in Nat
  BY RankIs
<1>2. Below(S, x + 1) \in SUBSET Below(S, y) /\ Below(S, y) \in SUBSET S
  <2>1. \A z \in S : z \in Nat
    OBVIOUS
  <2>2. x \in Nat /\ y \in Nat
    OBVIOUS
  <2>3. \A z \in S : z < x + 1 => z < y
    BY <2>1, <2>2
  <2>4. QED
    BY <2>3 DEF Below
<1>3. IsFiniteSet(Below(S, y))
  BY <1>2, FS_Subset
<1>4. Rank(S, x + 1) <= Rank(S, y)
  BY <1>2, <1>3, FS_Subset DEF Rank
<1>5. Rank(S, y) \in Nat
  BY RankIs
<1>6. QED
  BY <1>1, <1>4, <1>5

LEMMA AscendingIs ==
  ASSUME NEW S \in SUBSET Nat, IsFiniteSet(S)
  PROVE  /\ Cardinality(S) \in Nat
         /\ Ascending(S) \in [0..(Cardinality(S) - 1) -> S]
         /\ \A i \in 0..(Cardinality(S) - 1) : Rank(S, Ascending(S)[i]) = i
         /\ \A x \in S : /\ Rank(S, x) \in 0..(Cardinality(S) - 1)
                         /\ Ascending(S)[Rank(S, x)] = x
<1> DEFINE n == Cardinality(S)
           I == 0..(n - 1)
           a == Ascending(S)
           rank == [x \in S |-> Rank(S, x)]
<1>1. n \in Nat /\ IsFiniteSet(I) /\ Cardinality(I) = n
  <2>1. n \in Nat
    BY FS_CardinalityType
  <2>2. 0 \in Int /\ n - 1 \in Int
    BY <2>1
  <2>3. IsFiniteSet(I) /\ Cardinality(I) = IF 0 > n - 1 THEN 0 ELSE (n - 1) - 0 + 1
    BY <2>2, FS_Interval
  <2>4. QED
    BY <2>1, <2>3
<1>2. ASSUME NEW x \in S PROVE Rank(S, x) \in I
  <2>1. x + 1 \in Nat /\ Rank(S, x + 1) = Rank(S, x) + 1 /\ Rank(S, x) \in Nat
    BY RankIs
  <2>2. Rank(S, x + 1) <= n
    BY <2>1, RankIs
  <2>3. QED
    BY <1>1, <2>1, <2>2
<1>3. ASSUME NEW x \in S, NEW y \in S, Rank(S, x) = Rank(S, y) PROVE x = y
  <2>1. x \in Nat /\ y \in Nat
    OBVIOUS
  <2>2. Rank(S, x) \in Nat
    BY <2>1, RankIs
  <2>3. ~(x < y) /\ ~(y < x)
    BY <1>3, <2>2, RankGrows
  <2>4. QED
    BY <2>1, <2>3
<1>4. rank \in Injection(S, I)
  <2>1. rank \in [S -> I]
    BY <1>2
  <2>2. \A x, y \in S : rank[x] = rank[y] => x = y
    BY <1>3
  <2>3. QED
    BY <2>1, <2>2 DEF Injection, IsInjective
<1>5. rank \in Surjection(S, I)
  <2> HIDE DEF I, rank
  <2>1. Cardinality(S) = Cardinality(I)
    BY <1>1
  <2>2. QED
    BY <1>1, <1>4, <2>1, FS_Injection
<1>6. \A i \in I : \E x \in S : Rank(S, x) = i
  BY <1>5 DEF Surjection
<1>7. \A i \in I : a[i] \in S /\ Rank(S, a[i]) = i
  <2> TAKE i \in I
  <2>1. PICK x \in S : Rank(S, x) = i
    BY <1>6
  <2>2. a[i] = CHOOSE y \in S : Rank(S, y) = i
    BY DEF Ascending, Rank, Below
  <2>3. QED
    BY <2>1, <2>2
<1>8. a \in [I -> S]
  <2>1. a = [i \in I |-> a[i]]
    <3> DEFINE f(i) == CHOOSE x \in S : Cardinality({y \in S : y < x}) = i
    <3>1. a = [i \in I |-> f(i)]
      BY Zenon DEF Ascending
    <3> HIDE DEF a, f, I
    <3>2. QED
      BY <3>1
  <2> HIDE DEF a, I
  <2>2. QED
    BY <1>7, <2>1, Zenon
<1>9. \A x \in S : a[Rank(S, x)] = x
  BY <1>2, <1>3, <1>7
<1>10. QED
  BY <1>1, <1>2, <1>7, <1>8, <1>9
\* The walk of reduce: what one column adds to the index.
Walked(idx, c) ==
  IF c = 0 THEN 0
  ELSE IF idx[c - 1] <= Last /\ erased_blocks[idx[c - 1]] = c - 1
       THEN idx[c - 1] + 1
       ELSE idx[c - 1]

LEMMA NumbersFinite ==
  /\ IsFiniteSet(DataNos) /\ IsFiniteSet(FecNos)
  /\ DataNos \in SUBSET Nat /\ FecNos \in SUBSET Nat
  /\ \A E \in SUBSET DataNos : E \in SUBSET Nat /\ IsFiniteSet(E)
  /\ \A C \in SUBSET FecNos : C \in SUBSET Nat /\ IsFiniteSet(C)
<1>1. 0 \in Int /\ D - 1 \in Int /\ F - 1 \in Int
  BY Bounds
<1>2. IsFiniteSet(DataNos) /\ IsFiniteSet(FecNos)
  BY <1>1, FS_Interval DEF DataNos, FecNos
<1>3. DataNos \in SUBSET Nat /\ FecNos \in SUBSET Nat
  BY <1>1 DEF DataNos, FecNos
<1>4. QED
  BY <1>2, <1>3, FS_Subset

\* The index counts the erased DATA left behind.
LEMMA ErasedIdxIs ==
  ASSUME NEW E \in SUBSET DataNos, erased_blocks = Ascending(E), Last = Cardinality(E) - 1
  PROVE  /\ \A c \in 0..D : erasedIdx[c] = Rank(E, c)
         /\ erasedIdx[D] = Last + 1
         /\ Known = DataNos \ E
<1>1. /\ E \in SUBSET Nat /\ IsFiniteSet(E) /\ Cardinality(E) \in Nat /\ D \in Nat
      /\ \A c \in 0..D : c \in Nat
  BY NumbersFinite, FS_CardinalityType, Bounds
<1> DEFINE count == [c \in 0..D |-> Rank(E, c)]
<1>2. ASSUME NEW idx, NEW c \in 0..D, c # 0 => idx[c - 1] = Rank(E, c - 1)
      PROVE  Walked(idx, c) = Rank(E, c)
  <2>1. CASE c = 0
    BY <1>1, <2>1, RankIs DEF Walked
  <2>2. CASE c # 0
    <3>1. PICK b \in Nat : b = c - 1 /\ c = b + 1
      BY <1>1, <2>2
    <3>2. idx[b] = Rank(E, b) /\ Rank(E, b) \in Nat /\ Rank(E, b) <= Cardinality(E)
      BY <1>1, <1>2, <2>2, <3>1, RankIs
    <3>3. Walked(idx, c) = IF Rank(E, b) <= Last /\ erased_blocks[Rank(E, b)] = b
                           THEN Rank(E, b) + 1 ELSE Rank(E, b)
      BY <2>2, <3>1, <3>2 DEF Walked
    <3>4. CASE b \in E
      <4>1. Rank(E, b) \in 0..(Cardinality(E) - 1) /\ erased_blocks[Rank(E, b)] = b
        BY <1>1, <3>4, AscendingIs
      <4>2. Rank(E, b) <= Last /\ Rank(E, b + 1) = Rank(E, b) + 1
        BY <1>1, <3>4, <4>1, RankIs
      <4>3. QED
        BY <3>1, <3>3, <4>1, <4>2
    <3>5. CASE b \notin E
      <4>1. Rank(E, b + 1) = Rank(E, b)
        BY <1>1, <3>5, RankIs
      <4>2. ASSUME Rank(E, b) <= Last PROVE erased_blocks[Rank(E, b)] # b
        <5>1. Rank(E, b) \in 0..(Cardinality(E) - 1)
          BY <1>1, <3>2, <4>2
        <5>2. erased_blocks[Rank(E, b)] \in E
          BY <1>1, <5>1, AscendingIs
        <5>3. QED
          BY <3>5, <5>2
      <4>3. QED
        BY <3>1, <3>3, <4>1, <4>2
    <3>6. QED
      BY <3>4, <3>5
  <2>3. QED
    BY <2>1, <2>2
<1>3. \A c \in 0..D : Walked(count, c) = Rank(E, c)
  <2> TAKE c \in 0..D
  <2>1. ASSUME c # 0 PROVE count[c - 1] = Rank(E, c - 1)
    <3>1. c - 1 \in 0..D
      BY <1>1, <2>1
    <3>2. QED
      BY <3>1
  <2> HIDE DEF count
  <2>2. QED
    BY <1>2, <2>1
<1>4. count = [c \in 0..D |-> Walked(count, c)]
  BY <1>3
<1> HIDE DEF count
<1>5. erasedIdx = [c \in 0..D |-> Walked(erasedIdx, c)]
  BY <1>4 DEF erasedIdx, Walked
<1> DEFINE whole == erasedIdx
           W == {c \in 0..D : whole[c] # Rank(E, c)}
<1>6. whole = [c \in 0..D |-> Walked(whole, c)]
  BY <1>5
<1> HIDE DEF whole
<1>7. \A c \in 0..D : whole[c] = Walked(whole, c)
  BY <1>6
<1>8. W = {}
  <2>1. SUFFICES ASSUME W # {} PROVE FALSE
    OBVIOUS
  <2>2. W \in SUBSET Nat
    BY <1>1
  <2>3. PICK c \in W : \A b \in W : c <= b
    BY <2>1, <2>2, LeastNumber
  <2>4. c \in 0..D /\ whole[c] # Rank(E, c)
    BY <2>3
  <2>5. ASSUME c # 0 PROVE whole[c - 1] = Rank(E, c - 1)
    <3>1. c - 1 \in 0..D /\ c - 1 \notin W
      BY <1>1, <2>3, <2>4, <2>5
    <3>2. QED
      BY <3>1
  <2> HIDE DEF W
  <2>6. Walked(whole, c) = Rank(E, c)
    BY <1>2, <2>4, <2>5
  <2>7. QED
    BY <1>7, <2>4, <2>6
<1>9. \A c \in 0..D : erasedIdx[c] = Rank(E, c)
  BY <1>8 DEF whole
<1>10. erasedIdx[D] = Last + 1
  <2>1. \A y \in E : y < D
    BY <1>1 DEF DataNos
  <2>2. Rank(E, D) = Cardinality(E)
    BY <1>1, <2>1, RankIs
  <2>3. D \in 0..D
    BY <1>1
  <2>4. QED
    BY <1>1, <1>9, <2>2, <2>3
<1>11. Known = DataNos \ E
  <2>1. ASSUME NEW c \in DataNos PROVE erasedIdx[c + 1] = erasedIdx[c] <=> c \notin E
    <3>1. c \in Nat /\ c \in 0..D /\ c + 1 \in 0..D
      BY <1>1 DEF DataNos
    <3>2. erasedIdx[c + 1] = Rank(E, c + 1) /\ erasedIdx[c] = Rank(E, c)
      BY <1>9, <3>1
    <3>3. /\ Rank(E, c) \in Nat
          /\ c \in E => Rank(E, c + 1) = Rank(E, c) + 1
          /\ c \notin E => Rank(E, c + 1) = Rank(E, c)
      BY <1>1, <3>1, RankIs
    <3>4. QED
      BY <3>2, <3>3
  <2>2. QED
    BY <2>1 DEF Known
<1>12. QED
  BY <1>9, <1>10, <1>11
-----------------------------------------------------------------------------
(***************************************************************************)
(* One step of invert_mat: the pivot, and the matrix it leaves.            *)
(***************************************************************************)
\* The new matrix, of the one whose rows are swapped already.
Eliminated(s, t, k) ==
  \A r \in Indices :
    t[r] = IF r = k THEN Divided(s[k], k)
           ELSE IF Divided(s[k], k) = UnitRow(k) THEN s[r]
           ELSE Subtracted(s[r], Divided(s[k], k), k)

LEMMA EliminatedClears ==
  ASSUME NEW s \in Square(Indices), NEW t, NEW k \in Indices, Eliminated(s, t, k), s[k][k] # Zero
  PROVE  Cleared(Indices, s, t, k)
<1> DEFINE p == s[k][k]
           d == Divided(s[k], k)
<1>1. p \in gf \ {Zero} /\ inverse[p] \in gf
  BY InverseIs DEF Square
<1>2. d[k] = inverse[p] /\ \A c \in Indices \ {k} : d[c] = gf_mul(inverse[p], s[k][c])
  <2>0. \A c \in Indices : s[k][c] \in gf
    BY DEF Square
  <2>1. CASE p = One
    <3>1. inverse[p] = One /\ d = s[k]
      BY <1>1, <2>1 DEF Divided, inverse
    <3>2. QED
      BY <2>0, <2>1, <3>1, MulOne
  <2>2. CASE p # One
    <3>1. d[k] = gf_mul(inverse[p], One)
          /\ \A c \in Indices \ {k} : d[c] = gf_mul(inverse[p], s[k][c])
      BY <2>2 DEF Divided
    <3>2. QED
      BY <1>1, <3>1, MulOne
  <2>3. QED
    BY <2>1, <2>2
<1>3. t[k] = d
  BY DEF Eliminated
<1>4. \A c \in Indices : d[c] \in gf
  <2>1. \A c \in Indices \ {k} : gf_mul(inverse[p], s[k][c]) \in gf
    BY <1>1, MulClosed DEF Square
  <2>2. QED
    BY <1>1, <1>2, <2>1
<1>5. ASSUME NEW r \in Indices \ {k}, NEW c \in Indices \ {k}
      PROVE  t[r][k] = gf_mul(s[r][k], d[k]) /\ t[r][c] = Xor(s[r][c], gf_mul(s[r][k], d[c]))
  <2>0. s[r][k] \in gf /\ s[r][c] \in gf
    BY DEF Square
  <2>1. CASE d = UnitRow(k)
    <3>1. d[k] = One /\ d[c] = Zero
      BY <2>1 DEF UnitRow
    <3>2. t[r] = s[r]
      BY <2>1 DEF Eliminated
    <3>3. QED
      BY <2>0, <3>1, <3>2, MulOne, MulZero, XorZero
  <2>2. CASE d # UnitRow(k)
    <3>1. t[r] = Subtracted(s[r], d, k)
      BY <2>2 DEF Eliminated
    <3>2. t[r][k] = Xor(Zero, gf_mul(s[r][k], d[k])) /\ t[r][c] = Xor(s[r][c], gf_mul(s[r][k], d[c]))
      BY <3>1 DEF Subtracted, addmul
    <3>3. QED
      BY <2>0, <1>4, <3>2, MulClosed, XorZero
  <2>3. QED
    BY <2>1, <2>2
<1>6. \A r \in Indices \ {k} : t[r][k] = gf_mul(s[r][k], d[k])
  <2> TAKE r \in Indices \ {k}
  <2>0. s[r][k] \in gf
    BY DEF Square
  <2>1. CASE d = UnitRow(k)
    <3>1. d[k] = One /\ t[r] = s[r]
      BY <2>1 DEF UnitRow, Eliminated
    <3>2. QED
      BY <2>0, <3>1, MulOne
  <2>2. CASE d # UnitRow(k)
    <3>1. t[r] = Subtracted(s[r], d, k)
      BY <2>2 DEF Eliminated
    <3>2. t[r][k] = Xor(Zero, gf_mul(s[r][k], d[k]))
      BY <3>1 DEF Subtracted, addmul
    <3>3. QED
      BY <2>0, <1>4, <3>2, MulClosed, XorZero
  <2>3. QED
    BY <2>1, <2>2
<1> HIDE DEF d, p
<1>7. /\ t[k][k] = inverse[s[k][k]]
      /\ \A c \in Indices \ {k} : t[k][c] = gf_mul(inverse[s[k][k]], s[k][c])
  BY <1>2, <1>3 DEF p
<1>8. QED
  BY <1>3, <1>5, <1>6, <1>7 DEF Cleared

LEMMA EliminatedIsSquare ==
  ASSUME NEW s \in Square(Indices), NEW k \in Indices, s[k][k] # Zero,
         NEW t, t = [r \in Indices |-> t[r]], Eliminated(s, t, k)
  PROVE  t \in Square(Indices)
<1>1. s[k][k] \in gf \ {Zero} /\ inverse[s[k][k]] \in gf /\ One \in gf /\ Zero \in gf
  BY InverseIs, ZeroOne DEF Square
<1>2. Divided(s[k], k) \in [Indices -> gf]
  <2>1. CASE s[k][k] = One
    BY <2>1 DEF Divided, Square
  <2>2. CASE s[k][k] # One
    <3>1. \A c \in Indices : gf_mul(inverse[s[k][k]], IF c = k THEN One ELSE s[k][c]) \in gf
      BY <1>1, MulClosed DEF Square
    <3>2. QED
      BY <2>2, <3>1 DEF Divided
  <2>3. QED
    BY <2>1, <2>2
<1>3. ASSUME NEW r \in Indices PROVE Subtracted(s[r], Divided(s[k], k), k) \in [Indices -> gf]
  <2> DEFINE d == Divided(s[k], k)
  <2> HIDE DEF d
  <2>1. \A c \in Indices : addmul(IF c = k THEN Zero ELSE s[r][c], s[r][k], d[c]) \in gf
    <3>1. \A c \in Indices : gf_mul(s[r][k], d[c]) \in gf
      BY <1>2, MulClosed DEF Square, d
    <3>2. QED
      BY <1>1, <3>1, XorClosed DEF addmul, Square
  <2>2. Subtracted(s[r], d, k) \in [Indices -> gf]
    BY <2>1 DEF Subtracted
  <2>3. QED
    BY <2>2 DEF d
<1>4. \A r \in Indices : t[r] \in [Indices -> gf]
  BY <1>2, <1>3 DEF Eliminated, Square
<1>5. QED
  BY <1>4 DEF Square

Sized == \E n \in Nat \ {0} : Indices = 0..(n - 1)

LEMMA SizedIs ==
  ASSUME Sized
  PROVE  /\ IsFiniteSet(Indices) /\ Indices \in SUBSET Nat
         /\ Last \in Nat /\ Cardinality(Indices) = Last + 1 /\ Indices = 0..Last
<1>1. PICK n \in Nat \ {0} : Indices = 0..(n - 1)
  BY DEF Sized
<1>2. IsFiniteSet(Indices) /\ Cardinality(Indices) = n
  <2>1. 0 \in Int /\ n - 1 \in Int
    BY <1>1
  <2>2. IsFiniteSet(0..(n - 1)) /\ Cardinality(0..(n - 1)) = IF 0 > n - 1 THEN 0 ELSE (n - 1) - 0 + 1
    BY <2>1, FS_Interval
  <2>3. QED
    BY <1>1, <2>2
<1>3. Last = n - 1
  BY <1>2 DEF Last
<1>4. QED
  BY <1>1, <1>2, <1>3

\* The pivot found is one: on the diagonal, or the first of the candidates.
LEMMA PivotIs ==
  ASSUME Sized, TypeOK, DiagonalServes(col) \/ Candidates # {}
  PROVE  \E irow, icol \in Indices :
           /\ Pivot[1] = irow /\ Pivot[2] = icol
           /\ matrix[irow][icol] # Zero
           /\ ipiv[irow] = 0 /\ ipiv[icol] = 0
           /\ DiagonalServes(col) => irow = col /\ icol = col
<1>1. \A i \in Indices : ipiv[i] # 1 <=> ipiv[i] = 0
  BY DEF TypeOK
<1>2. CASE DiagonalServes(col)
  <2>1. Pivot = <<col, col>>
    BY <1>2 DEF Pivot
  <2>2. QED
    BY <1>1, <1>2, <2>1 DEF TypeOK, DiagonalServes
<1>3. CASE ~DiagonalServes(col)
  <2> DEFINE First(p) == \A q \in Candidates : p[1] < q[1] \/ (p[1] = q[1] /\ p[2] <= q[2])
             Rows == {p[1] : p \in Candidates}
  <2>1. Candidates # {} /\ Candidates \in SUBSET (Indices \X Indices)
    BY <1>3 DEF Candidates
  <2>2. Indices \in SUBSET Nat
    BY SizedIs
  <2>3. Rows # {} /\ Rows \in SUBSET Nat
    BY <2>1, <2>2
  <2>4. PICK r \in Rows : \A q \in Rows : r <= q
    BY <2>3, LeastNumber
  <2> DEFINE Columns == {p[2] : p \in {q \in Candidates : q[1] = r}}
  <2>5. Columns # {} /\ Columns \in SUBSET Nat
    BY <2>1, <2>2, <2>4
  <2>6. PICK c \in Columns : \A q \in Columns : c <= q
    BY <2>5, LeastNumber
  <2>7. PICK p \in Candidates : p[1] = r /\ p[2] = c
    BY <2>6
  <2>8. First(p)
    <3> TAKE q \in Candidates
    <3>1. q[1] \in Rows /\ q[1] \in Nat /\ r \in Nat /\ q[2] \in Nat /\ c \in Nat
      BY <2>1, <2>2, <2>3, <2>4, <2>5, <2>6
    <3>2. r <= q[1]
      BY <2>4, <3>1
    <3>3. q[1] = r => c <= q[2]
      BY <2>6
    <3>4. QED
      BY <2>7, <3>1, <3>2, <3>3
  <2>9. Pivot = CHOOSE q \in Candidates : First(q)
    BY <1>3 DEF Pivot
  <2>10. Pivot \in Candidates
    <3> HIDE DEF First
    <3>1. QED
      BY <2>7, <2>8, <2>9
  <2>11. PICK irow \in Indices, icol \in Indices : Pivot = <<irow, icol>>
    BY <2>1, <2>10
  <2>12. ipiv[irow] # 1 /\ ipiv[icol] = 0 /\ matrix[irow][icol] # Zero
    BY <2>10, <2>11 DEF Candidates
  <2>13. QED
    BY <1>1, <1>3, <2>11, <2>12
<1>4. QED
  BY <1>2, <1>3

LEMMA EliminateIs ==
  ASSUME Sized, TypeOK, EliminateColumn
  PROVE  \E irow, icol \in Indices :
           /\ matrix[irow][icol] # Zero /\ ipiv[irow] = 0 /\ ipiv[icol] = 0
           /\ DiagonalServes(col) => irow = col /\ icol = col
           /\ ipiv' = [ipiv EXCEPT ![icol] = 1]
           /\ indxr' = [indxr EXCEPT ![col] = irow] /\ indxc' = [indxc EXCEPT ![col] = icol]
           /\ Indices' = Indices /\ matrix' \in Square(Indices)
           /\ Cleared(Indices, Swapped(matrix, irow, icol), matrix', icol)
<1>1. DiagonalServes(col) \/ Candidates # {}
  BY DEF EliminateColumn
<1>2. PICK irow \in Indices, icol \in Indices :
           /\ Pivot[1] = irow /\ Pivot[2] = icol
           /\ matrix[irow][icol] # Zero
           /\ ipiv[irow] = 0 /\ ipiv[icol] = 0
           /\ DiagonalServes(col) => irow = col /\ icol = col
  BY <1>1, PivotIs
<1> DEFINE s == Swapped(matrix, irow, icol)
           t == matrix'
<1>3. s \in Square(Indices) /\ s[icol] = matrix[irow] /\ s[icol][icol] # Zero
  BY <1>2 DEF Swapped, Square, TypeOK
<1>4. t = [r \in Indices |->
             IF r = icol THEN Divided(s[icol], icol)
             ELSE IF Divided(s[icol], icol) = UnitRow(icol) THEN s[r]
             ELSE Subtracted(s[r], Divided(s[icol], icol), icol)]
  BY <1>2 DEF EliminateColumn, Swapped
<1>5. DOMAIN t = Indices
  BY <1>4
<1> HIDE DEF s
<1>6. Eliminated(s, t, icol) /\ t = [r \in Indices |-> t[r]]
  BY <1>4 DEF Eliminated
<1> HIDE DEF t
<1>7. t \in Square(Indices) /\ Cleared(Indices, s, t, icol)
  BY <1>3, <1>6, EliminatedIsSquare, EliminatedClears
<1>8. /\ ipiv' = [ipiv EXCEPT ![icol] = 1]
      /\ indxr' = [indxr EXCEPT ![col] = irow] /\ indxc' = [indxc EXCEPT ![col] = icol]
  <2>1. /\ ipiv' = [ipiv EXCEPT ![icol] = @ + 1]
        /\ indxr' = [indxr EXCEPT ![col] = irow] /\ indxc' = [indxc EXCEPT ![col] = icol]
    BY <1>2 DEF EliminateColumn
  <2>2. QED
    BY <1>2, <2>1 DEF TypeOK
<1>9. Indices' = Indices
  BY <1>5 DEF Indices, t
<1>10. QED
  BY <1>2, <1>7, <1>8, <1>9 DEF s, t
-----------------------------------------------------------------------------
(***************************************************************************)
(* Types: TypeOK, and where the lists of the call come from.               *)
(***************************************************************************)
\* fec_decode was called for the erased DATA E and the FEC packets C.
CalledFor(E, C) ==
  /\ E # {} /\ Cardinality(E) = Cardinality(C)
  /\ erased_blocks = Ascending(E) /\ fec_block_nos = Ascending(C)
  /\ Indices = 0..(Cardinality(E) - 1)

DecodeShape ==
  Decoding => /\ sent \in [DataNos -> gf]
              /\ \E E \in SUBSET DataNos, C \in SUBSET FecNos : CalledFor(E, C)

TypeInv ==
  /\ TypeOK /\ Sized /\ DecodeShape
  /\ original \in Square(Indices)
  /\ stage \in {"received", "reduced", "decoded"} => Decoding

LEMMA SumClosed == ASSUME NEW S, NEW g PROVE Sum(S, LAMBDA i : g[i]) \in gf
BY DEF Sum, gf

LEMMA EncodedIn == ASSUME NEW block, NEW f PROVE Encoded(block, f) \in gf
BY DEF Encoded, Sum, gf

LEMMA CallIs ==
  ASSUME NEW E \in SUBSET DataNos, NEW C \in SUBSET FecNos, CalledFor(E, C)
  PROVE  /\ Cardinality(E) \in Nat \ {0} /\ Last = Cardinality(E) - 1
         /\ erased_blocks \in [Indices -> E] /\ fec_block_nos \in [Indices -> C]
         /\ Indices = 0..(Cardinality(E) - 1)
         /\ \A i, j \in Indices : /\ erased_blocks[i] = erased_blocks[j] => i = j
                                  /\ fec_block_nos[i] = fec_block_nos[j] => i = j
         /\ \A d \in E : \E i \in Indices : erased_blocks[i] = d
<1>1. /\ E \in SUBSET Nat /\ IsFiniteSet(E) /\ C \in SUBSET Nat /\ IsFiniteSet(C)
      /\ Cardinality(E) \in Nat /\ Cardinality(E) # 0
  BY NumbersFinite, FS_CardinalityType, FS_EmptySet DEF CalledFor
<1>2. Indices = 0..(Cardinality(E) - 1) /\ Indices = 0..(Cardinality(C) - 1)
  BY DEF CalledFor
<1>3. /\ erased_blocks \in [Indices -> E] /\ fec_block_nos \in [Indices -> C]
      /\ \A i \in Indices : Rank(E, erased_blocks[i]) = i /\ Rank(C, fec_block_nos[i]) = i
      /\ \A d \in E : Rank(E, d) \in Indices /\ erased_blocks[Rank(E, d)] = d
  BY <1>1, <1>2, AscendingIs DEF CalledFor
<1>4. /\ \A i, j \in Indices : /\ erased_blocks[i] = erased_blocks[j] => i = j
                               /\ fec_block_nos[i] = fec_block_nos[j] => i = j
      /\ \A d \in E : \E i \in Indices : erased_blocks[i] = d
  BY <1>3
<1>5. Sized
  BY <1>1, <1>2 DEF Sized
<1>6. Last = Cardinality(E) - 1
  <2>1. 0 \in Int /\ Cardinality(E) - 1 \in Int
    BY <1>1
  <2>2. Cardinality(Indices) = IF 0 > Cardinality(E) - 1 THEN 0 ELSE (Cardinality(E) - 1) - 0 + 1
    BY <1>2, <2>1, FS_Interval
  <2>3. QED
    BY <1>1, <2>2 DEF Last
<1>7. QED
  BY <1>1, <1>2, <1>3, <1>4, <1>6

LEMMA TypeInit == Init => TypeInv
<1>1. ASSUME DecodeCall PROVE TypeInv
  <2>1. PICK E \in SUBSET DataNos, C \in SUBSET FecNos :
          /\ E # {} /\ Cardinality(E) = Cardinality(C)
          /\ erased_blocks = Ascending(E) /\ fec_block_nos = Ascending(C)
          /\ data = [d \in DataNos |-> IF d \in E THEN Stale ELSE sent[d]]
    BY <1>1 DEF DecodeCall
  <2>2. /\ DOMAIN erased_blocks = 0..(Cardinality(E) - 1)
        /\ DOMAIN fec_block_nos = 0..(Cardinality(E) - 1)
    <3>1. DOMAIN erased_blocks = 0..(Cardinality(E) - 1)
      BY <2>1 DEF Ascending
    <3>2. DOMAIN fec_block_nos = 0..(Cardinality(C) - 1)
      BY <2>1 DEF Ascending
    <3>3. QED
      BY <2>1, <3>1, <3>2
  <2>3. matrix = [i \in DOMAIN erased_blocks |-> [j \in DOMAIN erased_blocks |-> Zero]]
        /\ original = matrix /\ NoPivots(DOMAIN erased_blocks) /\ stage = "received"
        /\ sent \in [DataNos -> DataValues]
        /\ fec = [j \in DOMAIN fec_block_nos |-> Encoded(sent, fec_block_nos[j])]
    BY <1>1 DEF DecodeCall
  <2>4. DOMAIN erased_blocks = Indices
    BY <2>3 DEF Indices
  <2>5. CalledFor(E, C)
    BY <2>1, <2>2, <2>4 DEF CalledFor
  <2>6. Cardinality(E) \in Nat \ {0} /\ Indices = 0..(Cardinality(E) - 1)
    BY <2>5, CallIs
  <2>7. Sized
    BY <2>6 DEF Sized
  <2>8. 0 \in Indices
    BY <2>6
  <2>9. Decoding
    <3>1. erased_blocks # <<>>
      BY <2>4, <2>8
    <3>2. QED
      BY <3>1 DEF Decoding
  <2>10. sent \in [DataNos -> gf] /\ DataValues \subseteq gf
    BY <2>3, FecCodeAssumption
  <2>11. data \in [DataNos -> gf]
    <3>1. Stale \in gf
      BY DEF Stale, Byte, gf
    <3>2. QED
      BY <2>1, <2>10, <3>1
  <2>12. fec \in [Indices -> gf]
    BY <2>2, <2>3, <2>4, EncodedIn
  <2>13. matrix \in Square(Indices) /\ original \in Square(Indices)
    BY <2>3, <2>4, ZeroOne DEF Square
  <2>14. /\ ipiv \in [Indices -> 0..1] /\ indxr \in [Indices -> Indices]
         /\ indxc \in [Indices -> Indices] /\ col \in Indices
    BY <2>3, <2>4, <2>8 DEF NoPivots
  <2>15. TypeOK
    BY <2>3, <2>11, <2>12, <2>13, <2>14 DEF TypeOK, Square
  <2>16. QED
    BY <2>5, <2>7, <2>9, <2>10, <2>13, <2>15 DEF TypeInv, DecodeShape
<1>2. ASSUME InvertCall PROVE TypeInv
  <2>1. PICK k \in 1..GF_SIZE : matrix \in [0..(k - 1) -> [0..(k - 1) -> gf]]
    BY <1>2, FecCodeAssumption DEF InvertCall
  <2>2. Indices = 0..(k - 1) /\ k \in Nat \ {0}
    <3>1. k \in 1..255
      BY TablesAssumption
    <3>2. QED
      BY <2>1, <3>1 DEF Indices
  <2>3. Sized
    BY <2>2 DEF Sized
  <2>4. matrix \in Square(Indices) /\ original \in Square(Indices) /\ stage = "inverting"
    BY <1>2, <2>1, <2>2 DEF InvertCall, Square
  <2>5. NoPivots(Indices)
    BY <1>2 DEF InvertCall, Indices
  <2>6. 0 \in Indices
    BY <2>2
  <2>7. /\ ipiv \in [Indices -> 0..1] /\ indxr \in [Indices -> Indices]
        /\ indxc \in [Indices -> Indices] /\ col \in Indices
    BY <2>5, <2>6 DEF NoPivots
  <2>8. ~Decoding
    BY <1>2 DEF InvertCall, Decoding
  <2>9. TypeOK
    BY <2>4, <2>7, <2>8 DEF TypeOK, Square
  <2>10. QED
    BY <2>3, <2>4, <2>8, <2>9 DEF TypeInv, DecodeShape
<1>3. QED
  BY <1>1, <1>2 DEF Init

LEMMA TypeStep == TypeInv /\ [Next]_vars => TypeInv'
<1> SUFFICES ASSUME TypeInv, [Next]_vars
             PROVE  TypeInv'
  OBVIOUS
<1>0. /\ TypeOK /\ Sized /\ DecodeShape /\ original \in Square(Indices) /\ matrix \in Square(Indices)
      /\ stage \in {"received", "reduced", "decoded"} => Decoding
      /\ IsFiniteSet(Indices) /\ Indices \in SUBSET Nat
      /\ Last \in Nat /\ Cardinality(Indices) = Last + 1 /\ Indices = 0..Last
  BY SizedIs DEF TypeInv, TypeOK, Square
<1>1. ASSUME Indices' = Indices, original' \in Square(Indices), given' = given
      PROVE  Sized' /\ DecodeShape' /\ (original \in Square(Indices))' /\ Decoding' = Decoding
  <2>1. erased_blocks' = erased_blocks /\ fec_block_nos' = fec_block_nos /\ sent' = sent
    BY <1>1 DEF given
  <2>2. Decoding' = Decoding
    BY <2>1 DEF Decoding
  <2>3. \A E, C : CalledFor(E, C)' = CalledFor(E, C)
    BY <1>1, <2>1 DEF CalledFor
  <2>4. DecodeShape'
    BY <1>0, <2>1, <2>2, <2>3 DEF DecodeShape
  <2>5. Sized' /\ (original \in Square(Indices))'
    BY <1>0, <1>1 DEF Sized, Square
  <2>6. QED
    BY <2>2, <2>4, <2>5
<1>2. CASE Reduce
  <2>1. Decoding /\ stage = "received"
    BY <1>0, <1>2 DEF Reduce
  <2>2. PICK E \in SUBSET DataNos, C \in SUBSET FecNos : CalledFor(E, C)
    BY <1>0, <2>1 DEF DecodeShape
  <2>3. erasedIdx[D] = Last + 1
    BY <2>2, CallIs, ErasedIdxIs DEF CalledFor
  <2>4. /\ stage' = "reduced" /\ given' = given /\ data' = data /\ matrix' = matrix
        /\ original' = original /\ ipiv' = ipiv /\ col' = col /\ indxr' = indxr /\ indxc' = indxc
    BY <1>2, <2>3 DEF Reduce, pivoting
  <2>5. Indices' = Indices
    BY <2>4 DEF Indices
  <2>6. fec' \in [Indices -> gf]
    <3> DEFINE sum(j) == Sum(Known, LAMBDA c : gf_mul(ReduceCoefficient(fec_block_nos[j], c), data[c]))
    <3>1. fec' = [j \in Indices |-> Xor(fec[j], sum(j))]
      BY <1>2 DEF Reduce
    <3>2. \A j \in Indices : sum(j) \in gf
      BY DEF Sum, gf
    <3> HIDE DEF sum
    <3>3. \A j \in Indices : Xor(fec[j], sum(j)) \in gf
      BY <1>0, <2>1, <3>2, XorClosed DEF TypeOK
    <3>4. QED
      BY <3>1, <3>3
  <2>7. Sized' /\ DecodeShape' /\ (original \in Square(Indices))' /\ Decoding' = Decoding
    BY <1>0, <1>1, <2>4, <2>5
  <2>8. TypeOK'
    BY <1>0, <2>1, <2>4, <2>5, <2>6, <2>7 DEF TypeOK
  <2>9. QED
    BY <2>1, <2>7, <2>8 DEF TypeInv
<1>3. CASE BuildMatrix
  <2>1. /\ Decoding /\ stage = "reduced" /\ stage' = "inverting" /\ given' = given /\ packets' = packets
        /\ ipiv' = ipiv /\ col' = col /\ indxr' = indxr /\ indxc' = indxc
        /\ data' = data /\ fec' = fec
    BY <1>0, <1>3 DEF BuildMatrix, pivoting, packets
  <2>2. matrix' \in Square(Indices) /\ original' = matrix' /\ DOMAIN matrix' = Indices
    <3>1. matrix' = [row \in Indices |->
             [c \in Indices |-> ResolveCoefficient(fec_block_nos[row], erased_blocks[c])]]
      BY <1>3 DEF BuildMatrix
    <3>2. \A row, c \in Indices : ResolveCoefficient(fec_block_nos[row], erased_blocks[c]) \in gf
      <4> TAKE row, c \in Indices
      <4>1. Xor(Byte(128 + fec_block_nos[row]), Byte(erased_blocks[c])) \in gf
        BY XorClosed DEF Byte, gf
      <4>2. QED
        BY <4>1, InverseIs, InverseOfZero, ZeroOne DEF ResolveCoefficient
    <3>3. original' = matrix'
      BY <1>3 DEF BuildMatrix
    <3>4. QED
      BY <3>1, <3>2, <3>3 DEF Square
  <2>3. Indices' = Indices
    BY <2>2 DEF Indices
  <2>4. Sized' /\ DecodeShape' /\ (original \in Square(Indices))' /\ Decoding' = Decoding
    BY <1>1, <2>1, <2>2, <2>3
  <2>5. TypeOK'
    BY <1>0, <2>1, <2>2, <2>3, <2>4 DEF TypeOK, Square
  <2>6. QED
    BY <2>1, <2>4, <2>5 DEF TypeInv
<1>4. CASE EliminateColumn
  <2>1. PICK irow \in Indices, icol \in Indices :
           /\ ipiv' = [ipiv EXCEPT ![icol] = 1]
           /\ indxr' = [indxr EXCEPT ![col] = irow] /\ indxc' = [indxc EXCEPT ![col] = icol]
           /\ Indices' = Indices /\ matrix' \in Square(Indices)
    BY <1>0, <1>4, EliminateIs
  <2>2. /\ stage = "inverting" /\ given' = given /\ packets' = packets /\ original' = original
        /\ data' = data /\ fec' = fec
        /\ IF col = Last THEN stage' = "unscrambling" /\ col' = col
           ELSE stage' = stage /\ col' = col + 1
    BY <1>4 DEF EliminateColumn, packets
  <2>3. Sized' /\ DecodeShape' /\ (original \in Square(Indices))' /\ Decoding' = Decoding
    BY <1>0, <1>1, <2>1, <2>2
  <2>4. col' \in Indices
    <3>1. PICK l \in Nat : l = Last
      BY <1>0
    <3>2. PICK c \in 0..l : c = col
      BY <1>0, <3>1 DEF TypeOK
    <3>3. col' \in 0..l
      BY <2>2, <3>1, <3>2
    <3>4. QED
      BY <1>0, <3>1, <3>3
  <2>5. ipiv' \in [Indices -> 0..1] /\ indxr' \in [Indices -> Indices] /\ indxc' \in [Indices -> Indices]
    <3>1. /\ ipiv \in [Indices -> 0..1] /\ indxr \in [Indices -> Indices]
          /\ indxc \in [Indices -> Indices] /\ col \in Indices
      BY <1>0 DEF TypeOK
    <3>2. ipiv' \in [Indices -> 0..1]
      BY <2>1, <3>1
    <3>3. indxr' \in [Indices -> Indices] /\ indxc' \in [Indices -> Indices]
      BY <2>1, <3>1
    <3>4. QED
      BY <3>2, <3>3
  <2>6. TypeOK'
    BY <1>0, <2>1, <2>2, <2>3, <2>4, <2>5 DEF TypeOK, Square
  <2>7. QED
    BY <2>2, <2>3, <2>6 DEF TypeInv
<1>5. CASE PivotMissing
  <2>1. /\ stage = "inverting" /\ stage' = "singular" /\ given' = given /\ data' = data /\ fec' = fec
        /\ matrix' = matrix
        /\ original' = original /\ ipiv' = ipiv /\ col' = col /\ indxr' = indxr /\ indxc' = indxc
    BY <1>5 DEF PivotMissing, pivoting, packets
  <2>2. Indices' = Indices
    BY <2>1 DEF Indices
  <2>3. Sized' /\ DecodeShape' /\ (original \in Square(Indices))' /\ Decoding' = Decoding
    BY <1>0, <1>1, <2>1, <2>2
  <2>4. TypeOK'
    BY <1>0, <2>1, <2>2, <2>3 DEF TypeOK
  <2>5. QED
    BY <2>1, <2>3, <2>4 DEF TypeInv
<1>6. CASE SwapBack
  <2>1. /\ stage = "unscrambling" /\ given' = given /\ data' = data /\ fec' = fec
        /\ original' = original /\ ipiv' = ipiv /\ indxr' = indxr /\ indxc' = indxc
        /\ IF col = 0 THEN stage' = "inverted" /\ col' = col ELSE stage' = stage /\ col' = col - 1
    BY <1>6 DEF SwapBack, packets
  <2>2. matrix' \in Square(Indices) /\ DOMAIN matrix' = Indices
    <3>1. PICK a \in Indices, b \in Indices : matrix' = ColumnsSwapped(a, b)
      BY <1>0, <1>6 DEF SwapBack, Undone, TypeOK
    <3>2. matrix' = [r \in Indices |-> Swapped(matrix[r], a, b)]
      BY <3>1 DEF ColumnsSwapped, Swapped
    <3>3. \A r \in Indices : Swapped(matrix[r], a, b) \in [Indices -> gf]
      <4> TAKE r \in Indices
      <4>1. matrix[r] \in [Indices -> gf]
        BY <1>0 DEF Square
      <4>2. QED
        BY <4>1 DEF Swapped
    <3>4. QED
      BY <3>2, <3>3 DEF Square
  <2>3. Indices' = Indices
    BY <2>2 DEF Indices
  <2>4. Sized' /\ DecodeShape' /\ (original \in Square(Indices))' /\ Decoding' = Decoding
    BY <1>0, <1>1, <2>1, <2>3
  <2>5. col' \in Indices
    <3>1. PICK l \in Nat : l = Last
      BY <1>0
    <3>2. PICK c \in 0..l : c = col
      BY <1>0, <3>1 DEF TypeOK
    <3>3. col' \in 0..l
      BY <2>1, <3>1, <3>2
    <3>4. QED
      BY <1>0, <3>1, <3>3
  <2>6. TypeOK'
    BY <1>0, <2>1, <2>2, <2>3, <2>4, <2>5 DEF TypeOK, Square
  <2>7. QED
    BY <2>1, <2>4, <2>6 DEF TypeInv
<1>7. CASE Multiply
  <2>1. /\ Decoding /\ stage = "inverted" /\ stage' = "decoded" /\ given' = given /\ fec' = fec
        /\ matrix' = matrix
        /\ original' = original /\ ipiv' = ipiv /\ col' = col /\ indxr' = indxr /\ indxc' = indxc
    BY <1>7 DEF Multiply, pivoting
  <2>2. Indices' = Indices
    BY <2>1 DEF Indices
  <2>3. Sized' /\ DecodeShape' /\ (original \in Square(Indices))' /\ Decoding' = Decoding
    BY <1>0, <1>1, <2>1, <2>2
  <2>4. data' \in [DataNos -> gf]
    <3> DEFINE sum(d) == LET row == CHOOSE r \in Indices : erased_blocks[r] = d
                         IN Sum(Indices, LAMBDA c : gf_mul(matrix[row][c], fec[c]))
    <3>1. data' = [d \in DataNos |->
                     IF \E row \in Indices : erased_blocks[row] = d THEN sum(d) ELSE data[d]]
      BY <1>7 DEF Multiply
    <3>2. \A d : sum(d) \in gf
      BY DEF Sum, gf
    <3> HIDE DEF sum
    <3>3. data \in [DataNos -> gf]
      BY <1>0, <2>1 DEF TypeOK
    <3>4. QED
      BY <3>1, <3>2, <3>3
  <2>5. TypeOK'
    BY <1>0, <2>1, <2>2, <2>3, <2>4 DEF TypeOK
  <2>6. QED
    BY <2>1, <2>3, <2>5 DEF TypeInv
<1>8. CASE UNCHANGED vars
  <2>1. /\ given' = given /\ packets' = packets /\ pivoting' = pivoting
        /\ matrix' = matrix /\ original' = original /\ stage' = stage
    BY <1>8 DEF vars
  <2>2. /\ data' = data /\ fec' = fec
        /\ ipiv' = ipiv /\ col' = col /\ indxr' = indxr /\ indxc' = indxc
    BY <2>1 DEF packets, pivoting
  <2>3. Indices' = Indices
    BY <2>1 DEF Indices
  <2>4. Sized' /\ DecodeShape' /\ (original \in Square(Indices))' /\ Decoding' = Decoding
    BY <1>0, <1>1, <2>1, <2>3
  <2>5. TypeOK'
    BY <1>0, <2>1, <2>2, <2>3, <2>4 DEF TypeOK
  <2>6. QED
    BY <1>0, <2>1, <2>4, <2>5 DEF TypeInv
<1>9. QED
  BY <1>2, <1>3, <1>4, <1>5, <1>6, <1>7, <1>8 DEF Next

\* The types hold throughout; ipiv never reaches 2, so that the "singular
\* matrix" exit of invert_mat's pivot search is dead code, and the walk of
\* reduce has always passed every erased DATA: its assert holds.
THEOREM TypeCorrect == Spec => []TypeOK
<1>1. TypeInv => TypeOK
  BY DEF TypeInv
<1>2. QED
  BY TypeInit, TypeStep, <1>1, PTL DEF Spec
-----------------------------------------------------------------------------
(***************************************************************************)
(* What invert_mat has done when n pivots are through: the equations of    *)
(* the original matrix hold of x and y exactly when those of the present   *)
(* matrix hold, in which the pivot columns stand for members of y and the  *)
(* pivot rows for members of x. Y follows y as the rows are swapped.       *)
(***************************************************************************)
Mixed(I, p, a, b) == [i \in I |-> IF p[i] = 1 THEN a[i] ELSE b[i]]

Follows(I, Y, n, r, c) == \A l \in I : l < n => Y[l + 1] = Swapped(Y[l], r[l], c[l])

SolvedBy(I, m, t, p, r, c, n) ==
  \A x \in Vector(I), Y \in [Nat -> Vector(I)] :
    Follows(I, Y, n, r, c) =>
      (Gives(I, m, x, Y[0]) <=> Gives(I, t, Mixed(I, p, Y[n], x), Mixed(I, p, x, Y[n])))

LEMMA MixedIs ==
  ASSUME NEW I, NEW p, NEW a \in Vector(I), NEW b \in Vector(I)
  PROVE  /\ Mixed(I, p, a, b) \in Vector(I)
         /\ (\A i \in I : p[i] = 1) => Mixed(I, p, a, b) = a
         /\ (\A i \in I : p[i] = 0) => Mixed(I, p, a, b) = b
BY DEF Mixed, Vector

LEMMA SolvedAtFirst ==
  ASSUME NEW I, NEW m, NEW p, NEW r, NEW c, \A i \in I : p[i] = 0
  PROVE  SolvedBy(I, m, m, p, r, c, 0)
<1> SUFFICES ASSUME NEW x \in Vector(I), NEW Y \in [Nat -> Vector(I)]
             PROVE  Gives(I, m, x, Y[0]) <=> Gives(I, m, Mixed(I, p, Y[0], x), Mixed(I, p, x, Y[0]))
  BY DEF SolvedBy
<1>1. Y[0] \in Vector(I)
  OBVIOUS
<1>2. Mixed(I, p, Y[0], x) = x /\ Mixed(I, p, x, Y[0]) = Y[0]
  BY <1>1, MixedIs
<1>3. QED
  BY <1>2

LEMMA SolvedByPivot ==
  ASSUME NEW I \in SUBSET Nat, IsFiniteSet(I), NEW m \in Square(I), NEW s \in Square(I),
         NEW p \in [I -> 0..1], NEW r \in [I -> I], NEW c \in [I -> I], NEW n \in I,
         SolvedBy(I, m, s, p, r, c, n),
         NEW a \in I, NEW b \in I, p[a] = 0, p[b] = 0, s[a][b] # Zero,
         NEW t \in Square(I), Cleared(I, Swapped(s, a, b), t, b)
  PROVE  SolvedBy(I, m, t, [p EXCEPT ![b] = 1], [r EXCEPT ![n] = a], [c EXCEPT ![n] = b], n + 1)
<1> DEFINE q == [p EXCEPT ![b] = 1]
<1> SUFFICES ASSUME NEW x \in Vector(I), NEW Y \in [Nat -> Vector(I)],
                    Follows(I, Y, n + 1, [r EXCEPT ![n] = a], [c EXCEPT ![n] = b])
             PROVE  Gives(I, m, x, Y[0])
                      <=> Gives(I, t, Mixed(I, q, Y[n + 1], x), Mixed(I, q, x, Y[n + 1]))
  BY DEF SolvedBy
<1> DEFINE v == Mixed(I, p, Y[n], x)
           w == Mixed(I, p, x, Y[n])
           u == Swapped(s, a, b)
           z == Swapped(w, a, b)
<1>1. n \in Nat /\ n + 1 \in Nat /\ \A l \in I : l \in Nat
  OBVIOUS
<1>2. Y[n] \in Vector(I) /\ Y[n + 1] \in Vector(I)
  BY <1>1
<1>3. Follows(I, Y, n, r, c)
  <2> SUFFICES ASSUME NEW l \in I, l < n
               PROVE  Y[l + 1] = Swapped(Y[l], r[l], c[l])
    BY DEF Follows
  <2>0. l \in Nat /\ n \in Nat /\ l < n
    BY <1>1
  <2>1. l < n + 1 /\ l # n
    BY <2>0
  <2>2. [r EXCEPT ![n] = a][l] = r[l] /\ [c EXCEPT ![n] = b][l] = c[l]
    BY <2>1
  <2>3. QED
    BY <2>1, <2>2 DEF Follows
<1>4. Y[n + 1] = Swapped(Y[n], a, b)
  <2>1. n < n + 1 /\ [r EXCEPT ![n] = a][n] = a /\ [c EXCEPT ![n] = b][n] = b
    BY <1>1
  <2>2. QED
    BY <2>1 DEF Follows
<1>5. v \in Vector(I) /\ w \in Vector(I)
  BY <1>2, MixedIs
<1>6. /\ \A i \in I : v[i] = IF p[i] = 1 THEN Y[n][i] ELSE x[i]
      /\ \A i \in I : w[i] = IF p[i] = 1 THEN x[i] ELSE Y[n][i]
  BY DEF Mixed
<1> HIDE DEF v, w
<1>7. z \in Vector(I) /\ \A i \in I : z[i] = w[IF i = b THEN a ELSE IF i = a THEN b ELSE i]
  <2>1. w \in [I -> gf]
    BY <1>5 DEF Vector
  <2>2. z \in [I -> gf] /\ \A i \in I : z[i] = w[IF i = b THEN a ELSE IF i = a THEN b ELSE i]
    BY <2>1 DEF Swapped
  <2>3. QED
    BY <2>2 DEF Vector
<1>8. \A i \in I : Y[n + 1][i] = Y[n][IF i = b THEN a ELSE IF i = a THEN b ELSE i]
  BY <1>2, <1>4, SwappedIs DEF Vector
<1>9. Gives(I, m, x, Y[0]) <=> Gives(I, s, v, w)
  BY <1>3 DEF SolvedBy, v, w
<1>10. u \in Square(I) /\ (Gives(I, s, v, w) <=> Gives(I, u, v, z))
  BY <1>5, RowsSwapped
<1>11. u[b][b] # Zero
  BY DEF Swapped, Square
<1> HIDE DEF u, z
<1>12. Gives(I, u, v, z) <=> Gives(I, t, [v EXCEPT ![b] = z[b]], [z EXCEPT ![b] = v[b]])
  BY <1>5, <1>7, <1>10, <1>11, Exchange DEF u
<1>13. [v EXCEPT ![b] = z[b]] = Mixed(I, q, Y[n + 1], x)
  <2>1. \A i \in I : [v EXCEPT ![b] = z[b]][i] = Mixed(I, q, Y[n + 1], x)[i]
    <3> TAKE i \in I
    <3>1. CASE i = b
      <4>1. [v EXCEPT ![b] = z[b]][i] = z[b] /\ z[b] = w[a] /\ w[a] = Y[n][a]
        BY <1>5, <1>6, <1>7, <3>1 DEF Vector
      <4>2. q[i] = 1 /\ Y[n + 1][i] = Y[n][a]
        BY <1>8, <3>1
      <4>3. QED
        BY <4>1, <4>2 DEF Mixed
    <3>2. CASE i # b
      <4>1. [v EXCEPT ![b] = z[b]][i] = v[i] /\ q[i] = p[i]
        BY <1>5, <3>2 DEF Vector
      <4>2. p[i] = 1 => i # a /\ Y[n + 1][i] = Y[n][i]
        BY <1>8, <3>2
      <4>3. QED
        BY <1>6, <4>1, <4>2 DEF Mixed
    <3>3. QED
      BY <3>1, <3>2
  <2>2. [v EXCEPT ![b] = z[b]] \in [I -> gf] /\ Mixed(I, q, Y[n + 1], x) \in [I -> gf]
    <3>1. z[b] \in gf /\ v \in [I -> gf]
      BY <1>5, <1>7 DEF Vector
    <3>2. Mixed(I, q, Y[n + 1], x) \in Vector(I)
      BY <1>2, MixedIs
    <3>3. QED
      BY <3>1, <3>2 DEF Vector
  <2>3. QED
    BY <2>1, <2>2
<1>14. [z EXCEPT ![b] = v[b]] = Mixed(I, q, x, Y[n + 1])
  <2>1. \A i \in I : [z EXCEPT ![b] = v[b]][i] = Mixed(I, q, x, Y[n + 1])[i]
    <3> TAKE i \in I
    <3>1. CASE i = b
      <4>1. [z EXCEPT ![b] = v[b]][i] = v[b] /\ v[b] = x[b] /\ q[i] = 1
        BY <1>6, <1>7, <3>1 DEF Vector
      <4>2. QED
        BY <3>1, <4>1 DEF Mixed
    <3>2. CASE i # b
      <4>1. [z EXCEPT ![b] = v[b]][i] = z[i] /\ q[i] = p[i]
        BY <1>7, <3>2 DEF Vector
      <4>2. CASE i = a
        <5>1. z[i] = w[b] /\ w[b] = Y[n][b] /\ Y[n + 1][i] = Y[n][b]
          <6>0. p[b] # 1
            OBVIOUS
          <6>1. w[b] = Y[n][b]
            BY <1>6, <6>0, Zenon
          <6>2. z[i] = w[b]
            BY <1>7, <3>2, <4>2
          <6>3. Y[n + 1][i] = Y[n][b]
            BY <1>8, <3>2, <4>2
          <6>4. QED
            BY <6>1, <6>2, <6>3
        <5>2. QED
          BY <4>1, <4>2, <5>1 DEF Mixed
      <4>3. CASE i # a
        <5>1. z[i] = w[i] /\ Y[n + 1][i] = Y[n][i]
          BY <1>7, <1>8, <3>2, <4>3
        <5>2. QED
          BY <1>6, <4>1, <5>1 DEF Mixed
      <4>4. QED
        BY <4>2, <4>3
    <3>3. QED
      BY <3>1, <3>2
  <2>2. [z EXCEPT ![b] = v[b]] \in [I -> gf] /\ Mixed(I, q, x, Y[n + 1]) \in [I -> gf]
    <3>1. v[b] \in gf /\ z \in [I -> gf]
      BY <1>5, <1>7 DEF Vector
    <3>2. Mixed(I, q, x, Y[n + 1]) \in Vector(I)
      BY <1>2, MixedIs
    <3>3. QED
      BY <3>1, <3>2 DEF Vector
  <2>3. QED
    BY <2>1, <2>2
<1>15. QED
  BY <1>9, <1>10, <1>12, <1>13, <1>14

LEMMA SolvedBySwapBack ==
  ASSUME NEW I \in SUBSET Nat, IsFiniteSet(I), NEW m \in Square(I), NEW s \in Square(I),
         NEW p \in [I -> 0..1], NEW r \in [I -> I], NEW c \in [I -> I], NEW n \in I,
         SolvedBy(I, m, s, p, r, c, n + 1), \A i \in I : p[i] = 1,
         NEW t \in Square(I), \A i \in I : t[i] = Swapped(s[i], r[n], c[n])
  PROVE  SolvedBy(I, m, t, p, r, c, n)
<1> SUFFICES ASSUME NEW x \in Vector(I), NEW Y \in [Nat -> Vector(I)], Follows(I, Y, n, r, c)
             PROVE  Gives(I, m, x, Y[0]) <=> Gives(I, t, Mixed(I, p, Y[n], x), Mixed(I, p, x, Y[n]))
  BY DEF SolvedBy
<1> DEFINE y == Swapped(Y[n], r[n], c[n])
           Z == [Y EXCEPT ![n + 1] = y]
<1>1. n \in Nat /\ n + 1 \in Nat /\ n # n + 1 /\ n + 1 # 0 /\ \A l \in I : l \in Nat
  OBVIOUS
<1>2. Y[n] \in Vector(I) /\ Y[0] \in Vector(I) /\ r[n] \in I /\ c[n] \in I
  BY <1>1
<1>3. y \in Vector(I)
  <2> DEFINE h == Y[n]
             i == r[n]
             j == c[n]
  <2>1. h \in [I -> gf] /\ i \in I /\ j \in I
    BY <1>2 DEF Vector
  <2> HIDE DEF h, i, j
  <2>2. Swapped(h, i, j) \in [I -> gf]
    BY <2>1, SwappedIs
  <2>3. QED
    BY <2>2 DEF h, i, j, Vector
<1>4. Z \in [Nat -> Vector(I)] /\ Z[n + 1] = y /\ Z[0] = Y[0] /\ Z[n] = Y[n]
  <2> HIDE DEF y
  <2>1. QED
    BY <1>1, <1>3
<1>5. Follows(I, Z, n + 1, r, c)
  <2> SUFFICES ASSUME NEW l \in I, l < n + 1
               PROVE  Z[l + 1] = Swapped(Z[l], r[l], c[l])
    BY DEF Follows
  <2>1. CASE l = n
    BY <1>4, <2>1
  <2>2. CASE l # n
    <3>1. l < n /\ l \in Nat /\ l + 1 \in Nat /\ l # n + 1 /\ l + 1 # n + 1
      BY <1>1, <2>2
    <3>2. Z[l] = Y[l] /\ Z[l + 1] = Y[l + 1]
      BY <3>1
    <3>3. QED
      BY <3>1, <3>2 DEF Follows
  <2>3. QED
    BY <2>1, <2>2
<1> HIDE DEF Z, y
<1>6. Gives(I, m, x, Y[0]) <=> Gives(I, s, Mixed(I, p, y, x), Mixed(I, p, x, y))
  BY <1>4, <1>5 DEF SolvedBy
<1>7. /\ Mixed(I, p, y, x) = y /\ Mixed(I, p, x, y) = x
      /\ Mixed(I, p, Y[n], x) = Y[n] /\ Mixed(I, p, x, Y[n]) = x
  <2>1. \A d, e \in Vector(I) : Mixed(I, p, d, e) = d
    <3> TAKE d, e \in Vector(I)
    <3>1. \A i \in I : p[i] = 1
      OBVIOUS
    <3>2. QED
      BY <3>1 DEF Mixed, Vector
  <2>2. QED
    BY <1>2, <1>3, <2>1
<1>8. Gives(I, t, Y[n], x) <=> Gives(I, s, y, x)
  BY <1>2, ColumnsChanged DEF y
<1>9. QED
  BY <1>6, <1>7, <1>8
\* Some vector other than zero is taken to zero: the matrix has no inverse.
HasKernel(I, m) ==
  \E x \in Vector(I) : (\E i \in I : x[i] # Zero) /\ \A r \in I : Row(I, m, r, x) = Zero

UnitVector(I, k) == [i \in I |-> IF i = k THEN One ELSE Zero]

\* A row times a unit vector is an entry.
LEMMA RowOfUnit ==
  ASSUME NEW I, IsFiniteSet(I), NEW m \in Square(I), NEW r \in I, NEW k \in I
  PROVE  UnitVector(I, k) \in Vector(I) /\ Row(I, m, r, UnitVector(I, k)) = m[r][k]
<1> DEFINE e == UnitVector(I, k)
           g == Terms(I, m, r, e)
<1>1. e \in Vector(I) /\ e[k] = One /\ \A c \in I \ {k} : e[c] = Zero
  BY ZeroOne DEF UnitVector, Vector
<1>2. \A c \in I : m[r][c] \in gf
  BY DEF Square
<1> HIDE DEF e
<1>3. g[k] = m[r][k] /\ \A c \in I \ {k} : g[c] = Zero
  BY <1>1, <1>2, TermsIn, MulOne, MulZero
<1> HIDE DEF g
<1>4. Total(I, g) = g[k]
  BY <1>2, <1>3, TotalOfOne
<1>5. QED
  BY <1>1, <1>3, <1>4 DEF Row, g, e

LEMMA KernelFound ==
  ASSUME NEW I \in SUBSET Nat, IsFiniteSet(I), NEW m \in Square(I), NEW s \in Square(I),
         NEW p \in [I -> 0..1], NEW r \in [I -> I], NEW c \in [I -> I], NEW n \in Nat,
         SolvedBy(I, m, s, p, r, c, n),
         NEW k \in I, p[k] = 0, \A i, j \in I : p[i] = 0 /\ p[j] = 0 => s[i][j] = Zero
  PROVE  HasKernel(I, m)
<1> DEFINE zero == [i \in I |-> Zero]
           e == UnitVector(I, k)
           Y == [l \in Nat |-> zero]
           x == [i \in I |-> IF p[i] = 1 THEN s[i][k] ELSE e[i]]
           w == Mixed(I, p, x, zero)
<1>1. zero \in Vector(I) /\ e \in Vector(I) /\ Y \in [Nat -> Vector(I)]
  BY ZeroOne DEF Vector, UnitVector
<1>2. x \in Vector(I)
  <2> HIDE DEF e
  <2>1. \A i \in I : s[i][k] \in gf
    BY DEF Square
  <2>2. QED
    BY <1>1, <2>1 DEF Vector
<1>3. Y[0] = zero /\ Y[n] = zero
  OBVIOUS
<1>4. Follows(I, Y, n, r, c)
  <2> SUFFICES ASSUME NEW l \in I
               PROVE  Y[l + 1] = Swapped(Y[l], r[l], c[l])
    BY DEF Follows
  <2>1. l \in Nat /\ l + 1 \in Nat /\ r[l] \in I /\ c[l] \in I
    OBVIOUS
  <2>2. Y[l] = zero /\ Y[l + 1] = zero
    BY <2>1
  <2>3. Swapped(zero, r[l], c[l]) = zero
    BY <2>1 DEF Swapped
  <2>4. QED
    BY <2>2, <2>3
<1>5. Mixed(I, p, zero, x) = e
  <2>1. \A i \in I : p[i] = 1 => e[i] = Zero
    BY DEF UnitVector
  <2>2. e = [i \in I |-> e[i]]
    BY DEF UnitVector
  <2> HIDE DEF e
  <2>3. QED
    BY <2>1, <2>2 DEF Mixed
<1>6. Gives(I, s, e, w)
  <2> SUFFICES ASSUME NEW i \in I
               PROVE  w[i] = Row(I, s, i, e)
    BY DEF Gives
  <2>1. Row(I, s, i, e) = s[i][k]
    BY RowOfUnit
  <2>2. CASE p[i] = 1
    BY <2>1, <2>2 DEF Mixed
  <2>3. CASE p[i] # 1
    <3>1. p[i] = 0
      BY <2>3
    <3>2. s[i][k] = Zero /\ w[i] = Zero
      BY <3>1 DEF Mixed
    <3>3. QED
      BY <2>1, <3>2
  <2>4. QED
    BY <2>2, <2>3
<1>7. x[k] # Zero
  BY ZeroOne DEF UnitVector
<1>8. \A i \in I : zero[i] = Zero
  OBVIOUS
<1> HIDE DEF zero, e, Y, x
<1>9. Gives(I, m, x, zero)
  BY <1>1, <1>2, <1>3, <1>4, <1>5, <1>6 DEF SolvedBy
<1>10. QED
  BY <1>2, <1>7, <1>8, <1>9 DEF HasKernel, Gives

-----------------------------------------------------------------------------
PivotsMade == {i \in Indices : ipiv[i] = 1}

\* The pivots whose swaps are not undone.
Done == IF stage = "inverting" THEN col ELSE IF stage = "unscrambling" THEN col + 1 ELSE 0

InvertInv ==
  /\ stage \in {"received", "reduced"} => col = 0 /\ \A i \in Indices : ipiv[i] = 0
  /\ stage = "inverting" => Cardinality(PivotsMade) = col
  /\ stage \in {"unscrambling", "inverted"} => \A i \in Indices : ipiv[i] = 1
  /\ stage \in {"inverting", "unscrambling", "inverted"} =>
       SolvedBy(Indices, original, matrix, ipiv, indxr, indxc, Done)
  /\ stage = "singular" => HasKernel(Indices, original)

LEMMA InvertInit == Init => InvertInv
<1>1. ASSUME DecodeCall PROVE InvertInv
  <2>1. /\ stage = "received" /\ NoPivots(DOMAIN erased_blocks)
        /\ matrix = [i \in DOMAIN erased_blocks |-> [j \in DOMAIN erased_blocks |-> Zero]]
    BY <1>1 DEF DecodeCall
  <2>2. col = 0 /\ \A i \in Indices : ipiv[i] = 0
    BY <2>1 DEF Indices, NoPivots
  <2>3. QED
    BY <2>1, <2>2 DEF InvertInv
<1>2. ASSUME InvertCall PROVE InvertInv
  <2>1. stage = "inverting" /\ original = matrix /\ NoPivots(Indices)
    BY <1>2 DEF InvertCall, Indices
  <2>2. col = 0 /\ \A i \in Indices : ipiv[i] = 0
    BY <2>1 DEF NoPivots
  <2>3. Cardinality(PivotsMade) = col
    <3>1. PivotsMade = {}
      BY <2>2 DEF PivotsMade
    <3>2. QED
      BY <2>2, <3>1, FS_EmptySet
  <2>4. SolvedBy(Indices, original, matrix, ipiv, indxr, indxc, Done)
    BY <2>1, <2>2, SolvedAtFirst DEF Done
  <2>5. QED
    BY <2>1, <2>3, <2>4 DEF InvertInv
<1>3. QED
  BY <1>1, <1>2 DEF Init

LEMMA PivotsCounted ==
  ASSUME Sized, TypeOK
  PROVE  /\ IsFiniteSet(PivotsMade) /\ Cardinality(PivotsMade) \in 0..(Last + 1)
         /\ Cardinality(PivotsMade) = Last + 1 <=> \A i \in Indices : ipiv[i] = 1
<1>1. IsFiniteSet(Indices) /\ Cardinality(Indices) = Last + 1 /\ PivotsMade \in SUBSET Indices
  BY SizedIs DEF PivotsMade
<1>2. /\ IsFiniteSet(PivotsMade) /\ Cardinality(PivotsMade) <= Last + 1
      /\ Cardinality(PivotsMade) = Last + 1 => PivotsMade = Indices
  BY <1>1, FS_Subset
<1>3. Cardinality(PivotsMade) \in Nat
  BY <1>2, FS_CardinalityType
<1>4. PivotsMade = Indices <=> \A i \in Indices : ipiv[i] = 1
  BY DEF PivotsMade
<1>5. Last \in Nat
  BY SizedIs
<1>6. QED
  BY <1>1, <1>2, <1>3, <1>4, <1>5
LEMMA InvertStep == TypeInv /\ InvertInv /\ [Next]_vars => InvertInv'
<1> SUFFICES ASSUME TypeInv, InvertInv, [Next]_vars
             PROVE  InvertInv'
  OBVIOUS
<1>0. /\ TypeOK /\ Sized /\ original \in Square(Indices) /\ matrix \in Square(Indices)
      /\ ipiv \in [Indices -> 0..1]
      /\ indxr \in [Indices -> Indices] /\ indxc \in [Indices -> Indices] /\ col \in Indices
      /\ IsFiniteSet(Indices) /\ Indices \in SUBSET Nat /\ col \in Nat
      /\ Last \in Nat /\ Cardinality(Indices) = Last + 1 /\ Indices = 0..Last
  BY SizedIs DEF TypeInv, TypeOK, Square
<1>1. CASE Reduce
  <2>1. /\ stage = "received" /\ stage' \in {"reduced", "aborted"} /\ matrix' = matrix
        /\ original' = original /\ ipiv' = ipiv /\ col' = col /\ indxr' = indxr /\ indxc' = indxc
    BY <1>1 DEF Reduce, pivoting
  <2>2. Indices' = Indices
    BY <2>1 DEF Indices
  <2>3. QED
    BY <2>1, <2>2 DEF InvertInv
<1>2. CASE BuildMatrix
  <2>1. /\ stage = "reduced" /\ stage' = "inverting" /\ original' = matrix'
        /\ DOMAIN matrix' = Indices
        /\ ipiv' = ipiv /\ col' = col /\ indxr' = indxr /\ indxc' = indxc
    BY <1>2 DEF BuildMatrix, pivoting
  <2>2. Indices' = Indices
    BY <2>1 DEF Indices
  <2>3. col = 0 /\ \A i \in Indices : ipiv[i] = 0
    BY <2>1 DEF InvertInv
  <2>4. PivotsMade' = {}
    BY <2>1, <2>2, <2>3 DEF PivotsMade
  <2>5. Cardinality(PivotsMade)' = col'
    BY <2>1, <2>3, <2>4, FS_EmptySet
  <2>6. SolvedBy(Indices', original', matrix', ipiv', indxr', indxc', 0)
    BY <2>1, <2>2, <2>3, SolvedAtFirst
  <2>7. Done' = 0
    BY <2>1, <2>3 DEF Done
  <2>8. QED
    BY <2>1, <2>5, <2>6, <2>7 DEF InvertInv
<1>3. CASE EliminateColumn
  <2>1. PICK irow \in Indices, icol \in Indices :
           /\ matrix[irow][icol] # Zero /\ ipiv[irow] = 0 /\ ipiv[icol] = 0
           /\ ipiv' = [ipiv EXCEPT ![icol] = 1]
           /\ indxr' = [indxr EXCEPT ![col] = irow] /\ indxc' = [indxc EXCEPT ![col] = icol]
           /\ Indices' = Indices /\ matrix' \in Square(Indices)
           /\ Cleared(Indices, Swapped(matrix, irow, icol), matrix', icol)
    BY <1>0, <1>3, EliminateIs
  <2>2. /\ stage = "inverting" /\ original' = original
        /\ IF col = Last THEN stage' = "unscrambling" /\ col' = col
           ELSE stage' = stage /\ col' = col + 1
    BY <1>3 DEF EliminateColumn
  <2>3. Done = col /\ Done' = col + 1
    BY <2>2 DEF Done
  <2>4. SolvedBy(Indices, original, matrix, ipiv, indxr, indxc, col)
    BY <2>2, <2>3 DEF InvertInv
  <2>5. SolvedBy(Indices, original, matrix', ipiv', indxr', indxc', col + 1)
    <3> DEFINE t == matrix'
    <3>1. t \in Square(Indices) /\ Cleared(Indices, Swapped(matrix, irow, icol), t, icol)
      BY <2>1
    <3> HIDE DEF t
    <3>2. /\ Indices \in SUBSET Nat /\ IsFiniteSet(Indices) /\ col \in Indices
          /\ original \in Square(Indices) /\ matrix \in Square(Indices)
          /\ ipiv \in [Indices -> 0..1]
          /\ indxr \in [Indices -> Indices] /\ indxc \in [Indices -> Indices]
          /\ ipiv[irow] = 0 /\ ipiv[icol] = 0 /\ matrix[irow][icol] # Zero
      BY <1>0, <2>1
    <3>3. SolvedBy(Indices, original, t, [ipiv EXCEPT ![icol] = 1],
                   [indxr EXCEPT ![col] = irow], [indxc EXCEPT ![col] = icol], col + 1)
      BY <2>4, <3>1, <3>2, SolvedByPivot
    <3>4. QED
      BY <2>1, <3>3, Zenon DEF t
  <2>6. SolvedBy(Indices', original', matrix', ipiv', indxr', indxc', Done')
    BY <2>1, <2>2, <2>3, <2>5
  <2>7. Cardinality(PivotsMade)' = col + 1
    <3>1. PivotsMade' = PivotsMade \cup {icol} /\ icol \notin PivotsMade
      <4>1. \A i \in Indices : ipiv'[i] = 1 <=> i = icol \/ ipiv[i] = 1
        BY <1>0, <2>1
      <4>2. PivotsMade' = {i \in Indices : ipiv'[i] = 1}
        BY <2>1 DEF PivotsMade
      <4>3. QED
        BY <2>1, <4>1, <4>2 DEF PivotsMade
    <3>2. IsFiniteSet(PivotsMade) /\ Cardinality(PivotsMade) = col
      BY <1>0, <2>2, PivotsCounted DEF InvertInv
    <3>3. QED
      BY <3>1, <3>2, FS_AddElement
  <2>8. CASE col = Last
    <3>1. \A i \in Indices' : ipiv'[i] = 1
      <4>1. PivotsMade' \in SUBSET Indices
        BY <2>1 DEF PivotsMade
      <4>2. PivotsMade' = Indices
        BY <1>0, <2>7, <2>8, <4>1, FS_Subset
      <4>3. QED
        BY <2>1, <4>2 DEF PivotsMade
    <3>2. QED
      BY <2>2, <2>6, <2>8, <3>1 DEF InvertInv
  <2>9. CASE col # Last
    BY <2>2, <2>6, <2>7, <2>9 DEF InvertInv
  <2>10. QED
    BY <2>8, <2>9
<1>4. CASE PivotMissing
  <2>1. /\ stage = "inverting" /\ stage' = "singular" /\ matrix' = matrix /\ original' = original
        /\ ~DiagonalServes(col) /\ Candidates = {}
    BY <1>4 DEF PivotMissing
  <2>2. SolvedBy(Indices, original, matrix, ipiv, indxr, indxc, col) /\ Cardinality(PivotsMade) = col
    BY <2>1 DEF InvertInv, Done
  <2>3. PICK k \in Indices : ipiv[k] = 0
    <3>1. col # Last + 1
      BY <1>0
    <3>2. \E i \in Indices : ipiv[i] # 1
      BY <1>0, <2>2, <3>1, PivotsCounted
    <3>3. QED
      BY <1>0, <3>2
  <2>4. \A i, j \in Indices : ipiv[i] = 0 /\ ipiv[j] = 0 => matrix[i][j] = Zero
    <3> SUFFICES ASSUME NEW i \in Indices, NEW j \in Indices,
                        ipiv[i] = 0, ipiv[j] = 0, matrix[i][j] # Zero
                 PROVE  FALSE
      OBVIOUS
    <3>1. <<i, j>> \in Candidates
      BY DEF Candidates
    <3>2. QED
      BY <2>1, <3>1
  <2>5. HasKernel(Indices, original)
    <3> DEFINE I == Indices
    <3>1. /\ I \in SUBSET Nat /\ IsFiniteSet(I) /\ original \in Square(I) /\ matrix \in Square(I)
          /\ ipiv \in [I -> 0..1] /\ indxr \in [I -> I] /\ indxc \in [I -> I] /\ col \in Nat
          /\ SolvedBy(I, original, matrix, ipiv, indxr, indxc, col)
          /\ k \in I /\ ipiv[k] = 0
          /\ \A i, j \in I : ipiv[i] = 0 /\ ipiv[j] = 0 => matrix[i][j] = Zero
      BY <1>0, <2>2, <2>3, <2>4
    <3> HIDE DEF I
    <3>2. HasKernel(I, original)
      BY <3>1, KernelFound
    <3>3. QED
      BY <3>2 DEF I
  <2>6. Indices' = Indices
    BY <2>1 DEF Indices
  <2>7. QED
    BY <2>1, <2>5, <2>6 DEF InvertInv
<1>5. CASE SwapBack
  <2>1. /\ stage = "unscrambling" /\ matrix' = ColumnsSwapped(indxr[col], indxc[col])
        /\ original' = original /\ ipiv' = ipiv /\ indxr' = indxr /\ indxc' = indxc
        /\ IF col = 0 THEN stage' = "inverted" /\ col' = col ELSE stage' = stage /\ col' = col - 1
    BY <1>5 DEF SwapBack, Undone
  <2>2. indxr[col] \in Indices /\ indxc[col] \in Indices
    BY <1>0
  <2>3. matrix' = [r \in Indices |-> Swapped(matrix[r], indxr[col], indxc[col])]
    BY <2>1 DEF ColumnsSwapped, Swapped
  <2>4. matrix' \in Square(Indices)
    <3>1. \A r \in Indices : Swapped(matrix[r], indxr[col], indxc[col]) \in [Indices -> gf]
      <4> TAKE r \in Indices
      <4>1. matrix[r] \in [Indices -> gf]
        BY <1>0 DEF Square
      <4>2. QED
        BY <2>2, <4>1 DEF Swapped
    <3>2. QED
      BY <2>3, <3>1 DEF Square
  <2>5. \A r \in Indices : matrix'[r] = Swapped(matrix[r], indxr[col], indxc[col])
    BY <2>3
  <2>6. Indices' = Indices
    BY <2>3 DEF Indices
  <2>7. Done = col + 1 /\ Done' = col
    <3>1. CASE col = 0
      BY <2>1, <3>1 DEF Done
    <3>2. CASE col # 0
      BY <1>0, <2>1, <3>2 DEF Done
    <3>3. QED
      BY <3>1, <3>2
  <2>8. /\ SolvedBy(Indices, original, matrix, ipiv, indxr, indxc, col + 1)
        /\ \A i \in Indices : ipiv[i] = 1
    BY <2>1, <2>7 DEF InvertInv
  <2>9. SolvedBy(Indices, original, matrix', ipiv, indxr, indxc, col)
    BY <1>0, <2>4, <2>5, <2>8, SolvedBySwapBack
  <2>10. SolvedBy(Indices', original', matrix', ipiv', indxr', indxc', Done')
    BY <2>1, <2>6, <2>7, <2>9
  <2>11. QED
    BY <2>1, <2>6, <2>8, <2>10 DEF InvertInv
<1>6. CASE Multiply
  <2>1. stage' = "decoded"
    BY <1>6 DEF Multiply
  <2>2. QED
    BY <2>1 DEF InvertInv
<1>7. CASE UNCHANGED vars
  <2>1. /\ pivoting' = pivoting /\ matrix' = matrix /\ original' = original /\ stage' = stage
    BY <1>7 DEF vars
  <2>2. ipiv' = ipiv /\ col' = col /\ indxr' = indxr /\ indxc' = indxc
    BY <2>1 DEF pivoting
  <2>3. Indices' = Indices /\ PivotsMade' = PivotsMade /\ Done' = Done
    BY <2>1, <2>2 DEF Indices, PivotsMade, Done
  <2>4. QED
    BY <2>1, <2>2, <2>3 DEF InvertInv
<1>8. QED
  BY <1>1, <1>2, <1>3, <1>4, <1>5, <1>6, <1>7 DEF Next
-----------------------------------------------------------------------------
(***************************************************************************)
(* The reference product, computed bit by bit, is the table's.             *)
(***************************************************************************)
\* The bits b and above of y, moved down by b.
Upper(y, b) == {c \in 0..7 : c + b \in y}

LEMMA UpperIs ==
  ASSUME NEW y \in gf
  PROVE  /\ Upper(y, 0) = y /\ Upper(y, 8) = Zero
         /\ \A b \in 0..7 : /\ Upper(y, b + 1) \in gf
                            /\ Upper(y, b) = Xor(times_alpha[Upper(y, b + 1)],
                                                 IF b \in y THEN One ELSE Zero)
<1>0. \A c \in y : c \in 0..7
  BY DEF gf, GF_BITS
<1>1. Upper(y, 0) = y
  <2>1. \A c \in 0..7 : c + 0 = c
    OBVIOUS
  <2>2. QED
    BY <1>0, <2>1 DEF Upper
<1>2. Upper(y, 8) = Zero
  <2>1. \A c \in 0..7 : c + 8 \notin y
    BY <1>0
  <2>2. QED
    BY <2>1 DEF Upper, Zero
<1>3. ASSUME NEW b \in 0..7
      PROVE  /\ Upper(y, b + 1) \in gf
             /\ Upper(y, b) = Xor(times_alpha[Upper(y, b + 1)], IF b \in y THEN One ELSE Zero)
  <2> DEFINE u == Upper(y, b + 1)
             e == IF b \in y THEN One ELSE Zero
  <2>1. u \in gf
    BY DEF Upper, gf, GF_BITS
  <2>2. 7 \notin u
    <3>1. 7 + (b + 1) \notin 0..7
      OBVIOUS
    <3>2. QED
      BY <1>0, <3>1 DEF Upper
  <2>3. \A d : d \in times_alpha[u] <=> d \in 0..7 /\ d - 1 \in u
    <3> HIDE DEF u
    <3>1. QED
      BY <2>1, <2>2, AlphaBits
  <2>4. \A d \in 0..7 : d - 1 \in u <=> d # 0 /\ d + b \in y
    <3> TAKE d \in 0..7
    <3>1. d - 1 + (b + 1) = d + b
      OBVIOUS
    <3>2. d - 1 \in 0..7 <=> d # 0
      OBVIOUS
    <3>3. QED
      BY <3>1, <3>2 DEF Upper
  <2>5. \A d : d \in e <=> d = 0 /\ b \in y
    BY DEF One, Zero
  <2>6. 0 + b = b
    OBVIOUS
  <2> HIDE DEF u, e
  <2>7. \A d : d \in Upper(y, b) <=> ~(d \in times_alpha[u] <=> d \in e)
    <3> TAKE d
    <3>1. d \in Upper(y, b) <=> d \in 0..7 /\ d + b \in y
      BY DEF Upper
    <3>2. 0 \in 0..7
      OBVIOUS
    <3>3. CASE d = 0
      BY <2>3, <2>4, <2>5, <2>6, <3>1, <3>2, <3>3
    <3>4. CASE d # 0
      BY <2>3, <2>4, <2>5, <3>1, <3>4
    <3>5. QED
      BY <3>3, <3>4
  <2>8. \A d : d \in Upper(y, b) <=> d \in Xor(times_alpha[u], e)
    BY <2>7 DEF Xor
  <2>9. Upper(y, b) = Xor(times_alpha[u], e)
    BY <2>8, Zenon
  <2>10. QED
    BY <2>1, <2>9 DEF u, e
<1>4. QED
  BY <1>1, <1>2, <1>3

Partial(x, y, part, b) ==
  IF b = GF_BITS THEN Zero
  ELSE Xor(times_alpha[part[b + 1]], IF b \in y THEN x ELSE Zero)

LEMMA ProductIsMul ==
  ASSUME NEW x \in gf, NEW y \in gf
  PROVE  Product(x, y) = gf_mul(x, y)
<1> DEFINE h == [b \in 0..8 |-> gf_mul(x, Upper(y, b))]
<1>1. ASSUME NEW part, NEW b \in 0..8, b # 8 => part[b + 1] = gf_mul(x, Upper(y, b + 1))
      PROVE  Partial(x, y, part, b) = gf_mul(x, Upper(y, b))
  <2>1. CASE b = 8
    BY <2>1, UpperIs, MulZero DEF Partial, GF_BITS
  <2>2. CASE b # 8
    <3> DEFINE u == Upper(y, b + 1)
               e == IF b \in y THEN One ELSE Zero
    <3>1. b \in 0..7
      BY <2>2
    <3>2. u \in gf /\ e \in gf /\ Upper(y, b) = Xor(times_alpha[u], e)
      BY <3>1, UpperIs, ZeroOne
    <3>3. Partial(x, y, part, b) = Xor(times_alpha[gf_mul(x, u)], IF b \in y THEN x ELSE Zero)
      BY <1>1, <2>2 DEF Partial, GF_BITS
    <3>4. gf_mul(x, e) = IF b \in y THEN x ELSE Zero
      BY MulOne, MulZero
    <3> HIDE DEF u, e
    <3>5. PICK a \in gf : \A z \in gf : times_alpha[z] = gf_mul(a, z)
      <4>1. 1 \in 0..254
        OBVIOUS
      <4>2. gf_exp[1] \in gf
        BY <4>1, Tables, Zenon
      <4>3. QED
        BY <4>2, AlphaIsMul
    <3>6. gf_mul(x, Xor(times_alpha[u], e)) = Xor(gf_mul(x, times_alpha[u]), gf_mul(x, e))
      <4>1. times_alpha[u] \in gf
        BY <3>2, <3>5, MulClosed
      <4>2. QED
        BY <3>2, <4>1, MulAdds
    <3>7. gf_mul(x, times_alpha[u]) = times_alpha[gf_mul(x, u)]
      <4>1. gf_mul(x, gf_mul(a, u)) = gf_mul(gf_mul(x, a), u)
        BY <3>2, <3>5, MulAssoc
      <4>2. gf_mul(gf_mul(x, a), u) = gf_mul(gf_mul(a, x), u)
        BY <3>5, MulComm
      <4>3. gf_mul(gf_mul(a, x), u) = gf_mul(a, gf_mul(x, u))
        BY <3>2, <3>5, MulAssoc
      <4>4. gf_mul(x, u) \in gf
        BY <3>2, MulClosed
      <4>5. QED
        BY <3>2, <3>5, <4>1, <4>2, <4>3, <4>4
    <3>8. QED
      BY <3>2, <3>3, <3>4, <3>6, <3>7
  <2>3. QED
    BY <2>1, <2>2
<1>2. \A b \in 0..8 : Partial(x, y, h, b) = gf_mul(x, Upper(y, b))
  <2> TAKE b \in 0..8
  <2>1. ASSUME b # 8 PROVE h[b + 1] = gf_mul(x, Upper(y, b + 1))
    <3>1. b + 1 \in 0..8
      BY <2>1
    <3>2. QED
      BY <3>1
  <2> HIDE DEF h
  <2>2. QED
    BY <1>1, <2>1
<1>3. h = [b \in 0..GF_BITS |-> Partial(x, y, h, b)]
  BY <1>2 DEF GF_BITS
<1> HIDE DEF h
<1> DEFINE Body(part) == [b \in 0..GF_BITS |-> Partial(x, y, part, b)]
           whole == CHOOSE part : part = Body(part)
<1>4. whole = Body(whole)
  BY <1>3
<1>5. Product(x, y) = whole[0]
  BY DEF Product, Partial
<1>6. whole = [b \in 0..GF_BITS |-> Partial(x, y, whole, b)]
  BY <1>4
<1> HIDE DEF whole, Body
<1>7. \A b \in 0..8 : whole[b] = Partial(x, y, whole, b)
  BY <1>6 DEF GF_BITS
<1> DEFINE W == {n \in 0..8 : whole[8 - n] # gf_mul(x, Upper(y, 8 - n))}
<1>8. W = {}
  <2>1. SUFFICES ASSUME W # {} PROVE FALSE
    OBVIOUS
  <2>2. W \in SUBSET Nat
    OBVIOUS
  <2>3. PICK n \in W : \A m \in W : n <= m
    BY <2>1, <2>2, LeastNumber
  <2>4. PICK b \in 0..8 : b = 8 - n /\ whole[b] # gf_mul(x, Upper(y, b))
    BY <2>3
  <2>5. ASSUME b # 8 PROVE whole[b + 1] = gf_mul(x, Upper(y, b + 1))
    <3>1. n \in 0..8 /\ n # 0
      BY <2>3, <2>4, <2>5
    <3>2. n - 1 \in 0..8 /\ n - 1 \notin W /\ 8 - (n - 1) = b + 1
      BY <2>3, <2>4, <3>1
    <3>3. QED
      BY <3>2
  <2> HIDE DEF W
  <2>6. Partial(x, y, whole, b) = gf_mul(x, Upper(y, b))
    BY <1>1, <2>5
  <2>7. QED
    BY <1>7, <2>4, <2>6
<1>9. whole[0] = gf_mul(x, Upper(y, 0))
  <2>1. 8 \in 0..8 /\ 8 \notin W /\ 8 - 8 = 0
    BY <1>8
  <2>2. QED
    BY <2>1
<1>10. QED
  BY <1>5, <1>9, UpperIs
-----------------------------------------------------------------------------
(***************************************************************************)
(* The inverse.                                                            *)
(***************************************************************************)
LEMMA SumIsTotal == ASSUME NEW S, NEW g PROVE Sum(S, LAMBDA i : g[i]) = Total(S, g)
BY DEF Sum, Total, Odd

\* What is left when invert_mat returns solves every system of equations.
LEMMA InvertedSolves ==
  ASSUME TypeInv, InvertInv, stage = "inverted",
         NEW x \in Vector(Indices), NEW y \in Vector(Indices)
  PROVE  Gives(Indices, original, x, y) <=> Gives(Indices, matrix, y, x)
<1> DEFINE I == Indices
           Y == [l \in Nat |-> y]
<1>1. SolvedBy(I, original, matrix, ipiv, indxr, indxc, 0) /\ \A i \in I : ipiv[i] = 1
  BY DEF InvertInv, Done
<1>2. I \in SUBSET Nat /\ x \in Vector(I) /\ y \in Vector(I)
  BY SizedIs DEF TypeInv
<1> HIDE DEF I
<1>3. Y \in [Nat -> Vector(I)] /\ Y[0] = y
  BY <1>2
<1>4. Follows(I, Y, 0, indxr, indxc)
  <2>1. \A l \in I : ~(l < 0)
    BY <1>2
  <2>2. QED
    BY <2>1 DEF Follows
<1> HIDE DEF Y
<1>5. Mixed(I, ipiv, y, x) = y /\ Mixed(I, ipiv, x, y) = x
  BY <1>1, <1>2, MixedIs
<1>6. Gives(I, original, x, y) <=> Gives(I, matrix, y, x)
  BY <1>1, <1>2, <1>3, <1>4, <1>5 DEF SolvedBy
<1>7. QED
  BY <1>6 DEF I

LEMMA InvertedIsInverse ==
  ASSUME TypeInv, InvertInv, stage = "inverted"
  PROVE  MatrixProduct(original, matrix) = [r \in Indices |-> UnitRow(r)]
<1> DEFINE I == Indices
<1>1. IsFiniteSet(I) /\ original \in Square(I) /\ matrix \in Square(I)
  BY SizedIs DEF TypeInv, TypeOK, Square
<1>2. ASSUME NEW r \in I, NEW c \in I
      PROVE  Sum(I, LAMBDA i : Product(original[r][i], matrix[i][c])) = IF c = r THEN One ELSE Zero
  <2> DEFINE x == [i \in I |-> matrix[i][c]]
             e == UnitVector(I, c)
             g == Terms(I, original, r, x)
  <2>1. x \in Vector(I) /\ e \in Vector(I)
    BY <1>1, RowOfUnit DEF Square, Vector
  <2>2. Gives(I, matrix, e, x)
    <3> SUFFICES ASSUME NEW i \in I PROVE x[i] = Row(I, matrix, i, e)
      BY DEF Gives
    <3>1. Row(I, matrix, i, e) = matrix[i][c]
      BY <1>1, RowOfUnit
    <3>2. QED
      BY <3>1
  <2>3. Gives(I, original, x, e)
    BY <2>1, <2>2, InvertedSolves
  <2>4. Total(I, g) = e[r]
    BY <2>3 DEF Gives, Row
  <2>5. \A i \in I : Product(original[r][i], matrix[i][c]) = g[i]
    <3> TAKE i \in I
    <3>1. original[r][i] \in gf /\ matrix[i][c] \in gf
      BY <1>1 DEF Square
    <3>2. QED
      BY <3>1, ProductIsMul DEF Terms
  <2> HIDE DEF g, x
  <2>6. \A b : {i \in I : b \in Product(original[r][i], matrix[i][c])} = {i \in I : b \in g[i]}
    BY <2>5
  <2>7. Sum(I, LAMBDA i : Product(original[r][i], matrix[i][c])) = Total(I, g)
    BY <2>6 DEF Sum, Total, Odd
  <2>8. e[r] = IF c = r THEN One ELSE Zero
    BY DEF UnitVector
  <2>9. QED
    BY <2>4, <2>7, <2>8
<1>3. DOMAIN original = I
  BY <1>1 DEF Square
<1> DEFINE entry(r, c) == Sum(I, LAMBDA i : Product(original[r][i], matrix[i][c]))
<1>4. MatrixProduct(original, matrix) = [r \in I |-> [c \in I |-> entry(r, c)]]
  BY <1>3 DEF MatrixProduct
<1>5. [r \in Indices |-> UnitRow(r)] = [r \in I |-> [c \in I |-> IF c = r THEN One ELSE Zero]]
  BY DEF UnitRow
<1>6. \A r, c \in I : entry(r, c) = IF c = r THEN One ELSE Zero
  BY <1>2
<1> HIDE DEF entry, I
<1>7. QED
  BY <1>4, <1>5, <1>6

\* Only a matrix that takes some vector other than zero to zero, which none
\* with an inverse does, is reported as singular.
THEOREM SingularHasKernel == Spec => [](stage = "singular" => HasKernel(Indices, original))
<1>1. TypeInv /\ InvertInv => (stage = "singular" => HasKernel(Indices, original))
  BY DEF InvertInv
<1>2. QED
  BY TypeInit, TypeStep, InvertInit, InvertStep, <1>1, PTL DEF Spec
-----------------------------------------------------------------------------
(***************************************************************************)
(* The coefficients: fec_encode, reduce and resolve number the DATA and    *)
(* the FEC packets differently and mean the same. What matters of them is  *)
(* that they are 1/(a+b), with a different for every FEC and b for every   *)
(* DATA, and no a equal to a b.                                            *)
(***************************************************************************)
LEMMA BytesIn == ASSUME NEW n PROVE Byte(n) \in gf
BY DEF Byte, gf

LEMMA UpperByte ==
  ASSUME NEW n \in 0..127
  PROVE  /\ Byte(128 + n) = Xor(Byte(n), {7}) /\ {7} \in gf
         /\ 7 \in Byte(128 + n) /\ 7 \notin Byte(n)
<1>1. 7 \notin Byte(n) /\ Byte(128 + n) = Byte(n) \cup {7}
  BY BytesAssumption
<1>2. Byte(128 + n) = Xor(Byte(n), {7})
  BY <1>1 DEF Xor
<1>3. {7} \in gf
  BY DEF gf, GF_BITS
<1>4. QED
  BY <1>1, <1>2, <1>3

LEMMA SmallNumbers ==
  /\ \A d \in DataNos : d \in 0..127
  /\ \A f \in FecNos : f \in 0..127
BY BlockAssumption DEF MAX_DATA_OR_FEC_PACKETS_PER_BLOCK, DataNos, FecNos

LEMMA CoefficientsAgree ==
  ASSUME NEW f \in FecNos, NEW d \in DataNos
  PROVE  /\ ReduceCoefficient(f, d) = EncodeCoefficient(f, d)
         /\ ResolveCoefficient(f, d) = EncodeCoefficient(f, d)
         /\ EncodeCoefficient(f, d) \in gf
<1> DEFINE x == Byte(f)
           y == Byte(d)
           t == {7}
<1>1. x \in gf /\ y \in gf /\ t \in gf
  BY BytesIn, UpperByte, SmallNumbers
<1>2. Byte(128 + d) = Xor(y, t) /\ Byte(128 + f) = Xor(x, t)
  BY SmallNumbers, UpperByte
<1>3. Byte(128) = t
  <2>1. 0 \in 0..127 /\ 128 + 0 = 128
    OBVIOUS
  <2>2. Byte(128) = Xor(Byte(0), {7}) /\ {7} \in gf
    BY <2>1, UpperByte
  <2>3. QED
    BY <2>2, XorZero, BytesAssumption
<1> HIDE DEF x, y, t
<1>4. Xor(Xor(x, y), t) = Xor(x, Xor(y, t))
  BY <1>1, XorAssoc
<1>5. Xor(Xor(x, t), y) = Xor(x, Xor(y, t))
  BY <1>1, XorAssoc, XorComm
<1>6. Xor(x, Xor(y, t)) \in gf
  BY <1>1, XorClosed
<1>7. inverse[Xor(x, Xor(y, t))] \in gf
  BY <1>6, InverseIs, InverseOfZero, ZeroOne
<1>8. /\ ReduceCoefficient(f, d) = inverse[Xor(x, Xor(y, t))]
      /\ ResolveCoefficient(f, d) = inverse[Xor(x, Xor(y, t))]
      /\ EncodeCoefficient(f, d) = inverse[Xor(x, Xor(y, t))]
  BY <1>2, <1>3, <1>4, <1>5
     DEF ReduceCoefficient, ResolveCoefficient, EncodeCoefficient, x, y
<1>9. QED
  BY <1>7, <1>8

-----------------------------------------------------------------------------
(***************************************************************************)
(* Decoding: the FEC packets are what the coefficients give from the lost  *)
(* DATA, once the others are subtracted; the inverse gives the DATA back.  *)
(***************************************************************************)
Coefficients ==
  [row \in Indices |-> [c \in Indices |-> ResolveCoefficient(fec_block_nos[row], erased_blocks[c])]]
Lost == [i \in Indices |-> sent[erased_blocks[i]]]

DecodeInv ==
  Decoding =>
    /\ stage \in {"received", "reduced", "inverting", "unscrambling", "inverted"} =>
         \A d \in DataNos : (\A i \in Indices : erased_blocks[i] # d) => data[d] = sent[d]
    /\ stage = "received" => \A j \in Indices : fec[j] = Encoded(sent, fec_block_nos[j])
    /\ stage \in {"reduced", "inverting", "unscrambling", "inverted"} =>
         Gives(Indices, Coefficients, Lost, fec)
    /\ stage \in {"inverting", "unscrambling", "inverted"} => original = Coefficients
    /\ stage = "decoded" => data = sent

LEMMA CoefficientsIn ==
  ASSUME NEW E \in SUBSET DataNos, NEW C \in SUBSET FecNos, CalledFor(E, C),
         sent \in [DataNos -> gf]
  PROVE  /\ Coefficients \in Square(Indices) /\ Lost \in Vector(Indices)
         /\ \A i \in Indices : erased_blocks[i] \in DataNos /\ fec_block_nos[i] \in FecNos
<1>1. \A i \in Indices : erased_blocks[i] \in DataNos /\ fec_block_nos[i] \in FecNos
  BY CallIs
<1>2. \A i, j \in Indices : ResolveCoefficient(fec_block_nos[i], erased_blocks[j]) \in gf
  BY <1>1, CoefficientsAgree
<1>3. QED
  BY <1>1, <1>2 DEF Coefficients, Lost, Square, Vector

\* What reduce leaves of a FEC packet.
LEMMA Reduced ==
  ASSUME NEW E \in SUBSET DataNos, NEW C \in SUBSET FecNos, CalledFor(E, C),
         sent \in [DataNos -> gf], \A d \in DataNos \ E : data[d] = sent[d], NEW j \in Indices
  PROVE  Xor(Encoded(sent, fec_block_nos[j]),
             Sum(Known, LAMBDA c : gf_mul(ReduceCoefficient(fec_block_nos[j], c), data[c])))
           = Row(Indices, Coefficients, j, Lost)
<1> DEFINE f == fec_block_nos[j]
           g == [d \in DataNos |-> gf_mul(EncodeCoefficient(f, d), sent[d])]
           k == Terms(Indices, Coefficients, j, Lost)
<1>1. f \in FecNos /\ \A i \in Indices : erased_blocks[i] \in DataNos
  BY CoefficientsIn
<1>2. \A d \in DataNos : g[d] \in gf /\ g[d] = gf_mul(EncodeCoefficient(f, d), sent[d])
  <2>1. \A d \in DataNos : EncodeCoefficient(f, d) \in gf /\ sent[d] \in gf
    BY <1>1, CoefficientsAgree
  <2>2. QED
    BY <2>1, MulClosed
<1> HIDE DEF g
<1>3. Encoded(sent, f) = Total(DataNos, g)
  <2>1. \A b : {d \in DataNos : b \in gf_mul(EncodeCoefficient(f, d), sent[d])}
                 = {d \in DataNos : b \in g[d]}
    BY <1>2
  <2>2. QED
    BY <2>1 DEF Encoded, Sum, Total, Odd
<1>4. Known = DataNos \ E
  BY CallIs, ErasedIdxIs DEF CalledFor
<1>5. Sum(Known, LAMBDA c : gf_mul(ReduceCoefficient(f, c), data[c])) = Total(DataNos \ E, g)
  <2>1. \A c \in Known : gf_mul(ReduceCoefficient(f, c), data[c]) = g[c]
    BY <1>1, <1>2, <1>4, CoefficientsAgree
  <2>2. \A b : {c \in Known : b \in gf_mul(ReduceCoefficient(f, c), data[c])}
                 = {c \in Known : b \in g[c]}
    BY <2>1
  <2>3. Sum(Known, LAMBDA c : gf_mul(ReduceCoefficient(f, c), data[c])) = Total(Known, g)
    BY <2>2 DEF Sum, Total, Odd
  <2>4. QED
    BY <1>4, <2>3
<1>6. Total(DataNos, g) = Xor(Total(DataNos \ E, g), Total(E, g))
  <2>1. IsFiniteSet(DataNos \ E) /\ IsFiniteSet(E)
    BY NumbersFinite, FS_Subset
  <2>2. (DataNos \ E) \cup E = DataNos /\ (DataNos \ E) \cap E = {}
    OBVIOUS
  <2>3. \A d \in (DataNos \ E) \cup E : g[d] \in gf
    BY <1>2, <2>2
  <2>4. Total((DataNos \ E) \cup E, g) = Xor(Total(DataNos \ E, g), Total(E, g))
    BY <2>1, <2>2, <2>3, TotalUnion
  <2>5. QED
    BY <2>2, <2>4
<1>7. Total(E, g) = Total(Indices, k)
  <2>1. {erased_blocks[i] : i \in Indices} = E
    <3>1. /\ \A i \in Indices : erased_blocks[i] \in E
          /\ \A d \in E : \E i \in Indices : erased_blocks[i] = d
      BY CallIs
    <3>2. QED
      BY <3>1
  <2>2. IsFiniteSet(Indices)
    <3>1. Sized
      BY CallIs DEF Sized
    <3>2. QED
      BY <3>1, SizedIs
  <2>3. \A i \in Indices : g[erased_blocks[i]] \in gf /\ k[i] = g[erased_blocks[i]]
    <3> TAKE i \in Indices
    <3>1. k[i] = gf_mul(ResolveCoefficient(f, erased_blocks[i]), sent[erased_blocks[i]])
      BY DEF Terms, Coefficients, Lost
    <3>2. QED
      BY <1>1, <1>2, <3>1, CoefficientsAgree
  <2>4. \A i, l \in Indices : erased_blocks[i] = erased_blocks[l] => i = l
    BY CallIs
  <2> HIDE DEF k
  <2>5. Total({erased_blocks[i] : i \in Indices}, g) = Total(Indices, k)
    BY <2>2, <2>3, <2>4, TotalImage
  <2>6. QED
    BY <2>1, <2>5
<1>8. Xor(Encoded(sent, f), Sum(Known, LAMBDA c : gf_mul(ReduceCoefficient(f, c), data[c])))
        = Total(E, g)
  <2> DEFINE a == Total(DataNos \ E, g)
             b == Total(E, g)
  <2>1. a \in gf /\ b \in gf
    BY TotalClosed
  <2> HIDE DEF a, b
  <2>2. Xor(Xor(a, b), a) = b
    BY <2>1, XorCancel
  <2>3. QED
    BY <1>3, <1>5, <1>6, <2>2 DEF a, b
<1>9. QED
  BY <1>7, <1>8 DEF Row
LEMMA DecodeInit == Init => DecodeInv
<1>1. ASSUME DecodeCall PROVE DecodeInv
  <2>1. PICK E \in SUBSET DataNos, C \in SUBSET FecNos :
          /\ E # {} /\ Cardinality(E) = Cardinality(C)
          /\ erased_blocks = Ascending(E) /\ fec_block_nos = Ascending(C)
          /\ data = [d \in DataNos |-> IF d \in E THEN Stale ELSE sent[d]]
    BY <1>1 DEF DecodeCall
  <2>2. /\ stage = "received"
        /\ matrix = [i \in DOMAIN erased_blocks |-> [j \in DOMAIN erased_blocks |-> Zero]]
        /\ fec = [j \in DOMAIN fec_block_nos |-> Encoded(sent, fec_block_nos[j])]
    BY <1>1 DEF DecodeCall
  <2>3. Indices = 0..(Cardinality(E) - 1) /\ DOMAIN fec_block_nos = 0..(Cardinality(E) - 1)
    <3>1. DOMAIN erased_blocks = 0..(Cardinality(E) - 1)
      BY <2>1 DEF Ascending
    <3>2. DOMAIN fec_block_nos = 0..(Cardinality(C) - 1)
      BY <2>1 DEF Ascending
    <3>3. QED
      BY <2>1, <2>2, <3>1, <3>2 DEF Indices
  <2>4. CalledFor(E, C)
    BY <2>1, <2>3 DEF CalledFor
  <2>5. \A d \in DataNos : (\A i \in Indices : erased_blocks[i] # d) => data[d] = sent[d]
    BY <2>1, <2>4, CallIs
  <2>6. \A j \in Indices : fec[j] = Encoded(sent, fec_block_nos[j])
    BY <2>2, <2>3
  <2>7. QED
    BY <2>2, <2>5, <2>6 DEF DecodeInv
<1>2. ASSUME InvertCall PROVE DecodeInv
  BY <1>2 DEF InvertCall, DecodeInv, Decoding
<1>3. QED
  BY <1>1, <1>2 DEF Init

\* The size of the matrix never changes.
LEMMA SameIndices == ASSUME [Next]_vars PROVE Indices' = Indices
<1>1. CASE Reduce
  BY <1>1 DEF Reduce, Indices
<1>2. CASE BuildMatrix
  <2>1. matrix' = [row \in Indices |->
           [c \in Indices |-> ResolveCoefficient(fec_block_nos[row], erased_blocks[c])]]
    BY <1>2 DEF BuildMatrix
  <2>2. DOMAIN matrix' = Indices
    BY <2>1
  <2>3. QED
    BY <2>2 DEF Indices
<1>3. CASE EliminateColumn
  <2>1. DOMAIN matrix' = Indices
    BY <1>3 DEF EliminateColumn
  <2>2. QED
    BY <2>1 DEF Indices
<1>4. CASE PivotMissing
  BY <1>4 DEF PivotMissing, Indices
<1>5. CASE SwapBack
  <2>1. DOMAIN matrix' = Indices
    BY <1>5 DEF SwapBack, ColumnsSwapped
  <2>2. QED
    BY <2>1 DEF Indices
<1>6. CASE Multiply
  BY <1>6 DEF Multiply, Indices
<1>7. CASE UNCHANGED vars
  BY <1>7 DEF vars, Indices
<1>8. QED
  BY <1>1, <1>2, <1>3, <1>4, <1>5, <1>6, <1>7 DEF Next

LEMMA DecodeStep == TypeInv /\ InvertInv /\ DecodeInv /\ [Next]_vars => DecodeInv'
<1> SUFFICES ASSUME TypeInv, InvertInv, DecodeInv, [Next]_vars, Decoding'
             PROVE  DecodeInv'
  BY DEF DecodeInv
<1>1. given' = given
  BY DEF Next, vars, Reduce, BuildMatrix, EliminateColumn, PivotMissing, SwapBack, Multiply
<1>2. erased_blocks' = erased_blocks /\ fec_block_nos' = fec_block_nos /\ sent' = sent
  BY <1>1 DEF given
<1>3. Decoding
  BY <1>2 DEF Decoding
<1>4. PICK E \in SUBSET DataNos, C \in SUBSET FecNos : CalledFor(E, C)
  BY <1>3 DEF TypeInv, DecodeShape
<1>5. /\ sent \in [DataNos -> gf] /\ data \in [DataNos -> gf] /\ fec \in Vector(Indices)
      /\ original \in Square(Indices) /\ matrix \in Square(Indices)
      /\ stage \in {"received", "reduced", "inverting", "unscrambling", "inverted", "singular", "decoded"}
  BY <1>3 DEF TypeInv, DecodeShape, TypeOK, Vector, Square
<1>6. Coefficients \in Square(Indices) /\ Lost \in Vector(Indices)
  BY <1>4, <1>5, CoefficientsIn
<1>7. Indices' = Indices /\ Coefficients' = Coefficients /\ Lost' = Lost
  BY SameIndices, <1>2 DEF Coefficients, Lost
<1>8. CASE Reduce
  <2>1. /\ stage = "received" /\ stage' \in {"reduced", "aborted"} /\ data' = data
        /\ fec' = [j \in Indices |->
                     Xor(fec[j], Sum(Known,
                       LAMBDA c : gf_mul(ReduceCoefficient(fec_block_nos[j], c), data[c])))]
    BY <1>8 DEF Reduce
  <2>2. \A d \in DataNos : (\A i \in Indices : erased_blocks[i] # d) => data[d] = sent[d]
    BY <1>3, <2>1 DEF DecodeInv
  <2>3. \A d \in DataNos \ E : data[d] = sent[d]
    <3>1. \A i \in Indices : erased_blocks[i] \in E
      BY <1>4, CallIs
    <3>2. QED
      BY <2>2, <3>1
  <2>4. \A j \in Indices : fec[j] = Encoded(sent, fec_block_nos[j])
    BY <1>3, <2>1 DEF DecodeInv
  <2>5. ASSUME NEW j \in Indices PROVE fec'[j] = Row(Indices, Coefficients, j, Lost)
    <3>1. Xor(Encoded(sent, fec_block_nos[j]),
              Sum(Known, LAMBDA c : gf_mul(ReduceCoefficient(fec_block_nos[j], c), data[c])))
            = Row(Indices, Coefficients, j, Lost)
      BY <1>4, <1>5, <2>3, Reduced
    <3>2. QED
      BY <2>1, <2>4, <3>1
  <2>6. Gives(Indices, Coefficients, Lost, fec')
    BY <2>5 DEF Gives
  <2>7. Gives(Indices, Coefficients, Lost, fec)'
    BY <1>7, <2>6
  <2>8. QED
    BY <1>2, <1>7, <2>1, <2>2, <2>7 DEF DecodeInv
<1>9. CASE BuildMatrix
  <2>1. /\ stage = "reduced" /\ stage' = "inverting" /\ data' = data /\ fec' = fec
        /\ original' = Coefficients
    BY <1>9 DEF BuildMatrix, packets, Coefficients
  <2>2. QED
    BY <1>2, <1>3, <1>7, <2>1 DEF DecodeInv
<1>10. CASE EliminateColumn
  <2>1. /\ stage = "inverting" /\ stage' \in {"inverting", "unscrambling"}
        /\ data' = data /\ fec' = fec /\ original' = original
    BY <1>10 DEF EliminateColumn, packets
  <2>2. QED
    BY <1>2, <1>3, <1>7, <2>1 DEF DecodeInv
<1>11. CASE PivotMissing
  BY <1>11 DEF PivotMissing, DecodeInv
<1>12. CASE SwapBack
  <2>1. /\ stage = "unscrambling" /\ stage' \in {"unscrambling", "inverted"}
        /\ data' = data /\ fec' = fec /\ original' = original
    BY <1>12 DEF SwapBack, packets
  <2>2. QED
    BY <1>2, <1>3, <1>7, <2>1 DEF DecodeInv
<1>13. CASE Multiply
  <2> DEFINE sum(r) == Sum(Indices, LAMBDA c : gf_mul(matrix[r][c], fec[c]))
  <2>1. /\ stage = "inverted" /\ stage' = "decoded"
        /\ data' = [d \in DataNos |->
             IF \E row \in Indices : erased_blocks[row] = d
             THEN sum(CHOOSE r \in Indices : erased_blocks[r] = d)
             ELSE data[d]]
    BY <1>13 DEF Multiply
  <2>2. Gives(Indices, original, Lost, fec)
    BY <1>3, <2>1 DEF DecodeInv
  <2>3. Gives(Indices, matrix, fec, Lost)
    BY <1>5, <1>6, <2>1, <2>2, InvertedSolves
  <2>4. \A r \in Indices : sum(r) = Lost[r]
    <3> TAKE r \in Indices
    <3> DEFINE g == Terms(Indices, matrix, r, fec)
    <3>1. Lost[r] = Total(Indices, g)
      BY <2>3 DEF Gives, Row
    <3>2. \A c \in Indices : gf_mul(matrix[r][c], fec[c]) = g[c]
      BY DEF Terms
    <3> HIDE DEF g
    <3>3. \A b : {c \in Indices : b \in gf_mul(matrix[r][c], fec[c])} = {c \in Indices : b \in g[c]}
      BY <3>2
    <3>4. sum(r) = Total(Indices, g)
      BY <3>3 DEF Sum, Total, Odd
    <3>5. QED
      BY <3>1, <3>4
  <2> HIDE DEF sum
  <2>5. ASSUME NEW d \in DataNos PROVE data'[d] = sent[d]
    <3>1. CASE \E row \in Indices : erased_blocks[row] = d
      <4>1. PICK r \in Indices : r = CHOOSE row \in Indices : erased_blocks[row] = d
        BY <3>1
      <4>2. erased_blocks[r] = d
        BY <3>1, <4>1
      <4>3. data'[d] = sum(r)
        BY <2>1, <3>1, <4>1
      <4>4. Lost[r] = sent[d]
        BY <4>2 DEF Lost
      <4>5. QED
        BY <2>4, <4>3, <4>4
    <3>2. CASE ~\E row \in Indices : erased_blocks[row] = d
      BY <1>3, <2>1, <3>2 DEF DecodeInv
    <3>3. QED
      BY <3>1, <3>2
  <2>6. data' = sent
    <3>1. data' = [d \in DataNos |-> data'[d]]
      BY <2>1
    <3>2. sent = [d \in DataNos |-> sent[d]]
      BY <1>5
    <3>3. QED
      BY <2>5, <3>1, <3>2
  <2>7. QED
    BY <1>2, <2>1, <2>6 DEF DecodeInv
<1>14. CASE UNCHANGED vars
  <2>1. stage' = stage /\ data' = data /\ fec' = fec /\ original' = original
    BY <1>14 DEF vars, packets
  <2>2. QED
    BY <1>2, <1>3, <1>7, <2>1 DEF DecodeInv
<1>15. QED
  BY <1>8, <1>9, <1>10, <1>11, <1>12, <1>13, <1>14 DEF Next
-----------------------------------------------------------------------------
(***************************************************************************)
(* Every matrix resolve builds can be inverted. What is left of it, when   *)
(* columns are cleared one after the other along the diagonal, is of the   *)
(* same form: u_i * v_j / (a_i + b_j), with no u_i and no v_j zero.        *)
(***************************************************************************)
LEMMA MulNonZero ==
  ASSUME NEW x \in gf \ {Zero}, NEW y \in gf \ {Zero}
  PROVE  gf_mul(x, y) \in gf \ {Zero}
BY MulIs

LEMMA MulSwap ==
  ASSUME NEW x \in gf, NEW y \in gf, NEW z \in gf, NEW w \in gf
  PROVE  gf_mul(gf_mul(x, y), gf_mul(z, w)) = gf_mul(gf_mul(x, z), gf_mul(y, w))
<1>1. /\ gf_mul(z, w) \in gf /\ gf_mul(y, w) \in gf /\ gf_mul(y, z) \in gf /\ gf_mul(z, y) \in gf
  BY MulClosed
<1>2. gf_mul(gf_mul(x, y), gf_mul(z, w)) = gf_mul(x, gf_mul(y, gf_mul(z, w)))
  BY <1>1, MulAssoc
<1>3. gf_mul(y, gf_mul(z, w)) = gf_mul(gf_mul(y, z), w)
  BY MulAssoc
<1>4. gf_mul(gf_mul(y, z), w) = gf_mul(gf_mul(z, y), w)
  BY MulComm
<1>5. gf_mul(gf_mul(z, y), w) = gf_mul(z, gf_mul(y, w))
  BY MulAssoc
<1>6. gf_mul(gf_mul(x, z), gf_mul(y, w)) = gf_mul(x, gf_mul(z, gf_mul(y, w)))
  BY <1>1, MulAssoc
<1>7. QED
  BY <1>2, <1>3, <1>4, <1>5, <1>6

LEMMA InverseUnique ==
  ASSUME NEW x \in gf \ {Zero}, NEW y \in gf, gf_mul(x, y) = One
  PROVE  y = inverse[x]
<1>1. inverse[x] \in gf /\ gf_mul(inverse[x], x) = One
  BY InverseIs
<1>2. gf_mul(inverse[x], gf_mul(x, y)) = gf_mul(gf_mul(inverse[x], x), y)
  BY <1>1, MulAssoc
<1>3. QED
  BY <1>1, <1>2, MulOne

LEMMA InverseOfProduct ==
  ASSUME NEW x \in gf \ {Zero}, NEW y \in gf \ {Zero}
  PROVE  inverse[gf_mul(x, y)] = gf_mul(inverse[x], inverse[y])
<1>1. /\ inverse[x] \in gf /\ inverse[y] \in gf
      /\ gf_mul(x, inverse[x]) = One /\ gf_mul(y, inverse[y]) = One
  BY InverseIs
<1>2. gf_mul(gf_mul(x, y), gf_mul(inverse[x], inverse[y]))
        = gf_mul(gf_mul(x, inverse[x]), gf_mul(y, inverse[y]))
  BY <1>1, MulSwap
<1>3. gf_mul(x, y) \in gf \ {Zero} /\ gf_mul(inverse[x], inverse[y]) \in gf
  BY <1>1, MulNonZero, MulClosed
<1>4. gf_mul(gf_mul(x, y), gf_mul(inverse[x], inverse[y])) = One
  BY <1>1, <1>2, MulOne, ZeroOne
<1>5. QED
  BY <1>3, <1>4, InverseUnique

LEMMA InverseOfInverse ==
  ASSUME NEW x \in gf \ {Zero}
  PROVE  inverse[inverse[x]] = x
<1>1. inverse[x] \in gf \ {Zero} /\ gf_mul(inverse[x], x) = One
  BY InverseIs
<1>2. QED
  BY <1>1, InverseUnique

\* 1/(x+y) + (p+q)/((x+q)(p+y)) = (x+p)(y+q)/((x+y)(x+q)(p+y)).
LEMMA Fractions ==
  ASSUME NEW x \in gf, NEW y \in gf, NEW p \in gf, NEW q \in gf,
         x # y, x # q, p # y, p # q
  PROVE  LET A == Xor(x, y)
             B == Xor(x, q)
             G == Xor(p, y)
             H == Xor(p, q)
             N == gf_mul(Xor(x, p), Xor(y, q))
         IN Xor(inverse[A], gf_mul(inverse[B], gf_mul(H, inverse[G])))
              = gf_mul(N, gf_mul(inverse[A], gf_mul(inverse[B], inverse[G])))
<1> DEFINE A == Xor(x, y)
           B == Xor(x, q)
           G == Xor(p, y)
           H == Xor(p, q)
           N == gf_mul(Xor(x, p), Xor(y, q))
           a == inverse[A]
           b == inverse[B]
           g == inverse[G]
<1>1. \A s, t \in gf : s # t => Xor(s, t) \in gf \ {Zero}
  <2> TAKE s, t \in gf
  <2>1. Xor(s, t) = Zero => s = t
    <3>1. Xor(s, t) = Zero => Xor(Xor(s, t), t) = Xor(Zero, t)
      OBVIOUS
    <3>2. Xor(Xor(s, t), t) = s /\ Xor(Zero, t) = t
      BY XorCancel, XorZero
    <3>3. QED
      BY <3>1, <3>2
  <2>2. QED
    BY <2>1, XorClosed
<1>2. A \in gf \ {Zero} /\ B \in gf \ {Zero} /\ G \in gf \ {Zero} /\ H \in gf \ {Zero}
  BY <1>1
<1>3. N = Xor(gf_mul(B, G), gf_mul(H, A))
  <2> DEFINE xp == gf_mul(x, p)
             xy == gf_mul(x, y)
             xq == gf_mul(x, q)
             yp == gf_mul(y, p)
             pq == gf_mul(p, q)
             yq == gf_mul(y, q)
  <2>1. xp \in gf /\ xy \in gf /\ xq \in gf /\ yp \in gf /\ pq \in gf /\ yq \in gf
    BY MulClosed
  <2>2. gf_mul(p, x) = xp /\ gf_mul(p, y) = yp /\ gf_mul(q, p) = pq /\ gf_mul(q, y) = yq
        /\ gf_mul(q, x) = xq
    BY MulComm
  <2>3. \A s, t, z, w \in gf : gf_mul(Xor(s, t), Xor(z, w))
           = Xor(Xor(gf_mul(s, z), gf_mul(s, w)), Xor(gf_mul(t, z), gf_mul(t, w)))
    BY MulAdds, XorClosed
  <2>4. N = Xor(Xor(xy, xq), Xor(yp, pq))
    BY <2>2, <2>3
  <2>5. gf_mul(B, G) = Xor(Xor(xp, xy), Xor(pq, yq))
    BY <2>2, <2>3
  <2>6. gf_mul(H, A) = Xor(Xor(xp, yp), Xor(xq, yq))
    BY <2>2, <2>3
  <2> HIDE DEF xp, xy, xq, yp, pq, yq, N, A, B, G, H
  <2>7. \A e : e \in Xor(Xor(xy, xq), Xor(yp, pq))
                 <=> e \in Xor(Xor(Xor(xp, xy), Xor(pq, yq)), Xor(Xor(xp, yp), Xor(xq, yq)))
    BY DEF Xor
  <2>8. Xor(Xor(xy, xq), Xor(yp, pq)) = Xor(Xor(Xor(xp, xy), Xor(pq, yq)), Xor(Xor(xp, yp), Xor(xq, yq)))
    BY <2>7, Zenon
  <2>9. QED
    BY <2>4, <2>5, <2>6, <2>8
<1>4. /\ a \in gf /\ b \in gf /\ g \in gf
      /\ gf_mul(A, a) = One /\ gf_mul(B, b) = One /\ gf_mul(G, g) = One
  BY <1>2, InverseIs
<1> HIDE DEF A, B, G, H, N, a, b, g
<1> DEFINE bg == gf_mul(b, g)
           r  == gf_mul(a, bg)
<1>5. bg \in gf /\ r \in gf /\ gf_mul(B, G) \in gf /\ gf_mul(H, A) \in gf
  BY <1>2, <1>4, MulClosed
<1>6. gf_mul(N, r) = Xor(gf_mul(gf_mul(B, G), r), gf_mul(gf_mul(H, A), r))
  BY <1>3, <1>5, MulAdds
<1>7. gf_mul(gf_mul(B, G), r) = a
  <2>1. r = gf_mul(bg, a)
    BY <1>4, <1>5, MulComm
  <2>2. gf_mul(gf_mul(B, G), gf_mul(bg, a)) = gf_mul(gf_mul(gf_mul(B, G), bg), a)
    BY <1>4, <1>5, MulAssoc
  <2>3. gf_mul(gf_mul(B, G), bg) = gf_mul(gf_mul(B, b), gf_mul(G, g))
    BY <1>2, <1>4, MulSwap
  <2>4. QED
    BY <1>4, <2>1, <2>2, <2>3, MulOne, ZeroOne
<1>8. gf_mul(gf_mul(H, A), r) = gf_mul(b, gf_mul(H, g))
  <2>1. gf_mul(gf_mul(H, A), gf_mul(a, bg)) = gf_mul(H, gf_mul(A, gf_mul(a, bg)))
    BY <1>2, <1>4, <1>5, MulAssoc, MulClosed
  <2>2. gf_mul(A, gf_mul(a, bg)) = gf_mul(gf_mul(A, a), bg)
    BY <1>2, <1>4, <1>5, MulAssoc
  <2>3. gf_mul(gf_mul(A, a), bg) = bg
    BY <1>4, <1>5, MulOne
  <2>4. gf_mul(H, gf_mul(b, g)) = gf_mul(gf_mul(H, b), g)
    BY <1>2, <1>4, MulAssoc
  <2>5. gf_mul(gf_mul(H, b), g) = gf_mul(gf_mul(b, H), g)
    BY <1>2, <1>4, MulComm
  <2>6. gf_mul(gf_mul(b, H), g) = gf_mul(b, gf_mul(H, g))
    BY <1>2, <1>4, MulAssoc
  <2>7. QED
    BY <2>1, <2>2, <2>3, <2>4, <2>5, <2>6
<1>9. Xor(a, gf_mul(b, gf_mul(H, g))) = gf_mul(N, r)
  BY <1>6, <1>7, <1>8
<1>10. QED
  BY <1>9 DEF A, B, G, H, N, a, b, g
Cell(u, v, a, b) == gf_mul(gf_mul(u, v), inverse[Xor(a, b)])

LEMMA DifferenceIn ==
  ASSUME NEW x \in gf, NEW y \in gf, x # y
  PROVE  /\ Xor(x, y) \in gf \ {Zero} /\ inverse[Xor(x, y)] \in gf \ {Zero}
<1>1. Xor(x, y) # Zero
  <2>1. Xor(Xor(x, y), y) = x /\ Xor(Zero, y) = y
    BY XorCancel, XorZero
  <2>2. QED
    BY <2>1
<1>2. QED
  BY <1>1, XorClosed, InverseIs

\* What is left of a cell once its column is cleared is a cell of the same form.
CellLeft(u, v, x, y, uk, vk, p, q) ==
  Xor(Cell(u, v, x, y),
      gf_mul(Cell(u, vk, x, q), gf_mul(inverse[Cell(uk, vk, p, q)], Cell(uk, v, p, y))))
    = Cell(gf_mul(u, gf_mul(Xor(x, p), inverse[Xor(x, q)])),
           gf_mul(v, gf_mul(Xor(y, q), inverse[Xor(p, y)])), x, y)

LEMMA CellCleared ==
  ASSUME NEW x \in gf, NEW y \in gf, NEW p \in gf, NEW q \in gf,
         x # y, x # q, p # y, p # q,
         NEW u \in gf \ {Zero}, NEW v \in gf \ {Zero}, NEW uk \in gf \ {Zero}, NEW vk \in gf \ {Zero}
  PROVE  CellLeft(u, v, x, y, uk, vk, p, q)
<1> DEFINE a == inverse[Xor(x, y)]
           b == inverse[Xor(x, q)]
           g == inverse[Xor(p, y)]
           H == Xor(p, q)
           h == inverse[H]
           iu == inverse[uk]
           iv == inverse[vk]
           uv == gf_mul(u, v)
           l == Xor(x, p)
           m == Xor(y, q)
           N == gf_mul(l, m)
<1>1. /\ a \in gf \ {Zero} /\ b \in gf \ {Zero} /\ g \in gf \ {Zero}
      /\ H \in gf \ {Zero} /\ h \in gf \ {Zero}
  BY DifferenceIn
<1>2. /\ iu \in gf \ {Zero} /\ iv \in gf \ {Zero}
      /\ gf_mul(iu, uk) = One /\ gf_mul(vk, iv) = One /\ gf_mul(iv, vk) = One
  BY InverseIs
<1>3. uv \in gf /\ l \in gf /\ m \in gf /\ N \in gf
  BY MulClosed, XorClosed
<1>4. inverse[h] = H
  BY <1>1, InverseOfInverse
<1>5. Xor(a, gf_mul(b, gf_mul(H, g))) = gf_mul(N, gf_mul(a, gf_mul(b, g)))
  BY Fractions
<1> HIDE DEF a, b, g, H, h, iu, iv, uv, l, m, N
<1>6. inverse[gf_mul(gf_mul(uk, vk), h)] = gf_mul(gf_mul(iu, iv), H)
  <2>1. gf_mul(uk, vk) \in gf \ {Zero}
    BY MulNonZero
  <2>2. inverse[gf_mul(gf_mul(uk, vk), h)] = gf_mul(inverse[gf_mul(uk, vk)], inverse[h])
    BY <1>1, <2>1, InverseOfProduct
  <2>3. inverse[gf_mul(uk, vk)] = gf_mul(iu, iv)
    BY InverseOfProduct DEF iu, iv
  <2>4. QED
    BY <1>4, <2>2, <2>3
<1>7. gf_mul(gf_mul(gf_mul(iu, iv), H), gf_mul(gf_mul(uk, v), g))
        = gf_mul(gf_mul(iv, v), gf_mul(H, g))
  <2>1. gf_mul(iu, iv) \in gf /\ gf_mul(uk, v) \in gf /\ gf_mul(iv, v) \in gf
    BY <1>2, MulClosed
  <2>2. gf_mul(gf_mul(gf_mul(iu, iv), H), gf_mul(gf_mul(uk, v), g))
          = gf_mul(gf_mul(gf_mul(iu, iv), gf_mul(uk, v)), gf_mul(H, g))
    BY <1>1, <2>1, MulSwap
  <2>3. gf_mul(gf_mul(iu, iv), gf_mul(uk, v)) = gf_mul(gf_mul(iu, uk), gf_mul(iv, v))
    BY <1>2, MulSwap
  <2>4. gf_mul(gf_mul(iu, uk), gf_mul(iv, v)) = gf_mul(iv, v)
    BY <1>2, <2>1, MulOne
  <2>5. QED
    BY <2>2, <2>3, <2>4
<1>8. gf_mul(gf_mul(gf_mul(u, vk), b), gf_mul(gf_mul(iv, v), gf_mul(H, g)))
        = gf_mul(uv, gf_mul(b, gf_mul(H, g)))
  <2>1. gf_mul(u, vk) \in gf /\ gf_mul(iv, v) \in gf /\ gf_mul(H, g) \in gf
    BY <1>1, <1>2, MulClosed
  <2>2. gf_mul(gf_mul(gf_mul(u, vk), b), gf_mul(gf_mul(iv, v), gf_mul(H, g)))
          = gf_mul(gf_mul(gf_mul(u, vk), gf_mul(iv, v)), gf_mul(b, gf_mul(H, g)))
    BY <1>1, <2>1, MulSwap
  <2>3. gf_mul(gf_mul(u, vk), gf_mul(iv, v)) = gf_mul(u, gf_mul(vk, gf_mul(iv, v)))
    BY <2>1, MulAssoc
  <2>4. gf_mul(vk, gf_mul(iv, v)) = gf_mul(gf_mul(vk, iv), v)
    BY <1>2, MulAssoc
  <2>5. gf_mul(gf_mul(vk, iv), v) = v
    BY <1>2, MulOne
  <2>6. QED
    BY <2>2, <2>3, <2>4, <2>5 DEF uv
<1>9. Xor(gf_mul(uv, a), gf_mul(uv, gf_mul(b, gf_mul(H, g))))
         = gf_mul(uv, gf_mul(N, gf_mul(a, gf_mul(b, g))))
  <2>1. gf_mul(H, g) \in gf /\ gf_mul(b, gf_mul(H, g)) \in gf
    BY <1>1, MulClosed
  <2>2. gf_mul(uv, Xor(a, gf_mul(b, gf_mul(H, g))))
          = Xor(gf_mul(uv, a), gf_mul(uv, gf_mul(b, gf_mul(H, g))))
    BY <1>1, <1>3, <2>1, MulAdds
  <2>3. QED
    BY <1>5, <2>2
<1>10. gf_mul(gf_mul(gf_mul(u, gf_mul(l, b)), gf_mul(v, gf_mul(m, g))), a)
         = gf_mul(uv, gf_mul(N, gf_mul(a, gf_mul(b, g))))
  <2>1. gf_mul(l, b) \in gf /\ gf_mul(m, g) \in gf /\ gf_mul(b, g) \in gf
    BY <1>1, <1>3, MulClosed
  <2>2. gf_mul(gf_mul(u, gf_mul(l, b)), gf_mul(v, gf_mul(m, g)))
          = gf_mul(uv, gf_mul(gf_mul(l, b), gf_mul(m, g)))
    BY <2>1, MulSwap DEF uv
  <2>3. gf_mul(gf_mul(l, b), gf_mul(m, g)) = gf_mul(N, gf_mul(b, g))
    BY <1>1, <1>3, MulSwap DEF N
  <2>4. gf_mul(N, gf_mul(b, g)) \in gf /\ gf_mul(a, gf_mul(b, g)) \in gf
    BY <1>1, <1>3, <2>1, MulClosed
  <2>5. gf_mul(gf_mul(uv, gf_mul(N, gf_mul(b, g))), a) = gf_mul(uv, gf_mul(gf_mul(N, gf_mul(b, g)), a))
    BY <1>1, <1>3, <2>4, MulAssoc
  <2>6. gf_mul(gf_mul(N, gf_mul(b, g)), a) = gf_mul(N, gf_mul(gf_mul(b, g), a))
    BY <1>1, <1>3, <2>1, MulAssoc
  <2>7. gf_mul(gf_mul(b, g), a) = gf_mul(a, gf_mul(b, g))
    BY <1>1, <2>1, MulComm
  <2>8. QED
    BY <2>2, <2>3, <2>5, <2>6, <2>7
<1>11. Xor(gf_mul(uv, a),
           gf_mul(gf_mul(gf_mul(u, vk), b),
                  gf_mul(inverse[gf_mul(gf_mul(uk, vk), h)], gf_mul(gf_mul(uk, v), g))))
         = gf_mul(gf_mul(gf_mul(u, gf_mul(l, b)), gf_mul(v, gf_mul(m, g))), a)
  BY <1>6, <1>7, <1>8, <1>9, <1>10
<1>12. QED
  BY <1>11 DEF CellLeft, Cell, a, b, g, H, h, uv, l, m

(***************************************************************************)
(* From row and column n on, m is a Cauchy matrix with its rows and        *)
(* columns scaled; a and b are functions of the row and of the column.     *)
(***************************************************************************)
CauchyFrom(I, m, a, b, n) ==
  \E u, v \in [I -> gf \ {Zero}] :
    \A i, j \in I : i >= n /\ j >= n => m[i][j] = Cell(u[i], v[j], a[i], b[j])

LEMMA CauchyCleared ==
  ASSUME NEW I \in SUBSET Nat, NEW a \in [I -> gf], NEW b \in [I -> gf],
         \A i, j \in I : a[i] # b[j],
         \A i, j \in I : (a[i] = a[j] => i = j) /\ (b[i] = b[j] => i = j),
         NEW k \in I, NEW s \in Square(I), NEW t \in Square(I),
         CauchyFrom(I, s, a, b, k)
  PROVE  /\ s[k][k] # Zero
         /\ Cleared(I, s, t, k) => CauchyFrom(I, t, a, b, k + 1)
<1>1. PICK u \in [I -> gf \ {Zero}], v \in [I -> gf \ {Zero}] :
        \A i, j \in I : i >= k /\ j >= k => s[i][j] = Cell(u[i], v[j], a[i], b[j])
  BY DEF CauchyFrom
<1>2. \A i \in I : i \in Nat
  OBVIOUS
<1>3. s[k][k] = Cell(u[k], v[k], a[k], b[k])
  BY <1>1, <1>2
<1>4. /\ u[k] \in gf \ {Zero} /\ v[k] \in gf \ {Zero} /\ a[k] \in gf /\ b[k] \in gf /\ a[k] # b[k]
  OBVIOUS
<1>5. s[k][k] # Zero
  <2>1. inverse[Xor(a[k], b[k])] \in gf \ {Zero} /\ gf_mul(u[k], v[k]) \in gf \ {Zero}
    BY <1>4, DifferenceIn, MulNonZero
  <2>2. QED
    BY <1>3, <2>1, MulNonZero DEF Cell
<1>6. ASSUME Cleared(I, s, t, k) PROVE CauchyFrom(I, t, a, b, k + 1)
  <2> DEFINE uu == [i \in I |-> IF i = k THEN One
                                ELSE gf_mul(u[i], gf_mul(Xor(a[i], a[k]), inverse[Xor(a[i], b[k])]))]
             vv == [j \in I |-> IF j = k THEN One
                                ELSE gf_mul(v[j], gf_mul(Xor(b[j], b[k]), inverse[Xor(a[k], b[j])]))]
  <2>1. uu \in [I -> gf \ {Zero}]
    <3>1. ASSUME NEW i \in I, i # k
          PROVE  gf_mul(u[i], gf_mul(Xor(a[i], a[k]), inverse[Xor(a[i], b[k])])) \in gf \ {Zero}
      <4>1. Xor(a[i], a[k]) \in gf \ {Zero} /\ inverse[Xor(a[i], b[k])] \in gf \ {Zero}
        BY <3>1, DifferenceIn
      <4>2. QED
        BY <4>1, MulNonZero
    <3>2. One \in gf \ {Zero}
      BY ZeroOne
    <3>3. QED
      BY <3>1, <3>2
  <2>2. vv \in [I -> gf \ {Zero}]
    <3>1. ASSUME NEW j \in I, j # k
          PROVE  gf_mul(v[j], gf_mul(Xor(b[j], b[k]), inverse[Xor(a[k], b[j])])) \in gf \ {Zero}
      <4>1. Xor(b[j], b[k]) \in gf \ {Zero} /\ inverse[Xor(a[k], b[j])] \in gf \ {Zero}
        BY <3>1, DifferenceIn
      <4>2. QED
        BY <4>1, MulNonZero
    <3>2. One \in gf \ {Zero}
      BY ZeroOne
    <3>3. QED
      BY <3>1, <3>2
  <2>3. ASSUME NEW i \in I, NEW j \in I, i >= k + 1, j >= k + 1
        PROVE  t[i][j] = Cell(uu[i], vv[j], a[i], b[j])
    <3>1. i # k /\ j # k /\ i >= k /\ j >= k /\ k >= k
      BY <1>2, <2>3
    <3>2. /\ s[i][j] = Cell(u[i], v[j], a[i], b[j])
          /\ s[i][k] = Cell(u[i], v[k], a[i], b[k])
          /\ s[k][j] = Cell(u[k], v[j], a[k], b[j])
      BY <1>1, <3>1
    <3>3. t[k][j] = gf_mul(inverse[s[k][k]], s[k][j]) /\ t[i][j] = Xor(s[i][j], gf_mul(s[i][k], t[k][j]))
      BY <1>6, <3>1 DEF Cleared
    <3>4. /\ u[i] \in gf \ {Zero} /\ v[j] \in gf \ {Zero} /\ a[i] \in gf /\ b[j] \in gf
          /\ a[i] # b[j] /\ a[i] # b[k] /\ a[k] # b[j]
      OBVIOUS
    <3>5. Xor(Cell(u[i], v[j], a[i], b[j]),
              gf_mul(Cell(u[i], v[k], a[i], b[k]),
                     gf_mul(inverse[Cell(u[k], v[k], a[k], b[k])], Cell(u[k], v[j], a[k], b[j]))))
            = Cell(gf_mul(u[i], gf_mul(Xor(a[i], a[k]), inverse[Xor(a[i], b[k])])),
                   gf_mul(v[j], gf_mul(Xor(b[j], b[k]), inverse[Xor(a[k], b[j])])), a[i], b[j])
      <4>1. CellLeft(u[i], v[j], a[i], b[j], u[k], v[k], a[k], b[k])
        BY <1>4, <3>4, CellCleared
      <4>2. QED
        BY <4>1 DEF CellLeft
    <3>6. /\ uu[i] = gf_mul(u[i], gf_mul(Xor(a[i], a[k]), inverse[Xor(a[i], b[k])]))
          /\ vv[j] = gf_mul(v[j], gf_mul(Xor(b[j], b[k]), inverse[Xor(a[k], b[j])]))
      BY <3>1
    <3> HIDE DEF uu, vv
    <3>7. QED
      BY <1>3, <3>2, <3>3, <3>5, <3>6
  <2> HIDE DEF uu, vv
  <2>4. \A i, j \in I : i >= k + 1 /\ j >= k + 1 => t[i][j] = Cell(uu[i], vv[j], a[i], b[j])
    BY <2>3
  <2>5. QED
    BY <2>1, <2>2, <2>4, Zenon DEF CauchyFrom
<1>7. QED
  BY <1>5, <1>6
-----------------------------------------------------------------------------
Points == [i \in Indices |-> Byte(128 + fec_block_nos[i])]
Nodes  == [j \in Indices |-> Byte(erased_blocks[j])]

CauchyInv ==
  Decoding =>
    /\ stage = "inverting" => /\ \A i \in Indices : ipiv[i] = 1 <=> i < col
                              /\ CauchyFrom(Indices, matrix, Points, Nodes, col)
    /\ stage # "singular"

LEMMA PointsApart ==
  ASSUME NEW E \in SUBSET DataNos, NEW C \in SUBSET FecNos, CalledFor(E, C)
  PROVE  /\ Points \in [Indices -> gf] /\ Nodes \in [Indices -> gf]
         /\ \A i, j \in Indices : Points[i] # Nodes[j]
         /\ \A i, j \in Indices : /\ Points[i] = Points[j] => i = j
                                  /\ Nodes[i] = Nodes[j] => i = j
<1>1. \A i \in Indices : erased_blocks[i] \in 0..127 /\ fec_block_nos[i] \in 0..127
  <2>1. \A i \in Indices : erased_blocks[i] \in DataNos /\ fec_block_nos[i] \in FecNos
    BY CallIs
  <2>2. QED
    BY <2>1, SmallNumbers
<1>2. \A m, n \in 0..255 : Byte(m) = Byte(n) => m = n
  <2>1. GF_SIZE = 255
    BY TablesAssumption, Zenon
  <2>2. \A m, n \in 0..GF_SIZE : Byte(m) = Byte(n) => m = n
    BY BytesAssumption, Zenon
  <2>3. QED
    BY <2>1, <2>2, Zenon
<1>3. ASSUME NEW i \in Indices, NEW j \in Indices PROVE Points[i] # Nodes[j]
  <2>1. 7 \in Points[i] /\ 7 \notin Nodes[j]
    BY <1>1, UpperByte DEF Points, Nodes
  <2>2. QED
    BY <2>1
<1>4. ASSUME NEW i \in Indices, NEW j \in Indices, Points[i] = Points[j] PROVE i = j
  <2>1. PICK m \in 0..127, n \in 0..127 : m = fec_block_nos[i] /\ n = fec_block_nos[j]
    BY <1>1
  <2>2. 128 + m \in 0..255 /\ 128 + n \in 0..255
    OBVIOUS
  <2>3. 128 + m = 128 + n
    BY <1>2, <1>4, <2>1, <2>2 DEF Points
  <2>4. m = n
    BY <2>3
  <2>5. QED
    BY <2>1, <2>4, CallIs
<1>5. ASSUME NEW i \in Indices, NEW j \in Indices, Nodes[i] = Nodes[j] PROVE i = j
  <2>1. PICK m \in 0..127, n \in 0..127 : m = erased_blocks[i] /\ n = erased_blocks[j]
    BY <1>1
  <2>2. m \in 0..255 /\ n \in 0..255
    OBVIOUS
  <2>3. m = n
    BY <1>2, <1>5, <2>1, <2>2 DEF Nodes
  <2>4. QED
    BY <2>1, <2>3, CallIs
<1>6. QED
  BY <1>3, <1>4, <1>5, BytesIn DEF Points, Nodes

LEMMA CauchyInit == Init => CauchyInv
BY DEF Init, DecodeCall, InvertCall, CauchyInv, Decoding

LEMMA CauchyStep == TypeInv /\ InvertInv /\ CauchyInv /\ [Next]_vars => CauchyInv'
<1> SUFFICES ASSUME TypeInv, InvertInv, CauchyInv, [Next]_vars, Decoding'
             PROVE  CauchyInv'
  BY DEF CauchyInv
<1>1. given' = given
  BY DEF Next, vars, Reduce, BuildMatrix, EliminateColumn, PivotMissing, SwapBack, Multiply
<1>2. erased_blocks' = erased_blocks /\ fec_block_nos' = fec_block_nos
  BY <1>1 DEF given
<1>3. Decoding
  BY <1>2 DEF Decoding
<1>4. PICK E \in SUBSET DataNos, C \in SUBSET FecNos : CalledFor(E, C)
  BY <1>3 DEF TypeInv, DecodeShape
<1>5. Indices' = Indices /\ Points' = Points /\ Nodes' = Nodes
  BY SameIndices, <1>2 DEF Points, Nodes
<1>6. /\ TypeOK /\ Sized /\ matrix \in Square(Indices) /\ ipiv \in [Indices -> 0..1]
      /\ col \in Indices /\ Indices \in SUBSET Nat /\ col \in Nat
  BY SizedIs DEF TypeInv, TypeOK, Square
<1>7. /\ Points \in [Indices -> gf] /\ Nodes \in [Indices -> gf]
      /\ \A i, j \in Indices : Points[i] # Nodes[j]
      /\ \A i, j \in Indices : /\ Points[i] = Points[j] => i = j
                               /\ Nodes[i] = Nodes[j] => i = j
  BY <1>4, PointsApart
<1>8. ASSUME stage = "inverting" PROVE DiagonalServes(col) /\ matrix[col][col] # Zero
  <2>1. CauchyFrom(Indices, matrix, Points, Nodes, col) /\ \A i \in Indices : ipiv[i] = 1 <=> i < col
    BY <1>3, <1>8 DEF CauchyInv
  <2>2. matrix[col][col] # Zero
    BY <1>6, <1>7, <2>1, CauchyCleared
  <2>3. ipiv[col] # 1
    BY <1>6, <2>1
  <2>4. QED
    BY <2>2, <2>3 DEF DiagonalServes
<1>9. CASE BuildMatrix
  <2>1. /\ stage = "reduced" /\ stage' = "inverting" /\ ipiv' = ipiv /\ col' = col
        /\ matrix' = [row \in Indices |->
             [c \in Indices |-> ResolveCoefficient(fec_block_nos[row], erased_blocks[c])]]
    BY <1>9 DEF BuildMatrix, pivoting
  <2>2. col = 0 /\ \A i \in Indices : ipiv[i] = 0
    BY <2>1 DEF InvertInv
  <2>3. CauchyFrom(Indices, matrix', Points, Nodes, 0)
    <3> DEFINE ones == [i \in Indices |-> One]
    <3>1. ones \in [Indices -> gf \ {Zero}]
      BY ZeroOne
    <3>2. ASSUME NEW i \in Indices, NEW j \in Indices
          PROVE  matrix'[i][j] = Cell(ones[i], ones[j], Points[i], Nodes[j])
      <4>1. matrix'[i][j] = inverse[Xor(Points[i], Nodes[j])]
        BY <2>1 DEF ResolveCoefficient, Points, Nodes
      <4>2. inverse[Xor(Points[i], Nodes[j])] \in gf
        BY <1>7, DifferenceIn
      <4>3. gf_mul(One, One) = One
        BY MulOne, ZeroOne
      <4>4. QED
        BY <4>1, <4>2, <4>3, MulOne DEF Cell
    <3> HIDE DEF ones
    <3>3. QED
      BY <3>1, <3>2 DEF CauchyFrom
  <2>4. CauchyFrom(Indices, matrix, Points, Nodes, col)'
    BY <1>5, <2>1, <2>2, <2>3
  <2>5. \A i \in Indices : ~(i < 0)
    BY <1>6
  <2>6. (\A i \in Indices : ipiv[i] = 1 <=> i < col)'
    BY <1>5, <2>1, <2>2, <2>5
  <2>7. QED
    BY <2>1, <2>4, <2>6 DEF CauchyInv
<1>10. CASE EliminateColumn
  <2>1. /\ stage = "inverting"
        /\ stage' = "unscrambling" \/ (stage' = stage /\ col' = col + 1)
    BY <1>10 DEF EliminateColumn
  <2>2. CauchyFrom(Indices, matrix, Points, Nodes, col) /\ \A i \in Indices : ipiv[i] = 1 <=> i < col
    BY <1>3, <2>1 DEF CauchyInv
  <2>3. PICK irow \in Indices, icol \in Indices :
           /\ DiagonalServes(col) => irow = col /\ icol = col
           /\ ipiv' = [ipiv EXCEPT ![icol] = 1]
           /\ matrix' \in Square(Indices)
           /\ Cleared(Indices, Swapped(matrix, irow, icol), matrix', icol)
    BY <1>6, <1>10, EliminateIs
  <2>4. irow = col /\ icol = col
    BY <1>8, <2>1, <2>3
  <2>5. Swapped(matrix, col, col) = matrix
    BY <1>6 DEF Swapped, Square
  <2>6. CauchyFrom(Indices, matrix', Points, Nodes, col + 1)
    BY <1>6, <1>7, <2>2, <2>3, <2>4, <2>5, CauchyCleared
  <2>7. \A i \in Indices : ipiv'[i] = 1 <=> i < col + 1
    <3> TAKE i \in Indices
    <3>1. i \in Nat /\ (i < col + 1 <=> i < col \/ i = col)
      BY <1>6
    <3>2. ipiv'[i] = 1 <=> ipiv[i] = 1 \/ i = col
      BY <1>6, <2>3, <2>4
    <3>3. QED
      BY <2>2, <3>1, <3>2
  <2>8. CASE stage' = "unscrambling"
    BY <2>8 DEF CauchyInv
  <2>9. CASE stage' = stage /\ col' = col + 1
    <3>1. CauchyFrom(Indices, matrix, Points, Nodes, col)'
      BY <1>5, <2>6, <2>9
    <3>2. (\A i \in Indices : ipiv[i] = 1 <=> i < col)'
      BY <1>5, <2>7, <2>9
    <3>3. QED
      BY <2>1, <2>9, <3>1, <3>2 DEF CauchyInv
  <2>10. QED
    BY <2>1, <2>8, <2>9
<1>11. CASE PivotMissing
  <2>1. stage = "inverting" /\ ~DiagonalServes(col)
    BY <1>11 DEF PivotMissing
  <2>2. QED
    BY <1>8, <2>1
<1>12. CASE Reduce \/ SwapBack \/ Multiply
  <2>1. stage' \in {"reduced", "aborted", "inverted", "unscrambling", "decoded"}
    BY <1>12 DEF Reduce, SwapBack, Multiply
  <2>2. QED
    BY <2>1 DEF CauchyInv
<1>13. CASE UNCHANGED vars
  <2>1. stage' = stage /\ matrix' = matrix /\ ipiv' = ipiv /\ col' = col
    BY <1>13 DEF vars, pivoting
  <2>2. QED
    BY <1>3, <1>5, <2>1 DEF CauchyInv
<1>14. QED
  BY <1>9, <1>10, <1>11, <1>12, <1>13 DEF Next

\* fec_decode gives back every DATA packet as it was sent, for every block
\* geometry, whichever packets are erased and whichever FEC packets are at
\* hand; and no matrix resolve builds on the way is singular: its assert(0)
\* is never reached.
THEOREM DecodeRestoresHolds == Spec => []DecodeRestores
<1>1. TypeInv /\ DecodeInv /\ CauchyInv => DecodeRestores
  BY DEF TypeInv, DecodeInv, CauchyInv, DecodeRestores
<1>2. QED
  BY TypeInit, TypeStep, InvertInit, InvertStep, DecodeInit, DecodeStep,
     CauchyInit, CauchyStep, <1>1, PTL DEF Spec
-----------------------------------------------------------------------------
(***************************************************************************)
(* A matrix with a kernel has the determinant zero: the determinant is     *)
(* linear in a column and zero where two columns are alike, so that x_k    *)
(* times the determinant is that of the matrix whose column k is the       *)
(* product with x.                                                         *)
(***************************************************************************)
LEMMA TotalOfZeros == ASSUME NEW T, NEW g, \A i \in T : g[i] = Zero PROVE Total(T, g) = Zero
<1>1. \A b : {i \in T : b \in g[i]} = {}
  BY DEF Zero
<1>2. \A b : ~Odd(T, g, b)
  BY <1>1, FS_EmptySet DEF Odd
<1>3. QED
  BY <1>2 DEF Total, Zero

\* Sums of sums, by rows or by columns.
Sums(S, T, f) == [s \in S |-> Total(T, f[s])]

LEMMA TotalsTransposed ==
  ASSUME NEW S, IsFiniteSet(S), NEW T, IsFiniteSet(T),
         NEW f, NEW g, \A s \in S, t \in T : f[s][t] \in gf /\ g[t][s] = f[s][t]
  PROVE  Total(S, Sums(S, T, f)) = Total(T, Sums(T, S, g))
<1> DEFINE K == Sums(S, T, f)
           L == Sums(T, S, g)
           Columns(U) == [t \in T |-> Total(U, g[t])]
           Same(U) == Total(U, K) = Total(T, Columns(U))
           W == {U \in SUBSET S : ~Same(U)}
<1>0. (\A s \in S : K[s] = Total(T, f[s])) /\ (\A t \in T : L[t] = Total(S, g[t]))
  BY DEF Sums
<1> HIDE DEF K, L
<1>1. W = {} => Same(S)
  OBVIOUS
<1>2. Same(S) => Total(S, K) = Total(T, L)
  <2>1. \A t \in T : L[t] = Columns(S)[t]
    BY <1>0
  <2>2. Same(S) => Total(S, K) = Total(T, Columns(S))
    OBVIOUS
  <2> HIDE DEF Columns
  <2>3. Total(T, L) = Total(T, Columns(S))
    BY <2>1, TotalSame
  <2>4. QED
    BY <2>2, <2>3
<1>3. SUFFICES ASSUME W # {} PROVE FALSE
  BY <1>1, <1>2 DEF K, L
<1>4. Same({})
  <2>1. \A t \in T : Columns({})[t] = Zero
    BY TotalEmpty
  <2> HIDE DEF Columns
  <2>2. Total(T, Columns({})) = Zero
    BY <2>1, TotalOfZeros
  <2>3. QED
    BY <2>2, TotalEmpty
<1> HIDE DEF Same
<1>5. PICK U \in SUBSET S, s \in S : U \in W /\ s \in U /\ U \ {s} \notin W
  BY <1>3, <1>4, SmallestSet
<1>6. IsFiniteSet(U) /\ s \in U /\ s \in S /\ Same(U \ {s}) /\ ~Same(U)
  BY <1>5, FS_Subset
<1>7. K[s] = Total(T, f[s]) /\ K[s] \in gf
  BY <1>0, TotalClosed
<1>8. Total(U, K) = Xor(K[s], Total(U \ {s}, K))
  BY <1>6, <1>7, TotalSplit
<1>9. Total(T, Columns(U)) = Xor(Total(T, f[s]), Total(T, Columns(U \ {s})))
  <2>1. ASSUME NEW t \in T
        PROVE  /\ f[s][t] \in gf /\ Columns(U \ {s})[t] \in gf
               /\ Columns(U)[t] = Xor(f[s][t], Columns(U \ {s})[t])
    <3>1. g[t][s] = f[s][t] /\ f[s][t] \in gf
      BY <1>6
    <3>2. Columns(U)[t] = Total(U, g[t]) /\ Columns(U \ {s})[t] = Total(U \ {s}, g[t])
      OBVIOUS
    <3> HIDE DEF Columns
    <3>3. Total(U, g[t]) = Xor(g[t][s], Total(U \ {s}, g[t]))
      <4> DEFINE h == g[t]
      <4>1. h[s] \in gf
        BY <3>1
      <4> HIDE DEF h
      <4>2. Total(U, h) = Xor(h[s], Total(U \ {s}, h))
        BY <1>6, <4>1, TotalSplit
      <4>3. QED
        BY <4>2 DEF h
    <3>4. QED
      BY <3>1, <3>2, <3>3, TotalClosed
  <2> DEFINE e  == f[s]
             C  == Columns(U)
             C2 == Columns(U \ {s})
  <2>2. \A t \in T : e[t] \in gf /\ C2[t] \in gf /\ C[t] = Xor(e[t], C2[t])
    BY <2>1
  <2> HIDE DEF e, C, C2
  <2>3. Total(T, C) = Xor(Total(T, e), Total(T, C2))
    BY <2>2, TotalXor
  <2>4. QED
    BY <2>3 DEF e, C, C2
<1>10. Same(U)
  BY <1>6, <1>7, <1>8, <1>9 DEF Same
<1>11. QED
  BY <1>6, <1>10

LEMMA FunctionsFinite ==
  ASSUME NEW I, IsFiniteSet(I)
  PROVE  IsFiniteSet([I -> I])
<1> DEFINE graph == [f \in [I -> I] |-> {<<i, f[i]>> : i \in I}]
<1>1. IsFiniteSet(SUBSET (I \X I))
  BY FS_Product, FS_SUBSET
<1>2. graph \in [[I -> I] -> SUBSET (I \X I)]
  OBVIOUS
<1>3. ASSUME NEW f \in [I -> I], NEW h \in [I -> I], graph[f] = graph[h] PROVE f = h
  <2>1. ASSUME NEW i \in I PROVE f[i] = h[i]
    <3>1. <<i, f[i]>> \in graph[h]
      BY <1>3
    <3>2. PICK j \in I : <<i, f[i]>> = <<j, h[j]>>
      BY <3>1
    <3>3. QED
      BY <3>2
  <2>2. QED
    BY <2>1
<1>4. graph \in Injection([I -> I], SUBSET (I \X I))
  <2> HIDE DEF graph
  <2>1. QED
    BY <1>2, <1>3 DEF Injection, IsInjective
<1>5. QED
  BY <1>1, <1>4, FS_Injection

-----------------------------------------------------------------------------
\* P[i] is the product of the g[j] for j from i on.
Chain(n, g, P) ==
  /\ P \in [0..n -> gf] /\ P[n] = One
  /\ \A i \in 0..(n - 1) : P[i] = gf_mul(g[i], P[i + 1])

LEMMA ChainExists ==
  ASSUME NEW n \in Nat, NEW g \in [0..(n - 1) -> gf]
  PROVE  \E P : Chain(n, g, P)
<1> DEFINE Tail(k, P) == /\ P \in [0..n -> gf] /\ P[n] = One
                         /\ \A i \in 0..(n - 1) : i >= n - k => P[i] = gf_mul(g[i], P[i + 1])
           W == {k \in 0..n : ~\E P : Tail(k, P)}
<1>1. W = {}
  <2>1. SUFFICES ASSUME W # {} PROVE FALSE
    OBVIOUS
  <2>2. W \in SUBSET Nat
    OBVIOUS
  <2>3. PICK k \in W : \A l \in W : k <= l
    BY <2>1, <2>2, LeastNumber
  <2>4. CASE k = 0
    <3>1. Tail(0, [i \in 0..n |-> One])
      BY ZeroOne
    <3>2. QED
      BY <2>3, <2>4, <3>1
  <2>5. CASE k # 0
    <3>1. k - 1 \in 0..n /\ ~(k <= k - 1)
      BY <2>3, <2>5
    <3>2. PICK P : Tail(k - 1, P)
      <4> HIDE DEF Tail
      <4>1. k - 1 \notin W
        BY <2>3, <3>1
      <4>2. QED
        BY <3>1, <4>1
    <3>3. PICK j \in 0..(n - 1) : j = n - k
      BY <2>3, <2>5
    <3> DEFINE Q == [P EXCEPT ![j] = gf_mul(g[j], P[j + 1])]
    <3>4. j + 1 \in 0..n /\ j \in 0..n /\ j # n /\ g[j] \in gf
      BY <3>3
    <3>5. gf_mul(g[j], P[j + 1]) \in gf
      BY <3>2, <3>4, MulClosed
    <3>6. Q \in [0..n -> gf] /\ Q[n] = One
      BY <3>2, <3>4, <3>5
    <3>7. ASSUME NEW i \in 0..(n - 1), i >= n - k PROVE Q[i] = gf_mul(g[i], Q[i + 1])
      <4>1. i + 1 \in 0..n /\ i \in 0..n /\ i + 1 # j /\ (i # j => i >= n - (k - 1))
        BY <2>3, <3>3, <3>7
      <4>2. Q[i + 1] = P[i + 1]
        BY <3>2, <4>1
      <4>3. CASE i = j
        BY <3>2, <3>4, <4>2, <4>3
      <4>4. CASE i # j
        BY <3>2, <4>1, <4>2, <4>4
      <4>5. QED
        BY <4>3, <4>4
    <3>8. Tail(k, Q)
      <4> HIDE DEF Q
      <4>1. QED
        BY <3>6, <3>7
    <3>9. QED
      BY <2>3, <3>8
  <2>6. QED
    BY <2>4, <2>5
<1>2. PICK P : Tail(n, P)
  <2> HIDE DEF Tail
  <2>1. n \in 0..n
    OBVIOUS
  <2>2. QED
    BY <1>1, <2>1
<1>3. Chain(n, g, P)
  BY <1>2 DEF Chain
<1>4. QED
  BY <1>3

\* Two functions on 0..n are equal at 0 when they are at n and the one before
\* follows from the next.
LEMMA Downwards ==
  ASSUME NEW n \in Nat, NEW S \in SUBSET (0..n), n \in S,
         \A i \in 0..(n - 1) : i + 1 \in S => i \in S
  PROVE  0 \in S
<1> DEFINE W == {k \in 0..n : n - k \notin S}
<1>1. W = {}
  <2>1. SUFFICES ASSUME W # {} PROVE FALSE
    OBVIOUS
  <2>2. W \in SUBSET Nat
    OBVIOUS
  <2>3. PICK k \in W : \A l \in W : k <= l
    BY <2>1, <2>2, LeastNumber
  <2>4. k # 0
    BY <2>3
  <2>5. k - 1 \in 0..n /\ k - 1 \notin W
    BY <2>3, <2>4
  <2>6. n - k \in 0..(n - 1) /\ n - (k - 1) = n - k + 1
    BY <2>3, <2>4
  <2>7. n - k + 1 \in S
    BY <2>5, <2>6
  <2>8. QED
    BY <2>3, <2>6, <2>7
<1>2. n \in 0..n /\ n \notin W /\ n - n = 0
  BY <1>1
<1>3. QED
  BY <1>2
\* The product of the g[i]: the chain is determined by g.
Chained(n, g) == (CHOOSE P : Chain(n, g, P))[0]

LEMMA ChainedIs ==
  ASSUME NEW n \in Nat, NEW g \in [0..(n - 1) -> gf]
  PROVE  \E P : Chain(n, g, P) /\ Chained(n, g) = P[0] /\ Chained(n, g) \in gf
<1> DEFINE P == CHOOSE Q : Chain(n, g, Q)
<1>1. Chain(n, g, P)
  BY ChainExists
<1>2. P[0] \in gf
  BY <1>1 DEF Chain
<1>3. Chained(n, g) = P[0]
  BY DEF Chained
<1>4. QED
  BY <1>1, <1>2, <1>3

\* A factor taken out of a product.
LEMMA FactorOut ==
  ASSUME NEW n \in Nat, NEW g \in [0..(n - 1) -> gf], NEW h \in [0..(n - 1) -> gf],
         NEW r \in 0..(n - 1), h[r] = One, \A j \in 0..(n - 1) : j # r => h[j] = g[j]
  PROVE  Chained(n, g) = gf_mul(g[r], Chained(n, h))
<1>1. PICK P : Chain(n, g, P) /\ Chained(n, g) = P[0]
  BY ChainedIs
<1>2. PICK Q : Chain(n, h, Q) /\ Chained(n, h) = Q[0]
  BY ChainedIs
<1> DEFINE S == {i \in 0..n : P[i] = IF i > r THEN Q[i] ELSE gf_mul(g[r], Q[i])}
<1>3. n \in S
  BY <1>1, <1>2 DEF Chain
<1>4. ASSUME NEW i \in 0..(n - 1), i + 1 \in S
      PROVE  i \in S
  <2>1. /\ i \in 0..n /\ i + 1 \in 0..n
        /\ P[i] = gf_mul(g[i], P[i + 1]) /\ Q[i] = gf_mul(h[i], Q[i + 1])
        /\ Q[i + 1] \in gf /\ g[i] \in gf /\ g[r] \in gf
    BY <1>1, <1>2 DEF Chain
  <2>2. CASE i > r
    <3>1. i + 1 > r /\ h[i] = g[i]
      BY <2>2
    <3>2. P[i + 1] = Q[i + 1]
      BY <1>4, <3>1
    <3>3. P[i] = Q[i]
      BY <2>1, <3>1, <3>2
    <3>4. QED
      BY <2>1, <2>2, <3>3
  <2>3. CASE i = r
    <3>1. i + 1 > r /\ ~(i > r)
      BY <2>3
    <3>2. P[i + 1] = Q[i + 1]
      BY <1>4, <3>1
    <3>3. Q[i] = Q[i + 1]
      BY <2>1, <2>3, MulOne
    <3>4. P[i] = gf_mul(g[r], Q[i])
      BY <2>1, <2>3, <3>2, <3>3
    <3>5. QED
      BY <2>1, <3>1, <3>4
  <2>4. CASE i < r
    <3>1. ~(i + 1 > r) /\ h[i] = g[i] /\ ~(i > r)
      BY <2>4
    <3>2. P[i + 1] = gf_mul(g[r], Q[i + 1])
      BY <1>4, <3>1
    <3>3. P[i] = gf_mul(g[i], gf_mul(g[r], Q[i + 1]))
      BY <2>1, <3>2
    <3>4. gf_mul(g[i], gf_mul(g[r], Q[i + 1])) = gf_mul(g[r], gf_mul(g[i], Q[i + 1]))
      <4>1. gf_mul(g[i], gf_mul(g[r], Q[i + 1])) = gf_mul(gf_mul(g[i], g[r]), Q[i + 1])
        BY <2>1, MulAssoc
      <4>2. gf_mul(gf_mul(g[r], g[i]), Q[i + 1]) = gf_mul(g[r], gf_mul(g[i], Q[i + 1]))
        BY <2>1, MulAssoc
      <4>3. QED
        BY <2>1, <4>1, <4>2, MulComm
    <3>5. P[i] = gf_mul(g[r], Q[i])
      BY <2>1, <3>1, <3>3, <3>4
    <3>6. QED
      BY <2>1, <3>1, <3>5
  <2>5. QED
    BY <2>2, <2>3, <2>4
<1>5. S \in SUBSET (0..n)
  OBVIOUS
<1>6. 0 \in S
  <2> HIDE DEF S
  <2>1. QED
    BY <1>3, <1>4, <1>5, Downwards
<1>7. ~(0 > r)
  OBVIOUS
<1>8. QED
  BY <1>1, <1>2, <1>6, <1>7

-----------------------------------------------------------------------------
Perms(I) == {p \in [I -> I] : \A i, j \in I : p[i] = p[j] => i = j}

Along(n, m, p)  == [i \in 0..(n - 1) |-> m[i][p[i]]]
Expansion(n, m) == [p \in Perms(0..(n - 1)) |-> Chained(n, Along(n, m, p))]

\* The term of Determinant, written as it is there.
Term(m, p, n) ==
  LET prod[i \in 0..n] == IF i = n THEN One ELSE Product(m[i][p[i]], prod[i + 1])
  IN prod[0]

LEMMA TermIs ==
  ASSUME NEW n \in Nat, NEW m \in Square(0..(n - 1)), NEW p \in [0..(n - 1) -> 0..(n - 1)]
  PROVE  Term(m, p, n) = Chained(n, Along(n, m, p)) /\ Along(n, m, p) \in [0..(n - 1) -> gf]
<1> DEFINE g == Along(n, m, p)
           Step(part, i) == IF i = n THEN One ELSE Product(m[i][p[i]], part[i + 1])
           Body(part) == [i \in 0..n |-> Step(part, i)]
           whole == CHOOSE part : part = Body(part)
<1>1. \A i \in 0..(n - 1) : m[i][p[i]] \in gf /\ g[i] = m[i][p[i]]
  BY DEF Square, Along
<1>2. g \in [0..(n - 1) -> gf]
  BY <1>1 DEF Along
<1>3. PICK P : Chain(n, g, P) /\ Chained(n, g) = P[0]
  <2> HIDE DEF g
  <2>1. QED
    BY <1>2, ChainedIs
<1> HIDE DEF g
<1>4. \A i \in 0..n : P[i] = Step(P, i)
  <2> TAKE i \in 0..n
  <2>1. CASE i = n
    BY <1>3, <2>1 DEF Chain
  <2>2. CASE i # n
    <3>1. i \in 0..(n - 1) /\ i + 1 \in 0..n
      BY <2>2
    <3>2. P[i] = gf_mul(g[i], P[i + 1]) /\ P[i + 1] \in gf
      BY <1>3, <3>1 DEF Chain
    <3>3. P[i] = Product(m[i][p[i]], P[i + 1])
      BY <1>1, <3>1, <3>2, ProductIsMul
    <3>4. QED
      BY <2>2, <3>3
  <2>3. QED
    BY <2>1, <2>2
<1>5. P = Body(P)
  <2> HIDE DEF Step
  <2>1. P = [i \in 0..n |-> P[i]]
    BY <1>3 DEF Chain
  <2>2. QED
    BY <1>4, <2>1
<1>6. whole = Body(whole)
  <2> HIDE DEF Body
  <2>1. QED
    BY <1>5
<1>7. Term(m, p, n) = whole[0]
  BY DEF Term
<1> HIDE DEF whole
<1>8. \A i \in 0..n : whole[i] = Step(whole, i)
  <2> HIDE DEF Step
  <2>1. whole = [i \in 0..n |-> Step(whole, i)]
    BY <1>6
  <2>2. QED
    BY <2>1
<1> DEFINE S == {i \in 0..n : whole[i] = P[i]}
<1>9. n \in S
  BY <1>4, <1>8
<1>10. ASSUME NEW i \in 0..(n - 1), i + 1 \in S
       PROVE  i \in S
  <2>1. i \in 0..n /\ whole[i + 1] = P[i + 1]
    BY <1>10
  <2>2. Step(whole, i) = Step(P, i)
    BY <2>1
  <2> HIDE DEF Step
  <2>3. QED
    BY <1>4, <1>8, <2>1, <2>2
<1>11. S \in SUBSET (0..n)
  OBVIOUS
<1>12. 0 \in S
  <2> HIDE DEF S
  <2>1. QED
    BY <1>9, <1>10, <1>11, Downwards
<1>13. QED
  BY <1>2, <1>3, <1>7, <1>12 DEF g

LEMMA DeterminantIs ==
  ASSUME NEW n \in Nat, NEW m \in Square(0..(n - 1))
  PROVE  Determinant(m) = Total(Perms(0..(n - 1)), Expansion(n, m))
<1>1. DOMAIN m = 0..(n - 1) /\ Cardinality(0..(n - 1)) = n
  BY FS_Interval DEF Square
<1>2. Determinant(m) = Sum(Perms(0..(n - 1)), LAMBDA p : Term(m, p, n))
  <2>1. Determinant(m) = Sum(Perms(DOMAIN m), LAMBDA p : Term(m, p, Cardinality(DOMAIN m)))
    BY Zenon DEF Determinant, Term, Perms
  <2>2. QED
    BY <1>1, <2>1 DEF Sum
<1>3. \A p \in Perms(0..(n - 1)) : Term(m, p, n) = Expansion(n, m)[p]
  BY TermIs DEF Expansion, Perms
<1>4. \A b : {p \in Perms(0..(n - 1)) : b \in Term(m, p, n)}
               = {p \in Perms(0..(n - 1)) : b \in Expansion(n, m)[p]}
  BY <1>3
<1>5. QED
  BY <1>2, <1>4 DEF Sum, Total, Odd
LEMMA PermsFinite == ASSUME NEW I, IsFiniteSet(I) PROVE IsFiniteSet(Perms(I))
<1>1. Perms(I) \in SUBSET [I -> I]
  BY DEF Perms
<1>2. QED
  BY <1>1, FunctionsFinite, FS_Subset

LEMMA PermsOnto ==
  ASSUME NEW I, IsFiniteSet(I), NEW p \in Perms(I), NEW k \in I
  PROVE  \E i \in I : p[i] = k
<1>1. p \in Injection(I, I)
  BY DEF Perms, Injection, IsInjective
<1>2. p \in Surjection(I, I)
  BY <1>1, FS_Injection
<1>3. QED
  BY <1>2 DEF Surjection

-----------------------------------------------------------------------------
\* The permutation followed by the exchange of k and c.
Exchanged(I, p, k, c) == [i \in I |-> IF p[i] = k THEN c ELSE IF p[i] = c THEN k ELSE p[i]]

LEMMA ExchangedIs ==
  ASSUME NEW I, NEW p \in Perms(I), NEW k \in I, NEW c \in I
  PROVE  /\ Exchanged(I, p, k, c) \in Perms(I)
         /\ Exchanged(I, Exchanged(I, p, k, c), k, c) = p
<1> DEFINE q == Exchanged(I, p, k, c)
<1>1. p \in [I -> I] /\ \A i, j \in I : p[i] = p[j] => i = j
  BY DEF Perms
<1>2. q \in [I -> I] /\ \A i \in I : q[i] = IF p[i] = k THEN c ELSE IF p[i] = c THEN k ELSE p[i]
  BY <1>1 DEF Exchanged
<1> HIDE DEF q
<1>3. \A i, j \in I : q[i] = q[j] => i = j
  BY <1>1, <1>2
<1>4. q \in Perms(I)
  BY <1>2, <1>3 DEF Perms
<1>5. \A i \in I : p[i] = IF q[i] = k THEN c ELSE IF q[i] = c THEN k ELSE q[i]
  BY <1>2
<1>6. Exchanged(I, q, k, c) = p
  <2>1. p = [i \in I |-> p[i]]
    BY <1>1
  <2>2. QED
    BY <1>5, <2>1 DEF Exchanged
<1>7. QED
  BY <1>4, <1>6 DEF q

\* The determinant is zero where two columns are alike: the permutations that
\* reach k before c, and the others, have the same products.
LEMMA TwoColumnsAlike ==
  ASSUME NEW n \in Nat, NEW m \in Square(0..(n - 1)),
         NEW k \in 0..(n - 1), NEW c \in 0..(n - 1), k # c,
         \A r \in 0..(n - 1) : m[r][k] = m[r][c]
  PROVE  Determinant(m) = Zero
<1> DEFINE I == 0..(n - 1)
           S == Perms(I)
           val == Expansion(n, m)
           T == {p \in S : \E i, j \in I : i < j /\ p[i] = k /\ p[j] = c}
           e == [p \in T |-> Exchanged(I, p, k, c)]
           Image == {e[p] : p \in T}
<1>1. IsFiniteSet(I) /\ IsFiniteSet(S) /\ IsFiniteSet(T) /\ IsFiniteSet(S \ T)
  <2>1. IsFiniteSet(I)
    BY FS_Interval
  <2> HIDE DEF I
  <2>2. QED
    BY <2>1, PermsFinite, FS_Subset
<1>2. \A p \in S : Exchanged(I, p, k, c) \in S /\ Exchanged(I, Exchanged(I, p, k, c), k, c) = p
  BY ExchangedIs
<1>3. ASSUME NEW p \in S PROVE val[p] \in gf /\ val[Exchanged(I, p, k, c)] = val[p]
  <2> DEFINE q == Exchanged(I, p, k, c)
  <2>1. p \in [I -> I] /\ q \in [I -> I] /\ q \in S
    BY <1>2 DEF Perms
  <2>2. \A i \in I : m[i][q[i]] = m[i][p[i]]
    <3> TAKE i \in I
    <3>1. q[i] = IF p[i] = k THEN c ELSE IF p[i] = c THEN k ELSE p[i]
      BY DEF Exchanged
    <3>2. QED
      BY <3>1
  <2> HIDE DEF q
  <2>3. Along(n, m, q) = Along(n, m, p)
    BY <2>2 DEF Along
  <2>4. Chained(n, Along(n, m, p)) \in gf
    BY <2>1, TermIs, ChainedIs
  <2>5. val[p] = Chained(n, Along(n, m, p)) /\ val[q] = Chained(n, Along(n, m, q))
    BY <2>1 DEF Expansion
  <2>6. QED
    BY <2>3, <2>4, <2>5 DEF q
<1>14. \A q \in S, l \in I : \E i \in I : q[i] = l
  <2> SUFFICES ASSUME NEW q \in Perms(I), NEW l \in I
               PROVE  \E i \in I : q[i] = l
    OBVIOUS
  <2>1. IsFiniteSet(I)
    BY <1>1
  <2> HIDE DEF I
  <2>2. QED
    BY <2>1, PermsOnto
<1>4. Image = S \ T
  <2>1. ASSUME NEW p \in T PROVE Exchanged(I, p, k, c) \in S \ T
    <3> DEFINE q == Exchanged(I, p, k, c)
    <3>1. p \in S /\ q \in S
      BY <1>2
    <3>2. PICK i \in I, j \in I : i < j /\ p[i] = k /\ p[j] = c
      OBVIOUS
    <3>3. ASSUME NEW i2 \in I, NEW j2 \in I, i2 < j2, q[i2] = k, q[j2] = c PROVE FALSE
      <4>1. q[i2] = (IF p[i2] = k THEN c ELSE IF p[i2] = c THEN k ELSE p[i2])
        BY DEF Exchanged
      <4>2. q[j2] = (IF p[j2] = k THEN c ELSE IF p[j2] = c THEN k ELSE p[j2])
        BY DEF Exchanged
      <4>3. p[i2] = c /\ p[j2] = k
        BY <3>3, <4>1, <4>2
      <4>4. i2 = j /\ j2 = i
        BY <3>1, <3>2, <4>3 DEF Perms
      <4>5. i \in Int /\ j \in Int
        OBVIOUS
      <4>6. QED
        BY <3>2, <3>3, <4>4, <4>5
    <3>4. QED
      BY <3>1, <3>3
  <2>2. ASSUME NEW q \in S \ T PROVE Exchanged(I, q, k, c) \in T
    <3> DEFINE p == Exchanged(I, q, k, c)
    <3>1. p \in S
      BY <1>2
    <3>2. (\E i \in I : q[i] = c) /\ (\E i \in I : q[i] = k)
      <4>1. q \in S /\ k \in I /\ c \in I
        OBVIOUS
      <4> HIDE DEF S
      <4>2. QED
        BY <1>14, <4>1
    <3>3. PICK i \in I, j \in I : q[i] = c /\ q[j] = k
      BY <3>2
    <3>4. i # j /\ ~(j < i) /\ i \in Int /\ j \in Int
      BY <3>3
    <3>5. i < j
      BY <3>4
    <3>6. p[i] = k /\ p[j] = c
      BY <3>3 DEF Exchanged
    <3>7. QED
      BY <3>1, <3>5, <3>6
  <2>3. \A p \in S : p \in T \/ p \in S \ T
    OBVIOUS
  <2>4. \A p \in T : p \in S
    OBVIOUS
  <2> HIDE DEF T, S
  <2>5. \A p \in T : e[p] \in S \ T
    BY <2>1
  <2>6. ASSUME NEW q \in S \ T PROVE q \in Image
    <3>1. e[Exchanged(I, q, k, c)] = q
      BY <1>2, <2>2
    <3>2. QED
      BY <2>2, <3>1
  <2>7. QED
    BY <2>5, <2>6
<1>5. \A p \in T : p \in S /\ val[p] \in gf /\ val[e[p]] = val[p]
  BY <1>3
<1>6. \A p, q \in T : e[p] = e[q] => p = q
  BY <1>2
<1>7. S = T \cup (S \ T) /\ T \cap (S \ T) = {}
  OBVIOUS
<1>8. \A p \in S : val[p] \in gf
  BY <1>3
<1>9. Determinant(m) = Total(S, val)
  BY DeterminantIs
<1> HIDE DEF val, T, S, e
<1>10. Total(Image, val) = Total(T, val)
  <2>1. \A p \in T : val[e[p]] \in gf /\ val[p] = val[e[p]]
    BY <1>5
  <2>2. ASSUME NEW A, IsFiniteSet(A), NEW f, \A p, q \in A : f[p] = f[q] => p = q,
               NEW g, \A p \in A : g[f[p]] \in gf /\ g[p] = g[f[p]]
        PROVE  Total({f[p] : p \in A}, g) = Total(A, g)
    BY <2>2, TotalImage
  <2>3. QED
    BY <1>1, <1>6, <2>1, <2>2
<1>11. Total(S, val) = Xor(Total(T, val), Total(S \ T, val))
  BY <1>1, <1>7, <1>8, TotalUnion
<1>12. Total(T, val) \in gf
  BY TotalClosed
<1>13. QED
  BY <1>4, <1>9, <1>10, <1>11, <1>12, XorZero
-----------------------------------------------------------------------------
\* The matrix with its column c in the place of column k.
WithColumn(I, m, k, c) == [r \in I |-> [m[r] EXCEPT ![k] = m[r][c]]]

\* The place that p fills with column k, and the product of the others.
PlaceOf(I, p, k)      == CHOOSE i \in I : p[i] = k
Others(n, m, p, k)    == [Along(n, m, p) EXCEPT ![PlaceOf(0..(n - 1), p, k)] = One]
OthersOf(n, m, p, k)  == Chained(n, Others(n, m, p, k))

LEMMA ColumnExpanded ==
  ASSUME NEW n \in Nat, NEW m \in Square(0..(n - 1)),
         NEW k \in 0..(n - 1), NEW c \in 0..(n - 1), NEW p \in Perms(0..(n - 1))
  PROVE  /\ WithColumn(0..(n - 1), m, k, c) \in Square(0..(n - 1))
         /\ PlaceOf(0..(n - 1), p, k) \in 0..(n - 1) /\ OthersOf(n, m, p, k) \in gf
         /\ Expansion(n, WithColumn(0..(n - 1), m, k, c))[p]
              = gf_mul(m[PlaceOf(0..(n - 1), p, k)][c], OthersOf(n, m, p, k))
<1> DEFINE I == 0..(n - 1)
           w == WithColumn(I, m, k, c)
           a == PlaceOf(I, p, k)
           g == Along(n, w, p)
           h == Others(n, m, p, k)
<1>1. p \in [I -> I] /\ \A i, j \in I : p[i] = p[j] => i = j
  BY DEF Perms
<1>2. a \in I /\ p[a] = k
  <2>1. IsFiniteSet(I) /\ p \in Perms(I) /\ k \in I
    BY FS_Interval
  <2> HIDE DEF I
  <2>2. \E i \in I : p[i] = k
    BY <2>1, PermsOnto
  <2>3. QED
    BY <2>2 DEF PlaceOf
<1>3. \A r, i \in I : m[r][i] \in gf
  BY DEF Square
<1>4. /\ w \in Square(I)
      /\ \A r, i \in I : w[r][i] = IF i = k THEN m[r][c] ELSE m[r][i]
  <2>1. \A r \in I : m[r] \in [I -> gf] /\ w[r] = [m[r] EXCEPT ![k] = m[r][c]]
    BY DEF Square, WithColumn
  <2>2. ASSUME NEW r \in I PROVE w[r] \in [I -> gf]
    <3>1. m[r] \in [I -> gf] /\ m[r][c] \in gf /\ w[r] = [m[r] EXCEPT ![k] = m[r][c]]
      BY <1>3, <2>1
    <3> HIDE DEF w, I
    <3>2. QED
      BY <3>1
  <2>3. ASSUME NEW r \in I, NEW i \in I
        PROVE  w[r][i] = IF i = k THEN m[r][c] ELSE m[r][i]
    <3>1. m[r] \in [I -> gf] /\ w[r] = [m[r] EXCEPT ![k] = m[r][c]]
      BY <2>1
    <3> HIDE DEF w, I
    <3>2. QED
      BY <3>1
  <2>4. w = [r \in I |-> w[r]]
    BY DEF WithColumn
  <2> HIDE DEF w
  <2>5. w \in Square(I)
    BY <2>2, <2>4 DEF Square
  <2>6. QED
    BY <2>3, <2>5
<1>5. g \in [I -> gf] /\ \A i \in I : g[i] = IF i = a THEN m[a][c] ELSE m[i][p[i]]
  <2>1. g \in [I -> gf]
    BY <1>1, <1>4, TermIs
  <2>2. \A i \in I : g[i] = w[i][p[i]]
    BY DEF Along
  <2> HIDE DEF g, w, a, I
  <2>3. QED
    BY <1>1, <1>2, <1>4, <2>1, <2>2
<1>6. h \in [I -> gf] /\ \A i \in I : h[i] = IF i = a THEN One ELSE m[i][p[i]]
  <2>1. Along(n, m, p) \in [I -> gf] /\ \A i \in I : Along(n, m, p)[i] = m[i][p[i]]
    <3>1. Along(n, m, p) \in [I -> gf]
      BY <1>1, TermIs
    <3>2. \A i \in I : Along(n, m, p)[i] = m[i][p[i]]
      BY DEF Along
    <3>3. QED
      BY <3>1, <3>2
  <2>2. h = [Along(n, m, p) EXCEPT ![a] = One]
    BY DEF Others
  <2> HIDE DEF h, a, I
  <2>3. QED
    BY <1>2, <2>1, <2>2, ZeroOne
<1>7. Expansion(n, w)[p] = Chained(n, g)
  BY DEF Expansion
<1>8. OthersOf(n, m, p, k) = Chained(n, h)
  BY DEF OthersOf
<1> HIDE DEF g, h, w, a
<1>9. Chained(n, h) \in gf
  BY <1>6, ChainedIs
<1>10. h[a] = One /\ g[a] = m[a][c] /\ \A i \in I : i # a => h[i] = g[i]
  BY <1>2, <1>5, <1>6
<1>11. Chained(n, g) = gf_mul(g[a], Chained(n, h))
  BY <1>2, <1>5, <1>6, <1>10, FactorOut
<1>12. QED
  BY <1>2, <1>4, <1>7, <1>8, <1>9, <1>10, <1>11 DEF w, a

LEMMA WithColumnIs ==
  ASSUME NEW I, NEW m \in Square(I), NEW k \in I, NEW c \in I
  PROVE  /\ WithColumn(I, m, k, k) = m
         /\ \A r \in I : WithColumn(I, m, k, c)[r][k] = m[r][c]
         /\ c # k => \A r \in I : WithColumn(I, m, k, c)[r][c] = m[r][c]
<1>1. \A r \in I : m[r] \in [I -> gf] /\ m = [s \in I |-> m[s]]
  BY DEF Square
<1>2. \A r \in I : [m[r] EXCEPT ![k] = m[r][k]] = m[r]
  BY <1>1
<1>3. WithColumn(I, m, k, k) = [s \in I |-> m[s]]
  BY <1>2 DEF WithColumn
<1>4. m = [s \in I |-> m[s]]
  BY DEF Square
<1>5. \A r \in I : WithColumn(I, m, k, c)[r] = [m[r] EXCEPT ![k] = m[r][c]]
  BY DEF WithColumn
<1>6. WithColumn(I, m, k, k) = m
  BY <1>3, <1>4, Zenon
<1>7. ASSUME NEW r \in I
      PROVE  /\ WithColumn(I, m, k, c)[r][k] = m[r][c]
             /\ c # k => WithColumn(I, m, k, c)[r][c] = m[r][c]
  <2> DEFINE h == m[r]
  <2>1. h \in [I -> gf] /\ WithColumn(I, m, k, c)[r] = [h EXCEPT ![k] = h[c]]
    BY <1>1, <1>5
  <2> HIDE DEF h
  <2>2. /\ WithColumn(I, m, k, c)[r][k] = h[c]
        /\ c # k => WithColumn(I, m, k, c)[r][c] = h[c]
    BY <2>1
  <2>3. QED
    BY <2>2 DEF h
<1>8. QED
  BY <1>6, <1>7, Zenon

\* A matrix with a kernel has the determinant zero.
LEMMA KernelMeansZero ==
  ASSUME NEW n \in Nat, NEW m \in Square(0..(n - 1)), HasKernel(0..(n - 1), m)
  PROVE  Determinant(m) = Zero
<1> DEFINE I == 0..(n - 1)
           S == Perms(I)
<1>1. PICK x \in Vector(I) : (\E i \in I : x[i] # Zero) /\ \A r \in I : Row(I, m, r, x) = Zero
  BY DEF HasKernel
<1>2. PICK k \in I : x[k] # Zero
  BY <1>1
<1>3. IsFiniteSet(I) /\ IsFiniteSet(S) /\ m \in Square(I)
  <2>1. IsFiniteSet(I) /\ m \in Square(I)
    BY FS_Interval
  <2> HIDE DEF I
  <2>2. QED
    BY <2>1, PermsFinite
<1>4. \A c \in I : x[c] \in gf
  BY DEF Vector
<1> DEFINE w(c) == WithColumn(I, m, k, c)
           a(p) == PlaceOf(I, p, k)
           q(p) == OthersOf(n, m, p, k)
           f == [c \in I |-> [p \in S |-> gf_mul(x[c], Expansion(n, w(c))[p])]]
           g == [p \in S |-> [c \in I |-> f[c][p]]]
           K == Sums(I, S, f)
           L == Sums(S, I, g)
<1>5. ASSUME NEW c \in I, NEW p \in S
      PROVE  /\ w(c) \in Square(I) /\ a(p) \in I /\ q(p) \in gf /\ Expansion(n, w(c))[p] \in gf
             /\ f[c][p] = gf_mul(x[c], Expansion(n, w(c))[p]) /\ f[c][p] \in gf
             /\ f[c][p] = gf_mul(q(p), gf_mul(m[a(p)][c], x[c]))
  <2>1. /\ w(c) \in Square(I) /\ a(p) \in I /\ q(p) \in gf
        /\ Expansion(n, w(c))[p] = gf_mul(m[a(p)][c], q(p))
    BY ColumnExpanded
  <2>2. m[a(p)][c] \in gf
    BY <2>1 DEF Square
  <2>3. f[c][p] = gf_mul(x[c], Expansion(n, w(c))[p])
    OBVIOUS
  <2> HIDE DEF w, a, q, f
  <2>4. Expansion(n, w(c))[p] \in gf
    BY <2>1, <2>2, MulClosed
  <2>5. gf_mul(x[c], gf_mul(m[a(p)][c], q(p))) = gf_mul(gf_mul(x[c], m[a(p)][c]), q(p))
    BY <1>4, <2>1, <2>2, MulAssoc
  <2>6. gf_mul(gf_mul(x[c], m[a(p)][c]), q(p)) = gf_mul(q(p), gf_mul(m[a(p)][c], x[c]))
    BY <1>4, <2>1, <2>2, MulComm, MulClosed
  <2>7. QED
    BY <1>4, <2>1, <2>3, <2>4, <2>5, <2>6, MulClosed
<1>6. ASSUME NEW c \in I
      PROVE  K[c] = gf_mul(x[c], Determinant(w(c))) /\ K[c] \in gf
  <2> DEFINE e == Expansion(n, w(c))
             h == f[c]
  <2>1. \A p \in S : e[p] \in gf /\ h[p] = gf_mul(x[c], e[p])
    BY <1>5
  <2>2. K[c] = Total(S, h)
    BY DEF Sums
  <2>3. Determinant(w(c)) = Total(S, e)
    <3>1. w(c) \in Square(I)
      <4>1. PICK p : p \in S
        <5>1. [i \in I |-> i] \in S
          BY DEF Perms
        <5>2. QED
          BY <5>1
      <4>2. QED
        BY <1>5, <4>1
    <3> HIDE DEF w
    <3>2. QED
      BY <3>1, DeterminantIs
  <2> HIDE DEF e, h, K, S, w
  <2>4. Total(S, h) = gf_mul(x[c], Total(S, e))
    BY <1>3, <1>4, <2>1, TotalMul
  <2>5. QED
    BY <2>2, <2>3, <2>4, TotalClosed
<1>7. ASSUME NEW p \in S
      PROVE  L[p] = Zero
  <2> DEFINE e == Terms(I, m, a(p), x)
             h == g[p]
  <2>1. a(p) \in I /\ q(p) \in gf
    BY <1>2, <1>5
  <2>2. \A c \in I : e[c] = gf_mul(m[a(p)][c], x[c]) /\ e[c] \in gf
    <3> HIDE DEF I, a
    <3>1. QED
      BY <1>3, <2>1, TermsIn
  <2>3. \A c \in I : e[c] \in gf /\ h[c] = gf_mul(q(p), e[c])
    BY <1>5, <2>2
  <2>4. Total(I, e) = Zero
    BY <1>1, <2>1 DEF Row
  <2>5. L[p] = Total(I, h)
    BY DEF Sums
  <2> HIDE DEF e, g, h, L, I, q
  <2>6. Total(I, h) = gf_mul(q(p), Total(I, e))
    BY <1>3, <2>1, <2>3, TotalMul
  <2>7. QED
    BY <2>1, <2>4, <2>5, <2>6, MulZero
<1>8. Total(I, K) = Total(S, L)
  <2>1. \A c \in I, p \in S : f[c][p] \in gf /\ g[p][c] = f[c][p]
    BY <1>5
  <2> HIDE DEF f, g, I, S
  <2>2. QED
    BY <1>3, <2>1, TotalsTransposed
<1>9. ASSUME NEW c \in I, c # k
      PROVE  K[c] = Zero
  <2>1. w(c) \in Square(I) /\ \A r \in I : w(c)[r][k] = w(c)[r][c]
    <3>1. [i \in I |-> i] \in S
      BY DEF Perms
    <3>2. w(c) \in Square(I)
      BY <1>5, <3>1
    <3> HIDE DEF I
    <3>3. \A r \in I : w(c)[r][k] = w(c)[r][c]
      BY <1>3, <1>9, WithColumnIs
    <3>4. QED
      BY <3>2, <3>3
  <2> HIDE DEF w
  <2>2. Determinant(w(c)) = Zero
    BY <1>9, <2>1, TwoColumnsAlike
  <2>3. QED
    BY <1>4, <1>6, <2>2, MulZero
<1>10. w(k) = m
  <2> HIDE DEF I
  <2>1. QED
    BY <1>3, WithColumnIs
<1>11. \A p \in S : L[p] = Zero
  BY <1>7
<1>12. /\ \A c \in I \ {k} : K[c] = Zero
       /\ K[k] = gf_mul(x[k], Determinant(m)) /\ K[k] \in gf
  BY <1>6, <1>9, <1>10
<1> HIDE DEF K, L, S, I, w
<1>13. Total(S, L) = Zero
  BY <1>11, TotalOfZeros
<1>14. Total(I, K) = K[k]
  BY <1>2, <1>3, <1>12, TotalOfOne
<1>15. gf_mul(x[k], Determinant(m)) = Zero
  BY <1>8, <1>12, <1>13, <1>14
<1>16. Determinant(m) \in gf
  BY DeterminantIs, TotalClosed DEF I
<1>17. QED
  BY <1>2, <1>4, <1>15, <1>16, MulNonZero

\* Both of what invert_mat may say is right, for every matrix: what it returns
\* is the inverse, and it gives up only where the determinant is zero.
THEOREM InverseRightHolds == Spec => []InverseRight
<1>1. TypeInv /\ InvertInv => SingularReported
  <2> SUFFICES ASSUME TypeInv, InvertInv, stage = "singular"
               PROVE  Determinant(original) = Zero
    BY DEF SingularReported
  <2>1. HasKernel(Indices, original)
    BY DEF InvertInv
  <2>2. PICK n \in Nat : Indices = 0..(n - 1) /\ original \in Square(Indices)
    BY DEF TypeInv, Sized
  <2>3. QED
    BY <2>1, <2>2, KernelMeansZero
<1>2. TypeInv /\ InvertInv => InverseReturned
  BY InvertedIsInverse DEF InverseReturned
<1>3. QED
  BY TypeInit, TypeStep, InvertInit, InvertStep, <1>1, <1>2, PTL DEF Spec, InverseRight
=============================================================================
