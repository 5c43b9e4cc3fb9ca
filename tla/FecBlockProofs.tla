--------------------------- MODULE FecBlockProofs ---------------------------
(***************************************************************************)
(* What the pairs that FecBlock's recursive function selects guarantee,    *)
(* for every block geometry and every damage.                              *)
(*                                                                         *)
(* Induction is on the numbers still ahead of the two indices: of the      *)
(* indices at which a fact fails, take some with the least number ahead of *)
(* them; at those the function moves on, to indices at which it holds.     *)
(***************************************************************************)
EXTENDS FecBlock, FiniteSetTheorems, WellFoundedInduction, TLAPS

\* Every set of natural numbers that is not empty has a least member.
LEMMA LeastNumber ==
  ASSUME NEW S \in SUBSET Nat, S # {}
  PROVE  \E m \in S : \A n \in S : m <= n
<1>1. PICK m \in S : \A n \in S : ~(<<n, m>> \in OpToRel(<, Nat))
  BY NatLessThanWellFounded, WFMin
<1>2. ASSUME NEW n \in S
      PROVE  m <= n
  <2>1. m \in Nat /\ n \in Nat
    OBVIOUS
  <2>2. ~(n < m)
    BY <1>1, <2>1 DEF OpToRel
  <2>3. QED
    BY <2>1, <2>2
<1>3. QED
  BY <1>2

-----------------------------------------------------------------------------
Ahead(P, m, n) == {k \in m..n : k \in P}

\* Counting the members of P in an interval, one number at a time.
LEMMA CountAhead ==
  ASSUME NEW P, NEW m \in Int, NEW n \in Int
  PROVE  /\ IsFiniteSet(Ahead(P, m, n))
         /\ Cardinality(Ahead(P, m, n)) \in Nat
         /\ m > n => Cardinality(Ahead(P, m, n)) = 0
         /\ m <= n /\ m \in P =>
              Cardinality(Ahead(P, m, n)) = Cardinality(Ahead(P, m + 1, n)) + 1
         /\ m <= n /\ m \notin P =>
              Cardinality(Ahead(P, m, n)) = Cardinality(Ahead(P, m + 1, n))
<1>0. m + 1 \in Int
  OBVIOUS
<1>1. \A a \in Int : IsFiniteSet(Ahead(P, a, n)) /\ Cardinality(Ahead(P, a, n)) \in Nat
  <2> TAKE a \in Int
  <2>1. IsFiniteSet(a..n)
    BY FS_Interval
  <2>2. Ahead(P, a, n) \subseteq a..n
    BY DEF Ahead
  <2> QED
    BY <2>1, <2>2, FS_Subset, FS_CardinalityType
<1>2. ASSUME m > n
      PROVE  Cardinality(Ahead(P, m, n)) = 0
  <2>1. Ahead(P, m, n) = {}
    BY <1>2 DEF Ahead
  <2> QED
    BY <2>1, FS_EmptySet
<1>3. ASSUME m <= n, m \in P
      PROVE  Cardinality(Ahead(P, m, n)) = Cardinality(Ahead(P, m + 1, n)) + 1
  <2>1. Ahead(P, m, n) = Ahead(P, m + 1, n) \cup {m}
    BY <1>3 DEF Ahead
  <2>2. m \notin Ahead(P, m + 1, n)
    BY DEF Ahead
  <2>3. IsFiniteSet(Ahead(P, m + 1, n))
    BY <1>0, <1>1
  <2> QED
    BY <2>1, <2>2, <2>3, FS_AddElement
<1>4. ASSUME m <= n, m \notin P
      PROVE  Cardinality(Ahead(P, m, n)) = Cardinality(Ahead(P, m + 1, n))
  <2>1. Ahead(P, m, n) = Ahead(P, m + 1, n)
    BY <1>4 DEF Ahead
  <2> QED
    BY <2>1
<1> QED
  BY <1>1, <1>2, <1>3, <1>4

-----------------------------------------------------------------------------
\* No more than all of them are ahead.
LEMMA CountBound ==
  ASSUME NEW P, NEW n \in Nat, NEW m \in 0..n
  PROVE  Cardinality(Ahead(P, m, n - 1)) \in 0..n
<1>1. /\ m \in Int /\ n - 1 \in Int
  OBVIOUS
<1>2. IsFiniteSet(m..(n - 1)) /\ Cardinality(m..(n - 1)) <= n
  <2>1. /\ IsFiniteSet(m..(n - 1))
        /\ Cardinality(m..(n - 1)) = IF m > n - 1 THEN 0 ELSE (n - 1) - m + 1
    BY <1>1, FS_Interval
  <2> QED
    BY <2>1
<1>3. Cardinality(m..(n - 1)) \in Nat
  BY <1>2, FS_CardinalityType
<1>4. Ahead(P, m, n - 1) \subseteq m..(n - 1)
  BY DEF Ahead
<1>5. Cardinality(Ahead(P, m, n - 1)) <= Cardinality(m..(n - 1))
  BY <1>2, <1>4, FS_Subset
<1>6. Cardinality(Ahead(P, m, n - 1)) \in Nat
  BY <1>1, CountAhead
<1> QED
  BY <1>2, <1>3, <1>5, <1>6

\* Nothing is left ahead of an index whose count ahead is zero.
LEMMA NothingAhead ==
  ASSUME NEW P, NEW m \in Int, NEW n \in Int, Cardinality(Ahead(P, m, n)) = 0
  PROVE  \A k \in P : ~(k \in m..n)
<1>1. IsFiniteSet(Ahead(P, m, n))
  BY CountAhead
<1>2. Ahead(P, m, n) = {}
  BY <1>1, FS_EmptySet
<1> QED
  BY <1>2 DEF Ahead

MissingIn(data) == {k \in DataNos : data[k] = "missing"}
CorruptIn(data) == {k \in DataNos : data[k] = "corrupt"}

\* The counts ahead of DATA d, when it is passed.
LEMMA DataPass ==
  ASSUME NEW data \in [DataNos -> Status], NEW d \in 0..D, d < D
  PROVE  /\ \A P : /\ Cardinality(Ahead(P, d, D - 1)) \in Nat
                  /\ Cardinality(Ahead(P, d + 1, D - 1)) \in Nat
         /\ Cardinality(Ahead(MissingIn(data), d, D - 1)) =
              Cardinality(Ahead(MissingIn(data), d + 1, D - 1)) + (IF data[d] = "missing" THEN 1 ELSE 0)
         /\ Cardinality(Ahead(CorruptIn(data), d, D - 1)) =
              Cardinality(Ahead(CorruptIn(data), d + 1, D - 1)) + (IF data[d] = "corrupt" THEN 1 ELSE 0)
         /\ Cardinality(Ahead(Bad(data), d, D - 1)) =
              Cardinality(Ahead(Bad(data), d + 1, D - 1)) + (IF data[d] = "good" THEN 0 ELSE 1)
<1>1. /\ d \in Int /\ D - 1 \in Int /\ d <= D - 1 /\ d \in DataNos /\ d + 1 \in Int
  BY BlockAssumption DEF DataNos, MAX_DATA_OR_FEC_PACKETS_PER_BLOCK
<1>2. d \in MissingIn(data) <=> data[d] = "missing"
  BY <1>1 DEF MissingIn
<1>3. d \in CorruptIn(data) <=> data[d] = "corrupt"
  BY <1>1 DEF CorruptIn
<1>4. d \in Bad(data) <=> data[d] # "good"
  BY <1>1 DEF Bad
<1>5. \A P : /\ Cardinality(Ahead(P, d, D - 1)) \in Nat
             /\ Cardinality(Ahead(P, d + 1, D - 1)) \in Nat
             /\ Cardinality(Ahead(P, d, D - 1)) =
                  Cardinality(Ahead(P, d + 1, D - 1)) + (IF d \in P THEN 1 ELSE 0)
  <2> TAKE P
  <2>1. Cardinality(Ahead(P, d, D - 1)) \in Nat
    BY <1>1, CountAhead
  <2>2. Cardinality(Ahead(P, d + 1, D - 1)) \in Nat
    BY <1>1, CountAhead
  <2>3. CASE d \in P
    <3>1. Cardinality(Ahead(P, d, D - 1)) = Cardinality(Ahead(P, d + 1, D - 1)) + 1
      BY <1>1, <2>3, CountAhead
    <3> QED BY <2>1, <2>2, <2>3, <3>1
  <2>4. CASE d \notin P
    <3>1. Cardinality(Ahead(P, d, D - 1)) = Cardinality(Ahead(P, d + 1, D - 1))
      BY <1>1, <2>4, CountAhead
    <3> QED BY <2>1, <2>2, <2>4, <3>1
  <2> QED BY <2>3, <2>4
<1> QED
  BY <1>2, <1>3, <1>4, <1>5

\* The count of good FECs ahead of FEC f, when it is passed.
LEMMA FecPass ==
  ASSUME NEW fec \in [FecNos -> Status], NEW f \in 0..F, f < F
  PROVE  /\ Cardinality(Ahead(GoodFecs(fec), f, F - 1)) \in Nat
         /\ Cardinality(Ahead(GoodFecs(fec), f + 1, F - 1)) \in Nat
         /\ Cardinality(Ahead(GoodFecs(fec), f, F - 1)) =
              Cardinality(Ahead(GoodFecs(fec), f + 1, F - 1)) + (IF fec[f] = "good" THEN 1 ELSE 0)
<1>1. f \in Int /\ F - 1 \in Int /\ f <= F - 1 /\ f \in FecNos /\ f + 1 \in Int
  BY BlockAssumption DEF FecNos, MAX_DATA_OR_FEC_PACKETS_PER_BLOCK
<1>2. f \in GoodFecs(fec) <=> fec[f] = "good"
  BY <1>1 DEF GoodFecs
<1>3. /\ Cardinality(Ahead(GoodFecs(fec), f, F - 1)) \in Nat
      /\ Cardinality(Ahead(GoodFecs(fec), f + 1, F - 1)) \in Nat
  BY <1>1, CountAhead
<1>4. CASE fec[f] = "good"
  BY <1>1, <1>2, <1>3, <1>4, CountAhead
<1>5. CASE fec[f] # "good"
  <2>1. Cardinality(Ahead(GoodFecs(fec), f, F - 1)) = Cardinality(Ahead(GoodFecs(fec), f + 1, F - 1))
    BY <1>1, <1>2, <1>5, CountAhead
  <2> QED BY <1>3, <1>5, <2>1
<1> QED
  BY <1>4, <1>5

\* A corrupt DATA ahead is damaged besides the missing ones ahead.
LEMMA CorruptAhead ==
  ASSUME NEW data \in [DataNos -> Status], NEW d \in 0..D, d < D, data[d] = "corrupt"
  PROVE  Cardinality(Ahead(MissingIn(data), d, D - 1)) + 1 <= Cardinality(Ahead(Bad(data), d, D - 1))
<1>1. /\ d \in Int /\ D - 1 \in Int /\ d <= D - 1 /\ d \in DataNos
  BY BlockAssumption DEF DataNos, MAX_DATA_OR_FEC_PACKETS_PER_BLOCK
<1>2. /\ IsFiniteSet(Ahead(MissingIn(data), d, D - 1)) /\ IsFiniteSet(Ahead(Bad(data), d, D - 1))
      /\ Cardinality(Ahead(MissingIn(data), d, D - 1)) \in Nat
      /\ Cardinality(Ahead(Bad(data), d, D - 1)) \in Nat
  BY <1>1, CountAhead
<1>3. d \notin Ahead(MissingIn(data), d, D - 1)
  BY DEF Ahead, MissingIn
<1>4. Ahead(MissingIn(data), d, D - 1) \cup {d} \subseteq Ahead(Bad(data), d, D - 1)
  BY <1>1 DEF Ahead, MissingIn, Bad
<1>5. Cardinality(Ahead(MissingIn(data), d, D - 1) \cup {d}) = Cardinality(Ahead(MissingIn(data), d, D - 1)) + 1
  BY <1>2, <1>3, FS_AddElement
<1>6. Cardinality(Ahead(MissingIn(data), d, D - 1) \cup {d}) <= Cardinality(Ahead(Bad(data), d, D - 1))
  BY <1>2, <1>4, FS_Subset
<1> QED
  BY <1>5, <1>6

-----------------------------------------------------------------------------
(***************************************************************************)
(* The recursive function satisfies its equation.                          *)
(***************************************************************************)
Left(d, f) == (D - d) + (F - f)

\* The pairs from the indices p on, if sub has those behind p.
Paired(data, fec, sub, p) ==
  LET d == p[1]
      f == p[2]
  IN IF d = D \/ f = F THEN {}
     ELSE IF DataPassed(data, fec, d, f) THEN sub[<<d + 1, f>>]
     ELSE IF FecPassed(data, fec, d, f) THEN sub[<<d, f + 1>>]
     ELSE {<<d, f>>} \cup sub[<<d + 1, f + 1>>]

\* sub is right where less than n numbers are ahead.
RightBelow(data, fec, sub, n) ==
  \A d \in 0..D, f \in 0..F :
    Left(d, f) < n => sub[<<d, f>>] = Paired(data, fec, sub, <<d, f>>)

LEMMA Bounds == /\ D \in Nat /\ D >= 1 /\ F \in Nat
                /\ \A d \in 0..D, f \in 0..F : Left(d, f) \in 0..(D + F)
BY BlockAssumption DEF MAX_DATA_OR_FEC_PACKETS_PER_BLOCK, Left

\* Functions that agree where less is ahead of the indices agree at them.
LEMMA PairedDepends ==
  ASSUME NEW data, NEW fec, NEW sub, NEW other, NEW d \in 0..D, NEW f \in 0..F,
         \A a \in 0..D, b \in 0..F : Left(a, b) < Left(d, f) => sub[<<a, b>>] = other[<<a, b>>]
  PROVE  Paired(data, fec, sub, <<d, f>>) = Paired(data, fec, other, <<d, f>>)
<1>1. CASE d = D \/ f = F
  BY <1>1 DEF Paired
<1>2. CASE ~(d = D \/ f = F)
  <2>1. d + 1 \in 0..D /\ f + 1 \in 0..F
    BY <1>2, Bounds
  <2>2. /\ Left(d + 1, f) < Left(d, f)
        /\ Left(d, f + 1) < Left(d, f)
        /\ Left(d + 1, f + 1) < Left(d, f)
    BY <2>1, Bounds DEF Left
  <2>3. /\ sub[<<d + 1, f>>] = other[<<d + 1, f>>]
        /\ sub[<<d, f + 1>>] = other[<<d, f + 1>>]
        /\ sub[<<d + 1, f + 1>>] = other[<<d + 1, f + 1>>]
    BY <2>1, <2>2
  <2>4. QED
    BY <2>3 DEF Paired
<1>3. QED
  BY <1>1, <1>2

\* What is right below n can be extended to what is right below n + 1.
LEMMA OneMore ==
  ASSUME NEW data, NEW fec, NEW sub, NEW n \in Nat, RightBelow(data, fec, sub, n)
  PROVE  LET more == [p \in (0..D) \X (0..F) |-> Paired(data, fec, sub, p)]
         IN RightBelow(data, fec, more, n + 1)
<1> DEFINE more == [p \in (0..D) \X (0..F) |-> Paired(data, fec, sub, p)]
<1>1. \A d \in 0..D, f \in 0..F : more[<<d, f>>] = Paired(data, fec, sub, <<d, f>>)
  OBVIOUS
<1> HIDE DEF more
<1>2. \A d \in 0..D, f \in 0..F : Left(d, f) < n => more[<<d, f>>] = sub[<<d, f>>]
  BY <1>1 DEF RightBelow
<1>3. ASSUME NEW d \in 0..D, NEW f \in 0..F, Left(d, f) < n + 1
      PROVE  more[<<d, f>>] = Paired(data, fec, more, <<d, f>>)
  <2>1. \A a \in 0..D, b \in 0..F : Left(a, b) < Left(d, f) => Left(a, b) < n
    BY <1>3, Bounds
  <2>2. \A a \in 0..D, b \in 0..F : Left(a, b) < Left(d, f) => sub[<<a, b>>] = more[<<a, b>>]
    BY <1>2, <2>1
  <2>3. Paired(data, fec, sub, <<d, f>>) = Paired(data, fec, more, <<d, f>>)
    BY <2>2, PairedDepends
  <2>4. QED
    BY <1>1, <2>3
<1>4. QED
  BY <1>3 DEF RightBelow, more

LEMMA RightExists ==
  ASSUME NEW data, NEW fec, NEW n \in Nat
  PROVE  \E sub : RightBelow(data, fec, sub, n)
<1> DEFINE Without == {m \in Nat : ~\E sub : RightBelow(data, fec, sub, m)}
<1>1. SUFFICES ASSUME Without # {}
               PROVE  FALSE
  OBVIOUS
<1>2. PICK m \in Without : \A k \in Without : m <= k
  BY <1>1, LeastNumber
<1>3. m # 0
  <2>1. \A sub : RightBelow(data, fec, sub, 0)
    BY Bounds DEF RightBelow
  <2>2. QED
    BY <2>1
<1>4. m - 1 \in Nat /\ m - 1 \notin Without
  BY <1>2, <1>3
<1>5. PICK sub : RightBelow(data, fec, sub, m - 1)
  BY <1>4
<1>6. RightBelow(data, fec, [p \in (0..D) \X (0..F) |-> Paired(data, fec, sub, p)], (m - 1) + 1)
  BY <1>4, <1>5, OneMore
<1>7. (m - 1) + 1 = m
  BY <1>4
<1>8. QED
  BY <1>6, <1>7

\* The pairs from any two indices on, in terms of those behind them.
LEMMA SelectionDef ==
  ASSUME NEW data, NEW fec, NEW d \in 0..D, NEW f \in 0..F
  PROVE  Selection(data, fec)[<<d, f>>] =
           IF d = D \/ f = F THEN {}
           ELSE IF DataPassed(data, fec, d, f) THEN Selection(data, fec)[<<d + 1, f>>]
           ELSE IF FecPassed(data, fec, d, f) THEN Selection(data, fec)[<<d, f + 1>>]
           ELSE {<<d, f>>} \cup Selection(data, fec)[<<d + 1, f + 1>>]
<1>1. PICK sub : RightBelow(data, fec, sub, D + F + 1)
  BY RightExists, Bounds
<1> DEFINE all == [p \in (0..D) \X (0..F) |-> Paired(data, fec, sub, p)]
<1>2. \A a \in 0..D, b \in 0..F : all[<<a, b>>] = sub[<<a, b>>]
  <2> TAKE a \in 0..D, b \in 0..F
  <2>1. Left(a, b) < D + F + 1
    BY Bounds
  <2>2. QED
    BY <1>1, <2>1 DEF RightBelow
<1> HIDE DEF all
<1>3. \A p \in (0..D) \X (0..F) : Paired(data, fec, sub, p) = Paired(data, fec, all, p)
  <2> TAKE p \in (0..D) \X (0..F)
  <2>1. PICK a \in 0..D, b \in 0..F : p = <<a, b>>
    OBVIOUS
  <2>2. QED
    BY <1>2, <2>1, PairedDepends
<1>4. all = [p \in (0..D) \X (0..F) |-> Paired(data, fec, all, p)]
  BY <1>3 DEF all
<1>5. Selection(data, fec) = [p \in (0..D) \X (0..F) |-> Paired(data, fec, Selection(data, fec), p)]
  BY <1>4 DEF Selection, Paired
<1> DEFINE whole == Selection(data, fec)
<1> HIDE DEF whole
<1>6. whole = [p \in (0..D) \X (0..F) |-> Paired(data, fec, whole, p)]
  BY <1>5 DEF whole
<1>7. whole[<<d, f>>] = Paired(data, fec, whole, <<d, f>>)
  BY <1>6
<1>8. QED
  BY <1>7 DEF Paired, whole

-----------------------------------------------------------------------------
(***************************************************************************)
(* What is selected.                                                       *)
(***************************************************************************)
\* Of the indices in a set, some have the least number ahead of them.
LEMMA LeastAhead ==
  ASSUME NEW W \in SUBSET ((0..D) \X (0..F)), W # {}
  PROVE  \E d \in 0..D, f \in 0..F :
           /\ <<d, f>> \in W
           /\ \A a \in 0..D, b \in 0..F : Left(a, b) < Left(d, f) => <<a, b>> \notin W
<1> DEFINE Lefts == {n \in 0..(D + F) : \E d \in 0..D, f \in 0..F : <<d, f>> \in W /\ Left(d, f) = n}
<1>1. Lefts # {}
  <2>1. PICK d \in 0..D, f \in 0..F : <<d, f>> \in W
    OBVIOUS
  <2>2. QED
    BY <2>1, Bounds
<1>2. Lefts \in SUBSET Nat
  OBVIOUS
<1>3. PICK n \in Lefts : \A m \in Lefts : n <= m
  BY <1>1, <1>2, LeastNumber
<1>4. PICK d \in 0..D, f \in 0..F : <<d, f>> \in W /\ Left(d, f) = n
  BY <1>3
<1>5. ASSUME NEW a \in 0..D, NEW b \in 0..F, Left(a, b) < Left(d, f), <<a, b>> \in W
      PROVE  FALSE
  <2>1. Left(a, b) \in Lefts
    BY <1>5, Bounds
  <2>2. n <= Left(a, b)
    BY <1>3, <2>1
  <2>3. Left(a, b) \in Int /\ Left(d, f) \in Int
    BY Bounds
  <2>4. QED
    BY <1>4, <1>5, <2>2, <2>3
<1>6. QED
  BY <1>4, <1>5

\* Indices behind others.
LEMMA Behind ==
  ASSUME NEW d \in 0..D, NEW f \in 0..F, ~(d = D \/ f = F)
  PROVE  /\ d \in DataNos /\ f \in FecNos /\ d + 1 \in 0..D /\ f + 1 \in 0..F
         /\ Left(d + 1, f) < Left(d, f)
         /\ Left(d, f + 1) < Left(d, f)
         /\ Left(d + 1, f + 1) < Left(d, f)
BY Bounds DEF Left, DataNos, FecNos

\* A pair of a DATA that is damaged and a FEC that is not missing.
Pairs(data, fec) == {p \in DataNos \X FecNos : data[p[1]] # "good" /\ fec[p[2]] # "missing"}

LEMMA SelectedFrom ==
  ASSUME NEW data \in [DataNos -> Status], NEW fec \in [FecNos -> Status],
         NEW d \in 0..D, NEW f \in 0..F
  PROVE  Selection(data, fec)[<<d, f>>] \subseteq Pairs(data, fec)
<1> DEFINE sub == Selection(data, fec)
           W == {p \in (0..D) \X (0..F) : ~(sub[p] \subseteq Pairs(data, fec))}
<1>1. SUFFICES ASSUME W # {}
               PROVE  FALSE
  OBVIOUS
<1>2. PICK a \in 0..D, b \in 0..F :
        /\ <<a, b>> \in W
        /\ \A x \in 0..D, y \in 0..F : Left(x, y) < Left(a, b) => <<x, y>> \notin W
  BY <1>1, LeastAhead
<1> HIDE DEF sub
<1>3. \A x \in 0..D, y \in 0..F : Left(x, y) < Left(a, b) => sub[<<x, y>>] \subseteq Pairs(data, fec)
  BY <1>2
<1>4. sub[<<a, b>>] =
           IF a = D \/ b = F THEN {}
           ELSE IF DataPassed(data, fec, a, b) THEN sub[<<a + 1, b>>]
           ELSE IF FecPassed(data, fec, a, b) THEN sub[<<a, b + 1>>]
           ELSE {<<a, b>>} \cup sub[<<a + 1, b + 1>>]
  BY SelectionDef DEF sub
<1>5. CASE a = D \/ b = F
  BY <1>2, <1>4, <1>5
<1>6. CASE ~(a = D \/ b = F)
  <2>1. /\ sub[<<a + 1, b>>] \subseteq Pairs(data, fec)
        /\ sub[<<a, b + 1>>] \subseteq Pairs(data, fec)
        /\ sub[<<a + 1, b + 1>>] \subseteq Pairs(data, fec)
    BY <1>3, <1>6, Behind
  <2>2. ~DataPassed(data, fec, a, b) /\ ~FecPassed(data, fec, a, b) => <<a, b>> \in Pairs(data, fec)
    BY <1>6, Behind DEF Pairs, DataPassed, FecPassed
  <2>3. sub[<<a, b>>] \subseteq Pairs(data, fec)
    BY <1>4, <1>6, <2>1, <2>2
  <2>4. QED
    BY <1>2, <2>3
<1>7. QED
  BY <1>5, <1>6

\* The counters of the loop, in terms of Ahead.
LEMMA CountersAhead ==
  ASSUME NEW data, NEW fec, NEW d \in 0..D, NEW f \in 0..F
  PROVE  /\ MissingFrom(data, d) = Cardinality(Ahead(MissingIn(data), d, D - 1))
         /\ GoodFrom(fec, f) = Cardinality(Ahead(GoodFecs(fec), f, F - 1))
<1>1. {k \in d..(D - 1) : data[k] = "missing"} = Ahead(MissingIn(data), d, D - 1)
  BY Bounds DEF Ahead, MissingIn, DataNos
<1>2. {k \in f..(F - 1) : fec[k] = "good"} = Ahead(GoodFecs(fec), f, F - 1)
  BY Bounds DEF Ahead, GoodFecs, FecNos
<1>3. QED
  BY <1>1, <1>2 DEF MissingFrom, GoodFrom

\* Without corrupt FECs, and with no more damaged DATA ahead than good FECs,
\* every damaged DATA ahead is in a pair.
Repaired(data, fec, d, f) ==
  Cardinality(Ahead(Bad(data), d, D - 1)) <= Cardinality(Ahead(GoodFecs(fec), f, F - 1)) =>
    \A k \in Bad(data) : k >= d => \E j \in FecNos : <<k, j>> \in Selection(data, fec)[<<d, f>>]

\* One step of the argument: it is so from two indices on if it is from those
\* behind them on.
LEMMA RepairStep ==
  ASSUME NEW data \in [DataNos -> Status], NEW fec \in [FecNos -> Status],
         \A f \in FecNos : fec[f] # "corrupt",
         NEW d \in 0..D, NEW f \in 0..F,
         \A x \in 0..D, y \in 0..F : Left(x, y) < Left(d, f) => Repaired(data, fec, x, y)
  PROVE  Repaired(data, fec, d, f)
<1> DEFINE sub == Selection(data, fec)
           bad(x) == Cardinality(Ahead(Bad(data), x, D - 1))
           good(y) == Cardinality(Ahead(GoodFecs(fec), y, F - 1))
<1>1. SUFFICES ASSUME bad(d) <= good(f), NEW k \in Bad(data), k >= d
               PROVE  \E j \in FecNos : <<k, j>> \in sub[<<d, f>>]
  BY DEF Repaired
<1>2. sub[<<d, f>>] =
           IF d = D \/ f = F THEN {}
           ELSE IF DataPassed(data, fec, d, f) THEN sub[<<d + 1, f>>]
           ELSE IF FecPassed(data, fec, d, f) THEN sub[<<d, f + 1>>]
           ELSE {<<d, f>>} \cup sub[<<d + 1, f + 1>>]
  BY SelectionDef
<1>3. k \in d..(D - 1) /\ D - 1 \in Int /\ F - 1 \in Int /\ d \in Int /\ f \in Int /\ k \in Int
  BY <1>1, Bounds DEF Bad, DataNos
<1>4. d # D
  BY <1>3, Bounds
<1>5. f # F
  <2>1. ASSUME f = F PROVE good(f) = 0
    BY <1>3, <2>1, CountAhead
  <2>2. bad(d) \in Nat
    BY <1>3, CountAhead
  <2>3. ASSUME bad(d) = 0 PROVE FALSE
    BY <1>3, <2>3, NothingAhead
  <2>4. QED
    BY <1>1, <2>1, <2>2, <2>3
<1>6. /\ d \in DataNos /\ f \in FecNos /\ d + 1 \in 0..D /\ f + 1 \in 0..F /\ d < D /\ f < F
      /\ Repaired(data, fec, d + 1, f) /\ Repaired(data, fec, d, f + 1)
      /\ Repaired(data, fec, d + 1, f + 1)
  BY <1>4, <1>5, Behind, Bounds
<1>7. /\ bad(d) \in Nat /\ bad(d + 1) \in Nat
      /\ bad(d) = bad(d + 1) + (IF data[d] = "good" THEN 0 ELSE 1)
  BY <1>6, DataPass
<1>8. /\ good(f) \in Nat /\ good(f + 1) \in Nat
      /\ good(f) = good(f + 1) + (IF fec[f] = "good" THEN 1 ELSE 0)
  BY <1>6, FecPass
<1>9. CASE DataPassed(data, fec, d, f)
  <2>1. ~(data[d] = "corrupt" /\ GoodFrom(fec, f) <= MissingFrom(data, d))
    <3>1. /\ MissingFrom(data, d) = Cardinality(Ahead(MissingIn(data), d, D - 1))
          /\ GoodFrom(fec, f) = good(f)
      BY CountersAhead
    <3>2. data[d] = "corrupt" => Cardinality(Ahead(MissingIn(data), d, D - 1)) + 1 <= bad(d)
      BY <1>6, CorruptAhead
    <3>3. Cardinality(Ahead(MissingIn(data), d, D - 1)) \in Nat
      BY <1>3, CountAhead
    <3>4. QED
      BY <1>1, <1>7, <1>8, <3>1, <3>2, <3>3
  <2>2. data[d] = "good"
    BY <1>9, <2>1 DEF DataPassed
  <2>3. bad(d + 1) <= good(f) /\ k >= d + 1
    BY <1>1, <1>3, <1>7, <1>8, <2>2 DEF Bad
  <2>4. \E j \in FecNos : <<k, j>> \in sub[<<d + 1, f>>]
    BY <1>6, <2>3 DEF Repaired
  <2>5. QED
    BY <1>2, <1>4, <1>5, <1>9, <2>4
<1>10. CASE ~DataPassed(data, fec, d, f) /\ FecPassed(data, fec, d, f)
  <2>1. bad(d) <= good(f + 1)
    BY <1>1, <1>6, <1>8, <1>10 DEF FecPassed
  <2>2. \E j \in FecNos : <<k, j>> \in sub[<<d, f + 1>>]
    BY <1>1, <1>6, <2>1 DEF Repaired
  <2>3. QED
    BY <1>2, <1>4, <1>5, <1>10, <2>2
<1>11. CASE ~DataPassed(data, fec, d, f) /\ ~FecPassed(data, fec, d, f)
  <2>1. data[d] # "good" /\ fec[f] = "good"
    BY <1>6, <1>11 DEF DataPassed, FecPassed, Status
  <2>2. bad(d + 1) <= good(f + 1)
    BY <1>1, <1>7, <1>8, <2>1
  <2>3. k # d => \E j \in FecNos : <<k, j>> \in sub[<<d + 1, f + 1>>]
    BY <1>1, <1>3, <1>6, <2>2 DEF Repaired
  <2>4. sub[<<d, f>>] = {<<d, f>>} \cup sub[<<d + 1, f + 1>>]
    BY <1>2, <1>4, <1>5, <1>11
  <2>5. QED
    BY <1>6, <2>3, <2>4
<1>12. QED
  BY <1>9, <1>10, <1>11

\* A block not reported as failed, and without corrupt FEC, has a good FEC
\* paired with each of its damaged DATA.
LEMMA AllRepaired ==
  ASSUME NEW data \in [DataNos -> Status], NEW fec \in [FecNos -> Status],
         \A f \in FecNos : fec[f] # "corrupt",
         ~ReconstructionFailed(data, fec), NEW k \in Bad(data)
  PROVE  \E j \in GoodFecs(fec) : <<k, j>> \in Substitutions(data, fec)
<1> DEFINE W == {p \in (0..D) \X (0..F) : ~Repaired(data, fec, p[1], p[2])}
<1>1. W = {}
  <2> SUFFICES ASSUME W # {} PROVE FALSE
    OBVIOUS
  <2>1. PICK a \in 0..D, b \in 0..F :
          /\ <<a, b>> \in W
          /\ \A x \in 0..D, y \in 0..F : Left(x, y) < Left(a, b) => <<x, y>> \notin W
    BY LeastAhead
  <2>2. Repaired(data, fec, a, b)
    BY <2>1, RepairStep
  <2>3. QED
    BY <2>1, <2>2
<1>2. Repaired(data, fec, 0, 0)
  <2>1. <<0, 0>> \in (0..D) \X (0..F)
    BY Bounds
  <2>2. <<0, 0>> \notin W
    BY <1>1
  <2>3. QED
    BY <2>1, <2>2
<1>3. Ahead(Bad(data), 0, D - 1) = Bad(data) /\ Ahead(GoodFecs(fec), 0, F - 1) = GoodFecs(fec)
  BY DEF Ahead, Bad, GoodFecs, DataNos, FecNos
<1>4. /\ Cardinality(Bad(data)) \in Nat /\ Cardinality(GoodFecs(fec)) \in Nat
      /\ 0 \in Int /\ D - 1 \in Int /\ F - 1 \in Int
  BY <1>3, Bounds, CountAhead
<1>5. PICK j \in FecNos : <<k, j>> \in Selection(data, fec)[<<0, 0>>]
  <2>1. k >= 0
    BY DEF Bad, DataNos
  <2>2. QED
    BY <1>2, <1>3, <1>4, <2>1 DEF Repaired, ReconstructionFailed
<1>6. fec[j] = "good"
  <2>1. <<k, j>> \in Pairs(data, fec)
    BY <1>5, SelectedFrom, Bounds
  <2>2. QED
    BY <2>1 DEF Pairs, Status
<1>7. QED
  BY <1>5, <1>6 DEF Substitutions, GoodFecs
=============================================================================
