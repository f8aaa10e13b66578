---------------------------- MODULE RollupProofs ----------------------------
(***************************************************************************)
(* Proofs about Rollup, for batches of any length: log records are counted *)
(* once, groups of points keep the total of their last run, the order of a *)
(* uniform batch is immaterial, and when a rollup of metrics stops the     *)
(* node.                                                                   *)
(***************************************************************************)
EXTENDS Rollup, FiniteSetTheorems, WellFoundedInduction, TLAPS

\* A set of naturals that is not empty has a least element.
LEMMA LeastNatural ==
    ASSUME NEW S \in SUBSET Nat, S # {}
    PROVE  \E x \in S : \A y \in S : x <= y
<1>1. PICK x \in S : \A y \in S : <<y, x>> \notin OpToRel(<, Nat)
  BY NatLessThanWellFounded, WFMin
<1>2. \A y \in S : ~(y < x)
  BY <1>1 DEF OpToRel
<1> QED
  BY <1>2

\* Induction up to k, for the members of a set: a set that holds 0 and with each
\* number below k the next one holds them all.
LEMMA Induction ==
    ASSUME NEW k \in Nat, NEW S, 0 \in S,
           \A i \in 1..k : i - 1 \in S => i \in S
    PROVE  0..k \subseteq S
<1> DEFINE T == (0..k) \ S
<1>1. CASE T # {}
  <2>1. T \in SUBSET Nat
    OBVIOUS
  <2>2. PICK i \in T : \A y \in T : i <= y
    BY <1>1, <2>1, LeastNatural
  <2>3. i \in 1..k /\ i - 1 \notin T
    BY <2>2
  <2> QED
    BY <2>3
<1> QED
  BY <1>1

\* The function that MergedPoints chooses exists.
LEMMA MergedPointsExists ==
    ASSUME NEW batch, NEW lvl, Len(batch) \in Nat
    PROVE  \E f : f = [i \in 0..Len(batch) |->
                         IF i = 0 THEN <<>>
                                  ELSE MergePoint(f[i - 1], batch[i], lvl)]
<1> DEFINE Solves(f, k) == f = [i \in 0..k |->
                                  IF i = 0 THEN <<>>
                                  ELSE MergePoint(f[i - 1], batch[i], lvl)]
           S == {k \in Nat : \E f : Solves(f, k)}
<1>1. 0 \in S
  <2> DEFINE g == [i \in 0..0 |-> <<>>]
  <2>1. Solves(g, 0)
    OBVIOUS
  <2> QED
    BY <2>1
<1>2. ASSUME NEW k \in 1..Len(batch), k - 1 \in S PROVE k \in S
  <2>1. PICK f : Solves(f, k - 1)
    BY <1>2
  <2> DEFINE x == MergePoint(f[k - 1], batch[k], lvl)
             g == [i \in 0..k |-> IF i = k THEN x ELSE f[i]]
  <2>2. \A i \in 0..(k - 1) : g[i] = f[i]
    OBVIOUS
  <2>3. \A i \in 0..(k - 1) : f[i] =
          IF i = 0 THEN <<>> ELSE MergePoint(f[i - 1], batch[i], lvl)
    BY <2>1
  <2>4. ASSUME NEW i \in 0..k
        PROVE  g[i] =
                 IF i = 0 THEN <<>> ELSE MergePoint(g[i - 1], batch[i], lvl)
    <3>1. CASE i = k
      <4>1. g[i] = x /\ g[i - 1] = f[k - 1] /\ i # 0
        BY <2>2, <3>1
      <4> QED
        BY <3>1, <4>1
    <3>2. CASE i \in 1..(k - 1)
      <4>1. g[i] = f[i] /\ g[i - 1] = f[i - 1] /\ i # 0
        BY <2>2, <3>2
      <4> HIDE DEF g
      <4> QED
        BY <2>3, <3>2, <4>1
    <3>3. CASE i = 0
      BY <2>2, <2>3, <3>3
    <3> QED
      BY <3>1, <3>2, <3>3
  <2>5. g = [i \in 0..k |-> g[i]]
    OBVIOUS
  <2>6. Solves(g, k)
    <3> HIDE DEF g
    <3> QED
      BY <2>4, <2>5
  <2> HIDE DEF g, Solves
  <2> QED
    BY <2>6
<1>3. 0..Len(batch) \subseteq S
  <2> HIDE DEF S
  <2> QED
    BY <1>1, <1>2, Induction
<1>4. Len(batch) \in S
  BY <1>3
<1> QED
  BY <1>4

\* The equation of MergedPoints.
LEMMA MergedPointsDef ==
    ASSUME NEW batch, NEW lvl, Len(batch) \in Nat
    PROVE  LET out == MergedPoints(batch, lvl) IN
           /\ out[0] = <<>>
           /\ \A i \in 1..Len(batch) :
                out[i] = MergePoint(out[i - 1], batch[i], lvl)
<1> DEFINE out == MergedPoints(batch, lvl)
<1>1. out = CHOOSE f : f = [i \in 0..Len(batch) |->
                              IF i = 0 THEN <<>>
                              ELSE MergePoint(f[i - 1], batch[i], lvl)]
  BY DEF MergedPoints
<1>2. out = [i \in 0..Len(batch) |->
               IF i = 0 THEN <<>> ELSE MergePoint(out[i - 1], batch[i], lvl)]
  <2> HIDE DEF out
  <2> QED
    BY <1>1, MergedPointsExists
<1>3. /\ out[0] = <<>>
      /\ \A i \in 1..Len(batch) :
           out[i] = MergePoint(out[i - 1], batch[i], lvl)
  <2> HIDE DEF out
  <2> QED
    BY <1>2
<1> QED
  BY <1>3

\* The function that MergedRecords chooses exists.
LEMMA MergedRecordsExists ==
    ASSUME NEW batch, NEW lvl, Len(batch) \in Nat
    PROVE  \E f : f = [i \in 0..Len(batch) |->
                         IF i = 0 THEN <<>>
                                  ELSE RollupLogRecord(f[i - 1], batch[i], lvl)]
<1> DEFINE Solves(f, k) == f = [i \in 0..k |->
                                  IF i = 0 THEN <<>>
                                  ELSE RollupLogRecord(f[i - 1], batch[i], lvl)]
           S == {k \in Nat : \E f : Solves(f, k)}
<1>1. 0 \in S
  <2> DEFINE g == [i \in 0..0 |-> <<>>]
  <2>1. Solves(g, 0)
    OBVIOUS
  <2> QED
    BY <2>1
<1>2. ASSUME NEW k \in 1..Len(batch), k - 1 \in S PROVE k \in S
  <2>1. PICK f : Solves(f, k - 1)
    BY <1>2
  <2> DEFINE x == RollupLogRecord(f[k - 1], batch[k], lvl)
             g == [i \in 0..k |-> IF i = k THEN x ELSE f[i]]
  <2>2. \A i \in 0..(k - 1) : g[i] = f[i]
    OBVIOUS
  <2>3. \A i \in 0..(k - 1) : f[i] =
          IF i = 0 THEN <<>> ELSE RollupLogRecord(f[i - 1], batch[i], lvl)
    BY <2>1
  <2>4. ASSUME NEW i \in 0..k
        PROVE  g[i] =
                 IF i = 0 THEN <<>>
                          ELSE RollupLogRecord(g[i - 1], batch[i], lvl)
    <3>1. CASE i = k
      <4>1. g[i] = x /\ g[i - 1] = f[k - 1] /\ i # 0
        BY <2>2, <3>1
      <4> QED
        BY <3>1, <4>1
    <3>2. CASE i \in 1..(k - 1)
      <4>1. g[i] = f[i] /\ g[i - 1] = f[i - 1] /\ i # 0
        BY <2>2, <3>2
      <4> HIDE DEF g
      <4> QED
        BY <2>3, <3>2, <4>1
    <3>3. CASE i = 0
      BY <2>2, <2>3, <3>3
    <3> QED
      BY <3>1, <3>2, <3>3
  <2>5. g = [i \in 0..k |-> g[i]]
    OBVIOUS
  <2>6. Solves(g, k)
    <3> HIDE DEF g
    <3> QED
      BY <2>4, <2>5
  <2> HIDE DEF g, Solves
  <2> QED
    BY <2>6
<1>3. 0..Len(batch) \subseteq S
  <2> HIDE DEF S
  <2> QED
    BY <1>1, <1>2, Induction
<1>4. Len(batch) \in S
  BY <1>3
<1> QED
  BY <1>4

\* The equation of MergedRecords.
LEMMA MergedRecordsDef ==
    ASSUME NEW batch, NEW lvl, Len(batch) \in Nat
    PROVE  LET out == MergedRecords(batch, lvl) IN
           /\ out[0] = <<>>
           /\ \A i \in 1..Len(batch) :
                out[i] = RollupLogRecord(out[i - 1], batch[i], lvl)
<1> DEFINE out == MergedRecords(batch, lvl)
<1>1. out = CHOOSE f : f = [i \in 0..Len(batch) |->
                              IF i = 0 THEN <<>>
                              ELSE RollupLogRecord(f[i - 1], batch[i], lvl)]
  BY DEF MergedRecords
<1>2. out = [i \in 0..Len(batch) |->
               IF i = 0 THEN <<>>
                        ELSE RollupLogRecord(out[i - 1], batch[i], lvl)]
  <2> HIDE DEF out
  <2> QED
    BY <1>1, MergedRecordsExists
<1>3. /\ out[0] = <<>>
      /\ \A i \in 1..Len(batch) :
           out[i] = RollupLogRecord(out[i - 1], batch[i], lvl)
  <2> HIDE DEF out
  <2> QED
    BY <1>2
<1> QED
  BY <1>3

\* The function that PartialSums chooses exists.
LEMMA SumsExist ==
    ASSUME NEW h, NEW n \in Nat
    PROVE  \E f : f = [i \in 0..n |->
                         IF i = 0 THEN 0
                                  ELSE f[i - 1] + h[i]]
<1> DEFINE Solves(f, k) == f = [i \in 0..k |->
                                  IF i = 0 THEN 0
                                  ELSE f[i - 1] + h[i]]
           S == {k \in Nat : \E f : Solves(f, k)}
<1>1. 0 \in S
  <2> DEFINE g == [i \in 0..0 |-> 0]
  <2>1. Solves(g, 0)
    OBVIOUS
  <2> QED
    BY <2>1
<1>2. ASSUME NEW k \in 1..n, k - 1 \in S PROVE k \in S
  <2>1. PICK f : Solves(f, k - 1)
    BY <1>2
  <2> DEFINE x == f[k - 1] + h[k]
             g == [i \in 0..k |-> IF i = k THEN x ELSE f[i]]
  <2>2. \A i \in 0..(k - 1) : g[i] = f[i]
    OBVIOUS
  <2>3. \A i \in 0..(k - 1) : f[i] =
          IF i = 0 THEN 0 ELSE f[i - 1] + h[i]
    BY <2>1
  <2>4. ASSUME NEW i \in 0..k
        PROVE  g[i] =
                 IF i = 0 THEN 0 ELSE g[i - 1] + h[i]
    <3>1. CASE i = k
      <4>1. g[i] = x /\ g[i - 1] = f[k - 1] /\ i # 0
        BY <2>2, <3>1
      <4> QED
        BY <3>1, <4>1
    <3>2. CASE i \in 1..(k - 1)
      <4>1. g[i] = f[i] /\ g[i - 1] = f[i - 1] /\ i # 0
        BY <2>2, <3>2
      <4> HIDE DEF g
      <4> QED
        BY <2>3, <3>2, <4>1
    <3>3. CASE i = 0
      BY <2>2, <2>3, <3>3
    <3> QED
      BY <3>1, <3>2, <3>3
  <2>5. g = [i \in 0..k |-> g[i]]
    OBVIOUS
  <2>6. Solves(g, k)
    <3> HIDE DEF g
    <3> QED
      BY <2>4, <2>5
  <2> HIDE DEF g, Solves
  <2> QED
    BY <2>6
<1>3. 0..n \subseteq S
  <2> HIDE DEF S
  <2> QED
    BY <1>1, <1>2, Induction
<1>4. n \in S
  BY <1>3
<1> QED
  BY <1>4

\* The equation of PartialSums.
LEMMA SumsDef ==
    ASSUME NEW h, NEW n \in Nat
    PROVE  LET out == PartialSums(h, n) IN
           /\ out[0] = 0
           /\ \A i \in 1..n :
                out[i] = out[i - 1] + h[i]
<1> DEFINE out == PartialSums(h, n)
<1>1. out = CHOOSE f : f = [i \in 0..n |->
                              IF i = 0 THEN 0
                              ELSE f[i - 1] + h[i]]
  BY DEF PartialSums
<1>2. out = [i \in 0..n |->
               IF i = 0 THEN 0 ELSE out[i - 1] + h[i]]
  <2> HIDE DEF out
  <2> QED
    BY <1>1, SumsExist
<1>3. /\ out[0] = 0
      /\ \A i \in 1..n :
           out[i] = out[i - 1] + h[i]
  <2> HIDE DEF out
  <2> QED
    BY <1>2
<1> QED
  BY <1>3

\* A sum depends on what is added only, not on how far it goes on.
LEMMA SumsAgree ==
    ASSUME NEW f, NEW h, NEW n \in Nat, NEW m \in 0..n,
           \A i \in 1..m : f[i] = h[i]
    PROVE  \A i \in 0..m : PartialSums(f, n)[i] = PartialSums(h, m)[i]
<1> DEFINE F == PartialSums(f, n)
           H == PartialSums(h, m)
           S == {i \in 0..m : F[i] = H[i]}
<1>1. F[0] = 0 /\ \A i \in 1..n : F[i] = F[i - 1] + f[i]
  BY SumsDef
<1>2. H[0] = 0 /\ \A i \in 1..m : H[i] = H[i - 1] + h[i]
  BY SumsDef
<1> HIDE DEF F, H
<1>3. 0 \in S
  BY <1>1, <1>2
<1>4. ASSUME NEW i \in 1..m, i - 1 \in S PROVE i \in S
  <2>1. F[i] = F[i - 1] + f[i] /\ H[i] = H[i - 1] + h[i]
    BY <1>1, <1>2
  <2> QED
    BY <1>4, <2>1
<1>5. 0..m \subseteq S
  <2> HIDE DEF S
  <2> QED
    BY <1>3, <1>4, Induction
<1> QED
  BY <1>5 DEF F, H

\* Totals of the same numbers are the same, and a total grows by its last
\* number.
LEMMA TotalGrows ==
    ASSUME NEW f, NEW h, NEW n \in Nat, \A i \in 1..n : f[i] = h[i]
    PROVE  /\ Total(f, n) = Total(h, n)
           /\ Total(f, 0) = 0
           /\ n # 0 => Total(f, n) = Total(h, n - 1) + f[n]
<1>1. Total(f, n) = Total(h, n)
  <2>1. PICK m \in 0..n : m = n
    OBVIOUS
  <2>2. \A i \in 1..m : f[i] = h[i]
    BY <2>1
  <2>3. PartialSums(f, n)[m] = PartialSums(h, m)[m]
    <3>1. m \in 0..m
      OBVIOUS
    <3> QED
      BY <2>2, <3>1, SumsAgree
  <2> QED
    BY <2>1, <2>3 DEF Total
<1>2. Total(f, 0) = 0
  BY SumsDef DEF Total
<1>3. ASSUME n # 0 PROVE Total(f, n) = Total(h, n - 1) + f[n]
  <2>1. n - 1 \in 0..n /\ \A i \in 1..(n - 1) : f[i] = h[i]
    BY <1>3
  <2>2. PartialSums(f, n)[n - 1] = PartialSums(h, n - 1)[n - 1]
    BY <1>3, <2>1, SumsAgree
  <2>3. PartialSums(f, n)[n] = PartialSums(f, n)[n - 1] + f[n]
    BY <1>3, SumsDef
  <2> QED
    BY <2>2, <2>3 DEF Total
<1> QED
  BY <1>1, <1>2, <1>3

\* Zeros add up to zero.
LEMMA TotalOfZeros ==
    ASSUME NEW f, NEW n \in Nat, \A i \in 1..n : f[i] = 0
    PROVE  Total(f, n) = 0
<1> DEFINE F == PartialSums(f, n)
           S == {i \in 0..n : F[i] = 0}
<1>1. F[0] = 0 /\ \A i \in 1..n : F[i] = F[i - 1] + f[i]
  BY SumsDef
<1> HIDE DEF F
<1>2. 0 \in S
  BY <1>1
<1>3. ASSUME NEW i \in 1..n, i - 1 \in S PROVE i \in S
  <2>1. F[i] = F[i - 1] + f[i] /\ f[i] = 0
    BY <1>1
  <2> QED
    BY <1>3, <2>1
<1>4. 0..n \subseteq S
  <2> HIDE DEF S
  <2> QED
    BY <1>2, <1>3, Induction
<1> QED
  BY <1>4 DEF F, Total

\* A number that is replaced changes the total by the difference.
LEMMA TotalChanges ==
    ASSUME NEW n \in Nat, NEW f, NEW h, NEW b \in 1..n,
           \A i \in 1..n : f[i] \in Int /\ h[i] \in Int,
           \A i \in 1..n : i # b => h[i] = f[i]
    PROVE  /\ Total(f, n) \in Int /\ Total(h, n) \in Int
           /\ Total(h, n) = Total(f, n) + h[b] - f[b]
<1> DEFINE F == PartialSums(f, n)
           H == PartialSums(h, n)
           S == {i \in 0..n : /\ F[i] \in Int /\ H[i] \in Int
                              /\ i < b => H[i] = F[i]
                              /\ i >= b => H[i] = F[i] + h[b] - f[b]}
<1>1. F[0] = 0 /\ \A i \in 1..n : F[i] = F[i - 1] + f[i]
  BY SumsDef
<1>2. H[0] = 0 /\ \A i \in 1..n : H[i] = H[i - 1] + h[i]
  BY SumsDef
<1> HIDE DEF F, H
<1>3. 0 \in S
  BY <1>1, <1>2
<1>4. ASSUME NEW i \in 1..n, i - 1 \in S PROVE i \in S
  <2>1. /\ F[i] = F[i - 1] + f[i] /\ H[i] = H[i - 1] + h[i]
        /\ F[i - 1] \in Int /\ H[i - 1] \in Int
        /\ f[i] \in Int /\ h[i] \in Int /\ f[b] \in Int /\ h[b] \in Int
    BY <1>1, <1>2, <1>4
  <2>2. CASE i < b
    <3>1. h[i] = f[i] /\ H[i - 1] = F[i - 1]
      BY <1>4, <2>2
    <3> QED
      BY <2>1, <2>2, <3>1
  <2>3. CASE i = b
    <3>1. H[i - 1] = F[i - 1]
      BY <1>4, <2>3
    <3> QED
      BY <2>1, <2>3, <3>1
  <2>4. CASE i > b
    <3>1. h[i] = f[i] /\ H[i - 1] = F[i - 1] + h[b] - f[b]
      BY <1>4, <2>4
    <3> QED
      BY <2>1, <2>4, <3>1
  <2> QED
    BY <2>2, <2>3, <2>4
<1>5. 0..n \subseteq S
  <2> HIDE DEF S
  <2> QED
    BY <1>3, <1>4, Induction
<1>6. n \in S /\ n >= b
  BY <1>5
<1> QED
  BY <1>6 DEF F, H, Total

\* The permutations of the first n positions.
Orders(n) == Bijection(1..n, 1..n)

\* What makes a function such a permutation.
Permutes(p, n) ==
    /\ p \in [1..n -> 1..n]
    /\ \A i, j \in 1..n : p[i] = p[j] => i = j
    /\ \A k \in 1..n : \E i \in 1..n : p[i] = k

\* They are the same.
LEMMA OrdersAre ==
    ASSUME NEW n \in Nat, NEW p
    PROVE  p \in Orders(n) <=> Permutes(p, n)
<1>1. ASSUME p \in [1..n -> 1..n]
      PROVE  IsInjective(p) <=> \A i, j \in 1..n : p[i] = p[j] => i = j
  BY <1>1 DEF IsInjective
<1> QED
  BY <1>1 DEF Orders, Permutes, Bijection, Injection, Surjection

\* A permutation p of n positions without the last one: the position that p
\* moves to the end takes the place the last one is moved to.
LEMMA OneFewer ==
    ASSUME NEW n \in Nat, n # 0, NEW p \in Orders(n),
           NEW b \in 1..n, p[b] = n,
           NEW q, q = [i \in 1..(n - 1) |-> IF i = b THEN p[n] ELSE p[i]]
    PROVE  q \in Orders(n - 1)
<1>0. Permutes(p, n)
  BY OrdersAre
<1>1. /\ p \in [1..n -> 1..n]
      /\ \A i, j \in 1..n : p[i] = p[j] => i = j
      /\ \A k \in 1..n : \E i \in 1..n : p[i] = k
  BY <1>0 DEF Permutes
<1>2. n \in 1..n /\ 1..(n - 1) = 1..n \ {n}
  OBVIOUS
<1>3. ASSUME NEW i \in 1..(n - 1) PROVE q[i] \in 1..(n - 1)
  <2>1. CASE i = b
    BY <1>1, <1>2, <2>1
  <2>2. CASE i # b
    BY <1>1, <1>2, <2>2
  <2> QED
    BY <2>1, <2>2
<1>4. ASSUME NEW i \in 1..(n - 1), NEW j \in 1..(n - 1), q[i] = q[j]
      PROVE  i = j
  <2>1. i \in 1..n /\ j \in 1..n /\ i # n /\ j # n
    BY <1>2
  <2>2. /\ q[i] = (IF i = b THEN p[n] ELSE p[i])
        /\ q[j] = (IF j = b THEN p[n] ELSE p[j])
    OBVIOUS
  <2> QED
    BY <1>1, <1>2, <1>4, <2>1, <2>2
<1>5. ASSUME NEW k \in 1..(n - 1) PROVE \E i \in 1..(n - 1) : q[i] = k
  <2>1. PICK i \in 1..n : p[i] = k
    BY <1>1, <1>2
  <2>2. i # b
    BY <1>2, <2>1
  <2>3. CASE i = n
    <3>1. b \in 1..(n - 1) /\ q[b] = k
      BY <1>2, <2>1, <2>2, <2>3
    <3> QED
      BY <3>1
  <2>4. CASE i # n
    <3>1. i \in 1..(n - 1) /\ q[i] = k
      BY <1>2, <2>1, <2>2, <2>4
    <3> QED
      BY <3>1
  <2> QED
    BY <2>3, <2>4
<1>6. q \in [1..(n - 1) -> 1..(n - 1)] /\ n - 1 \in Nat
  BY <1>3
<1>7. PICK m \in Nat : m = n - 1
  BY <1>6
<1>8. Permutes(q, m)
  BY <1>4, <1>5, <1>6, <1>7 DEF Permutes
<1>9. q \in Orders(m)
  BY <1>8, OrdersAre
<1> QED
  BY <1>7, <1>9

\* The total of f is that of its numbers in the order p.
TotalKept(f, p, n) == Total([i \in 1..n |-> f[p[i]]], n) = Total(f, n)

\* If the order of fewer numbers is immaterial, then so is the order of n.
LEMMA OneMoreInOrder ==
    ASSUME NEW n \in Nat, n # 0, NEW f, \A i \in 1..n : f[i] \in Int,
           NEW p \in Orders(n),
           \A q \in Orders(n - 1) : TotalKept(f, q, n - 1)
    PROVE  TotalKept(f, p, n)
<1>1. /\ p \in [1..n -> 1..n]
      /\ \A i, j \in 1..n : p[i] = p[j] => i = j
      /\ \A k \in 1..n : \E i \in 1..n : p[i] = k
  BY OrdersAre DEF Permutes
<1>2. n \in 1..n /\ n - 1 \in Nat /\ 1..(n - 1) = 1..n \ {n}
  OBVIOUS
<1>3. PICK b \in 1..n : p[b] = n
  BY <1>1, <1>2
<1>4. PICK q : q = [i \in 1..(n - 1) |-> IF i = b THEN p[n] ELSE p[i]]
  OBVIOUS
<1>5. q \in Orders(n - 1)
  BY <1>3, <1>4, OneFewer
<1>6. PICK h : h = [i \in 1..n |-> f[p[i]]]
  OBVIOUS
<1>7. PICK g : g = [i \in 1..(n - 1) |-> f[q[i]]]
  OBVIOUS
<1>8. Total(g, n - 1) = Total(f, n - 1)
  BY <1>5, <1>7 DEF TotalKept
<1>9. /\ Total(f, n) = Total(f, n - 1) + f[n]
      /\ Total(h, n) = Total(h, n - 1) + h[n]
  BY TotalGrows
<1>10. /\ \A i \in 1..n : h[i] = f[p[i]] /\ h[i] \in Int /\ p[i] \in 1..n
       /\ \A i \in 1..(n - 1) : i # b => g[i] = h[i]
  BY <1>1, <1>2, <1>4, <1>6, <1>7
<1>11. CASE b = n
  <2>1. \A i \in 1..(n - 1) : h[i] = g[i]
    BY <1>2, <1>10, <1>11
  <2>2. Total(h, n - 1) = Total(g, n - 1)
    BY <1>2, <2>1, TotalGrows
  <2>3. h[n] = f[n]
    BY <1>2, <1>3, <1>10, <1>11
  <2> QED
    BY <1>6, <1>8, <1>9, <2>2, <2>3 DEF TotalKept
<1>12. CASE b # n
  <2>1. b \in 1..(n - 1) /\ g[b] = f[p[n]] /\ h[n] = f[p[n]] /\ h[b] = f[n]
    BY <1>2, <1>3, <1>4, <1>7, <1>10, <1>12
  <2>2. \A i \in 1..(n - 1) : g[i] \in Int /\ h[i] \in Int
    BY <1>2, <1>10, <2>1
  <2>3. /\ Total(g, n - 1) \in Int /\ Total(h, n - 1) \in Int
        /\ Total(h, n - 1) = Total(g, n - 1) + h[b] - g[b]
    <3>1. PICK m \in Nat : m = n - 1
      BY <1>2
    <3>2. /\ b \in 1..m /\ \A i \in 1..m : g[i] \in Int /\ h[i] \in Int
          /\ \A i \in 1..m : i # b => h[i] = g[i]
      BY <1>10, <2>1, <2>2, <3>1
    <3>3. /\ Total(g, m) \in Int /\ Total(h, m) \in Int
          /\ Total(h, m) = Total(g, m) + h[b] - g[b]
      BY <3>2, TotalChanges
    <3> QED
      BY <3>1, <3>3
  <2>4. f[n] \in Int /\ h[n] \in Int /\ h[n] = g[b] /\ h[b] = f[n]
    BY <1>2, <1>10, <2>1
  <2>5. Total(h, n) = Total(f, n)
    BY <1>8, <1>9, <2>3, <2>4
  <2> QED
    BY <1>6, <2>5 DEF TotalKept
<1> QED
  BY <1>11, <1>12

\* Numbers may be added up in any order.
LEMMA TotalInAnyOrder ==
    ASSUME NEW n \in Nat, NEW f, \A i \in 1..n : f[i] \in Int,
           NEW p \in Orders(n)
    PROVE  TotalKept(f, p, n)
<1> DEFINE S == {m \in 0..n : \A q \in Orders(m) : TotalKept(f, q, m)}
<1>1. 0 \in S
  <2>1. ASSUME NEW q PROVE TotalKept(f, q, 0)
    <3>1. PICK h : h = [i \in 1..0 |-> f[q[i]]]
      OBVIOUS
    <3>2. Total(h, 0) = 0 /\ Total(f, 0) = 0
      BY SumsDef DEF Total
    <3> QED
      BY <3>1, <3>2 DEF TotalKept
  <2> QED
    BY <2>1
<1>2. ASSUME NEW m \in 1..n, m - 1 \in S PROVE m \in S
  <2>1. m \in Nat /\ m # 0 /\ \A i \in 1..m : f[i] \in Int
    OBVIOUS
  <2>2. \A q \in Orders(m - 1) : TotalKept(f, q, m - 1)
    BY <1>2
  <2>3. \A q \in Orders(m) : TotalKept(f, q, m)
    BY <2>1, <2>2, OneMoreInOrder
  <2> QED
    BY <2>3
<1>3. 0..n \subseteq S
  <2> HIDE DEF S
  <2> QED
    BY <1>1, <1>2, Induction
<1>4. n \in S
  BY <1>3
<1> QED
  BY <1>4

-----------------------------------------------------------------------------
(* Logs.                                                                   *)

\* The groups new have one record more than the groups out, in the group of key.
OneMore(out, key, new, lvl) ==
    /\ DOMAIN new = DOMAIN out \cup {key}
    /\ \A k \in DOMAIN new : {"attrs", "count"} \subseteq DOMAIN new[k]
    /\ \A k \in DOMAIN out \ {key} : new[k] = out[k]
    /\ key \in DOMAIN out => /\ new[key].attrs = out[key].attrs
                             /\ new[key].count = out[key].count + 1
    /\ key \notin DOMAIN out =>
         /\ new[key].count = 1
         /\ lvl = "coarse" => new[key].attrs \cap Identities = {}

\* That is what rolling up one record does.
LEMMA RecordEffect ==
    ASSUME NEW out, NEW r, NEW lvl,
           \A k \in DOMAIN out : {"attrs", "count"} \subseteq DOMAIN out[k],
           NEW key, key = LogKey(r, lvl),
           NEW new, new = RollupLogRecord(out, r, lvl)
    PROVE  OneMore(out, key, new, lvl)
<1>1. CASE key \in DOMAIN out
  <2>1. new = [out EXCEPT ![key] = [out[key] EXCEPT !.count = @ + 1]]
    BY <1>1 DEF RollupLogRecord
  <2> QED
    BY <1>1, <2>1 DEF OneMore
<1>2. CASE key \notin DOMAIN out
  <2> DEFINE first == [attrs |-> IF lvl = "coarse" THEN r.attrs \ Identities
                                                   ELSE r.attrs,
                       count |-> 1]
  <2>1. new = [k \in DOMAIN out \cup {key} |->
                 IF k = key THEN first ELSE out[k]]
    BY <1>2 DEF RollupLogRecord, Put
  <2> QED
    BY <1>2, <2>1 DEF OneMore
<1> QED
  BY <1>1, <1>2

\* The first i records of a batch are in the group of their key, and each group
\* counts its own.
Counted(batch, lvl, i) ==
    LET out == MergedRecords(batch, lvl)[i] IN
    /\ DOMAIN out = {LogKey(batch[j], lvl) : j \in 1..i}
    /\ \A k \in DOMAIN out :
         /\ {"attrs", "count"} \subseteq DOMAIN out[k]
         /\ out[k].count = Cardinality({j \in 1..i : LogKey(batch[j], lvl) = k})
         /\ lvl = "coarse" => out[k].attrs \cap Identities = {}

\* How often key is among the first m values of f.
Count(f, m, key) == Cardinality({j \in 1..m : f[j] = key})

\* One more value adds one to the count of its key.
LEMMA CountGrows ==
    ASSUME NEW i \in Nat \ {0}, NEW key, NEW f
    PROVE  /\ Count(f, i - 1, key) \in Nat
           /\ f[i] = key => Count(f, i, key) = Count(f, i - 1, key) + 1
           /\ f[i] # key => Count(f, i, key) = Count(f, i - 1, key)
           /\ (\A j \in 1..(i - 1) : f[j] # key) => Count(f, i - 1, key) = 0
<1> DEFINE Chosen(m) == {j \in 1..m : f[j] = key}
<1>1. IsFiniteSet(Chosen(i - 1))
  <2>1. IsFiniteSet(1..(i - 1))
    BY FS_Interval
  <2> QED
    BY <2>1, FS_Subset
<1>2. Cardinality(Chosen(i - 1)) \in Nat
  BY <1>1, FS_CardinalityType
<1>3. ASSUME f[i] = key
      PROVE  Cardinality(Chosen(i)) = Cardinality(Chosen(i - 1)) + 1
  <2>1. Chosen(i) = Chosen(i - 1) \cup {i} /\ i \notin Chosen(i - 1)
    BY <1>3
  <2> HIDE DEF Chosen
  <2> QED
    BY <1>1, <2>1, FS_AddElement
<1>4. ASSUME f[i] # key PROVE Chosen(i) = Chosen(i - 1)
  BY <1>4
<1>5. ASSUME \A j \in 1..(i - 1) : f[j] # key
      PROVE  Cardinality(Chosen(i - 1)) = 0
  <2>1. Chosen(i - 1) = {}
    BY <1>5
  <2> QED
    BY <2>1, FS_EmptySet
<1> QED
  BY <1>2, <1>3, <1>4, <1>5 DEF Count

\* Rolling up keeps count, record by record.
LEMMA CountedStep ==
    ASSUME NEW batch, NEW lvl, Len(batch) \in Nat,
           NEW i \in 1..Len(batch), Counted(batch, lvl, i - 1)
    PROVE  Counted(batch, lvl, i)
<1> DEFINE old == MergedRecords(batch, lvl)[i - 1]
           new == MergedRecords(batch, lvl)[i]
           f   == [j \in 1..Len(batch) |-> LogKey(batch[j], lvl)]
           key == LogKey(batch[i], lvl)
<1>1. new = RollupLogRecord(old, batch[i], lvl)
  BY MergedRecordsDef
<1>2. \A j \in 1..i : f[j] = LogKey(batch[j], lvl)
  OBVIOUS
<1>3. /\ DOMAIN old = {f[j] : j \in 1..(i - 1)}
      /\ \A k \in DOMAIN old :
           /\ {"attrs", "count"} \subseteq DOMAIN old[k]
           /\ old[k].count = Count(f, i - 1, k)
           /\ lvl = "coarse" => old[k].attrs \cap Identities = {}
  <2> HIDE DEF f
  <2>1. \A j \in 1..(i - 1) : f[j] = LogKey(batch[j], lvl)
    BY <1>2
  <2>2. \A k : {j \in 1..(i - 1) : f[j] = k} =
                 {j \in 1..(i - 1) : LogKey(batch[j], lvl) = k}
    BY <2>1
  <2>3. {f[j] : j \in 1..(i - 1)} = {LogKey(batch[j], lvl) : j \in 1..(i - 1)}
    BY <2>1
  <2> QED
    BY <2>2, <2>3 DEF Counted, Count
<1>4. OneMore(old, key, new, lvl)
  <2>1. key = LogKey(batch[i], lvl)
    OBVIOUS
  <2> HIDE DEF old, new, f, key
  <2>2. \A k \in DOMAIN old : {"attrs", "count"} \subseteq DOMAIN old[k]
    BY <1>3
  <2> QED
    BY <1>1, <2>1, <2>2, RecordEffect, Zenon
<1>5. f[i] = key
  OBVIOUS
<1>6. \A k : /\ Count(f, i - 1, k) \in Nat
             /\ k = key => Count(f, i, k) = Count(f, i - 1, k) + 1
             /\ k # key => Count(f, i, k) = Count(f, i - 1, k)
             /\ (\A j \in 1..(i - 1) : f[j] # k) => Count(f, i - 1, k) = 0
  <2> HIDE DEF f, key
  <2> QED
    BY <1>5, CountGrows
<1>7. DOMAIN new = {f[j] : j \in 1..i}
  <2>1. {f[j] : j \in 1..i} = {f[j] : j \in 1..(i - 1)} \cup {f[i]}
    <3> HIDE DEF f
    <3> QED
      OBVIOUS
  <2> HIDE DEF f, key, old, new
  <2> QED
    BY <1>3, <1>4, <1>5, <2>1 DEF OneMore
<1>8. ASSUME NEW k \in DOMAIN new
      PROVE  /\ new[k].count = Count(f, i, k)
             /\ lvl = "coarse" => new[k].attrs \cap Identities = {}
  <2> HIDE DEF f, key, old, new
  <2>1. CASE k # key
    <3>1. k \in DOMAIN old
      BY <1>4, <1>8, <2>1 DEF OneMore
    <3> QED
      BY <1>3, <1>4, <1>6, <2>1, <3>1 DEF OneMore
  <2>2. CASE k = key /\ key \in DOMAIN old
    <3>1. new[k].attrs = old[k].attrs /\ new[k].count = old[k].count + 1
      BY <1>4, <2>2 DEF OneMore
    <3>2. /\ old[k].count = Count(f, i - 1, k)
          /\ lvl = "coarse" => old[k].attrs \cap Identities = {}
      BY <1>3, <2>2
    <3>3. Count(f, i, k) = Count(f, i - 1, k) + 1
      BY <1>6, <2>2
    <3> QED
      BY <3>1, <3>2, <3>3
  <2>3. CASE k = key /\ key \notin DOMAIN old
    <3>1. Count(f, i - 1, k) = 0 /\ Count(f, i, k) = Count(f, i - 1, k) + 1
      BY <1>3, <1>6, <2>3
    <3>2. /\ new[k].count = 1
          /\ lvl = "coarse" => new[k].attrs \cap Identities = {}
      BY <1>4, <2>3 DEF OneMore
    <3> QED
      BY <3>1, <3>2
  <2> QED
    BY <2>1, <2>2, <2>3
<1>9. /\ {f[j] : j \in 1..i} = {LogKey(batch[j], lvl) : j \in 1..i}
      /\ \A k : {j \in 1..i : f[j] = k} =
                  {j \in 1..i : LogKey(batch[j], lvl) = k}
  BY <1>2
<1> HIDE DEF f, key, old
<1> QED
  BY <1>4, <1>7, <1>8, <1>9 DEF Counted, Count, OneMore

\* So all records of a batch are counted.
LEMMA AllCounted ==
    ASSUME NEW batch, NEW lvl, Len(batch) \in Nat
    PROVE  Counted(batch, lvl, Len(batch))
<1> DEFINE S == {i \in 0..Len(batch) : Counted(batch, lvl, i)}
<1>1. 0 \in S
  <2>1. DOMAIN MergedRecords(batch, lvl)[0] = {}
    BY MergedRecordsDef
  <2>2. {LogKey(batch[j], lvl) : j \in 1..0} = {}
    OBVIOUS
  <2>3. Counted(batch, lvl, 0)
    BY <2>1, <2>2 DEF Counted
  <2> QED
    BY <2>3
<1>2. \A i \in 1..Len(batch) : i - 1 \in S => i \in S
  BY CountedStep
<1>3. 0..Len(batch) \subseteq S
  <2> HIDE DEF S
  <2> QED
    BY <1>1, <1>2, Induction
<1> QED
  BY <1>3

-----------------------------------------------------------------------------
(* Metrics.                                                                *)

\* The types that rollupMetricData may meet.
Typed(batch) == \A i \in 1..Len(batch) : batch[i].type \notin {"empty", "panic"}

\* Point a is the first of its metric.
First(batch, a) == \A k \in 1..a-1 : MetricKey(batch[k]) # MetricKey(batch[a])

\* Among the first i points is a sum or gauge that cannot be added to the metric
\* of point a.
Clash(batch, a, i) ==
    \E j \in 1..i : /\ MetricKey(batch[a]) = MetricKey(batch[j])
                    /\ batch[j].type \in Numeric
                    /\ batch[a].type # batch[j].type

\* After i points, a metric has the type of its first point, or there was a
\* clash and a panic.
TypesKept(batch, lvl, i) ==
    LET out == MergedPoints(batch, lvl)[i] IN
    /\ DOMAIN out = {MetricKey(batch[j]) : j \in 1..i}
    /\ \A a \in 1..i : First(batch, a) =>
         IF Clash(batch, a, i)
           THEN out[MetricKey(batch[a])] = Panic
           ELSE out[MetricKey(batch[a])].type = batch[a].type

\* What one point does to a metric.
LEMMA PointEffect ==
    ASSUME NEW dest, NEW p, NEW lvl, p.type \notin {"empty", "panic"},
           NEW new, new = RollupMetricData(dest, p, lvl)
    PROVE  /\ dest.type = "empty" => new.type = p.type
           /\ dest = Panic => new = Panic
           /\ dest.type # "empty" =>
                /\ p.type \in Numeric /\ dest.type # p.type => new = Panic
                /\ dest.type = p.type => new.type = p.type
                /\ p.type \notin Numeric => new = dest
<1> USE DEF RollupMetricData
<1>1. CASE p.type \in Numeric
  <2>1. CASE dest.type \in {"empty", p.type}
    <3>1. new.type = p.type
      BY <1>1, <2>1
    <3>2. dest # Panic
      BY <2>1 DEF Panic
    <3> QED
      BY <1>1, <2>1, <3>1, <3>2
  <2>2. CASE dest.type \notin {"empty", p.type}
    BY <1>1, <2>2
  <2> QED
    BY <2>1, <2>2
<1>2. CASE p.type \notin Numeric
  <2>1. CASE dest.type = "empty"
    <3>1. dest # Panic
      BY <2>1 DEF Panic
    <3> QED
      BY <1>2, <2>1, <3>1
  <2>2. CASE dest.type # "empty"
    BY <1>2, <2>2
  <2> QED
    BY <2>1, <2>2
<1> QED
  BY <1>1, <1>2

\* Merging keeps that, point by point.
LEMMA TypesKeptStep ==
    ASSUME NEW batch, NEW lvl, Len(batch) \in Nat, Typed(batch),
           NEW i \in 1..Len(batch), TypesKept(batch, lvl, i - 1)
    PROVE  TypesKept(batch, lvl, i)
<1> DEFINE old == MergedPoints(batch, lvl)[i - 1]
           new == MergedPoints(batch, lvl)[i]
           Key(j) == MetricKey(batch[j])
           dest == IF Key(i) \in DOMAIN old THEN old[Key(i)] ELSE NoMetric
           data == RollupMetricData(dest, batch[i], lvl)
<1>1. new = [k \in DOMAIN old \cup {Key(i)} |->
               IF k = Key(i) THEN data ELSE old[k]]
  <2>1. new = MergePoint(old, batch[i], lvl)
    BY MergedPointsDef
  <2> HIDE DEF old, new
  <2> QED
    BY <2>1 DEF MergePoint, Put
<1>2. /\ DOMAIN old = {Key(j) : j \in 1..(i - 1)}
      /\ \A a \in 1..(i - 1) : First(batch, a) =>
           IF Clash(batch, a, i - 1) THEN old[Key(a)] = Panic
                                     ELSE old[Key(a)].type = batch[a].type
  BY DEF TypesKept
<1>3. batch[i].type \notin {"empty", "panic"}
  BY DEF Typed
<1>4. /\ dest.type = "empty" => data.type = batch[i].type
      /\ dest = Panic => data = Panic
      /\ dest.type # "empty" =>
           /\ batch[i].type \in Numeric /\ dest.type # batch[i].type =>
                data = Panic
           /\ dest.type = batch[i].type => data.type = batch[i].type
           /\ batch[i].type \notin Numeric => data = dest
  <2>1. data = RollupMetricData(dest, batch[i], lvl)
    OBVIOUS
  <2> HIDE DEF dest, data
  <2> QED
    BY <1>3, <2>1, PointEffect
<1>5. dest = IF Key(i) \in DOMAIN old THEN old[Key(i)] ELSE NoMetric
  OBVIOUS
<1> HIDE DEF old, new, dest, data
<1>6. DOMAIN new = {Key(j) : j \in 1..i}
  <2>1. {Key(j) : j \in 1..i} = {Key(j) : j \in 1..(i - 1)} \cup {Key(i)}
    <3> HIDE DEF Key
    <3> QED
      OBVIOUS
  <2> QED
    BY <1>1, <1>2, <2>1
<1>7. /\ new[Key(i)] = data
      /\ \A k \in DOMAIN old \ {Key(i)} : new[k] = old[k]
  BY <1>1
<1>8. ASSUME NEW a \in 1..i, First(batch, a)
      PROVE  IF Clash(batch, a, i) THEN new[Key(a)] = Panic
                                   ELSE new[Key(a)].type = batch[a].type
  <2>1. CASE a = i
    <3>1. Key(i) \notin DOMAIN old
      BY <1>2, <1>8, <2>1 DEF First
    <3>2. data.type = batch[i].type
      BY <1>4, <1>5, <3>1 DEF NoMetric
    <3>3. ~Clash(batch, i, i)
      BY <1>8, <2>1 DEF First, Clash
    <3> QED
      BY <1>7, <2>1, <3>2, <3>3
  <2>2. CASE a \in 1..(i - 1)
    <3>1. Key(a) \in DOMAIN old
      BY <1>2, <2>2
    <3>2. /\ Clash(batch, a, i - 1) => old[Key(a)] = Panic
          /\ ~Clash(batch, a, i - 1) => old[Key(a)].type = batch[a].type
      BY <1>2, <1>8, <2>2
    <3>3. Clash(batch, a, i) <=>
            \/ Clash(batch, a, i - 1)
            \/ /\ Key(a) = Key(i) /\ batch[i].type \in Numeric
               /\ batch[a].type # batch[i].type
      <4>1. 1..i = (1..(i - 1)) \cup {i}
        OBVIOUS
      <4> QED
        BY <4>1 DEF Clash
    <3>4. CASE Key(a) # Key(i)
      BY <1>7, <3>1, <3>2, <3>3, <3>4
    <3>5. CASE Key(a) = Key(i) /\ Clash(batch, a, i - 1)
      <4>1. dest = Panic
        BY <1>5, <3>1, <3>2, <3>5
      <4> QED
        BY <1>4, <1>7, <3>3, <3>5, <4>1
    <3>6. CASE Key(a) = Key(i) /\ ~Clash(batch, a, i - 1)
      <4>1. dest.type = batch[a].type /\ dest.type # "empty"
        BY <1>5, <2>2, <3>1, <3>2, <3>6 DEF Typed
      <4>2. CASE batch[a].type = batch[i].type
        BY <1>4, <1>7, <3>3, <3>6, <4>1, <4>2
      <4>3. CASE batch[a].type # batch[i].type /\ batch[i].type \in Numeric
        BY <1>4, <1>7, <3>3, <3>6, <4>1, <4>3
      <4>4. CASE batch[i].type \notin Numeric
        BY <1>4, <1>7, <3>3, <3>6, <4>1, <4>4
      <4> QED
        BY <4>2, <4>3, <4>4
    <3> QED
      BY <3>4, <3>5, <3>6
  <2> QED
    BY <2>1, <2>2
<1> QED
  BY <1>6, <1>8 DEF TypesKept, new

\* So a whole batch leaves every metric with its type, or with a panic.
LEMMA AllTypesKept ==
    ASSUME NEW batch, NEW lvl, Len(batch) \in Nat, Typed(batch)
    PROVE  TypesKept(batch, lvl, Len(batch))
<1> DEFINE S == {i \in 0..Len(batch) : TypesKept(batch, lvl, i)}
<1>1. 0 \in S
  <2>1. DOMAIN MergedPoints(batch, lvl)[0] = {}
    BY MergedPointsDef
  <2>2. TypesKept(batch, lvl, 0)
    BY <2>1 DEF TypesKept
  <2> QED
    BY <2>2
<1>2. \A i \in 1..Len(batch) : i - 1 \in S => i \in S
  BY TypesKeptStep
<1>3. 0..Len(batch) \subseteq S
  <2> HIDE DEF S
  <2> QED
    BY <1>1, <1>2, Induction
<1> QED
  BY <1>3

\* A rollup of a whole batch panics if, and only if, it holds a clash.
LEMMA PanicsOnClash ==
    ASSUME NEW batch, NEW lvl, Len(batch) \in Nat, Typed(batch),
           DOMAIN batch = 1..Len(batch)
    PROVE  Panics(RolledUp(batch, lvl)) <=> TypeClash(batch)
<1> DEFINE n   == Len(batch)
           out == MergedPoints(batch, lvl)[n]
<1>1. TypesKept(batch, lvl, n)
  BY AllTypesKept
<1>2. /\ DOMAIN out = {MetricKey(batch[j]) : j \in 1..n}
      /\ \A a \in 1..n : First(batch, a) =>
           IF Clash(batch, a, n)
             THEN out[MetricKey(batch[a])] = Panic
             ELSE out[MetricKey(batch[a])].type = batch[a].type
  BY <1>1 DEF TypesKept
<1>3. TypeClash(batch) <=>
        \E a \in 1..n : First(batch, a) /\ Clash(batch, a, n)
  BY DEF TypeClash, First, Clash
<1>4. Panics(RolledUp(batch, lvl)) <=> \E k \in DOMAIN out : out[k] = Panic
  BY DEF Panics, RolledUp
<1> HIDE DEF out
<1>5. ASSUME NEW k \in DOMAIN out, out[k] = Panic
      PROVE  \E a \in 1..n : First(batch, a) /\ Clash(batch, a, n)
  <2> DEFINE T == {j \in 1..n : MetricKey(batch[j]) = k}
  <2>1. T \in SUBSET Nat /\ T # {}
    BY <1>2
  <2>2. PICK a \in T : \A y \in T : a <= y
    BY <2>1, LeastNatural
  <2>3. a \in 1..n /\ First(batch, a)
    BY <2>2 DEF First
  <2>4. out[k].type # batch[a].type
    BY <1>5, <2>3 DEF Panic, Typed
  <2> QED
    BY <1>2, <2>3, <2>4
<1>6. ASSUME NEW a \in 1..n, First(batch, a), Clash(batch, a, n)
      PROVE  \E k \in DOMAIN out : out[k] = Panic
  BY <1>2, <1>6
<1> QED
  BY <1>3, <1>4, <1>5, <1>6

-----------------------------------------------------------------------------
(* The values of sums and gauges.                                          *)

IsPoint(p) == /\ p.kind \in {"int", "double", "empty"}
              /\ p.value \in Int /\ (p.kind = "empty" => p.value = 0)

\* What is left of a group with these members among the first n points.
Kept(batch, I, n) ==
    [i \in 1..n |-> IF i \in LastRun(batch, I) THEN batch[i].value ELSE 0]

\* A rolled-up point holds the total of the last run of its group, and is an
\* integer if the last member is one.
Settled(batch, dp, I, n) ==
    /\ IsPoint(dp)
    /\ dp.value = Total(Kept(batch, I, n), n)
    /\ \E l \in I : (\A j \in I : j <= l) /\ (IsInt(dp) <=> IsInt(batch[l]))

\* A first point stands for itself.
LEMMA SettledFirst ==
    ASSUME NEW batch, NEW n \in Nat \ {0}, IsPoint(batch[n]),
           NEW dp, dp = [kind |-> batch[n].kind, value |-> batch[n].value]
    PROVE  Settled(batch, dp, {n}, n)
<1> DEFINE f == Kept(batch, {n}, n)
<1>1. /\ \A i \in 1..(n - 1) : f[i] = 0
      /\ f[n] = batch[n].value
  BY DEF Kept, LastRun
<1> HIDE DEF f
<1>2. Total(f, n - 1) = 0
  BY <1>1, TotalOfZeros
<1>3. Total(f, n) = Total(f, n - 1) + f[n]
  BY TotalGrows
<1>4. Total(f, n) = batch[n].value
  BY <1>1, <1>2, <1>3 DEF IsPoint
<1>5. IsPoint(dp) /\ (IsInt(dp) <=> IsInt(batch[n]))
  BY DEF IsPoint, IsInt
<1> QED
  BY <1>4, <1>5 DEF Settled, f

\* A point of another group changes nothing.
LEMMA SettledOther ==
    ASSUME NEW batch, NEW n \in Nat \ {0}, NEW I \in SUBSET (1..(n - 1)),
           NEW dp, Settled(batch, dp, I, n - 1)
    PROVE  Settled(batch, dp, I, n)
<1> DEFINE f == Kept(batch, I, n)
           h == [i \in 1..n |->
                   IF i = n THEN 0 ELSE Kept(batch, I, n - 1)[i]]
<1>1. /\ \A i \in 1..n : f[i] = h[i]
      /\ f[n] = 0
      /\ \A i \in 1..(n - 1) : h[i] = Kept(batch, I, n - 1)[i]
  BY DEF Kept, LastRun
<1> HIDE DEF f, h
<1>2. Total(f, n) = Total(h, n - 1) + f[n]
  BY <1>1, TotalGrows
<1>3. Total(h, n - 1) = Total(Kept(batch, I, n - 1), n - 1)
  BY <1>1, TotalGrows
<1>4. dp.value \in Int /\ dp.value = Total(Kept(batch, I, n - 1), n - 1)
  BY DEF Settled, IsPoint
<1>5. Total(f, n) = dp.value
  BY <1>1, <1>2, <1>3, <1>4
<1> QED
  BY <1>5 DEF Settled, f

\* A point that is added goes on with the last run, or begins a new one.
LEMMA SettledNext ==
    ASSUME NEW batch, NEW n \in Nat \ {0}, NEW I \in SUBSET (1..(n - 1)),
           NEW dp, Settled(batch, dp, I, n - 1), IsPoint(batch[n]),
           NEW new, new = AddPoint(dp, batch[n])
    PROVE  Settled(batch, new, I \cup {n}, n)
<1> DEFINE p == batch[n]
           f == Kept(batch, I \cup {n}, n)
           old == Kept(batch, I, n - 1)
<1>1. PICK l \in I : (\A j \in I : j <= l) /\ (IsInt(dp) <=> IsInt(batch[l]))
  BY DEF Settled
<1>2. IsPoint(dp) /\ dp.value = Total(old, n - 1)
  BY DEF Settled
<1>3. /\ \A i \in 1..n : f[i] = IF i \in LastRun(batch, I \cup {n})
                                  THEN batch[i].value ELSE 0
      /\ \A i \in 1..(n - 1) : old[i] = IF i \in LastRun(batch, I)
                                          THEN batch[i].value ELSE 0
  BY DEF Kept
<1>4. n \in LastRun(batch, I \cup {n})
  BY DEF LastRun
<1>5. ASSUME NEW i \in I
      PROVE  i \in LastRun(batch, I \cup {n}) <=>
               i \in LastRun(batch, I) /\ (IsInt(p) <=> IsInt(batch[i]))
  BY DEF LastRun
<1>6. \A i \in LastRun(batch, I) : i \in I /\ (IsInt(dp) <=> IsInt(batch[i]))
  BY <1>1 DEF LastRun
<1> HIDE DEF f, old
<1>7. f[n] = p.value
  <2>1. n \in 1..n
    OBVIOUS
  <2> QED
    BY <1>3, <1>4, <2>1
<1>8. IsPoint(new) /\ (IsInt(new) <=> IsInt(p))
  BY <1>2 DEF AddPoint, ValueAs, IsInt, IsPoint
<1>9. Total(f, n) = Total(f, n - 1) + f[n]
  BY TotalGrows
<1>10. CASE IsInt(dp) <=> IsInt(p)
  <2>1. \A i \in 1..(n - 1) : f[i] = old[i]
    <3> SUFFICES ASSUME NEW i \in 1..(n - 1) PROVE f[i] = old[i]
      OBVIOUS
    <3>1. i \in 1..n /\ i # n
      OBVIOUS
    <3>2. i \in LastRun(batch, I \cup {n}) <=> i \in LastRun(batch, I)
      <4>1. CASE i \in I
        BY <1>5, <1>6, <1>10, <4>1
      <4>2. CASE i \notin I
        BY <3>1, <4>2 DEF LastRun
      <4> QED
        BY <4>1, <4>2
    <3> QED
      BY <1>3, <3>1, <3>2
  <2>2. Total(f, n - 1) = dp.value
    BY <1>2, <2>1, TotalGrows
  <2>3. new.value = dp.value + p.value
    BY <1>2, <1>10 DEF AddPoint, ValueAs, IsInt, IsPoint
  <2> QED
    BY <1>7, <1>8, <1>9, <2>2, <2>3 DEF Settled, f
<1>11. CASE ~(IsInt(dp) <=> IsInt(p))
  <2>1. \A i \in 1..(n - 1) : f[i] = 0
    <3> SUFFICES ASSUME NEW i \in 1..(n - 1)
                 PROVE  i \notin LastRun(batch, I \cup {n})
      BY <1>3
    <3>1. CASE i \in I
      BY <1>5, <1>6, <1>11, <3>1
    <3>2. CASE i \notin I
      BY <3>2 DEF LastRun
    <3> QED
      BY <3>1, <3>2
  <2>2. Total(f, n - 1) = 0
    BY <2>1, TotalOfZeros
  <2>3. new.value = p.value
    BY <1>2, <1>11 DEF AddPoint, ValueAs, IsInt, IsPoint
  <2>4. Total(f, n) = new.value
    BY <1>7, <1>9, <2>2, <2>3 DEF IsPoint
  <2> QED
    BY <1>8, <2>4 DEF Settled, f
<1> QED
  BY <1>10, <1>11

\* The members of a group among the first n points.
Members(batch, lvl, key, g, n) == GroupOf(batch, lvl, key, g) \cap (1..n)

\* The groups of a metric are those that have members, and each is settled.
GroupsRight(batch, lvl, key, groups, n) ==
    /\ \A g : g \in DOMAIN groups <=> Members(batch, lvl, key, g, n) # {}
    /\ \A g \in DOMAIN groups :
         Settled(batch, groups[g], Members(batch, lvl, key, g, n), n)

\* What a point adds to the members of the groups.
LEMMA MembersGrow ==
    ASSUME NEW batch, NEW lvl, DOMAIN batch = 1..Len(batch), Len(batch) \in Nat,
           NEW n \in 1..Len(batch), NEW key, NEW g
    PROVE  /\ Members(batch, lvl, key, g, n - 1) \in SUBSET (1..(n - 1))
           /\ Members(batch, lvl, key, g, n) =
                IF n \in GroupOf(batch, lvl, key, g)
                  THEN Members(batch, lvl, key, g, n - 1) \cup {n}
                  ELSE Members(batch, lvl, key, g, n - 1)
           /\ n \in GroupOf(batch, lvl, key, g) <=>
                /\ MetricKey(batch[n]) = key /\ batch[n].type \in Numeric
                /\ FilterAttributes(batch[n].attrs, lvl) = g
<1>1. 1..n = (1..(n - 1)) \cup {n}
  OBVIOUS
<1>2. n \in GroupOf(batch, lvl, key, g) <=>
        /\ MetricKey(batch[n]) = key /\ batch[n].type \in Numeric
        /\ FilterAttributes(batch[n].attrs, lvl) = g
  BY DEF GroupOf
<1> QED
  BY <1>1, <1>2 DEF Members

\* A point that is no sum or gauge of the metric changes none of its groups.
LEMMA GroupsSkip ==
    ASSUME NEW batch, NEW lvl, DOMAIN batch = 1..Len(batch), Len(batch) \in Nat,
           NEW n \in 1..Len(batch), NEW key, NEW groups,
           GroupsRight(batch, lvl, key, groups, n - 1),
           MetricKey(batch[n]) # key \/ batch[n].type \notin Numeric
    PROVE  GroupsRight(batch, lvl, key, groups, n)
<1>1. \A g : Members(batch, lvl, key, g, n) = Members(batch, lvl, key, g, n - 1)
  BY MembersGrow
<1>2. ASSUME NEW g \in DOMAIN groups
      PROVE  Settled(batch, groups[g], Members(batch, lvl, key, g, n), n)
  <2>1. /\ Settled(batch, groups[g], Members(batch, lvl, key, g, n - 1), n - 1)
        /\ Members(batch, lvl, key, g, n - 1) \in SUBSET (1..(n - 1))
        /\ n \in Nat \ {0}
    BY MembersGrow DEF GroupsRight
  <2>2. Settled(batch, groups[g], Members(batch, lvl, key, g, n - 1), n)
    BY <2>1, SettledOther
  <2> QED
    BY <1>1, <2>2
<1> QED
  BY <1>1, <1>2 DEF GroupsRight

\* rollupDataPoints adds a point to its group, or opens a group for it.
LEMMA GroupsStep ==
    ASSUME NEW batch, NEW lvl, DOMAIN batch = 1..Len(batch), Len(batch) \in Nat,
           NEW n \in 1..Len(batch), NEW key, NEW groups,
           GroupsRight(batch, lvl, key, groups, n - 1),
           MetricKey(batch[n]) = key, batch[n].type \in Numeric,
           IsPoint(batch[n])
    PROVE  GroupsRight(batch, lvl, key,
                       RollupDataPoint(groups, batch[n], lvl), n)
<1> DEFINE h == FilterAttributes(batch[n].attrs, lvl)
           p == batch[n]
           first == [kind |-> p.kind, value |-> p.value]
           new == RollupDataPoint(groups, p, lvl)
           M(g, m) == Members(batch, lvl, key, g, m)
<1>1. /\ DOMAIN new = DOMAIN groups \cup {h}
      /\ \A g \in DOMAIN groups \ {h} : new[g] = groups[g]
      /\ h \in DOMAIN groups => new[h] = AddPoint(groups[h], p)
      /\ h \notin DOMAIN groups => new[h] = first
  <2> HIDE DEF h
  <2>1. new = IF h \in DOMAIN groups
                THEN [groups EXCEPT ![h] = AddPoint(groups[h], p)]
                ELSE [k \in DOMAIN groups \cup {h} |->
                        IF k = h THEN first ELSE groups[k]]
    BY DEF RollupDataPoint, Put, h
  <2> HIDE DEF new, first, p
  <2>2. CASE h \in DOMAIN groups
    BY <2>1, <2>2
  <2>3. CASE h \notin DOMAIN groups
    BY <2>1, <2>3
  <2> QED
    BY <2>2, <2>3
<1>2. /\ M(h, n) = M(h, n - 1) \cup {n}
      /\ \A g : g # h => M(g, n) = M(g, n - 1)
      /\ \A g : M(g, n - 1) \in SUBSET (1..(n - 1))
  BY MembersGrow
<1>3. /\ \A g : g \in DOMAIN groups <=> M(g, n - 1) # {}
      /\ \A g \in DOMAIN groups : Settled(batch, groups[g], M(g, n - 1), n - 1)
  BY DEF GroupsRight
<1>4. n \in Nat \ {0}
  OBVIOUS
<1> HIDE DEF new, h, M
<1>5. \A g : g \in DOMAIN new <=> M(g, n) # {}
  BY <1>1, <1>2, <1>3
<1>6. ASSUME NEW g \in DOMAIN new PROVE Settled(batch, new[g], M(g, n), n)
  <2>1. CASE g # h
    <3>1. g \in DOMAIN groups /\ new[g] = groups[g]
      BY <1>1, <1>6, <2>1
    <3>2. Settled(batch, groups[g], M(g, n - 1), n)
      BY <1>2, <1>3, <1>4, <3>1, SettledOther
    <3> QED
      BY <1>2, <2>1, <3>1, <3>2
  <2>2. CASE g = h /\ h \in DOMAIN groups
    <3>1. Settled(batch, groups[h], M(h, n - 1), n - 1)
      BY <1>3, <2>2
    <3>2. new[h] = AddPoint(groups[h], batch[n])
      BY <1>1, <2>2
    <3>3. Settled(batch, new[h], M(h, n - 1) \cup {n}, n)
      BY <1>2, <1>4, <3>1, <3>2, SettledNext
    <3> QED
      BY <1>2, <2>2, <3>3
  <2>3. CASE g = h /\ h \notin DOMAIN groups
    <3>1. M(h, n) = {n}
      BY <1>2, <1>3, <2>3
    <3>2. new[h] = [kind |-> batch[n].kind, value |-> batch[n].value]
      BY <1>1, <2>3
    <3> QED
      BY <1>4, <2>3, <3>1, <3>2, SettledFirst
  <2> QED
    BY <2>1, <2>2, <2>3
<1> QED
  BY <1>5, <1>6 DEF GroupsRight, M, new

\* After n points, the sums and gauges have the right groups.
MetricsRight(batch, lvl, n) ==
    LET out == MergedPoints(batch, lvl)[n] IN
    /\ DOMAIN out = {MetricKey(batch[j]) : j \in 1..n}
    /\ \A k \in DOMAIN out :
         /\ out[k].type # "empty"
         /\ out[k].type \in Numeric =>
              GroupsRight(batch, lvl, k, out[k].groups, n)

\* A batch as the loops meet it.
Sound(batch) ==
    /\ Len(batch) \in Nat /\ DOMAIN batch = 1..Len(batch)
    /\ Typed(batch) /\ \A i \in 1..Len(batch) : IsPoint(batch[i])

\* Merging keeps that, point by point.
LEMMA MetricsStep ==
    ASSUME NEW batch, NEW lvl, Sound(batch), NEW n \in 1..Len(batch),
           MetricsRight(batch, lvl, n - 1)
    PROVE  MetricsRight(batch, lvl, n)
<1> DEFINE old == MergedPoints(batch, lvl)[n - 1]
           new == MergedPoints(batch, lvl)[n]
           Key(j) == MetricKey(batch[j])
           p == batch[n]
           dest == IF Key(n) \in DOMAIN old THEN old[Key(n)] ELSE NoMetric
           data == RollupMetricData(dest, p, lvl)
           Right(k, groups, m) == GroupsRight(batch, lvl, k, groups, m)
<1>1. new = [k \in DOMAIN old \cup {Key(n)} |->
               IF k = Key(n) THEN data ELSE old[k]]
  <2>1. new = MergePoint(old, p, lvl)
    BY MergedPointsDef DEF Sound
  <2> HIDE DEF old, new
  <2> QED
    BY <2>1 DEF MergePoint, Put
<1>2. /\ DOMAIN old = {Key(j) : j \in 1..(n - 1)}
      /\ \A k \in DOMAIN old :
           /\ old[k].type # "empty"
           /\ old[k].type \in Numeric => Right(k, old[k].groups, n - 1)
  BY DEF MetricsRight
<1>3. /\ Len(batch) \in Nat /\ DOMAIN batch = 1..Len(batch) /\ IsPoint(p)
      /\ p.type \notin {"empty", "panic"}
  BY DEF Sound, Typed
<1>4. dest = IF Key(n) \in DOMAIN old THEN old[Key(n)] ELSE NoMetric
  OBVIOUS
<1>5. data = RollupMetricData(dest, p, lvl)
  OBVIOUS
<1> HIDE DEF old, new, dest, data
<1>6. DOMAIN new = {Key(j) : j \in 1..n}
  <2>1. {Key(j) : j \in 1..n} = {Key(j) : j \in 1..(n - 1)} \cup {Key(n)}
    <3> HIDE DEF Key
    <3> QED
      OBVIOUS
  <2> QED
    BY <1>1, <1>2, <2>1
<1>7. ASSUME NEW k \in DOMAIN old, k # Key(n)
      PROVE  /\ new[k].type # "empty"
             /\ new[k].type \in Numeric => Right(k, new[k].groups, n)
  <2>1. new[k] = old[k]
    BY <1>1, <1>7
  <2>2. old[k].type \in Numeric => Right(k, old[k].groups, n)
    BY <1>2, <1>3, <1>7, GroupsSkip
  <2> QED
    BY <1>2, <2>1, <2>2
<1>8. dest.type \in Numeric \cup {"empty"} => Right(Key(n), dest.groups, n - 1)
  <2>1. CASE Key(n) \in DOMAIN old
    <3>1. dest = old[Key(n)] /\ dest.type # "empty"
      BY <1>2, <1>4, <2>1
    <3> QED
      BY <1>2, <2>1, <3>1
  <2>2. CASE Key(n) \notin DOMAIN old
    <3>1. DOMAIN dest.groups = {}
      BY <1>4, <2>2 DEF NoMetric
    <3>2. \A g : Members(batch, lvl, Key(n), g, n - 1) = {}
      BY <1>2, <2>2 DEF Members, GroupOf
    <3> QED
      BY <3>1, <3>2 DEF GroupsRight
  <2> QED
    BY <2>1, <2>2
<1>9. /\ data.type # "empty"
      /\ data.type \in Numeric => Right(Key(n), data.groups, n)
  <2>1. CASE p.type \in Numeric /\ dest.type \in {"empty", p.type}
    <3>1. /\ data.type = p.type
          /\ data.groups = RollupDataPoint(dest.groups, p, lvl)
      BY <1>5, <2>1 DEF RollupMetricData
    <3>2. Right(Key(n), dest.groups, n - 1)
      BY <1>8, <2>1
    <3>3. Right(Key(n), RollupDataPoint(dest.groups, p, lvl), n)
      BY <1>3, <2>1, <3>2, GroupsStep
    <3> QED
      BY <1>3, <3>1, <3>3
  <2>2. CASE p.type \in Numeric /\ dest.type \notin {"empty", p.type}
    <3>1. data.type = "panic"
      BY <1>5, <2>2 DEF RollupMetricData, Panic
    <3> QED
      BY <3>1 DEF Numeric
  <2>3. CASE p.type \notin Numeric /\ dest.type = "empty"
    <3>1. data.type = p.type
      BY <1>5, <2>3 DEF RollupMetricData
    <3> QED
      BY <1>3, <2>3, <3>1
  <2>4. CASE p.type \notin Numeric /\ dest.type # "empty"
    <3>1. data = dest
      BY <1>5, <2>4 DEF RollupMetricData
    <3>2. dest.type \in Numeric => Right(Key(n), dest.groups, n)
      BY <1>3, <1>8, <2>4, GroupsSkip
    <3> QED
      BY <2>4, <3>1, <3>2
  <2> QED
    BY <2>1, <2>2, <2>3, <2>4
<1>10. ASSUME NEW k \in DOMAIN new
       PROVE  /\ new[k].type # "empty"
              /\ new[k].type \in Numeric => Right(k, new[k].groups, n)
  <2>1. CASE k = Key(n)
    <3>1. new[k] = data
      BY <1>1, <2>1
    <3> QED
      BY <1>9, <2>1, <3>1
  <2>2. CASE k # Key(n)
    <3>1. k \in DOMAIN old
      BY <1>1, <2>2
    <3> QED
      BY <1>7, <2>2, <3>1
  <2> QED
    BY <2>1, <2>2
<1> QED
  BY <1>6, <1>10 DEF MetricsRight, new

\* So all sums and gauges of a batch are right.
LEMMA AllMetricsRight ==
    ASSUME NEW batch, NEW lvl, Sound(batch)
    PROVE  MetricsRight(batch, lvl, Len(batch))
<1> DEFINE S == {i \in 0..Len(batch) : MetricsRight(batch, lvl, i)}
<1>1. Len(batch) \in Nat
  BY DEF Sound
<1>2. 0 \in S
  <2>1. DOMAIN MergedPoints(batch, lvl)[0] = {}
    BY <1>1, MergedPointsDef
  <2>2. MetricsRight(batch, lvl, 0)
    BY <2>1 DEF MetricsRight
  <2> QED
    BY <1>1, <2>2
<1>3. \A i \in 1..Len(batch) : i - 1 \in S => i \in S
  BY <1>1, MetricsStep
<1>4. 0..Len(batch) \subseteq S
  <2> HIDE DEF S
  <2> QED
    BY <1>1, <1>2, <1>3, Induction
<1> QED
  BY <1>1, <1>4

-----------------------------------------------------------------------------
(* The theorems.                                                           *)

\* A batch is a sequence of what may arrive.
LEMMA BatchParts ==
    ASSUME NEW S, NEW m \in Nat, NEW batch \in BoundedSeq(S, m)
    PROVE  /\ Len(batch) \in Nat /\ DOMAIN batch = 1..Len(batch)
           /\ \A i \in 1..Len(batch) : batch[i] \in S
<1>1. PICK k \in 0..m : batch \in [1..k -> S]
  BY DEF BoundedSeq, SeqOf
<1>2. batch \in Seq(S)
  BY <1>1
<1> QED
  BY <1>2

\* What was rolled up was rolled up from the batch at the recorded level, and a
\* node is dead only for a panic.
Inv ==
    /\ level \in Levels
    /\ points \in BoundedSeq(Points, MaxPoints)
    /\ records \in BoundedSeq(Records, MaxRecords)
    /\ MetricsRolled =>
         /\ metricsOut = RolledUp(points, metricsLevel)
         /\ pc = "dead" <=> Panics(metricsOut)
    /\ pc = "metrics" => metricsLevel = "none"
    /\ LogsRolled => logsOut = LogsRolledUp(records, logsLevel)

\* The invariant holds before the rollup.
LEMMA InvInit == Init => Inv
BY DEF Init, Inv, Levels, MetricsRolled, LogsRolled

\* The invariant is inductive.
LEMMA InvInductive == Inv /\ [Next]_vars => Inv'
<1> SUFFICES ASSUME Inv, [Next]_vars PROVE Inv'
  OBVIOUS
<1> USE DEF Inv, Levels, MetricsRolled, LogsRolled
<1>1. ASSUME NEW l \in Levels, SetLevel(l) PROVE Inv'
  BY <1>1 DEF SetLevel
<1>2. CASE RollupMetrics
  BY <1>2 DEF RollupMetrics
<1>3. CASE RollupLogs
  BY <1>3 DEF RollupLogs
<1>4. CASE UNCHANGED vars
  BY <1>4 DEF vars
<1> QED
  BY <1>1, <1>2, <1>3, <1>4 DEF Next

\* rollupLogRecords counts every record of a batch of any length once, in the
\* group of its key, whatever the level was for the metrics.
THEOREM RecordsCounted == Spec => []LogsAreCountedOnce
<1>1. ASSUME Inv PROVE LogsAreCountedOnce
  <2> SUFFICES ASSUME LogsRolled PROVE LogsAreCountedOnce
    BY DEF LogsAreCountedOnce
  <2>1. Len(records) \in Nat /\ DOMAIN records = 1..Len(records)
    BY <1>1, BatchParts, BoundsAreNaturals DEF Inv
  <2>2. Counted(records, logsLevel, Len(records))
    BY <2>1, AllCounted
  <2>3. logsOut = MergedRecords(records, logsLevel)[Len(records)]
    BY <1>1 DEF Inv, LogsRolledUp
  <2> QED
    BY <2>1, <2>2, <2>3 DEF Counted, LogsAreCountedOnce
<1> QED
  BY <1>1, InvInit, InvInductive, PTL DEF Spec

\* rollupMetricData panics for a batch of any length if, and only if, a sum or a
\* gauge meets a metric that began with another type.
THEOREM PanicsAreClashes == Spec => []PanicIsTypeClash
<1>1. ASSUME Inv PROVE PanicIsTypeClash
  <2>1. /\ Len(points) \in Nat /\ DOMAIN points = 1..Len(points)
        /\ \A i \in 1..Len(points) : points[i] \in Points
    BY <1>1, BatchParts, BoundsAreNaturals DEF Inv
  <2>2. Typed(points)
    BY <2>1, PointsAssumption DEF Typed
  <2>3. Panics(RolledUp(points, metricsLevel)) <=> TypeClash(points)
    BY <2>1, <2>2, PanicsOnClash
  <2> QED
    BY <1>1, <2>3 DEF Inv, PanicIsTypeClash
<1> QED
  BY <1>1, InvInit, InvInductive, PTL DEF Spec

\* The points of a state are a batch as the loops meet it.
LEMMA PointsSound == Inv => Sound(points)
<1> SUFFICES ASSUME Inv PROVE Sound(points)
  OBVIOUS
<1>1. /\ Len(points) \in Nat /\ DOMAIN points = 1..Len(points)
      /\ \A i \in 1..Len(points) : points[i] \in Points
  BY BatchParts, BoundsAreNaturals DEF Inv
<1> QED
  BY <1>1, PointsAssumption DEF Sound, Typed, IsPoint

\* Of a whole batch, what the groups of a metric are and hold.
LEMMA WholeGroups ==
    ASSUME NEW batch, NEW lvl, Sound(batch), NEW key, NEW groups,
           GroupsRight(batch, lvl, key, groups, Len(batch))
    PROVE  /\ DOMAIN groups =
                {FilterAttributes(batch[i].attrs, lvl) :
                   i \in {j \in DOMAIN batch : /\ MetricKey(batch[j]) = key
                                               /\ batch[j].type \in Numeric}}
           /\ \A g \in DOMAIN groups :
                groups[g].value =
                  TotalOf(batch, LastRun(batch, GroupOf(batch, lvl, key, g)))
<1>1. \A g : Members(batch, lvl, key, g, Len(batch)) =
               GroupOf(batch, lvl, key, g)
  BY DEF Members, GroupOf, Sound
<1>2. \A g : g \in DOMAIN groups <=> GroupOf(batch, lvl, key, g) # {}
  BY <1>1 DEF GroupsRight
<1>3. ASSUME NEW g \in DOMAIN groups
      PROVE  groups[g].value =
               TotalOf(batch, LastRun(batch, GroupOf(batch, lvl, key, g)))
  <2>1. Settled(batch, groups[g], GroupOf(batch, lvl, key, g), Len(batch))
    BY <1>1 DEF GroupsRight
  <2> QED
    BY <2>1 DEF Settled, Kept, TotalOf
<1>4. \A g : GroupOf(batch, lvl, key, g) # {} <=>
        \E i \in {j \in DOMAIN batch : /\ MetricKey(batch[j]) = key
                                       /\ batch[j].type \in Numeric} :
          g = FilterAttributes(batch[i].attrs, lvl)
  BY DEF GroupOf
<1> QED
  BY <1>2, <1>3, <1>4

\* rollupDataPoints makes one point of each group of a sum or gauge, for a batch
\* of any length, and its value is the total of the group's last run of integers
\* or of doubles.
THEOREM RunsAreKept == Spec => []LastRunIsKept
<1>1. ASSUME Inv PROVE LastRunIsKept
  <2> SUFFICES ASSUME MetricsRolled, NEW key \in DOMAIN metricsOut,
                      metricsOut[key].type \in Numeric
               PROVE  LET out == metricsOut[key] IN
                      /\ DOMAIN out.groups =
                           {FilterAttributes(points[i].attrs, metricsLevel) :
                              i \in {j \in DOMAIN points :
                                       /\ MetricKey(points[j]) = key
                                       /\ points[j].type \in Numeric}}
                      /\ \A g \in DOMAIN out.groups :
                           out.groups[g].value =
                             TotalOf(points,
                               LastRun(points,
                                 GroupOf(points, metricsLevel, key, g)))
    BY DEF LastRunIsKept
  <2>1. Sound(points)
    BY <1>1, PointsSound
  <2>2. metricsOut = MergedPoints(points, metricsLevel)[Len(points)]
    BY <1>1 DEF Inv, RolledUp
  <2>3. GroupsRight(points, metricsLevel, key, metricsOut[key].groups,
                    Len(points))
    BY <2>1, <2>2, AllMetricsRight DEF MetricsRight
  <2> QED
    BY <2>1, <2>3, WholeGroups
<1> QED
  BY <1>1, InvInit, InvInductive, PTL DEF Spec

\* The values of a rollup of a uniform batch: of every metric and every group
\* the total of the group's points.
ValuesRight(batch, lvl, out) ==
    /\ DOMAIN out = {MetricKey(batch[j]) : j \in 1..Len(batch)}
    /\ \A k \in DOMAIN out : \A g :
         g \in DOMAIN out[k].groups <=> GroupOf(batch, lvl, k, g) # {}
    /\ \A k \in DOMAIN out : \A g \in DOMAIN out[k].groups :
         out[k].groups[g].value = TotalOf(batch, GroupOf(batch, lvl, k, g))

\* Of a batch in which every metric is of one type and of one kind of number,
\* all points of a group count.
LEMMA UniformValues ==
    ASSUME NEW batch, NEW lvl, Sound(batch), Uniform(batch),
           NEW out, out = RolledUp(batch, lvl)
    PROVE  ValuesRight(batch, lvl, out)
<1> DEFINE n == Len(batch)
<1>1. n \in Nat /\ DOMAIN batch = 1..n /\ Typed(batch)
  BY DEF Sound
<1>2. out = MergedPoints(batch, lvl)[n]
  BY DEF RolledUp
<1>3. DOMAIN out = {MetricKey(batch[j]) : j \in 1..n}
  BY <1>2, AllMetricsRight DEF MetricsRight
<1>4. ASSUME NEW k \in DOMAIN out PROVE out[k].type \in Numeric
  <2> DEFINE T == {j \in 1..n : MetricKey(batch[j]) = k}
  <2>1. T \in SUBSET Nat /\ T # {}
    BY <1>3
  <2>2. PICK a \in T : \A y \in T : a <= y
    BY <2>1, LeastNatural
  <2>3. a \in 1..n /\ First(batch, a) /\ MetricKey(batch[a]) = k
    BY <2>2 DEF First
  <2>4. ~Clash(batch, a, n) /\ batch[a].type \in Numeric
    BY <1>1, <2>3 DEF Clash, Uniform
  <2> QED
    BY <1>1, <1>2, <2>3, <2>4, AllTypesKept DEF TypesKept
<1>5. ASSUME NEW k \in DOMAIN out
      PROVE  GroupsRight(batch, lvl, k, out[k].groups, n)
  BY <1>2, <1>4, <1>5, AllMetricsRight DEF MetricsRight
<1>6. \A k, g : Members(batch, lvl, k, g, n) = GroupOf(batch, lvl, k, g)
  BY <1>1 DEF Members, GroupOf
<1>7. \A k, g : LastRun(batch, GroupOf(batch, lvl, k, g)) =
                  GroupOf(batch, lvl, k, g)
  BY <1>1 DEF LastRun, GroupOf, Uniform
<1>8. \A k \in DOMAIN out : \A g :
        g \in DOMAIN out[k].groups <=> GroupOf(batch, lvl, k, g) # {}
  BY <1>5, <1>6 DEF GroupsRight
<1>9. ASSUME NEW k \in DOMAIN out, NEW g \in DOMAIN out[k].groups
      PROVE  out[k].groups[g].value =
               TotalOf(batch, LastRun(batch, GroupOf(batch, lvl, k, g)))
  <2>1. PICK groups : groups = out[k].groups
    OBVIOUS
  <2>2. GroupsRight(batch, lvl, k, groups, n)
    BY <1>5, <2>1
  <2>3. \A a \in DOMAIN groups :
          groups[a].value =
            TotalOf(batch, LastRun(batch, GroupOf(batch, lvl, k, a)))
    BY <2>2, WholeGroups
  <2> QED
    BY <2>1, <2>3
<1> QED
  BY <1>3, <1>7, <1>8, <1>9 DEF ValuesRight

\* What a batch in another order shares with the batch.
IsReordering(new, batch, order) ==
    /\ Len(new) = Len(batch)
    /\ \A i \in 1..Len(batch) : /\ order[i] \in 1..Len(batch)
                                /\ new[i] = batch[order[i]]
    /\ \A k \in 1..Len(batch) : \E i \in 1..Len(batch) : order[i] = k
    /\ Sound(new) /\ Uniform(new)

\* Reordered makes such a batch.
LEMMA ReorderedBatch ==
    ASSUME NEW batch, Sound(batch), Uniform(batch),
           NEW order \in Orders(Len(batch)),
           NEW new, new = Reordered(batch, order)
    PROVE  IsReordering(new, batch, order)
<1> DEFINE n == Len(batch)
<1>1. n \in Nat /\ DOMAIN batch = 1..n
  BY DEF Sound
<1>2. /\ order \in [1..n -> 1..n]
      /\ \A k \in 1..n : \E i \in 1..n : order[i] = k
  BY <1>1, OrdersAre DEF Permutes
<1>3. new = [i \in 1..n |-> batch[order[i]]]
  BY DEF Reordered
<1>4. /\ DOMAIN new = 1..n
      /\ \A i \in 1..n : order[i] \in 1..n /\ new[i] = batch[order[i]]
  BY <1>2, <1>3
<1>5. Len(new) = n
  <2>1. new \in Seq({batch[i] : i \in 1..n})
    BY <1>1, <1>2, <1>3
  <2> QED
    BY <1>1, <1>4, <2>1
<1>6. Sound(new)
  BY <1>1, <1>4, <1>5 DEF Sound, Typed
<1>7. Uniform(new)
  BY <1>1, <1>4 DEF Uniform
<1> QED
  BY <1>2, <1>4, <1>5, <1>6, <1>7 DEF IsReordering

\* A rollup of a uniform batch of any length comes to the same values in any
\* order, so the order in which evictions deliver signals is immaterial.
THEOREM OrderDoesNotMatter == Spec => []OrderIsImmaterial
<1>1. ASSUME NEW batch, NEW lvl, Sound(batch), Uniform(batch),
             NEW order \in Orders(Len(batch))
      PROVE  Values(RolledUp(Reordered(batch, order), lvl)) =
               Values(RolledUp(batch, lvl))
  <2> DEFINE n   == Len(batch)
             new == Reordered(batch, order)
             A   == RolledUp(batch, lvl)
             B   == RolledUp(new, lvl)
             Of(k, g) == GroupOf(batch, lvl, k, g)
             In(k, g) == GroupOf(new, lvl, k, g)
  <2>1. /\ n \in Nat /\ DOMAIN batch = 1..n
        /\ \A i \in 1..n : batch[i].value \in Int
    BY <1>1 DEF Sound, IsPoint
  <2>2. /\ Len(new) = n /\ Sound(new) /\ Uniform(new) /\ DOMAIN new = 1..n
        /\ \A i \in 1..n : order[i] \in 1..n /\ new[i] = batch[order[i]]
        /\ \A k \in 1..n : \E i \in 1..n : order[i] = k
    <3>1. PICK c : c = new
      OBVIOUS
    <3>2. IsReordering(c, batch, order)
      BY <1>1, <3>1, ReorderedBatch
    <3> HIDE DEF new
    <3>3. DOMAIN c = 1..n
      BY <3>2 DEF IsReordering, Sound
    <3> QED
      BY <3>1, <3>2, <3>3 DEF IsReordering
  <2>3. /\ DOMAIN A = {MetricKey(batch[j]) : j \in 1..n}
        /\ \A k \in DOMAIN A : \A g :
             g \in DOMAIN A[k].groups <=> Of(k, g) # {}
        /\ \A k \in DOMAIN A : \A g \in DOMAIN A[k].groups :
             A[k].groups[g].value = TotalOf(batch, Of(k, g))
    BY <1>1, UniformValues DEF ValuesRight
  <2> HIDE DEF new
  <2>4. /\ DOMAIN B = {MetricKey(new[j]) : j \in 1..n}
        /\ \A k \in DOMAIN B : \A g :
             g \in DOMAIN B[k].groups <=> In(k, g) # {}
        /\ \A k \in DOMAIN B : \A g \in DOMAIN B[k].groups :
             B[k].groups[g].value = TotalOf(new, In(k, g))
    <3>1. B = RolledUp(new, lvl)
      OBVIOUS
    <3> HIDE DEF B
    <3>2. ValuesRight(new, lvl, B)
      <4>1. Sound(new) /\ Uniform(new)
        BY <2>2
      <4> QED
        BY <3>1, <4>1, UniformValues, Zenon
    <3> QED
      BY <2>2, <3>2 DEF ValuesRight
  <2> HIDE DEF A, B
  <2>5. \A k, g : \A i \in 1..n : i \in In(k, g) <=> order[i] \in Of(k, g)
    BY <2>1, <2>2 DEF GroupOf
  <2>6. \A k, g : Of(k, g) \subseteq 1..n /\ In(k, g) \subseteq 1..n
    BY <2>1, <2>2 DEF GroupOf
  <2> HIDE DEF Of, In
  <2>7. DOMAIN A = DOMAIN B
    <3>1. {MetricKey(batch[j]) : j \in 1..n} = {MetricKey(new[j]) : j \in 1..n}
      <4>1. \A i \in 1..n : \E j \in 1..n : MetricKey(batch[i]) =
                                              MetricKey(new[j])
        BY <2>2
      <4>2. \A i \in 1..n : \E j \in 1..n : MetricKey(new[i]) =
                                              MetricKey(batch[j])
        BY <2>2
      <4> QED
        BY <4>1, <4>2
    <3> QED
      BY <2>3, <2>4, <3>1
  <2>8. \A k, g : Of(k, g) # {} <=> In(k, g) # {}
    BY <2>2, <2>5, <2>6
  <2>9. ASSUME NEW k, NEW g
        PROVE  TotalOf(batch, Of(k, g)) = TotalOf(new, In(k, g))
    <3> DEFINE f == [i \in 1..n |->
                       IF i \in Of(k, g) THEN batch[i].value ELSE 0]
               h == [i \in 1..n |->
                       IF i \in In(k, g) THEN new[i].value ELSE 0]
    <3>1. \A i \in 1..n : f[i] \in Int
      BY <2>1
    <3>2. h = [i \in 1..n |-> f[order[i]]]
      BY <2>2, <2>5
    <3>3. Total(f, n) = Total(h, n)
      <4> HIDE DEF f, h
      <4>1. TotalKept(f, order, n)
        BY <2>1, <3>1, TotalInAnyOrder
      <4> QED
        BY <3>2, <4>1 DEF TotalKept
    <3> QED
      BY <2>2, <3>3 DEF TotalOf
  <2>10. ASSUME NEW k \in DOMAIN A
         PROVE  /\ DOMAIN A[k].groups = DOMAIN B[k].groups
                /\ \A g \in DOMAIN A[k].groups :
                     A[k].groups[g].value = B[k].groups[g].value
    <3>1. \A g : g \in DOMAIN A[k].groups <=> g \in DOMAIN B[k].groups
      BY <2>3, <2>4, <2>7, <2>8
    <3>2. ASSUME NEW g \in DOMAIN A[k].groups
          PROVE  A[k].groups[g].value = B[k].groups[g].value
      <4>1. A[k].groups[g].value = TotalOf(batch, Of(k, g))
        BY <2>3
      <4>2. B[k].groups[g].value = TotalOf(new, In(k, g))
        BY <2>4, <2>7, <3>1
      <4> QED
        BY <2>9, <4>1, <4>2
    <3>3. DOMAIN A[k].groups = DOMAIN B[k].groups
      BY <3>1
    <3> QED
      BY <3>2, <3>3
  <2>11. \A k \in DOMAIN A :
           [g \in DOMAIN A[k].groups |-> A[k].groups[g].value] =
             [g \in DOMAIN B[k].groups |-> B[k].groups[g].value]
    BY <2>10
  <2>12. Values(A) = Values(B)
    BY <2>7, <2>11 DEF Values
  <2> QED
    BY <2>12 DEF A, B, new
<1>2. ASSUME Inv PROVE OrderIsImmaterial
  <2> SUFFICES ASSUME MetricsRolled, Uniform(points),
                      NEW order \in Orders(Len(points))
               PROVE  Values(RolledUp(Reordered(points, order),
                                      metricsLevel)) = Values(metricsOut)
    BY DEF OrderIsImmaterial, Orders
  <2>1. Sound(points) /\ metricsOut = RolledUp(points, metricsLevel)
    BY <1>2, PointsSound DEF Inv
  <2> QED
    BY <1>1, <2>1
<1> QED
  BY <1>2, InvInit, InvInductive, PTL DEF Spec
=============================================================================
