----------------------------- MODULE Induction -----------------------------
(***************************************************************************)
(* Induction on the natural numbers in a form that needs no operator       *)
(* parameter, and what it gives for the recursive functions of the models: *)
(* that they exist and what type their values have.                        *)
(***************************************************************************)
EXTENDS Integers, Sequences, WellFoundedInduction, TLAPS

\* Every nonempty set of naturals has a least element.
LEMMA Least ==
  ASSUME NEW S \in SUBSET Nat, S # {}
  PROVE  \E x \in S : \A y \in S : x <= y
<1>1. PICK x \in S : \A y \in S : ~ (<<y, x>> \in OpToRel(<, Nat))
  BY WFMin, NatLessThanWellFounded, Zenon
<1>2. \A y \in Nat : y < x => <<y, x>> \in OpToRel(<, Nat)
  BY DEF OpToRel
<1>3. \A y \in S : ~ (y < x)
  BY <1>1, <1>2, Zenon
<1>4. QED
  BY <1>3

\* Every nonempty set of naturals up to n has a greatest element.
LEMMA Greatest ==
  ASSUME NEW n \in Nat, NEW S \in SUBSET (0..n), S # {}
  PROVE  \E x \in S : \A y \in S : x >= y
<1> DEFINE R == {k \in Nat : n - k \in S}
<1>1. R # {}
  <2>1. PICK x \in S : TRUE
    OBVIOUS
  <2>2. n - x \in Nat /\ n - (n - x) = x
    OBVIOUS
  <2>3. QED
    BY <2>1, <2>2
<1>2. PICK k \in R : \A j \in R : k <= j
  <2> HIDE DEF R
  <2>1. R \in SUBSET Nat
    BY DEF R
  <2>2. QED
    BY <1>1, <2>1, Least
<1>3. \A y \in S : n - y \in R /\ n - k >= y
  BY <1>2
<1>4. QED
  BY <1>2, <1>3

\* A set with 0 that is closed under successor holds every natural.
LEMMA NatInd ==
  ASSUME NEW S, 0 \in S, \A n \in Nat : n \in S => n + 1 \in S
  PROVE  Nat \subseteq S
<1> DEFINE R == Nat \ S
<1> SUFFICES ASSUME R # {} PROVE FALSE
  OBVIOUS
<1>1. PICK x \in R : \A y \in R : x <= y
  <2> HIDE DEF R
  <2>1. R \in SUBSET Nat
    BY DEF R
  <2>2. QED
    BY <2>1, Least
<1>2. x # 0 /\ x - 1 \in Nat /\ x - 1 < x
  OBVIOUS
<1>3. x - 1 \in S
  BY <1>1, <1>2
<1>4. QED
  BY <1>2, <1>3

\* The concatenations of the first i of n sequences, for every i, exist as one
\* recursive function.
LEMMA ConcatExists ==
  ASSUME NEW n \in Nat, NEW S, NEW p, \A i \in 1..n : p[i] \in Seq(S)
  PROVE  \E f : f = [i \in 0..n |-> IF i = 0 THEN <<>> ELSE f[i - 1] \o p[i]]
<1> DEFINE D(k, f) == f = [i \in 0..k |-> IF i = 0 THEN <<>> ELSE f[i - 1] \o p[i]]
           G == {k \in Nat : \E f : D(k, f)}
<1>1. 0 \in G
  <2>1. D(0, [i \in 0..0 |-> <<>>])
    OBVIOUS
  <2>2. QED
    BY <2>1
<1>2. ASSUME NEW k \in Nat, k \in G PROVE k + 1 \in G
  <2>1. PICK f : D(k, f)
    BY <1>2
  <2> DEFINE g == [i \in 0..(k + 1) |-> IF i = k + 1 THEN f[k] \o p[k + 1] ELSE f[i]]
  <2>2. \A i \in 0..(k + 1) : g[i] = IF i = 0 THEN <<>> ELSE g[i - 1] \o p[i]
    <3> SUFFICES ASSUME NEW i \in 0..(k + 1)
                 PROVE  g[i] = IF i = 0 THEN <<>> ELSE g[i - 1] \o p[i]
      OBVIOUS
    <3>1. CASE i = k + 1
      <4>1. i # 0 /\ i - 1 = k /\ k \in 0..(k + 1) /\ k # k + 1
        BY <3>1
      <4>2. g[i - 1] = f[k] /\ g[i] = f[k] \o p[k + 1]
        BY <3>1, <4>1
      <4>3. QED
        BY <3>1, <4>1, <4>2
    <3>2. CASE i # k + 1
      <4>1. i \in 0..k /\ g[i] = f[i]
        BY <3>2
      <4>2. f[i] = IF i = 0 THEN <<>> ELSE f[i - 1] \o p[i]
        BY <2>1, <4>1
      <4>3. i # 0 => i - 1 \in 0..(k + 1) /\ i - 1 # k + 1
        BY <4>1
      <4>4. i # 0 => g[i - 1] = f[i - 1]
        BY <4>3
      <4> HIDE DEF g
      <4>5. QED
        BY <4>1, <4>2, <4>4
    <3>3. QED
      BY <3>1, <3>2
  <2>3. g = [i \in 0..(k + 1) |-> g[i]]
    OBVIOUS
  <2> HIDE DEF g
  <2>4. D(k + 1, g)
    BY <2>2, <2>3, Zenon
  <2>5. QED
    BY <2>4
<1>3. Nat \subseteq G
  <2> HIDE DEF G
  <2>1. QED
    BY <1>1, <1>2, NatInd
<1>4. QED
  BY <1>3

\* A concatenation of sequences is one.
LEMMA ConcatSeq ==
  ASSUME NEW S, NEW s \in Seq(S), NEW t \in Seq(S) PROVE s \o t \in Seq(S)
  OBVIOUS

\* The values of that function are sequences.
LEMMA ConcatType ==
  ASSUME NEW n \in Nat, NEW S, NEW p, \A i \in 1..n : p[i] \in Seq(S), NEW f,
         f = [i \in 0..n |-> IF i = 0 THEN <<>> ELSE f[i - 1] \o p[i]]
  PROVE  f[n] \in Seq(S)
<1> DEFINE G == {k \in Nat : k <= n => f[k] \in Seq(S)}
<1>0. \A k \in 0..n : f[k] = IF k = 0 THEN <<>> ELSE f[k - 1] \o p[k]
  BY Zenon
<1>1. 0 \in G
  BY <1>0
<1>2. ASSUME NEW k \in Nat, k \in G PROVE k + 1 \in G
  <2> SUFFICES ASSUME k + 1 <= n PROVE f[k + 1] \in Seq(S)
    OBVIOUS
  <2>1. f[k] \in Seq(S) /\ p[k + 1] \in Seq(S)
    BY <1>2
  <2>2. f[k + 1] = f[k] \o p[k + 1]
    <3>1. k + 1 \in 0..n /\ k + 1 # 0 /\ (k + 1) - 1 = k
      OBVIOUS
    <3>2. f[k + 1] = f[(k + 1) - 1] \o p[k + 1]
      BY <1>0, <3>1, Zenon
    <3>3. QED
      BY <3>1, <3>2
  <2>3. QED
    BY <2>1, <2>2, ConcatSeq, Zenon
<1>3. Nat \subseteq G
  <2> HIDE DEF G
  <2>1. QED
    BY <1>1, <1>2, NatInd
<1>4. n <= n
  OBVIOUS
<1>5. n \in G
  <2> HIDE DEF G
  <2>1. QED
    BY <1>3, Zenon
<1>6. QED
  BY <1>4, <1>5, Zenon
=============================================================================
