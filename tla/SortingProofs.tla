--------------------------- MODULE SortingProofs ----------------------------
(* Facts about ranks and sorting that hold for every finite linear order.  *)
EXTENDS Sorting, Sequences, FiniteSetTheorems, FunctionTheorems, TLAPS

LinearOn(S, before) ==
    /\ \A a \in S : <<a, a>> \notin before
    /\ \A a, b \in S : a # b => <<a, b>> \in before \/ <<b, a>> \in before
    /\ \A a, b, c \in S : <<a, b>> \in before /\ <<b, c>> \in before => <<a, c>> \in before

(* What is before another has the lower rank.                              *)
LEMMA RankGrows ==
    ASSUME NEW S, IsFiniteSet(S), NEW before, LinearOn(S, before),
           NEW a \in S, NEW b \in S, <<a, b>> \in before
    PROVE  Rank(a, S, before) < Rank(b, S, before)
<1>. DEFINE A == {c \in S : <<c, a>> \in before}
            B == {c \in S : <<c, b>> \in before}
<1>1. A \subseteq B /\ a \in B /\ a \notin A
  BY DEF LinearOn
<1>2. IsFiniteSet(B)
  BY FS_Subset
<1>. HIDE DEF A, B
<1>3. IsFiniteSet(A) /\ Cardinality(A) <= Cardinality(B) /\ Cardinality(A) # Cardinality(B)
  BY <1>1, <1>2, FS_Subset
<1>4. Cardinality(A) \in Nat /\ Cardinality(B) \in Nat
  BY <1>2, <1>3, FS_CardinalityType
<1>5. Cardinality(A) < Cardinality(B)
  BY <1>3, <1>4
<1>. QED
  BY <1>5 DEF Rank, A, B

(* Ranks count from 0 and leave none out.                                  *)
LEMMA RanksAll ==
    ASSUME NEW S, IsFiniteSet(S), NEW before, LinearOn(S, before)
    PROVE  /\ \A a \in S : /\ Rank(a, S, before) \in Nat
                          /\ Rank(a, S, before) + 1 \in 1 .. Cardinality(S)
           /\ \A a, b \in S : Rank(a, S, before) = Rank(b, S, before) => a = b
           /\ \A i \in 1 .. Cardinality(S) : \E a \in S : Rank(a, S, before) = i - 1
<1>. DEFINE N == Cardinality(S)
            rank == [a \in S |-> Rank(a, S, before) + 1]
<1>1. N \in Nat
  BY FS_CardinalityType
<1>2. ASSUME NEW a \in S PROVE Rank(a, S, before) \in Nat /\ Rank(a, S, before) + 1 \in 1 .. N
  <2>. DEFINE A == {c \in S : <<c, a>> \in before}
  <2>1. A \subseteq S /\ A # S
    BY DEF LinearOn
  <2>. HIDE DEF A
  <2>2. IsFiniteSet(A) /\ Cardinality(A) <= N /\ Cardinality(A) # N
    BY <2>1, FS_Subset
  <2>3. Cardinality(A) \in Nat
    BY <2>2, FS_CardinalityType
  <2>4. Rank(a, S, before) = Cardinality(A)
    BY DEF Rank, A
  <2>. HIDE DEF N
  <2>. QED
    BY <1>1, <2>2, <2>3, <2>4
<1>3. ASSUME NEW a \in S, NEW b \in S, Rank(a, S, before) = Rank(b, S, before)
      PROVE  a = b
  <2>1. SUFFICES ASSUME a # b PROVE FALSE
    OBVIOUS
  <2>2. <<a, b>> \in before \/ <<b, a>> \in before
    BY <2>1 DEF LinearOn
  <2>3. Rank(a, S, before) < Rank(b, S, before) \/ Rank(b, S, before) < Rank(a, S, before)
    BY <2>2, RankGrows
  <2>. QED
    BY <1>2, <1>3, <2>3
<1>. HIDE DEF N
<1>4. rank \in [S -> 1 .. N]
  BY <1>2
<1>5. rank \in Injection(S, 1 .. N)
  BY <1>2, <1>3, <1>4 DEF Injection, IsInjective
<1>6. IsFiniteSet(1 .. N) /\ Cardinality(1 .. N) = N
  BY <1>1, FS_Interval
<1>7. rank \in Surjection(S, 1 .. N)
  <2>. HIDE DEF rank
  <2>. QED
    BY <1>5, <1>6, FS_Injection DEF N
<1>8. ASSUME NEW i \in 1 .. N PROVE \E a \in S : Rank(a, S, before) = i - 1
  <2>1. PICK a \in S : rank[a] = i
    BY <1>7 DEF Surjection
  <2>2. Rank(a, S, before) + 1 = i
    BY <2>1
  <2>. QED
    BY <1>1, <1>2, <2>2
<1>. QED
  BY <1>2, <1>3, <1>8 DEF N

(* Sorted has every member once, in order.                                 *)
LEMMA SortedOrders ==
    ASSUME NEW S, IsFiniteSet(S), NEW before, LinearOn(S, before)
    PROVE  /\ Sorted(S, before) \in Seq(S)
           /\ Len(Sorted(S, before)) = Cardinality(S)
           /\ \A i, j \in 1 .. Cardinality(S) :
                 i < j => <<Sorted(S, before)[i], Sorted(S, before)[j]>> \in before
           /\ \A a \in S : \E i \in 1 .. Cardinality(S) : Sorted(S, before)[i] = a
<1>. DEFINE N == Cardinality(S)
            s == Sorted(S, before)
            R(a) == Rank(a, S, before)
<1>1. N \in Nat
  BY FS_CardinalityType
<1>2. /\ \A a \in S : R(a) \in Nat /\ R(a) + 1 \in 1 .. N
      /\ \A a, b \in S : R(a) = R(b) => a = b
      /\ \A i \in 1 .. N : \E a \in S : R(a) = i - 1
  BY RanksAll
<1>3. ASSUME NEW i \in 1 .. N PROVE s[i] \in S /\ R(s[i]) = i - 1
  <2>1. \E a \in S : R(a) = i - 1
    BY <1>2
  <2>2. s[i] = CHOOSE a \in S : R(a) = i - 1
    BY DEF Sorted
  <2>. HIDE DEF s, R
  <2>. QED
    BY <2>1, <2>2
<1>4. s = [i \in 1 .. N |-> s[i]]
  BY DEF Sorted
<1>. HIDE DEF s, N
<1>5. s \in Seq(S) /\ Len(s) = N
  <2>1. s \in [1 .. N -> S]
    BY <1>3, <1>4
  <2>. QED
    BY <1>1, <2>1
<1>6. ASSUME NEW i \in 1 .. N, NEW j \in 1 .. N, i < j
      PROVE  <<s[i], s[j]>> \in before
  <2>1. s[i] \in S /\ s[j] \in S /\ R(s[i]) = i - 1 /\ R(s[j]) = j - 1
    BY <1>3
  <2>2. s[i] # s[j]
    BY <1>1, <1>6, <2>1
  <2>3. <<s[j], s[i]>> \in before => R(s[j]) < R(s[i])
    BY <2>1, RankGrows
  <2>4. ~(R(s[j]) < R(s[i]))
    BY <1>1, <1>6, <2>1
  <2>. QED
    BY <2>1, <2>2, <2>3, <2>4 DEF LinearOn
<1>7. ASSUME NEW a \in S PROVE \E i \in 1 .. N : s[i] = a
  <2>. DEFINE i == R(a) + 1
  <2>1. i \in 1 .. N /\ s[i] \in S /\ R(s[i]) = i - 1
    BY <1>2, <1>3
  <2>2. R(a) \in Nat
    BY <1>2
  <2>. HIDE DEF R
  <2>3. R(s[i]) = R(a)
    BY <2>1, <2>2
  <2>. QED
    BY <1>2, <2>1, <2>3
<1>. QED
  BY <1>5, <1>6, <1>7 DEF s, N

(* The place of a member in Sorted is its rank.                            *)
LEMMA SortedRank ==
    ASSUME NEW S, IsFiniteSet(S), NEW before, LinearOn(S, before)
    PROVE  \A i \in 1 .. Cardinality(S) :
               /\ Sorted(S, before)[i] \in S
               /\ Rank(Sorted(S, before)[i], S, before) = i - 1
<1>. DEFINE R(a) == Rank(a, S, before)
<1>1. ASSUME NEW i \in 1 .. Cardinality(S)
      PROVE  Sorted(S, before)[i] \in S /\ R(Sorted(S, before)[i]) = i - 1
  <2>1. \E a \in S : R(a) = i - 1
    BY RanksAll
  <2>2. Sorted(S, before)[i] = CHOOSE a \in S : R(a) = i - 1
    BY DEF Sorted
  <2>. HIDE DEF R
  <2>. QED
    BY <2>1, <2>2
<1>. QED
  BY <1>1

(* The first of the members that are left, once those before it are taken, *)
(* has the rank of their number.                                           *)
LEMMA FirstRank ==
    ASSUME NEW S, IsFiniteSet(S), NEW before, LinearOn(S, before),
           NEW T \in SUBSET S, NEW a \in S \ T,
           \A b \in T : <<b, a>> \in before,
           \A b \in S \ T : b # a => <<a, b>> \in before
    PROVE  /\ Rank(a, S, before) = Cardinality(T)
           /\ Cardinality(T \cup {a}) = Cardinality(T) + 1
<1>1. {b \in S : <<b, a>> \in before} = T
  BY DEF LinearOn
<1>2. Rank(a, S, before) = Cardinality(T)
  BY <1>1 DEF Rank
<1>3. IsFiniteSet(T)
  BY FS_Subset
<1>. QED
  BY <1>2, <1>3, FS_AddElement
=============================================================================
