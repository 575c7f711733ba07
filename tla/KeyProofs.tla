----------------------------- MODULE KeyProofs ------------------------------
(***************************************************************************)
(* What the operators of module KeyProcessing return, for any key: facts   *)
(* that the proofs about the sessions cite.                                *)
(***************************************************************************)
EXTENDS KeyProcessing, FunctionTheorems, FiniteSetTheorems, SequenceTheorems, TLAPS

-----------------------------------------------------------------------------
(* The members of a finite set in ascending order, and a sequence without  *)
(* some of its positions                                                   *)

(* The k-th of q has k members of S up to its key, if one has.             *)
RankedBy(q, S, key) ==
  LET rank(x) == Cardinality({y \in S : key[y] <= key[x]})
  IN  /\ q = [k \in 1..Cardinality(S) |-> q[k]]
      /\ \A k \in 1..Cardinality(S) :
           (\E x \in S : rank(x) = k) => q[k] \in S /\ rank(q[k]) = k

Ascending(q, S, key) ==
  /\ q \in Seq(S) /\ Len(q) = Cardinality(S) /\ DOMAIN q = 1..Len(q)
  /\ \A i, j \in DOMAIN q : i < j => key[q[i]] < key[q[j]]
  /\ \A x \in S : \E i \in DOMAIN q : q[i] = x

(* By their keys, the members of a finite set come in ascending order.      *)
LEMMA RankFacts ==
  ASSUME NEW S, IsFiniteSet(S), NEW key \in [S -> Int],
         \A x, y \in S : key[x] = key[y] => x = y,
         NEW q, RankedBy(q, S, key)
  PROVE  Ascending(q, S, key)
<1>. DEFINE n == Cardinality(S)
            upTo(x) == {y \in S : key[y] <= key[x]}
            rank == [x \in S |-> Cardinality(upTo(x))]
<1>1. n \in Nat /\ IsFiniteSet(1..n) /\ Cardinality(1..n) = n
  BY FS_CardinalityType, FS_Interval
<1>2. ASSUME NEW x \in S
      PROVE  IsFiniteSet(upTo(x)) /\ rank[x] \in 1..n
  <2>1. upTo(x) \in SUBSET S /\ x \in upTo(x)
    OBVIOUS
  <2>2. IsFiniteSet(upTo(x)) /\ Cardinality(upTo(x)) <= n
    BY <2>1, FS_Subset
  <2>3. Cardinality(upTo(x)) \in Nat /\ Cardinality(upTo(x)) # 0
    BY <2>1, <2>2, FS_CardinalityType, FS_EmptySet
  <2>. HIDE DEF upTo, n
  <2>. QED
    BY <1>1, <2>2, <2>3
<1>3. ASSUME NEW x \in S, NEW y \in S, key[x] < key[y]
      PROVE  rank[x] < rank[y]
  <2>1. upTo(x) \in SUBSET upTo(y) /\ upTo(x) # upTo(y)
    <3>1. y \in upTo(y) /\ y \notin upTo(x)
      BY <1>3
    <3>2. \A z \in S : key[z] <= key[x] => key[z] <= key[y]
      BY <1>3
    <3>. QED
      BY <3>1, <3>2
  <2>2. IsFiniteSet(upTo(y)) /\ IsFiniteSet(upTo(x))
    BY <1>2
  <2>3. Cardinality(upTo(x)) \in Nat /\ Cardinality(upTo(y)) \in Nat
    BY <2>2, FS_CardinalityType
  <2>. HIDE DEF upTo
  <2>4. Cardinality(upTo(x)) <= Cardinality(upTo(y)) /\ Cardinality(upTo(x)) # Cardinality(upTo(y))
    BY <2>1, <2>2, FS_Subset
  <2>. QED
    BY <2>3, <2>4
<1>9. \A x \in S : rank[x] \in 1..n
  BY <1>2
<1>4. rank \in Injection(S, 1..n)
  <2>1. rank \in [S -> 1..n]
    BY <1>2
  <2>2. \A x, y \in S : rank[x] = rank[y] => x = y
    <3>. SUFFICES ASSUME NEW x \in S, NEW y \in S, rank[x] = rank[y], x # y PROVE FALSE
      OBVIOUS
    <3>1. key[x] < key[y] \/ key[y] < key[x]
      OBVIOUS
    <3>. HIDE DEF rank, n, upTo
    <3>2. rank[x] \in Int /\ rank[y] \in Int
      BY <1>1, <1>9
    <3>. QED
      BY <1>3, <3>1, <3>2
  <2>. QED
    BY <2>1, <2>2, Fun_IsInj
<1>5. rank \in Surjection(S, 1..n)
  BY <1>1, <1>4, FS_Injection
<1>6. \A k \in 1..n : \E x \in S : rank[x] = k
  <2>. HIDE DEF rank, n
  <2>. QED
    BY <1>5, Fun_SurjectionProperties
<1>7. ASSUME NEW k \in 1..n
      PROVE  q[k] \in S /\ rank[q[k]] = k
  <2>1. \E x \in S : Cardinality(upTo(x)) = k
    BY <1>6
  <2>2. q[k] \in S /\ Cardinality(upTo(q[k])) = k
    BY <2>1 DEF RankedBy
  <2>. QED
    BY <2>2
<1>8. q = [k \in 1..n |-> q[k]]
  BY DEF RankedBy
<1>10. \A x, y \in S : rank[x] = rank[y] => x = y
  BY <1>4, Fun_InjectionProperties
<1>11. q \in Seq(S) /\ Len(q) = n /\ DOMAIN q = 1..n
  <2>. HIDE DEF rank, n
  <2>. QED
    BY <1>1, <1>7, <1>8
<1>12. ASSUME NEW x \in S PROVE \E i \in 1..n : q[i] = x
  <2>. HIDE DEF rank, n
  <2>. QED
    BY <1>7, <1>9, <1>10
<1>13. ASSUME NEW i \in 1..n, NEW j \in 1..n, i < j PROVE key[q[i]] < key[q[j]]
  <2>1. q[i] \in S /\ q[j] \in S /\ rank[q[i]] = i /\ rank[q[j]] = j
    BY <1>7
  <2>2. q[i] # q[j]
    <3>. HIDE DEF rank
    <3>. QED
      BY <1>13, <2>1
  <2>3. key[q[i]] < key[q[j]] \/ key[q[j]] < key[q[i]]
    BY <2>1, <2>2
  <2>. HIDE DEF rank
  <2>4. ASSUME key[q[j]] < key[q[i]] PROVE FALSE
    <3>1. rank[q[j]] < rank[q[i]]
      BY <1>3, <2>1, <2>4
    <3>. QED
      BY <1>1, <1>13, <2>1, <3>1
  <2>. QED
    BY <2>3, <2>4
<1>. QED
  BY <1>11, <1>12, <1>13 DEF n, Ascending

LEMMA InOrderFacts ==
  ASSUME NEW S \in SUBSET Int, IsFiniteSet(S)
  PROVE  /\ InOrder(S) \in Seq(S) /\ Len(InOrder(S)) = Cardinality(S)
         /\ DOMAIN InOrder(S) = 1..Len(InOrder(S))
         /\ \A i, j \in DOMAIN InOrder(S) : InOrder(S)[i] = InOrder(S)[j] => i = j
         /\ \A i, j \in DOMAIN InOrder(S) : i < j => InOrder(S)[i] < InOrder(S)[j]
         /\ \A x \in S : \E i \in DOMAIN InOrder(S) : InOrder(S)[i] = x
<1>. DEFINE q == InOrder(S)
            key == [x \in S |-> x]
<1>1. key \in [S -> Int] /\ \A x, y \in S : key[x] = key[y] => x = y
  OBVIOUS
<1>2. q = [k \in 1..Cardinality(S) |-> q[k]]
  BY DEF InOrder
<1>3. ASSUME NEW k \in 1..Cardinality(S),
             \E x \in S : Cardinality({y \in S : key[y] <= key[x]}) = k
      PROVE  q[k] \in S /\ Cardinality({y \in S : key[y] <= key[q[k]]}) = k
  <2>. DEFINE Ranks(x) == Cardinality({y \in S : y <= x}) = k
  <2>1. \A x \in S : {y \in S : key[y] <= key[x]} = {y \in S : y <= x}
    OBVIOUS
  <2>2. \A x \in S : Ranks(x) <=> Cardinality({y \in S : key[y] <= key[x]}) = k
    BY <2>1
  <2>3. q[k] = CHOOSE x \in S : Ranks(x)
    BY DEF InOrder
  <2>4. \E x \in S : Ranks(x)
    BY <1>3, <2>2
  <2>. HIDE DEF Ranks, q, key
  <2>5. q[k] \in S /\ Ranks(q[k])
    BY <2>3, <2>4
  <2>. QED
    BY <2>2, <2>5
<1>6. RankedBy(q, S, key)
  BY <1>2, <1>3 DEF RankedBy
<1>. HIDE DEF q, key
<1>7. Ascending(q, S, key)
  BY <1>1, <1>6, RankFacts
<1>4. /\ q \in Seq(S) /\ Len(q) = Cardinality(S) /\ DOMAIN q = 1..Len(q)
      /\ \A i, j \in DOMAIN q : i < j => key[q[i]] < key[q[j]]
      /\ \A x \in S : \E i \in DOMAIN q : q[i] = x
  BY <1>7 DEF Ascending
<1>5. ASSUME NEW i \in DOMAIN q, NEW j \in DOMAIN q, q[i] = q[j] PROVE i = j
  <2>1. i \in Int /\ j \in Int /\ q[i] \in S
    BY <1>4
  <2>3. key[q[i]] = key[q[j]] /\ key[q[i]] \in Int
    BY <1>1, <1>5, <2>1
  <2>2. ~(i < j) /\ ~(j < i)
    BY <1>4, <2>1, <2>3
  <2>. QED
    BY <2>1, <2>2
<1>8. \A i, j \in DOMAIN q : i < j => q[i] < q[j]
  <2>1. \A i \in DOMAIN q : q[i] \in S
    BY <1>4
  <2>. QED
    BY <1>4, <2>1 DEF key
<1>. QED
  BY <1>4, <1>5, <1>8 DEF q

(* q is a sequence *)
IsSequence(q) == q \in Seq(ToSet(q))

LEMMA SequenceFacts ==
  ASSUME NEW q
  PROVE  /\ IsSequence(q) => Len(q) \in Nat /\ DOMAIN q = 1..Len(q)
         /\ \A S : q \in Seq(S) => IsSequence(q)
<1>1. IsSequence(q) => Len(q) \in Nat /\ DOMAIN q = 1..Len(q)
  BY DEF IsSequence
<1>2. ASSUME NEW S, q \in Seq(S) PROVE IsSequence(q)
  BY <1>2 DEF IsSequence, ToSet
<1>. QED
  BY <1>1, <1>2

LEMMA RemoveFacts ==
  ASSUME NEW seq, IsSequence(seq), NEW positions
  PROVE  LET rest == RemovePositions(seq, positions)
         IN  /\ IsSequence(rest)
             /\ \E at \in [DOMAIN rest -> DOMAIN seq \ ToSet(positions)] :
                  /\ \A i \in DOMAIN rest : rest[i] = seq[at[i]]
                  /\ \A i, j \in DOMAIN rest : at[i] = at[j] => i = j
                  /\ \A i, j \in DOMAIN rest : i < j => at[i] < at[j]
<1>. DEFINE left == DOMAIN seq \ ToSet(positions)
            rest == RemovePositions(seq, positions)
            at == InOrder(left)
<1>1. left \in SUBSET Int /\ IsFiniteSet(left)
  <2>1. Len(seq) \in Nat /\ DOMAIN seq = 1..Len(seq)
    BY SequenceFacts
  <2>2. IsFiniteSet(1..Len(seq)) /\ left \in SUBSET (1..Len(seq))
    BY <2>1, FS_Interval
  <2>. HIDE DEF left
  <2>3. IsFiniteSet(left)
    BY <2>2, FS_Subset
  <2>. QED
    BY <2>1, <2>2, <2>3
<1>2. /\ at \in Seq(left) /\ Len(at) \in Nat /\ DOMAIN at = 1..Len(at)
      /\ \A i, j \in DOMAIN at : at[i] = at[j] => i = j
      /\ \A i, j \in DOMAIN at : i < j => at[i] < at[j]
  <2>. HIDE DEF left
  <2>. QED
    BY <1>1, InOrderFacts
<1>3. rest = [j \in DOMAIN at |-> seq[at[j]]]
  BY DEF RemovePositions
<1>. HIDE DEF at, left, rest
<1>4. at \in [DOMAIN rest -> left] /\ DOMAIN rest = 1..Len(at)
  BY <1>2, <1>3
<1>5. rest \in Seq(ToSet(rest))
  BY <1>2, <1>3 DEF ToSet
<1>. QED
  BY <1>2, <1>3, <1>4, <1>5 DEF IsSequence, rest, left
=============================================================================
