---------------------------- MODULE ListenersProofs ----------------------------
(***************************************************************************)
(* Facts about vectors whose entries are erased wherever they are, for     *)
(* vectors of every length.                                                *)
(***************************************************************************)
EXTENDS Listeners, FiniteSetTheorems, SequenceTheorems, TLAPS

(* The ranks of a finite set of positions are exactly 1 .. its size.       *)
LEMMA RankBijective ==
  ASSUME NEW K \in SUBSET Nat, IsFiniteSet(K)
  PROVE  /\ \A i \in K : Rank(K, i) \in 1 .. Cardinality(K)
         /\ \A i, j \in K : Rank(K, i) = Rank(K, j) => i = j
         /\ \A k \in 1 .. Cardinality(K) : \E i \in K : Rank(K, i) = k
<1> DEFINE Upto(i) == {j \in K : j <= i}
           n == Cardinality(K)
           f == [i \in K |-> Rank(K, i)]
<1> USE K \subseteq Nat
<1>1. n \in Nat
  BY FS_CardinalityType
<1>2. ASSUME NEW i \in K
      PROVE  IsFiniteSet(Upto(i)) /\ Cardinality(Upto(i)) \in 1 .. n
  <2>1. Upto(i) \in SUBSET K /\ i \in Upto(i)
    OBVIOUS
  <2>2. IsFiniteSet(Upto(i)) /\ Cardinality(Upto(i)) <= n
    BY <2>1, FS_Subset
  <2>3. Cardinality(Upto(i)) \in Nat
    BY <2>2, FS_CardinalityType
  <2>4. Cardinality(Upto(i)) # 0
    BY <2>1, <2>2, FS_EmptySet
  <2> QED
    BY <1>1, <2>2, <2>3, <2>4
<1>3. ASSUME NEW i \in K, NEW j \in K, i < j
      PROVE  Rank(K, i) # Rank(K, j)
  <2>1. Upto(i) \subseteq Upto(j) /\ j \in Upto(j) /\ j \notin Upto(i)
    <3>1. \A x \in K : x \in Nat
      OBVIOUS
    <3>2. \A x \in K : x <= i => x <= j
      BY <1>3, <3>1
    <3>3. j <= j /\ ~(j <= i)
      BY <1>3, <3>1
    <3> QED
      BY <3>2, <3>3
  <2>2. Cardinality(Upto(i)) # Cardinality(Upto(j))
    <3>1. Upto(i) \in SUBSET Upto(j) /\ Upto(i) # Upto(j)
      BY <2>1
    <3> HIDE DEF Upto
    <3> QED
      BY <1>2, <3>1, FS_Subset
  <2> QED
    BY <2>2 DEF Rank
<1>4. \A i \in K : Rank(K, i) \in 1 .. n
  BY <1>2 DEF Rank
<1>5. \A i, j \in K : Rank(K, i) = Rank(K, j) => i = j
  BY <1>3
<1>6. f \in Injection(K, 1 .. n)
  BY <1>4, <1>5 DEF Injection, IsInjective
<1>7. IsFiniteSet(1 .. n) /\ Cardinality(1 .. n) = n
  BY <1>1, FS_Interval
<1>8. f \in Surjection(K, 1 .. n)
  BY <1>6, <1>7, FS_Injection
<1>9. \A k \in 1 .. n : \E i \in K : Rank(K, i) = k
  BY <1>8 DEF Surjection
<1> QED
  BY <1>4, <1>5, <1>9

(* Erasing entries leaves a vector of the other entries: the same ones,    *)
(* and no new repetition.                                                  *)
LEMMA WithoutProperties ==
  ASSUME NEW T, NEW seq \in Seq(T), NEW S
  PROVE  /\ Without(seq, S) \in Seq(T)
         /\ Elements(Without(seq, S)) = Elements(seq) \ S
         /\ Distinct(seq) => Distinct(Without(seq, S))
<1> DEFINE K == Kept(seq, S)
           n == Cardinality(K)
           at(k) == CHOOSE i \in K : Rank(K, i) = k
           W == Without(seq, S)
<1>1. Len(seq) \in Nat /\ K \subseteq 1 .. Len(seq) /\ K \subseteq Nat
  BY DEF Kept
<1>2. IsFiniteSet(K) /\ n \in Nat
  <2>1. IsFiniteSet(1 .. Len(seq))
    BY <1>1, FS_Interval
  <2> HIDE DEF K
  <2> QED
    BY <1>1, <2>1, FS_Subset, FS_CardinalityType
<1>3. \A i \in 1 .. Len(seq) : i \in K <=> seq[i] \notin S
  BY DEF Kept
<1>4. CASE K = 1 .. Len(seq)
  <2>1. W = seq
    BY <1>4 DEF Without
  <2>2. Elements(seq) = Elements(seq) \ S
    BY <1>3, <1>4 DEF Elements
  <2> QED
    BY <2>1, <2>2
<1>5. CASE K # 1 .. Len(seq)
  <2>1. \A k \in 1 .. n : at(k) \in K /\ Rank(K, at(k)) = k
    <3> HIDE DEF K
    <3> QED
      BY <1>1, <1>2, RankBijective
  <2>2. \A i \in K : Rank(K, i) \in 1 .. n /\ at(Rank(K, i)) = i
    <3> HIDE DEF K
    <3> QED
      BY <1>1, <1>2, RankBijective
  <2>3. W = [k \in 1 .. n |-> seq[at(k)]]
    BY <1>5 DEF Without
  <2> HIDE DEF K, at, n, W
  <2>4. W \in Seq(T) /\ Len(W) = n
    <3>1. \A k \in 1 .. n : seq[at(k)] \in T
      <4>1. \A i \in 1 .. Len(seq) : seq[i] \in T
        OBVIOUS
      <4> QED
        BY <1>1, <2>1, <4>1
    <3> QED
      BY <1>2, <2>3, <3>1
  <2>5. Elements(W) = Elements(seq) \ S
    <3>1. \A k \in 1 .. n : W[k] \in Elements(seq) \ S
      BY <1>1, <1>3, <2>1, <2>3 DEF Elements
    <3>2. ASSUME NEW i \in 1 .. Len(seq), seq[i] \notin S
          PROVE  \E k \in 1 .. n : W[k] = seq[i]
      BY <1>3, <2>2, <2>3, <3>2
    <3>3. \A e \in Elements(W) : e \in Elements(seq) \ S
      BY <2>4, <3>1 DEF Elements
    <3>4. \A e \in Elements(seq) \ S : e \in Elements(W)
      BY <2>4, <3>2 DEF Elements
    <3> QED
      BY <3>3, <3>4
  <2>6. ASSUME Distinct(seq) PROVE Distinct(W)
    <3>1. ASSUME NEW k \in 1 .. n, NEW l \in 1 .. n, W[k] = W[l]
          PROVE  k = l
      <4>1. seq[at(k)] = seq[at(l)]
        BY <2>3, <3>1
      <4>2. at(k) = at(l)
        BY <1>1, <2>1, <2>6, <4>1 DEF Distinct
      <4> QED
        BY <2>1, <4>2
    <3> QED
      BY <2>4, <3>1 DEF Distinct
  <2> QED
    BY <2>4, <2>5, <2>6 DEF W
<1> QED
  BY <1>4, <1>5

(* Appending a new entry adds it, and no repetition.                       *)
LEMMA AppendListener ==
  ASSUME NEW T, NEW seq \in Seq(T), NEW e \in T
  PROVE  /\ Elements(Append(seq, e)) = Elements(seq) \cup {e}
         /\ Distinct(seq) /\ e \notin Elements(seq) => Distinct(Append(seq, e))
<1>1. /\ Len(Append(seq, e)) = Len(seq) + 1 /\ Len(seq) \in Nat
      /\ \A i \in 1 .. Len(seq) : Append(seq, e)[i] = seq[i]
      /\ Append(seq, e)[Len(seq) + 1] = e
  OBVIOUS
<1>2. \A i \in 1 .. Len(seq) + 1 : i \in 1 .. Len(seq) \/ i = Len(seq) + 1
  BY <1>1
<1>3. 1 .. Len(seq) \subseteq 1 .. Len(seq) + 1 /\ Len(seq) + 1 \in 1 .. Len(seq) + 1
  BY <1>1
<1>4. Elements(Append(seq, e)) = Elements(seq) \cup {e}
  <2>1. \A x \in Elements(Append(seq, e)) : x \in Elements(seq) \cup {e}
    BY <1>1, <1>2 DEF Elements
  <2>2. \A x \in Elements(seq) \cup {e} : x \in Elements(Append(seq, e))
    BY <1>1, <1>3 DEF Elements
  <2> QED
    BY <2>1, <2>2
<1>5. ASSUME Distinct(seq), e \notin Elements(seq) PROVE Distinct(Append(seq, e))
  BY <1>1, <1>2, <1>5 DEF Distinct, Elements
<1> QED
  BY <1>4, <1>5

(* The head of a sequence and the elements of its tail are its elements.   *)
LEMMA HeadElements ==
  ASSUME NEW T, NEW seq \in Seq(T), seq # <<>>
  PROVE  /\ Head(seq) \in T /\ Head(seq) \in Elements(seq)
         /\ Elements(seq) = Elements(Tail(seq)) \cup {Head(seq)}
<1>1. Len(seq) \in Nat /\ 1 \in 1 .. Len(seq) /\ Head(seq) = seq[1]
  OBVIOUS
<1>2. Len(Tail(seq)) = Len(seq) - 1 /\ \A i \in 1 .. Len(seq) - 1 : Tail(seq)[i] = seq[i + 1]
  OBVIOUS
<1>3. Head(seq) \in T
  OBVIOUS
<1>4. Head(seq) \in Elements(seq)
  BY <1>1 DEF Elements
<1>5. ASSUME NEW x \in Elements(seq)
      PROVE  x \in Elements(Tail(seq)) \cup {Head(seq)}
  <2>1. PICK i \in 1 .. Len(seq) : x = seq[i]
    BY DEF Elements
  <2>2. CASE i = 1
    BY <1>1, <2>1, <2>2
  <2>3. CASE i # 1
    <3>1. i - 1 \in 1 .. Len(seq) - 1 /\ (i - 1) + 1 = i
      BY <1>1, <2>3
    <3>2. x = Tail(seq)[i - 1] /\ i - 1 \in 1 .. Len(Tail(seq))
      BY <1>2, <2>1, <3>1
    <3> QED
      BY <3>2 DEF Elements
  <2> QED
    BY <2>2, <2>3
<1>6. ASSUME NEW x \in Elements(Tail(seq))
      PROVE  x \in Elements(seq)
  <2>1. PICK i \in 1 .. Len(Tail(seq)) : x = Tail(seq)[i]
    BY DEF Elements
  <2>2. i \in 1 .. Len(seq) - 1 /\ i + 1 \in 1 .. Len(seq)
    BY <1>1, <1>2
  <2>3. x = seq[i + 1]
    BY <1>2, <2>1, <2>2
  <2> QED
    BY <2>2, <2>3 DEF Elements
<1> QED
  BY <1>3, <1>4, <1>5, <1>6

(* What is left of a vector, position by position: where each remaining    *)
(* entry was, and that the order is kept.                                  *)
LEMMA WithoutPositions ==
  ASSUME NEW T, NEW seq \in Seq(T), NEW S
  PROVE  LET K == Kept(seq, S)
             W == Without(seq, S)
         IN /\ K \subseteq 1 .. Len(seq)
            /\ IsFiniteSet(K)
            /\ Len(W) = Cardinality(K)
            /\ \A i \in K : Rank(K, i) \in 1 .. Len(W) /\ W[Rank(K, i)] = seq[i]
            /\ \A k \in 1 .. Len(W) : \E i \in K : Rank(K, i) = k
            /\ \A i, j \in K : i < j => Rank(K, i) < Rank(K, j)
<1> DEFINE K == Kept(seq, S)
           n == Cardinality(K)
           W == Without(seq, S)
           at(k) == CHOOSE i \in K : Rank(K, i) = k
<1>1. Len(seq) \in Nat /\ K \subseteq 1 .. Len(seq) /\ K \subseteq Nat
  BY DEF Kept
<1>2. IsFiniteSet(K) /\ n \in Nat
  <2>1. IsFiniteSet(1 .. Len(seq))
    BY <1>1, FS_Interval
  <2> HIDE DEF K
  <2> QED
    BY <1>1, <2>1, FS_Subset, FS_CardinalityType
<1>3. /\ \A i \in K : Rank(K, i) \in 1 .. n
      /\ \A i, j \in K : Rank(K, i) = Rank(K, j) => i = j
      /\ \A k \in 1 .. n : \E i \in K : Rank(K, i) = k
  <2> HIDE DEF K
  <2> QED
    BY <1>1, <1>2, RankBijective
<1>4. ASSUME NEW i \in K, NEW j \in K, i < j
      PROVE  Rank(K, i) < Rank(K, j)
  <2> DEFINE A == {x \in K : x <= i}
             B == {x \in K : x <= j}
  <2>1. A \in SUBSET B /\ B \in SUBSET K
    <3>1. \A x \in K : x \in Nat /\ i \in Nat /\ j \in Nat
      BY <1>1
    <3> QED
      BY <1>4, <3>1
  <2>2. IsFiniteSet(B)
    BY <1>2, <2>1, FS_Subset
  <2>3. Cardinality(A) <= Cardinality(B) /\ Cardinality(A) \in Nat /\ Cardinality(B) \in Nat
    BY <2>1, <2>2, FS_Subset, FS_CardinalityType
  <2>4. Rank(K, i) = Cardinality(A) /\ Rank(K, j) = Cardinality(B)
    BY DEF Rank
  <2>5. Rank(K, i) # Rank(K, j)
    <3>1. i # j
      BY <1>1, <1>4
    <3> QED
      BY <1>3, <3>1
  <2> QED
    BY <2>3, <2>4, <2>5
<1>5. CASE K = 1 .. Len(seq)
  <2>1. W = seq
    BY <1>5 DEF Without
  <2>2. n = Len(seq)
    BY <1>1, <1>5, FS_Interval
  <2>3. ASSUME NEW i \in 1 .. Len(seq)
        PROVE  Rank(K, i) = i
    <3>1. {j \in K : j <= i} = 1 .. i
      BY <1>1, <1>5
    <3>2. Cardinality(1 .. i) = i
      BY <1>1, FS_Interval
    <3> QED
      BY <3>1, <3>2 DEF Rank
  <2>4. \A i \in K : W[Rank(K, i)] = seq[i]
    BY <1>5, <2>1, <2>3
  <2> QED
    BY <1>1, <1>2, <1>3, <1>4, <2>1, <2>2, <2>4
<1>6. CASE K # 1 .. Len(seq)
  <2>1. W = [k \in 1 .. n |-> seq[at(k)]]
    BY <1>6 DEF Without
  <2>2. \A i \in K : at(Rank(K, i)) = i
    BY <1>3
  <2> HIDE DEF K, n, at, W
  <2>3. Len(W) = n
    <3>1. DOMAIN W = 1 .. n
      BY <2>1
    <3>2. W \in Seq(T)
      BY WithoutProperties DEF W
    <3> QED
      BY <1>2, <3>1, <3>2
  <2>4. \A i \in K : W[Rank(K, i)] = seq[i]
    BY <1>3, <2>1, <2>2
  <2> QED
    BY <1>1, <1>2, <1>3, <1>4, <2>3, <2>4 DEF K, n, W
<1> QED
  BY <1>5, <1>6

(* V is what is left of seq without S: h gives the position in seq of each *)
(* entry of V, in order, and hits exactly the entries outside S.           *)
Leaves(h, seq, S, V) ==
  /\ h \in [1 .. Len(V) -> 1 .. Len(seq)]
  /\ \A k, l \in 1 .. Len(V) : k < l => h[k] < h[l]
  /\ \A k \in 1 .. Len(V) : V[k] = seq[h[k]] /\ seq[h[k]] \notin S
  /\ \A i \in 1 .. Len(seq) : seq[i] \notin S => \E k \in 1 .. Len(V) : h[k] = i

(* Without leaves exactly that ...                                         *)
LEMMA WithoutLeaves ==
  ASSUME NEW T, NEW seq \in Seq(T), NEW S
  PROVE  \E h : Leaves(h, seq, S, Without(seq, S))
<1> DEFINE K == Kept(seq, S)
           W == Without(seq, S)
           h == [k \in 1 .. Len(W) |-> CHOOSE i \in K : Rank(K, i) = k]
<1>1. /\ K \subseteq 1 .. Len(seq)
      /\ \A i \in K : Rank(K, i) \in 1 .. Len(W) /\ W[Rank(K, i)] = seq[i]
      /\ \A k \in 1 .. Len(W) : \E i \in K : Rank(K, i) = k
      /\ \A i, j \in K : i < j => Rank(K, i) < Rank(K, j)
  BY WithoutPositions
<1>2. \A i \in 1 .. Len(seq) : i \in K <=> seq[i] \notin S
  BY DEF Kept
<1>3. W \in Seq(T) /\ Len(W) \in Nat /\ Len(seq) \in Nat
  BY WithoutProperties
<1> HIDE DEF K, W
<1>4. \A k \in 1 .. Len(W) : h[k] \in K /\ Rank(K, h[k]) = k
  BY <1>1
<1>5. ASSUME NEW i \in K, NEW j \in K, Rank(K, i) = Rank(K, j)
      PROVE  i = j
  <2>1. i \in Nat /\ j \in Nat /\ Rank(K, i) \in Nat /\ Rank(K, j) \in Nat
    BY <1>1, <1>3
  <2> QED
    BY <1>1, <1>5, <2>1
<1>6. ASSUME NEW k \in 1 .. Len(W), NEW l \in 1 .. Len(W), k < l
      PROVE  h[k] < h[l]
  <2>1. h[k] \in K /\ h[l] \in K /\ Rank(K, h[k]) = k /\ Rank(K, h[l]) = l
    BY <1>4
  <2> HIDE DEF h
  <2>2. h[k] \in Nat /\ h[l] \in Nat /\ k \in Nat /\ l \in Nat
    BY <1>1, <1>3, <2>1
  <2>3. ~(h[l] < h[k]) /\ h[l] # h[k]
    BY <1>1, <1>6, <2>1, <2>2
  <2> QED
    BY <2>2, <2>3
<1>7. h \in [1 .. Len(W) -> 1 .. Len(seq)]
  BY <1>1, <1>4
<1>8. \A k \in 1 .. Len(W) : W[k] = seq[h[k]] /\ seq[h[k]] \notin S
  BY <1>1, <1>2, <1>4
<1>9. ASSUME NEW i \in 1 .. Len(seq), seq[i] \notin S
      PROVE  \E k \in 1 .. Len(W) : h[k] = i
  <2>1. i \in K /\ Rank(K, i) \in 1 .. Len(W)
    BY <1>1, <1>2, <1>9
  <2>2. h[Rank(K, i)] = i
    BY <1>4, <1>5, <2>1
  <2> QED
    BY <2>1, <2>2
<1>10. Leaves(h, seq, S, W)
  <2> HIDE DEF h
  <2> QED
    BY <1>6, <1>7, <1>8, <1>9 DEF Leaves
<1> QED
  BY <1>10 DEF W

(* ... and nothing else does.                                              *)
LEMMA LeavesUnique ==
  ASSUME NEW T, NEW seq \in Seq(T), NEW S, NEW V \in Seq(T), NEW h, Leaves(h, seq, S, V)
  PROVE  V = Without(seq, S)
<1> DEFINE K == Kept(seq, S)
           W == Without(seq, S)
           n == Len(V)
<1>1. /\ K \subseteq 1 .. Len(seq)
      /\ Len(W) = Cardinality(K)
      /\ \A i \in K : Rank(K, i) \in 1 .. Len(W) /\ W[Rank(K, i)] = seq[i]
  BY WithoutPositions
<1>2. W \in Seq(T) /\ n \in Nat /\ Len(seq) \in Nat
  BY WithoutProperties
<1>3. h \in [1 .. n -> K]
  BY DEF Leaves, Kept
<1>4. \A i \in K : \E k \in 1 .. n : h[k] = i
  BY DEF Leaves, Kept
<1>5. \A k, l \in 1 .. n : k < l => h[k] < h[l]
  BY DEF Leaves
<1>6. \A k \in 1 .. n : V[k] = seq[h[k]]
  BY DEF Leaves
<1>7. \A i \in K : i \in Nat
  BY <1>1, <1>2
<1> HIDE DEF K, W
<1>8. ASSUME NEW A, NEW m \in 0 .. n, A = {h[l] : l \in 1 .. m}
      PROVE  IsFiniteSet(A) /\ Cardinality(A) = m
  <2> DEFINE g == [l \in 1 .. m |-> h[l]]
  <2>1. \A l \in 1 .. m : l \in 1 .. n
    BY <1>2
  <2>2. \A l, k \in 1 .. m : h[l] = h[k] => l = k
    <3>1. \A l \in 1 .. m : h[l] \in Nat
      BY <1>3, <1>7, <2>1
    <3>2. \A l, k \in 1 .. m : l < k \/ k < l \/ l = k
      BY <1>2
    <3> QED
      BY <1>5, <2>1, <3>1, <3>2
  <2>3. g \in Bijection(1 .. m, A)
    BY <1>8, <2>2 DEF Bijection, Injection, Surjection, IsInjective
  <2>4. IsFiniteSet(1 .. m) /\ Cardinality(1 .. m) = m
    BY <1>2, FS_Interval
  <2>5. ExistsBijection(1 .. m, A)
    BY <2>3 DEF ExistsBijection
  <2> QED
    BY <2>4, <2>5, FS_Bijection
<1>9. Len(W) = n
  <2>1. K = {h[l] : l \in 1 .. n} /\ n \in 0 .. n
    BY <1>2, <1>3, <1>4
  <2>2. Cardinality(K) = n
    BY <1>8, <2>1
  <2> QED
    BY <1>1, <2>2
<1>10. ASSUME NEW k \in 1 .. n
      PROVE  Rank(K, h[k]) = k
  <2>1. \A l \in 1 .. n : h[l] <= h[k] <=> l <= k
    <3>1. \A l \in 1 .. n : h[l] \in Nat /\ l \in Nat
      BY <1>2, <1>3, <1>7
    <3>2. \A l \in 1 .. n : l < k \/ k < l \/ l = k
      BY <1>2
    <3> QED
      BY <1>5, <3>1, <3>2
  <2>2. {j \in K : j <= h[k]} = {h[l] : l \in 1 .. k}
    <3>1. \A j \in K : j <= h[k] => \E l \in 1 .. k : h[l] = j
      BY <1>2, <1>4, <2>1
    <3>2. \A l \in 1 .. k : h[l] \in K /\ h[l] <= h[k]
      BY <1>2, <1>3, <2>1
    <3> QED
      BY <3>1, <3>2
  <2>3. k \in 0 .. n
    BY <1>2
  <2> QED
    BY <1>8, <2>2, <2>3 DEF Rank
<1>11. \A k \in 1 .. n : W[k] = V[k]
  BY <1>1, <1>3, <1>6, <1>10
<1>12. V = W
  BY <1>2, <1>9, <1>11
<1> QED
  BY <1>12 DEF W

(* Erasing twice is erasing both at once.                                  *)
LEMMA WithoutTwice ==
  ASSUME NEW T, NEW seq \in Seq(T), NEW A, NEW B
  PROVE  Without(Without(seq, A), B) = Without(seq, A \cup B)
<1> DEFINE U == Without(seq, A)
           V == Without(U, B)
<1>1. U \in Seq(T) /\ V \in Seq(T)
  <2>1. U \in Seq(T)
    BY WithoutProperties
  <2> HIDE DEF U
  <2> QED
    BY <2>1, WithoutProperties
<1>2. PICK f : Leaves(f, seq, A, U)
  BY WithoutLeaves
<1>3. PICK g : Leaves(g, U, B, V)
  <2> HIDE DEF U
  <2> QED
    BY <1>1, WithoutLeaves
<1> HIDE DEF U, V
<1> DEFINE h == [k \in 1 .. Len(V) |-> f[g[k]]]
<1>4. \A k \in 1 .. Len(V) : g[k] \in 1 .. Len(U) /\ f[g[k]] \in 1 .. Len(seq)
  BY <1>2, <1>3 DEF Leaves
<1>5. \A k, l \in 1 .. Len(V) : k < l => h[k] < h[l]
  BY <1>2, <1>3, <1>4 DEF Leaves
<1>6. \A k \in 1 .. Len(V) : V[k] = seq[h[k]] /\ seq[h[k]] \notin A \cup B
  BY <1>2, <1>3, <1>4 DEF Leaves
<1>7. ASSUME NEW i \in 1 .. Len(seq), seq[i] \notin A \cup B
      PROVE  \E k \in 1 .. Len(V) : h[k] = i
  <2>1. PICK j \in 1 .. Len(U) : f[j] = i
    BY <1>2, <1>7 DEF Leaves
  <2>2. U[j] = seq[i]
    BY <1>2, <2>1 DEF Leaves
  <2>3. PICK k \in 1 .. Len(V) : g[k] = j
    BY <1>3, <1>7, <2>2 DEF Leaves
  <2> QED
    BY <2>1, <2>3
<1>8. h \in [1 .. Len(V) -> 1 .. Len(seq)]
  BY <1>4
<1>9. Leaves(h, seq, A \cup B, V)
  <2> HIDE DEF h
  <2> QED
    BY <1>5, <1>6, <1>7, <1>8 DEF Leaves
<1>10. V = Without(seq, A \cup B)
  BY <1>1, <1>9, LeavesUnique
<1> QED
  BY <1>10 DEF U, V

(* An entry that is not to be erased may as well be appended afterwards.   *)
LEMMA WithoutAppend ==
  ASSUME NEW T, NEW seq \in Seq(T), NEW e \in T, NEW S, e \notin S
  PROVE  Without(Append(seq, e), S) = Append(Without(seq, S), e)
<1> DEFINE W == Without(seq, S)
           V == Append(W, e)
           X == Append(seq, e)
<1>1. W \in Seq(T)
  BY WithoutProperties
<1>2. PICK f : Leaves(f, seq, S, W)
  BY WithoutLeaves
<1> HIDE DEF W
<1>3. /\ V \in Seq(T) /\ X \in Seq(T)
      /\ Len(V) = Len(W) + 1 /\ Len(X) = Len(seq) + 1
      /\ Len(W) \in Nat /\ Len(seq) \in Nat
      /\ \A k \in 1 .. Len(W) : V[k] = W[k]
      /\ \A i \in 1 .. Len(seq) : X[i] = seq[i]
      /\ V[Len(W) + 1] = e /\ X[Len(seq) + 1] = e
  BY <1>1
<1> DEFINE h == [k \in 1 .. Len(V) |-> IF k = Len(W) + 1 THEN Len(seq) + 1 ELSE f[k]]
<1> HIDE DEF V, X
<1>4. \A k \in 1 .. Len(V) : k \in 1 .. Len(W) \/ k = Len(W) + 1
  BY <1>3
<1>5. \A i \in 1 .. Len(X) : i \in 1 .. Len(seq) \/ i = Len(seq) + 1
  BY <1>3
<1>6. /\ \A k \in 1 .. Len(W) : k \in 1 .. Len(V) /\ k # Len(W) + 1 /\ h[k] = f[k]
      /\ Len(W) + 1 \in 1 .. Len(V) /\ h[Len(W) + 1] = Len(seq) + 1
  BY <1>3
<1>7. \A k \in 1 .. Len(W) : f[k] \in 1 .. Len(seq) /\ f[k] \in 1 .. Len(X)
  BY <1>2, <1>3 DEF Leaves
<1>8. h \in [1 .. Len(V) -> 1 .. Len(X)]
  <2>1. Len(seq) + 1 \in 1 .. Len(X)
    BY <1>3
  <2> QED
    BY <1>4, <1>7, <2>1
<1> HIDE DEF h
<1>9. \A k, l \in 1 .. Len(V) : k < l => h[k] < h[l]
  <2>1. ASSUME NEW k \in 1 .. Len(V), NEW l \in 1 .. Len(V), k < l
        PROVE  k \in 1 .. Len(W)
    BY <1>3, <2>1
  <2>2. ASSUME NEW k \in 1 .. Len(W), NEW l \in 1 .. Len(W), k < l
        PROVE  h[k] < h[l]
    BY <1>2, <1>6, <2>2 DEF Leaves
  <2>3. ASSUME NEW k \in 1 .. Len(W)
        PROVE  h[k] < h[Len(W) + 1]
    BY <1>3, <1>6, <1>7
  <2> QED
    BY <1>4, <2>1, <2>2, <2>3
<1>10. \A k \in 1 .. Len(V) : V[k] = X[h[k]] /\ X[h[k]] \notin S
  <2>1. ASSUME NEW k \in 1 .. Len(W)
        PROVE  V[k] = X[h[k]] /\ X[h[k]] \notin S
    BY <1>2, <1>3, <1>6, <1>7 DEF Leaves
  <2> QED
    BY <1>3, <1>4, <1>6, <2>1
<1>11. ASSUME NEW i \in 1 .. Len(X), X[i] \notin S
       PROVE  \E k \in 1 .. Len(V) : h[k] = i
  <2>1. CASE i \in 1 .. Len(seq)
    <3>1. \E k \in 1 .. Len(W) : f[k] = i
      BY <1>2, <1>3, <1>11, <2>1 DEF Leaves
    <3> QED
      BY <1>6, <3>1
  <2> QED
    BY <1>5, <1>6, <2>1
<1>12. Leaves(h, X, S, V)
  BY <1>8, <1>9, <1>10, <1>11 DEF Leaves
<1>13. V = Without(X, S)
  BY <1>3, <1>12, LeavesUnique
<1> QED
  BY <1>13 DEF V, W, X

================================================================================
