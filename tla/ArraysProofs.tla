---------------------------- MODULE ArraysProofs ----------------------------
(***************************************************************************)
(* What filter and sort leave of every array. What a recursive function     *)
(* computes is proved by induction over the numbers, which is stated here   *)
(* with a set in the place of a predicate.                                  *)
(***************************************************************************)
EXTENDS Arrays, Functions, FiniteSetTheorems, SequenceTheorems, NaturalsInduction, WellFoundedInduction, TLAPS

(* Numbers have a least one.                                                *)
LEMMA LeastNumber ==
  ASSUME NEW T \in SUBSET Nat, T # {}
  PROVE  \E m \in T : \A n \in T : m <= n
<1> DEFINE R == OpToRel(<, Nat)
<1>1. IsWellFoundedOn(R, Nat)
  BY NatLessThanWellFounded
<1>2. R = {ss \in Nat \X Nat : ss[1] < ss[2]}
  BY DEF OpToRel
<1> HIDE DEF R
<1>3. PICK m \in T : \A n \in T : ~(<<n, m>> \in R)
  BY <1>1, WFMin
<1>4. ASSUME NEW n \in T PROVE m <= n
  <2>1. <<n, m>> \in R <=> n < m
    BY <1>2
  <2> QED BY <1>3, <2>1
<1> QED
  BY <1>4

(* A set of numbers that has 0 and with a number the next has them all.     *)
LEMMA NumberInduction ==
  ASSUME NEW S, 0 \in S, \A n \in Nat : n \in S => n + 1 \in S
  PROVE  Nat \subseteq S
<1> DEFINE T == Nat \ S
<1> SUFFICES ASSUME T # {} PROVE FALSE
  OBVIOUS
<1>1. PICK m \in T : \A n \in T : m <= n
  BY LeastNumber
<1>2. m # 0 /\ m - 1 \in Nat /\ m - 1 \in S
  BY <1>1
<1> QED
  BY <1>1, <1>2

(* A recursive function over the numbers up to n exists.                    *)
StepFunctions(n, X) == [(1..n) \X X -> X]
LEMMA RecursiveFunction ==
  ASSUME NEW X, NEW n \in Nat, NEW a \in X, NEW step \in StepFunctions(n, X)
  PROVE  \E f \in [0..n -> X] : f[0] = a /\ \A i \in 1..n : f[i] = step[<<i, f[i - 1]>>]
<1> DEFINE Good(k, f) == f[0] = a /\ \A i \in 1..k : f[i] = step[<<i, f[i - 1]>>]
           S == {k \in Nat : k <= n => \E f \in [0..k -> X] : Good(k, f)}
<1>1. 0 \in S
  <2> DEFINE f == [i \in 0..0 |-> a]
  <2>1. f \in [0..0 -> X] /\ Good(0, f)
    OBVIOUS
  <2> QED BY <2>1
<1>2. ASSUME NEW k \in Nat, k \in S PROVE k + 1 \in S
  <2> SUFFICES ASSUME k + 1 <= n PROVE \E g \in [0..(k + 1) -> X] : Good(k + 1, g)
    OBVIOUS
  <2>1. PICK f \in [0..k -> X] : Good(k, f)
    BY <1>2
  <2>2. step[<<k + 1, f[k]>>] \in X
    BY <2>1 DEF StepFunctions
  <2> DEFINE g == [i \in 0..(k + 1) |-> IF i = k + 1 THEN step[<<k + 1, f[k]>>] ELSE f[i]]
  <2>3. g \in [0..(k + 1) -> X] /\ g[0] = a
    BY <2>1, <2>2
  <2>4. ASSUME NEW i \in 1..(k + 1) PROVE g[i] = step[<<i, g[i - 1]>>]
    <3>1. i - 1 \in 0..k /\ g[i - 1] = f[i - 1]
      OBVIOUS
    <3>2. CASE i = k + 1
      <4>1. g[k + 1] = step[<<k + 1, f[k]>>] /\ i - 1 = k
        BY <3>2
      <4> QED BY <3>1, <3>2, <4>1
    <3>3. CASE i # k + 1
      <4>1. i \in 1..k /\ g[i] = f[i]
        BY <3>3
      <4> QED BY <2>1, <3>1, <4>1
    <3> QED BY <3>2, <3>3
  <2> QED BY <2>3, <2>4
<1> HIDE DEF S
<1>3. Nat \subseteq S
  BY <1>1, <1>2, NumberInduction
<1>4. n \in S
  BY <1>3
<1>5. \E f \in [0..n -> X] : Good(n, f)
  BY <1>4 DEF S
<1> QED
  BY <1>5

-----------------------------------------------------------------------------

(* What is in an array.                                                     *)
Entries(s) == {s[i] : i \in DOMAIN s}

(* filter leaves of an array what is in keep, in its order, and no two that *)
(* are equal where there were none.                                         *)
LEMMA FilterKeeps ==
  ASSUME NEW T, NEW s \in Seq(T), NEW keep
  PROVE  /\ Filtered(s, keep) \in Seq(T)
         /\ Entries(Filtered(s, keep)) = Entries(s) \intersect keep
         /\ IsInjective(s) => IsInjective(Filtered(s, keep))
         /\ Len(Filtered(s, keep)) <= Len(s)
<1> DEFINE n == Len(s)
           Kept(k) == k = [i \in 0..n |-> IF i = 0 THEN <<>>
                                          ELSE IF s[i] \in keep THEN Append(k[i - 1], s[i]) ELSE k[i - 1]]
           kept == CHOOSE k : Kept(k)
<1>1. Filtered(s, keep) = kept[n]
  BY DEF Filtered
<1>2. n \in Nat /\ s \in [1..n -> T]
  OBVIOUS
<1>3. \E k : Kept(k)
  <2> DEFINE X == Seq(T)
             a == <<>>
             step == [p \in (1..n) \X X |-> IF s[p[1]] \in keep THEN Append(p[2], s[p[1]]) ELSE p[2]]
  <2>1. step \in StepFunctions(n, X)
    BY <1>2 DEF StepFunctions
  <2>2. a \in X
    OBVIOUS
  <2> HIDE DEF step, X, a, n
  <2>3. PICK k \in [0..n -> X] : k[0] = a /\ \A i \in 1..n : k[i] = step[<<i, k[i - 1]>>]
    <3>1. n \in Nat
      BY <1>2
    <3> QED BY <3>1, <2>1, <2>2, RecursiveFunction
  <2>4. ASSUME NEW i \in 0..n
        PROVE  k[i] = IF i = 0 THEN a ELSE IF s[i] \in keep THEN Append(k[i - 1], s[i]) ELSE k[i - 1]
    <3>1. CASE i = 0
      BY <2>3, <3>1
    <3>2. CASE i # 0
      <4>1. i \in 1..n /\ i - 1 \in 0..n /\ k[i - 1] \in X /\ <<i, k[i - 1]>> \in (1..n) \X X
        BY <1>2, <3>2
      <4>2. k[i] = step[<<i, k[i - 1]>>]
        BY <2>3, <4>1
      <4> QED BY <3>2, <4>1, <4>2 DEF step
    <3> QED BY <3>1, <3>2
  <2>5. k = [i \in 0..n |-> IF i = 0 THEN a ELSE IF s[i] \in keep THEN Append(k[i - 1], s[i]) ELSE k[i - 1]]
    <3>1. DOMAIN k = 0..n /\ k = [i \in DOMAIN k |-> k[i]]
      BY <2>3
    <3> QED BY <2>4, <3>1
  <2>6. Kept(k)
    BY <2>5 DEF a
  <2> QED BY <2>6
<1>4. Kept(kept)
  BY <1>3
<1> HIDE DEF kept
<1>5. ASSUME NEW i \in 0..n
      PROVE  kept[i] = IF i = 0 THEN <<>> ELSE IF s[i] \in keep THEN Append(kept[i - 1], s[i]) ELSE kept[i - 1]
  BY <1>4
<1> DEFINE Some(i) == {s[j] : j \in 1..i} \intersect keep
           Good(r, i) == /\ r \in Seq(T) /\ Len(r) <= i
                         /\ {r[j] : j \in 1..Len(r)} = Some(i)
                         /\ IsInjective(s) => IsInjective(r)
           S == {i \in Nat : i <= n => Good(kept[i], i)}
<1>6. 0 \in S
  <2>1. kept[0] = <<>> /\ <<>> \in Seq(T) /\ Len(<<>>) = 0 /\ DOMAIN <<>> = 1..0
    BY <1>2, <1>5
  <2>2. IsInjective(<<>>)
    BY <2>1 DEF IsInjective
  <2>3. Some(0) = {} /\ {kept[0][j] : j \in 1..Len(kept[0])} = {}
    BY <2>1
  <2>4. Len(kept[0]) <= 0
    BY <2>1
  <2>5. Good(kept[0], 0)
    BY <2>1, <2>2, <2>3, <2>4
  <2> HIDE DEF Good
  <2> QED BY <2>5
<1>7. ASSUME NEW i \in Nat, i \in S PROVE i + 1 \in S
  <2> HIDE DEF Good
  <2> SUFFICES ASSUME i + 1 <= n PROVE Good(kept[i + 1], i + 1)
    OBVIOUS
  <2> DEFINE r == kept[i]
             x == s[i + 1]
  <2>0. /\ Good(r, i) /\ i \in 0..n /\ i + 1 \in 0..n /\ i + 1 \in 1..n /\ x \in T
        /\ {s[j] : j \in 1..(i + 1)} = {s[j] : j \in 1..i} \union {x}
    <3>1. i \in 0..n /\ i + 1 \in 0..n /\ i + 1 \in 1..n
      BY <1>2
    <3> QED BY <1>2, <1>7, <3>1
  <2> USE DEF Good
  <2>1. kept[i + 1] = IF x \in keep THEN Append(r, x) ELSE r
    BY <1>5, <2>0
  <2> HIDE DEF r, x
  <2>2. CASE x \notin keep
    <3>1. Len(r) <= i + 1
      BY <2>0
    <3>2. Some(i + 1) = Some(i)
      BY <2>0, <2>2
    <3> QED BY <2>0, <2>1, <2>2, <3>1, <3>2
  <2>3. CASE x \in keep
    <3>1. /\ kept[i + 1] = Append(r, x) /\ Append(r, x) \in Seq(T)
          /\ Len(Append(r, x)) = Len(r) + 1 /\ Append(r, x)[Len(r) + 1] = x
          /\ \A j \in 1..Len(r) : Append(r, x)[j] = r[j]
      BY <2>0, <2>1, <2>3
    <3>2. {Append(r, x)[j] : j \in 1..Len(Append(r, x))} = {r[j] : j \in 1..Len(r)} \union {x}
      BY <2>0, <3>1
    <3>3. Some(i + 1) = Some(i) \union {x}
      BY <2>0, <2>3
    <3>4. ASSUME IsInjective(s) PROVE IsInjective(Append(r, x))
      <4>1. \A j \in 1..i : s[j] # x
        BY <1>2, <2>0, <3>4 DEF IsInjective, x
      <4>2. \A j \in 1..Len(r) : r[j] # x
        BY <2>0, <4>1
      <4> QED BY <2>0, <3>1, <3>4, <4>2 DEF IsInjective
    <3> QED BY <2>0, <3>1, <3>2, <3>3, <3>4
  <2> QED BY <2>2, <2>3
<1> HIDE DEF S
<1>8. n \in S
  BY <1>2, <1>6, <1>7, NumberInduction
<1>9. Good(kept[n], n)
  BY <1>2, <1>8 DEF S
<1>10. Some(n) = Entries(s) \intersect keep
  BY <1>2 DEF Entries
<1>11. Entries(kept[n]) = {kept[n][j] : j \in 1..Len(kept[n])}
  BY <1>9 DEF Entries
<1> QED BY <1>1, <1>9, <1>10, <1>11

(* Places are numbered from 1 to n, and a later entry has a later one.      *)
LEMMA PlacesDiffer ==
  ASSUME NEW n \in Nat, NEW number \in [1..n -> Int]
  PROVE  /\ \A i \in 1..n : PlaceAmong(n, number, i) \in 1..n
         /\ \A i, j \in 1..n :
              number[i] < number[j] \/ (number[i] = number[j] /\ i < j)
                => PlaceAmong(n, number, i) < PlaceAmong(n, number, j)
<1> DEFINE B(i) == {j \in 1..n : number[j] < number[i] \/ (number[j] = number[i] /\ j <= i)}
<1>1. IsFiniteSet(1..n) /\ Cardinality(1..n) = n
  BY FS_Interval
<1>2. ASSUME NEW i \in 1..n
      PROVE  IsFiniteSet(B(i)) /\ Cardinality(B(i)) \in 1..n /\ i \in B(i)
  <2>1. B(i) \subseteq 1..n /\ i \in B(i)
    OBVIOUS
  <2>2. IsFiniteSet(B(i)) /\ Cardinality(B(i)) <= n
    BY <1>1, <2>1, FS_Subset
  <2>3. Cardinality(B(i)) \in Nat /\ Cardinality(B(i)) # 0
    BY <2>1, <2>2, FS_CardinalityType, FS_EmptySet
  <2> QED BY <2>1, <2>2, <2>3
<1>3. ASSUME NEW i \in 1..n, NEW j \in 1..n,
             number[i] < number[j] \/ (number[i] = number[j] /\ i < j)
      PROVE  Cardinality(B(i)) < Cardinality(B(j))
  <2>1. B(i) \subseteq B(j) /\ j \notin B(i)
    BY <1>3
  <2>2. Cardinality(B(i)) <= Cardinality(B(j)) /\ (Cardinality(B(i)) = Cardinality(B(j)) => B(i) = B(j))
    BY <1>2, <2>1, FS_Subset
  <2>3. B(i) # B(j)
    BY <1>2, <2>1
  <2> HIDE DEF B
  <2>4. Cardinality(B(i)) \in Int /\ Cardinality(B(j)) \in Int
    BY <1>2
  <2> QED BY <2>2, <2>3, <2>4
<1> QED BY <1>2, <1>3 DEF PlaceAmong

(* sort puts the entries, each of them once, in ascending order.            *)
LEMMA SortOrders ==
  ASSUME NEW T, NEW s \in Seq(T), NEW number \in [1..Len(s) -> Int]
  PROVE  /\ Sorted(s, number) \in Seq(T) /\ Len(Sorted(s, number)) = Len(s)
         /\ \E p \in [1..Len(s) -> 1..Len(s)] :
              /\ \A r \in 1..Len(s) : Sorted(s, number)[r] = s[p[r]]
              /\ \A q, r \in 1..Len(s) : q < r => number[p[q]] <= number[p[r]]
<1> DEFINE n == Len(s)
           Rank(i) == PlaceAmong(n, number, i)
           p == [r \in 1..n |-> CHOOSE i \in 1..n : Rank(i) = r]
<1>1. n \in Nat /\ DOMAIN s = 1..n /\ s \in [1..n -> T]
  OBVIOUS
<1>2. /\ \A i \in 1..n : Rank(i) \in 1..n
      /\ \A i, j \in 1..n : number[i] < number[j] \/ (number[i] = number[j] /\ i < j) => Rank(i) < Rank(j)
  BY <1>1, PlacesDiffer
<1>3. Sorted(s, number) = [r \in 1..n |-> s[p[r]]]
  BY DEF Sorted
<1> HIDE DEF Rank
<1>4. \A r \in 1..n : \E i \in 1..n : Rank(i) = r
  <2> DEFINE f == [i \in 1..n |-> Rank(i)]
  <2>1. f \in Injection(1..n, 1..n)
    <3>1. f \in [1..n -> 1..n]
      BY <1>2
    <3>2. ASSUME NEW i \in 1..n, NEW j \in 1..n, f[i] = f[j] PROVE i = j
      <4>1. Rank(i) \in Int /\ Rank(j) \in Int /\ Rank(i) = Rank(j)
        BY <1>2, <3>2
      <4>2. number[i] \in Int /\ number[j] \in Int
        BY <1>1
      <4>3. ~(number[i] < number[j]) /\ ~(number[j] < number[i])
        BY <1>2, <4>1
      <4>4. number[i] = number[j]
        BY <4>2, <4>3
      <4>5. ~(i < j) /\ ~(j < i)
        BY <1>2, <4>1, <4>4
      <4> QED BY <4>5
    <3> QED BY <3>1, <3>2 DEF Injection, IsInjective
  <2>2. IsFiniteSet(1..n)
    BY <1>1, FS_Interval
  <2>3. f \in Surjection(1..n, 1..n)
    BY <2>1, <2>2, FS_Injection
  <2> QED BY <2>3 DEF Surjection
<1>5. \A r \in 1..n : p[r] \in 1..n /\ Rank(p[r]) = r
  BY <1>4
<1>6. p \in [1..n -> 1..n]
  BY <1>5
<1> HIDE DEF p
<1>7. ASSUME NEW q \in 1..n, NEW r \in 1..n, q < r PROVE number[p[q]] <= number[p[r]]
  <2>1. p[q] \in 1..n /\ p[r] \in 1..n /\ number[p[q]] \in Int /\ number[p[r]] \in Int
    BY <1>1, <1>5
  <2>2. number[p[r]] < number[p[q]] => r < q
    BY <1>2, <1>5, <2>1
  <2> QED BY <1>7, <2>1, <2>2
<1>8. Sorted(s, number) \in Seq(T) /\ Len(Sorted(s, number)) = n
  BY <1>1, <1>3, <1>6
<1>9. \A r \in 1..n : Sorted(s, number)[r] = s[p[r]]
  BY <1>3
<1> QED BY <1>6, <1>7, <1>8, <1>9

(* sort leaves alone what is in order.                                      *)
LEMMA SortedStays ==
  ASSUME NEW T, NEW s \in Seq(T), NEW number \in [1..Len(s) -> Int],
         \A q, r \in 1..Len(s) : q < r => number[q] <= number[r]
  PROVE  Sorted(s, number) = s
<1> DEFINE n == Len(s)
           Rank(i) == PlaceAmong(n, number, i)
<1>1. n \in Nat /\ DOMAIN s = 1..n /\ s \in [1..n -> T]
  OBVIOUS
<1>2. ASSUME NEW i \in 1..n PROVE Rank(i) = i
  <2>1. {j \in 1..n : number[j] < number[i] \/ (number[j] = number[i] /\ j <= i)} = 1..i
    BY <1>1
  <2>2. Cardinality(1..i) = i
    BY FS_Interval
  <2> QED BY <2>1, <2>2 DEF PlaceAmong
<1>3. Sorted(s, number) = [r \in 1..n |-> s[CHOOSE i \in 1..n : Rank(i) = r]]
  BY DEF Sorted
<1> HIDE DEF Rank
<1>4. \A r \in 1..n : (CHOOSE i \in 1..n : Rank(i) = r) = r
  BY <1>2
<1> QED BY <1>1, <1>3, <1>4

(* The first k entries of an array, when no two are equal, are k, and none  *)
(* is among the rest.                                                       *)
LEMMA CutArray ==
  ASSUME NEW S, NEW w \in Seq(S), IsInjective(w), NEW k \in 0..Len(w)
  PROVE  LET pre == SubSeq(w, 1, k)
             post == SubSeq(w, k + 1, Len(w))
         IN /\ post \in Seq(S) /\ IsInjective(post)
            /\ Entries(w) = Entries(pre) \union Entries(post)
            /\ Entries(pre) \intersect Entries(post) = {}
            /\ IsFiniteSet(Entries(pre)) /\ Cardinality(Entries(pre)) = k
<1> DEFINE n == Len(w)
           pre == SubSeq(w, 1, k)
           post == SubSeq(w, k + 1, n)
<1>1. n \in Nat /\ k \in Nat /\ k <= n /\ k \in 0..n /\ w \in [1..n -> S] /\ DOMAIN w = 1..n
  BY LenProperties
<1>2. /\ pre \in Seq(S) /\ Len(pre) = k
      /\ \A i \in 1..(k - 1 + 1) : pre[i] = w[1 + i - 1]
  BY <1>1, SubSeqProperties
<1>3. /\ post \in Seq(S) /\ Len(post) = IF k + 1 <= n THEN n - (k + 1) + 1 ELSE 0
      /\ \A i \in 1..(n - (k + 1) + 1) : post[i] = w[k + 1 + i - 1]
  BY <1>1, SubSeqProperties
<1> HIDE DEF pre, post, n
<1>4. \A i \in 1..k : pre[i] = w[i]
  BY <1>1, <1>2
<1>5. Len(post) = n - k /\ n - (k + 1) + 1 = n - k
  BY ONLY <1>1, <1>3
<1>6. \A i \in 1..(n - k) : post[i] = w[k + i]
  <2> SUFFICES ASSUME NEW i \in 1..(n - k) PROVE post[i] = w[k + i]
    OBVIOUS
  <2>1. k + 1 + i - 1 = k + i /\ post[i] = w[k + 1 + i - 1]
    BY ONLY <1>1, <1>3, <1>5, i \in 1..(n - k)
  <2> QED BY <2>1
<1>11. DOMAIN pre = 1..k /\ DOMAIN post = 1..(n - k) /\ pre \in [1..k -> S] /\ post \in [1..(n - k) -> S]
  BY <1>2, <1>3, <1>5, LenProperties
<1>12. \A i, j \in 1..n : w[i] = w[j] => i = j
  BY <1>1 DEF IsInjective
<1>13. \A i \in (k + 1)..n : i - k \in 1..(n - k) /\ i \in 1..n
  BY <1>1
<1>14. Entries(pre) = {w[i] : i \in 1..k}
  BY <1>4, <1>11 DEF Entries
<1>15. Entries(post) = {w[i] : i \in (k + 1)..n}
  <2>1. ASSUME NEW i \in (k + 1)..n PROVE i - k \in 1..(n - k) /\ post[i - k] = w[i]
    BY <1>1, <1>6, <1>13
  <2>2. ASSUME NEW i \in 1..(n - k) PROVE k + i \in (k + 1)..n /\ post[i] = w[k + i]
    BY <1>1, <1>4, <1>6, <1>11
  <2> QED BY <1>1, <1>11, <2>1, <2>2 DEF Entries
<1>16. IsInjective(post)
  <2> SUFFICES ASSUME NEW i \in 1..(n - k), NEW j \in 1..(n - k), post[i] = post[j] PROVE i = j
    BY <1>11 DEF IsInjective
  <2>1. k + i \in 1..n /\ k + j \in 1..n /\ w[k + i] = w[k + j]
    BY <1>1, <1>4, <1>6, <1>11
  <2>2. k + i = k + j
    BY <1>12, <2>1
  <2> QED BY <1>11, <2>2
<1>17. IsFiniteSet({w[i] : i \in 1..k}) /\ Cardinality({w[i] : i \in 1..k}) = k
  <2> DEFINE R == {w[i] : i \in 1..k}
  <2>1. pre \in [1..k -> R] /\ \A i, j \in 1..k : pre[i] = pre[j] => i = j
    BY <1>1, <1>4, <1>11, <1>12
  <2>2. \A x \in R : \E i \in 1..k : pre[i] = x
    BY <1>4
  <2> HIDE DEF R
  <2>3. ExistsBijection(1..k, R)
    BY ONLY <2>1, <2>2 DEF Bijection, Injection, Surjection, IsInjective, ExistsBijection
  <2>4. IsFiniteSet(1..k) /\ Cardinality(1..k) = k
    BY <1>11, FS_Interval
  <2> QED BY <2>3, <2>4, FS_Bijection DEF R
<1>18. {w[i] : i \in 1..n} = {w[i] : i \in 1..k} \union {w[i] : i \in (k + 1)..n}
  BY <1>1, <1>4, <1>6, <1>11
<1>19. {w[i] : i \in 1..k} \intersect {w[i] : i \in (k + 1)..n} = {}
  <2>1. \A i \in 1..k, j \in (k + 1)..n : i \in 1..n /\ j \in 1..n /\ i # j
    BY <1>1, <1>4, <1>6, <1>11
  <2> QED BY <1>12, <2>1
<1>20. Entries(w) = {w[i] : i \in 1..n}
  BY <1>1 DEF Entries
<1> QED BY <1>3, <1>14, <1>15, <1>16, <1>17, <1>18, <1>19, <1>20 DEF pre, post, n

(* An entry put at the end, and one array behind another.                   *)
LEMMA AppendEntry ==
  ASSUME NEW S, NEW s \in Seq(S), NEW e \in S
  PROVE  /\ Append(s, e) \in Seq(S)
         /\ Entries(Append(s, e)) = Entries(s) \union {e}
         /\ IsInjective(s) /\ e \notin Entries(s) => IsInjective(Append(s, e))
<1> DEFINE r == Append(s, e)
           n == Len(s)
<1>1. /\ r \in Seq(S) /\ Len(r) = n + 1 /\ r[n + 1] = e
      /\ \A i \in 1..n : r[i] = s[i]
  BY AppendProperties
<1>2. n \in Nat /\ DOMAIN s = 1..n
  BY LenProperties
<1> HIDE DEF r, n
<1>3. DOMAIN r = 1..(n + 1)
  BY <1>1, LenProperties
<1>4. Entries(r) = Entries(s) \union {e}
  BY <1>1, <1>2, <1>3 DEF Entries
<1>5. ASSUME IsInjective(s), e \notin Entries(s) PROVE IsInjective(r)
  <2>1. \A i \in 1..n : s[i] # e
    BY <1>2, <1>5 DEF Entries
  <2> QED BY <1>1, <1>2, <1>3, <1>5, <2>1 DEF IsInjective
<1> QED BY <1>1, <1>4, <1>5 DEF r

LEMMA JoinArrays ==
  ASSUME NEW S, NEW s \in Seq(S), NEW t \in Seq(S)
  PROVE  /\ s \o t \in Seq(S)
         /\ Entries(s \o t) = Entries(s) \union Entries(t)
         /\ IsInjective(s) /\ IsInjective(t) /\ Entries(s) \intersect Entries(t) = {} => IsInjective(s \o t)
<1> DEFINE r == s \o t
           n == Len(s)
           m == Len(t)
<1>1. /\ r \in Seq(S) /\ Len(r) = n + m
      /\ \A i \in 1..(n + m) : r[i] = IF i <= n THEN s[i] ELSE t[i - n]
  BY ConcatProperties
<1>2. n \in Nat /\ m \in Nat /\ DOMAIN s = 1..n /\ DOMAIN t = 1..m
  BY LenProperties
<1> HIDE DEF r, n, m
<1>3. DOMAIN r = 1..(n + m)
  BY <1>1, LenProperties
<1>4. \A i \in 1..n : r[i] = s[i]
  BY <1>1, <1>2
<1>5. \A j \in 1..m : n + j \in 1..(n + m) /\ r[n + j] = t[j]
  <2> SUFFICES ASSUME NEW j \in 1..m PROVE n + j \in 1..(n + m) /\ r[n + j] = t[j]
    OBVIOUS
  <2>1. n + j \in 1..(n + m) /\ ~(n + j <= n) /\ n + j - n = j
    BY <1>2
  <2>2. ASSUME NEW h \in 1..(n + m), ~(h <= n) PROVE r[h] = t[h - n]
    BY <1>1, <2>2
  <2>3. r[n + j] = t[n + j - n]
    BY <1>2, <2>1, <2>2
  <2> QED BY <2>1, <2>3
<1>6. \A i \in 1..(n + m) : i \in 1..n \/ \E j \in 1..m : i = n + j
  <2> SUFFICES ASSUME NEW i \in 1..(n + m), i \notin 1..n PROVE \E j \in 1..m : i = n + j
    OBVIOUS
  <2>1. i - n \in 1..m /\ i = n + (i - n)
    BY <1>2
  <2> QED BY <2>1
<1>7. Entries(r) = Entries(s) \union Entries(t)
  <2>1. \A i \in 1..n : i \in 1..(n + m)
    BY <1>2
  <2>2. Entries(r) = {r[i] : i \in 1..(n + m)} /\ Entries(s) = {s[i] : i \in 1..n} /\ Entries(t) = {t[i] : i \in 1..m}
    BY <1>2, <1>3 DEF Entries
  <2>3. ASSUME NEW i \in 1..(n + m) PROVE r[i] \in Entries(s) \union Entries(t)
    BY <1>4, <1>5, <1>6, <2>2
  <2>4. ASSUME NEW i \in 1..n PROVE s[i] \in Entries(r)
    BY <1>4, <2>1, <2>2
  <2>5. ASSUME NEW i \in 1..m PROVE t[i] \in Entries(r)
    BY <1>5, <2>2
  <2> QED BY <2>2, <2>3, <2>4, <2>5
<1>8. ASSUME IsInjective(s), IsInjective(t), Entries(s) \intersect Entries(t) = {} PROVE IsInjective(r)
  <2> SUFFICES ASSUME NEW i \in 1..(n + m), NEW j \in 1..(n + m), r[i] = r[j] PROVE i = j
    BY <1>3 DEF IsInjective
  <2>1. \A x \in 1..n, y \in 1..m : s[x] # t[y]
    BY <1>2, <1>8 DEF Entries
  <2>2. CASE i \in 1..n /\ j \in 1..n
    BY <1>2, <1>4, <1>8, <2>2 DEF IsInjective
  <2>3. ASSUME NEW x \in 1..m, NEW y \in 1..m, i = n + x, j = n + y PROVE i = j
    BY <1>2, <1>5, <1>8, <2>3 DEF IsInjective
  <2>4. ASSUME NEW x \in 1..n, NEW y \in 1..m PROVE r[x] # r[n + y]
    BY <1>4, <1>5, <2>1
  <2> QED BY <1>6, <2>2, <2>3, <2>4
<1> QED BY <1>1, <1>7, <1>8 DEF r

(* The entries of a finite set in some order, as SetToSeq takes them.       *)
LEMMA ListedSet ==
  ASSUME NEW F, IsFiniteSet(F)
  PROVE  LET f == CHOOSE g \in [1..Cardinality(F) -> F] : IsInjective(g)
         IN f \in Seq(F) /\ Entries(f) = F /\ IsInjective(f)
<1> DEFINE n == Cardinality(F)
           f == CHOOSE g \in [1..n -> F] : IsInjective(g)
<1>1. n \in Nat /\ ExistsBijection(1..n, F)
  BY FS_CardinalityType
<1> HIDE DEF n
<1>2. \E g \in [1..n -> F] : IsInjective(g)
  BY <1>1 DEF ExistsBijection, Bijection, Injection
<1>3. f \in [1..n -> F] /\ IsInjective(f)
  BY <1>2
<1> HIDE DEF f
<1>4. f \in Seq(F) /\ DOMAIN f = 1..n
  BY <1>1, <1>3, SeqDef
<1>5. f \in Injection(1..n, F)
  BY <1>3 DEF Injection
<1>6. Cardinality(1..n) = n
  BY <1>1, FS_Interval
<1>7. f \in Surjection(1..n, F)
  BY <1>5, <1>6, FS_Injection DEF n
<1>8. Entries(f) = F
  BY <1>3, <1>4, <1>7 DEF Surjection, Entries
<1> QED BY <1>3, <1>4, <1>8 DEF f, n
=============================================================================
