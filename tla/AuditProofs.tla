------------------------------ MODULE AuditProofs ------------------------------
(***************************************************************************)
(* What an audit makes of a document, for any texts and any document: a     *)
(* selector matches what its clauses say, however its values are listed; its *)
(* canonical form means the same; and after normalization services have one  *)
(* root and labels one value.                                              *)
(***************************************************************************)
EXTENDS AuditPlan, TLAPS, FiniteSetTheorems, WellFoundedInduction

LEMMA LeastNatural ==
  ASSUME NEW T \in SUBSET Nat, T # {}
  PROVE  \E m \in T : \A k \in T : m <= k
<1>. DEFINE R == StrictSubsetOrdering(Nat)
            S == FiniteSubsetsOf(Nat)
            U == {1..m : m \in T}
<1>1. U \subseteq S /\ U # {}
  <2>1. ASSUME NEW m \in T PROVE 1..m \in S
    <3>1. m \in Int /\ 1 \in Int
      OBVIOUS
    <3>2. IsFiniteSet(1..m)
      BY <3>1, FS_Interval
    <3>3. 1..m \in SUBSET Nat
      OBVIOUS
    <3>. QED BY <3>2, <3>3 DEF FiniteSubsetsOf
  <2>. HIDE DEF S
  <2>. QED BY <2>1
<1>2. IsWellFoundedOn(R, S)
  BY FS_StrictSubsetOrderingWellFounded
<1>. HIDE DEF R, S
<1>3. PICK x \in U : \A y \in U : ~(<<y, x>> \in R)
  BY <1>1, <1>2, WFMin
<1>4. PICK m \in T : x = 1..m
  BY <1>3
<1>5. ASSUME NEW k \in T PROVE m <= k
  <2>. SUFFICES ASSUME k < m PROVE FALSE
    BY <1>4
  <2>1. 1..k \subseteq 1..m /\ m \in 1..m /\ m \notin 1..k
    BY <1>4
  <2>2. 1..k \subseteq Nat /\ 1..m \subseteq Nat
    OBVIOUS
  <2>3. <<1..k, 1..m>> \in R
    BY <2>1, <2>2 DEF R, StrictSubsetOrdering
  <2>. QED BY <1>3, <1>4, <2>3
<1>. QED BY <1>5

-----------------------------------------------------------------------------
(* The binary search.                                                      *)
Ascending(values) ==
  \A i, j \in DOMAIN values : i < j => Rank[values[i]] <= Rank[values[j]]

Ends(values) == (0..Len(values)) \X (0..Len(values))

SearchStep(values, target, search, r) ==
  IF r[1] >= r[2] THEN r[1]
  ELSE LET h == (r[1] + r[2]) \div 2
       IN IF Rank[values[h + 1]] < Rank[target] THEN search[<<h + 1, r[2]>>]
          ELSE search[<<r[1], h>>]

LEMMA Halves ==
  ASSUME NEW i \in Nat, NEW j \in Nat, i < j
  PROVE  /\ (i + j) \div 2 \in Nat
         /\ i <= (i + j) \div 2 /\ (i + j) \div 2 < j
OBVIOUS

(* It is well defined: the distance between the ends shrinks.               *)
LEMMA SearchExists ==
  ASSUME NEW values \in Seq(Text), NEW target \in Text
  PROVE  \E g : g = [r \in Ends(values) |-> SearchStep(values, target, g, r)]
<1>. DEFINE n == Len(values)
            D == Ends(values)
            F(g, r) == SearchStep(values, target, g, r)
            Good(m) == \E g : /\ g = [r \in D |-> g[r]]
                              /\ \A r \in D : r[2] <= r[1] + m => g[r] = F(g, r)
            T == {m \in Nat : ~Good(m)}
<1>1. n \in Nat
  OBVIOUS
<1>2. Good(0)
  <2>. DEFINE g == [r \in D |-> r[1]]
  <2>1. g = [r \in D |-> g[r]]
    OBVIOUS
  <2>2. ASSUME NEW r \in D, r[2] <= r[1] + 0 PROVE g[r] = F(g, r)
    BY <1>1, <2>2 DEF Ends, SearchStep
  <2>. QED BY <2>1, <2>2
<1>3. ASSUME NEW m \in Nat, Good(m) PROVE Good(m + 1)
  <2>1. PICK g : /\ g = [r \in D |-> g[r]]
                 /\ \A r \in D : r[2] <= r[1] + m => g[r] = F(g, r)
    BY <1>3
  <2>. DEFINE g2 == [r \in D |-> F(g, r)]
  <2>2. ASSUME NEW r \in D, r[2] <= r[1] + (m + 1) PROVE g2[r] = F(g2, r)
    <3>1. g2[r] = F(g, r)
      OBVIOUS
    <3>2. CASE r[1] >= r[2]
      BY <3>1, <3>2 DEF SearchStep
    <3>3. CASE r[1] < r[2]
      <4>. DEFINE h == (r[1] + r[2]) \div 2
      <4>1. r[1] \in 0..n /\ r[2] \in 0..n
        BY DEF Ends
      <4>2. h \in Nat /\ r[1] <= h /\ h < r[2]
        BY <1>1, <3>3, <4>1, Halves
      <4>. HIDE DEF h
      <4>3. /\ <<h + 1, r[2]>> \in D /\ r[2] <= (h + 1) + m
            /\ <<r[1], h>> \in D /\ h <= r[1] + m
        BY <1>1, <2>2, <4>1, <4>2 DEF Ends
      <4>4. g2[<<h + 1, r[2]>>] = g[<<h + 1, r[2]>>] /\ g2[<<r[1], h>>] = g[<<r[1], h>>]
        BY <2>1, <4>3
      <4>. QED BY <3>1, <4>4 DEF SearchStep, h
    <3>. QED BY <3>2, <3>3, <1>1 DEF Ends
  <2>3. g2 = [r \in D |-> g2[r]]
    OBVIOUS
  <2>. HIDE DEF g2
  <2>. QED BY <2>2, <2>3
<1>4. T = {}
  <2>. SUFFICES ASSUME T # {} PROVE FALSE
    OBVIOUS
  <2>. HIDE DEF Good
  <2>1. PICK m \in T : \A k \in T : m <= k
    BY LeastNatural
  <2>2. m # 0
    BY <1>2, <2>1
  <2>3. m - 1 \in Nat /\ m - 1 \notin T
    BY <2>1, <2>2
  <2>4. Good(m - 1) /\ ~Good((m - 1) + 1)
    BY <2>1, <2>3
  <2>. QED BY <1>3, <2>3, <2>4
<1>5. PICK g : /\ g = [r \in D |-> g[r]]
               /\ \A r \in D : r[2] <= r[1] + n => g[r] = F(g, r)
  <2>1. Good(n)
    BY <1>1, <1>4
  <2>. QED BY <2>1
<1>6. \A r \in D : g[r] = F(g, r)
  <2>1. \A r \in D : r[2] <= r[1] + n
    BY <1>1 DEF Ends
  <2>. QED BY <1>5, <2>1
<1>7. g = [r \in D |-> F(g, r)]
  BY <1>5, <1>6
<1>. QED BY <1>7

(* It ends between the values below the target and the others.              *)
LEMMA SearchSplits ==
  ASSUME NEW values \in Seq(Text), Ascending(values), NEW target \in Text
  PROVE  /\ SearchStrings(values, target) \in 0..Len(values)
         /\ \A i \in DOMAIN values :
              i <= SearchStrings(values, target) <=> Rank[values[i]] < Rank[target]
<1>. DEFINE n == Len(values)
            D == Ends(values)
            search == CHOOSE g : g = [r \in D |-> SearchStep(values, target, g, r)]
<1>1. search = [r \in D |-> SearchStep(values, target, search, r)]
  BY SearchExists
<1>2. SearchStrings(values, target) = search[<<0, n>>]
  BY DEF SearchStrings, SearchStep, Ends
<1>. HIDE DEF search
<1>3. n \in Nat /\ DOMAIN values = 1..n /\ \A i \in 1..n : Rank[values[i]] \in Nat
  BY TextAssumption
<1>4. Rank[target] \in Nat
  BY TextAssumption
<1>7. \A i, k \in 1..n : i <= k => Rank[values[i]] <= Rank[values[k]]
  BY <1>3 DEF Ascending
<1>. DEFINE Between(r) == /\ r[1] <= r[2]
                          /\ \A i \in 1..n : /\ i <= r[1] => Rank[values[i]] < Rank[target]
                                             /\ i > r[2] => ~(Rank[values[i]] < Rank[target])
            Right(x) == x \in 0..n /\ \A i \in 1..n : i <= x <=> Rank[values[i]] < Rank[target]
            T == {m \in Nat : \E r \in D : r[2] = r[1] + m /\ Between(r) /\ ~Right(search[r])}
<1>5. T = {}
  <2>. SUFFICES ASSUME T # {} PROVE FALSE
    OBVIOUS
  <2>1. PICK m \in T : \A k \in T : m <= k
    BY LeastNatural
  <2>2. PICK r \in D : r[2] = r[1] + m /\ Between(r) /\ ~Right(search[r])
    BY <2>1
  <2>3. r[1] \in 0..n /\ r[2] \in 0..n /\ m \in Nat
    BY <2>1 DEF Ends
  <2>4. search[r] = SearchStep(values, target, search, r)
    BY <1>1
  <2>5. ASSUME NEW q \in D, q[1] <= q[2], q[2] < q[1] + m, Between(q) PROVE Right(search[q])
    <3>1. q[2] - q[1] \in Nat /\ q[2] = q[1] + (q[2] - q[1]) /\ q[2] - q[1] < m
      BY <1>3, <2>3, <2>5 DEF Ends
    <3>2. q[2] - q[1] \notin T
      BY <2>1, <2>3, <3>1
    <3>. QED BY <2>5, <3>1, <3>2
  <2>6. CASE m = 0
    <3>1. search[r] = r[1] /\ r[1] = r[2]
      BY <2>2, <2>3, <2>4, <2>6 DEF SearchStep
    <3>. QED BY <1>3, <2>2, <2>3, <3>1
  <2>7. CASE m # 0
    <3>. DEFINE h == (r[1] + r[2]) \div 2
    <3>1. r[1] < r[2] /\ ~(r[1] >= r[2])
      BY <1>3, <2>2, <2>3, <2>7
    <3>2. h \in Nat /\ r[1] <= h /\ h < r[2]
      BY <1>3, <2>3, <3>1, Halves
    <3>3. search[r] = IF Rank[values[h + 1]] < Rank[target] THEN search[<<h + 1, r[2]>>]
                      ELSE search[<<r[1], h>>]
      BY <2>4, <3>1 DEF SearchStep
    <3>. HIDE DEF h
    <3>4. /\ <<h + 1, r[2]>> \in D /\ r[2] < (h + 1) + m /\ h + 1 <= r[2]
          /\ <<r[1], h>> \in D /\ h < r[1] + m /\ h + 1 \in 1..n
      <4>1. h + 1 \in 0..n /\ h \in 0..n /\ h + 1 \in 1..n /\ h + 1 <= r[2]
        BY <1>3, <2>3, <3>2
      <4>2. r[2] < (h + 1) + m /\ h < r[1] + m
        BY <2>2, <2>3, <3>2, <4>1
      <4>. QED BY <2>3, <4>1, <4>2 DEF Ends
    <3>5. CASE Rank[values[h + 1]] < Rank[target]
      <4>1. \A i \in 1..n : i <= h + 1 => Rank[values[i]] < Rank[target]
        BY <1>3, <1>4, <1>7, <3>4, <3>5
      <4>2. Between(<<h + 1, r[2]>>)
        BY <2>2, <3>4, <4>1
      <4>3. Right(search[<<h + 1, r[2]>>])
        BY <2>5, <3>4, <4>2
      <4>. QED BY <2>2, <3>3, <3>5, <4>3
    <3>6. CASE ~(Rank[values[h + 1]] < Rank[target])
      <4>1. ASSUME NEW i \in 1..n, i > h PROVE ~(Rank[values[i]] < Rank[target])
        <5>1. h + 1 \in 1..n /\ h + 1 <= i
          BY <1>3, <3>2, <3>4, <4>1
        <5>2. Rank[values[h + 1]] <= Rank[values[i]]
          BY <1>7, <5>1
        <5>3. Rank[values[h + 1]] \in Nat /\ Rank[values[i]] \in Nat
          BY <1>3, <5>1
        <5>. QED BY <1>4, <3>6, <5>2, <5>3
      <4>2. Between(<<r[1], h>>)
        BY <2>2, <3>2, <3>4, <4>1
      <4>3. Right(search[<<r[1], h>>])
        BY <2>5, <3>2, <3>4, <4>2
      <4>. QED BY <2>2, <3>3, <3>6, <4>3
    <3>. QED BY <3>5, <3>6
  <2>. QED BY <2>6, <2>7
<1>6. Right(search[<<0, n>>])
  <2>1. <<0, n>> \in D /\ Between(<<0, n>>) /\ n = 0 + n
    BY <1>3 DEF Ends
  <2>2. n \notin T
    BY <1>5
  <2>. HIDE DEF T
  <2>3. ASSUME ~Right(search[<<0, n>>]) PROVE n \in T
    BY <1>3, <2>1, <2>3 DEF T
  <2>. QED BY <2>2, <2>3
<1>. QED BY <1>2, <1>3, <1>6

LEMMA SearchFinds ==
  ASSUME NEW values \in Seq(Text), Ascending(values), NEW target \in Text
  PROVE  ContainsString(values, target) <=> \E i \in DOMAIN values : values[i] = target
<1>. DEFINE x == SearchStrings(values, target)
            n == Len(values)
<1>1. x \in 0..n /\ \A i \in 1..n : i <= x <=> Rank[values[i]] < Rank[target]
  BY SearchSplits
<1>2. n \in Nat /\ DOMAIN values = 1..n /\ \A i \in 1..n : values[i] \in Text
  OBVIOUS
<1>3. ContainsString(values, target) <=> x < n /\ values[x + 1] = target
  BY <1>1, <1>2 DEF ContainsString
<1>. HIDE DEF x, n
<1>4. ASSUME NEW i \in 1..n, values[i] = target PROVE x < n /\ values[x + 1] = target
  <2>1. Rank[target] \in Nat /\ \A k \in 1..n : Rank[values[k]] \in Nat
    BY <1>2, TextAssumption
  <2>2. ~(i <= x)
    BY <1>1, <1>4, <2>1
  <2>3. x + 1 \in 1..n /\ x + 1 <= i /\ ~(x + 1 <= x)
    BY <1>1, <1>2, <2>2
  <2>4. ~(Rank[values[x + 1]] < Rank[target])
    BY <1>1, <2>3
  <2>5. Rank[values[x + 1]] <= Rank[values[i]]
    BY <1>2, <2>1, <2>3 DEF Ascending
  <2>6. Rank[values[x + 1]] = Rank[target]
    BY <1>4, <2>1, <2>3, <2>4, <2>5
  <2>7. values[x + 1] = target
    BY <1>2, <2>3, <2>6, TextAssumption
  <2>. QED BY <1>1, <1>2, <2>3, <2>7
<1>5. x < n => x + 1 \in 1..n
  BY <1>1, <1>2
<1>. QED BY <1>2, <1>3, <1>4, <1>5

-----------------------------------------------------------------------------
(* Sorting.                                                                *)
LEMMA SortingExists ==
  ASSUME NEW values \in Seq(Text), IsInjective(values)
  PROVE  \E order \in Bijection(DOMAIN values, DOMAIN values) : Sorts(order, values)
<1>. DEFINE n == Len(values)
            Upto(i) == {j \in 1..n : Rank[values[j]] <= Rank[values[i]]}
            pos == [i \in 1..n |-> Cardinality(Upto(i))]
<1>1. n \in Nat /\ DOMAIN values = 1..n /\ IsFiniteSet(1..n) /\ Cardinality(1..n) = n
  <2>1. n \in Nat /\ DOMAIN values = 1..n /\ 1 \in Int /\ n \in Int
    OBVIOUS
  <2>2. IsFiniteSet(1..n) /\ Cardinality(1..n) = IF 1 > n THEN 0 ELSE n - 1 + 1
    BY <2>1, FS_Interval
  <2>. QED BY <2>1, <2>2
<1>2. \A i \in 1..n : values[i] \in Text /\ Rank[values[i]] \in Nat
  BY TextAssumption
<1>3. ASSUME NEW i \in 1..n
      PROVE  /\ IsFiniteSet(Upto(i)) /\ i \in Upto(i) /\ Upto(i) \subseteq 1..n
             /\ pos[i] = Cardinality(Upto(i)) /\ pos[i] \in 1..n
  <2>1. Upto(i) \in SUBSET (1..n) /\ i \in Upto(i) /\ pos[i] = Cardinality(Upto(i))
    BY <1>2
  <2>2. IsFiniteSet(Upto(i)) /\ Cardinality(Upto(i)) <= n
    BY <1>1, <2>1, FS_Subset
  <2>3. Cardinality(Upto(i)) \in Nat /\ Cardinality(Upto(i)) # 0
    BY <2>1, <2>2, FS_CardinalityType, FS_EmptySet
  <2>. QED BY <1>1, <2>1, <2>2, <2>3
<1>4. ASSUME NEW i \in 1..n, NEW j \in 1..n, Rank[values[i]] <= Rank[values[j]]
      PROVE  pos[i] <= pos[j] /\ (pos[i] = pos[j] => i = j)
  <2>1. Upto(i) \in SUBSET Upto(j)
    BY <1>2, <1>4
  <2>2. IsFiniteSet(Upto(j)) /\ j \in Upto(j)
        /\ pos[i] = Cardinality(Upto(i)) /\ pos[j] = Cardinality(Upto(j))
    BY <1>3
  <2>3. pos[i] <= pos[j] /\ (pos[i] = pos[j] => Upto(j) = Upto(i))
    BY <2>1, <2>2, FS_Subset
  <2>4. ASSUME pos[i] = pos[j] PROVE i = j
    <3>1. Rank[values[j]] <= Rank[values[i]]
      BY <2>2, <2>3, <2>4
    <3>2. values[i] = values[j]
      BY <1>2, <1>4, <3>1, TextAssumption
    <3>. QED BY <1>1, <3>2 DEF IsInjective
  <2>. QED BY <2>3, <2>4
<1>5. \A i, j \in 1..n : Rank[values[i]] <= Rank[values[j]] \/ Rank[values[j]] <= Rank[values[i]]
  BY <1>2
<1>6. pos \in Injection(1..n, 1..n)
  <2>1. pos \in [1..n -> 1..n]
    BY <1>3
  <2>2. \A i, j \in 1..n : pos[i] = pos[j] => i = j
    BY <1>4, <1>5
  <2>. QED BY <2>1, <2>2 DEF Injection, IsInjective
<1>7. pos \in Surjection(1..n, 1..n)
  BY <1>1, <1>6, FS_Injection
<1>. HIDE DEF pos
<1>8. pos \in [1..n -> 1..n] /\ (\A q \in 1..n : \E i \in 1..n : pos[i] = q)
  BY <1>7 DEF Surjection
<1>. DEFINE order == [q \in 1..n |-> CHOOSE i \in 1..n : pos[i] = q]
<1>9. \A q \in 1..n : order[q] \in 1..n /\ pos[order[q]] = q
  BY <1>8
<1>10. order \in [1..n -> 1..n]
  BY <1>9
<1>. HIDE DEF order
<1>11. \A i \in 1..n : order[pos[i]] = i
  <2>1. \A i, j \in 1..n : pos[i] = pos[j] => i = j
    BY <1>4, <1>5
  <2>. QED BY <1>8, <1>9, <2>1
<1>12. order \in Bijection(1..n, 1..n)
  <2>1. \A p, q \in 1..n : order[p] = order[q] => p = q
    BY <1>9
  <2>2. \A i \in 1..n : \E q \in 1..n : order[q] = i
    BY <1>8, <1>11
  <2>. QED BY <1>10, <2>1, <2>2 DEF Bijection, Injection, Surjection, IsInjective
<1>13. ASSUME NEW p \in 1..n, NEW q \in 1..n, p < q
       PROVE  Rank[values[order[p]]] <= Rank[values[order[q]]]
  <2>. SUFFICES ASSUME ~(Rank[values[order[p]]] <= Rank[values[order[q]]]) PROVE FALSE
    OBVIOUS
  <2>1. Rank[values[order[q]]] <= Rank[values[order[p]]]
    BY <1>5, <1>9
  <2>2. q <= p
    BY <1>4, <1>9, <2>1
  <2>. QED BY <1>13, <2>2
<1>. QED BY <1>1, <1>12, <1>13 DEF Sorts

LEMMA SortedIs ==
  ASSUME NEW values \in Seq(Text), IsInjective(values)
  PROVE  /\ Sorted(values) \in Seq(Text)
         /\ DOMAIN Sorted(values) = DOMAIN values
         /\ Ascending(Sorted(values)) /\ IsInjective(Sorted(values))
         /\ \A t : (\E i \in DOMAIN values : Sorted(values)[i] = t)
                     <=> (\E i \in DOMAIN values : values[i] = t)
<1>. DEFINE n == Len(values)
            order == CHOOSE order \in Bijection(DOMAIN values, DOMAIN values) : Sorts(order, values)
<1>1. order \in Bijection(DOMAIN values, DOMAIN values) /\ Sorts(order, values)
  BY SortingExists
<1>2. Sorted(values) = [i \in DOMAIN values |-> values[order[i]]]
  BY DEF Sorted
<1>. HIDE DEF order
<1>3. n \in Nat /\ DOMAIN values = 1..n /\ \A i \in 1..n : values[i] \in Text
  OBVIOUS
<1>4. /\ order \in [1..n -> 1..n]
      /\ \A i, j \in 1..n : order[i] = order[j] => i = j
      /\ \A i \in 1..n : \E j \in 1..n : order[j] = i
  BY <1>1, <1>3 DEF Bijection, Injection, Surjection, IsInjective
<1>5. Sorted(values) \in [1..n -> Text] /\ \A i \in 1..n : Sorted(values)[i] = values[order[i]]
  BY <1>2, <1>3, <1>4
<1>6. Sorted(values) \in Seq(Text) /\ DOMAIN Sorted(values) = 1..n
  BY <1>3, <1>5
<1>7. Ascending(Sorted(values))
  BY <1>1, <1>3, <1>5, <1>6 DEF Ascending, Sorts
<1>8. IsInjective(Sorted(values))
  BY <1>3, <1>4, <1>5, <1>6 DEF IsInjective
<1>9. \A t : (\E i \in 1..n : Sorted(values)[i] = t) <=> (\E i \in 1..n : values[i] = t)
  <2>1. ASSUME NEW i \in 1..n PROVE \E j \in 1..n : values[j] = Sorted(values)[i]
    <3>1. order[i] \in 1..n /\ Sorted(values)[i] = values[order[i]]
      BY <1>4, <1>5
    <3>. QED BY <3>1
  <2>2. ASSUME NEW i \in 1..n PROVE \E j \in 1..n : Sorted(values)[j] = values[i]
    <3>1. PICK j \in 1..n : order[j] = i
      BY <1>4
    <3>2. Sorted(values)[j] = values[i]
      BY <1>5, <3>1
    <3>. QED BY <3>2
  <2>. QED BY <2>1, <2>2
<1>. QED BY <1>3, <1>6, <1>7, <1>8, <1>9

(* What is sorted stays as it is.                                          *)
LEMMA SortedTwice ==
  ASSUME NEW values \in Seq(Text), IsInjective(values), Ascending(values)
  PROVE  Sorted(values) = values
<1>. DEFINE n == Len(values)
            order == CHOOSE order \in Bijection(DOMAIN values, DOMAIN values) : Sorts(order, values)
<1>1. order \in Bijection(DOMAIN values, DOMAIN values) /\ Sorts(order, values)
  BY SortingExists
<1>2. Sorted(values) = [i \in DOMAIN values |-> values[order[i]]]
  BY DEF Sorted
<1>. HIDE DEF order
<1>3. n \in Nat /\ DOMAIN values = 1..n /\ values = [i \in 1..n |-> values[i]]
      /\ \A i \in 1..n : values[i] \in Text /\ Rank[values[i]] \in Nat
  BY TextAssumption
<1>4. /\ order \in [1..n -> 1..n]
      /\ \A i, j \in 1..n : order[i] = order[j] => i = j
      /\ \A i \in 1..n : \E j \in 1..n : order[j] = i
  BY <1>1, <1>3 DEF Bijection, Injection, Surjection, IsInjective
<1>5. ASSUME NEW i \in 1..n, NEW j \in 1..n, i < j PROVE order[i] < order[j]
  <2>1. Rank[values[order[i]]] <= Rank[values[order[j]]]
    BY <1>1, <1>3, <1>5 DEF Sorts
  <2>2. order[i] # order[j] /\ order[i] \in 1..n /\ order[j] \in 1..n
    <3>1. i # j
      BY <1>5
    <3>. QED BY <1>4, <3>1
  <2>3. ~(order[j] < order[i])
    <3>. SUFFICES ASSUME order[j] < order[i] PROVE FALSE
      OBVIOUS
    <3>1. Rank[values[order[j]]] = Rank[values[order[i]]]
      BY <1>3, <2>1, <2>2 DEF Ascending
    <3>2. values[order[j]] = values[order[i]]
      BY <1>3, <2>2, <3>1, TextAssumption
    <3>. QED BY <1>3, <2>2, <3>2 DEF IsInjective
  <2>. QED BY <2>2, <2>3
<1>6. \A i \in 1..n : order[i] = i
  <2>. DEFINE T == {i \in 1..n : order[i] # i}
  <2>. SUFFICES ASSUME T # {} PROVE FALSE
    OBVIOUS
  <2>1. PICK i \in T : \A k \in T : i <= k
    <3>1. T \in SUBSET Nat
      OBVIOUS
    <3>. HIDE DEF T
    <3>. QED BY <3>1, LeastNatural
  <2>2. i \in 1..n /\ order[i] # i /\ order[i] \in 1..n
    BY <1>4, <2>1
  <2>3. ~(order[i] < i)
    <3>. SUFFICES ASSUME order[i] < i PROVE FALSE
      OBVIOUS
    <3>1. order[i] \notin T
      BY <2>1, <2>2
    <3>2. order[order[i]] = order[i]
      BY <2>2, <3>1
    <3>. QED BY <1>4, <2>2, <3>2
  <2>4. PICK k \in 1..n : order[k] = i
    BY <1>4, <2>2
  <2>5. CASE k < i
    <3>1. k \notin T
      BY <2>1, <2>2, <2>5
    <3>. QED BY <2>4, <2>5, <3>1
  <2>6. CASE i < k
    BY <1>5, <2>2, <2>3, <2>4, <2>6
  <2>. QED BY <2>2, <2>4, <2>5, <2>6
<1>. QED BY <1>2, <1>3, <1>6

-----------------------------------------------------------------------------
(* Clauses and expressions.                                                *)
LEMMA FoldedIs ==
  ASSUME NEW values \in Seq(Text)
  PROVE  /\ Folded(values) \in Seq(Text) /\ DOMAIN Folded(values) = DOMAIN values
         /\ \A i \in DOMAIN values : Folded(values)[i] = Fold[values[i]] /\ Fold[values[i]] \in Text
<1>1. Len(values) \in Nat /\ DOMAIN values = 1..Len(values)
      /\ \A i \in 1..Len(values) : Fold[values[i]] \in Text
  BY TextAssumption
<1>2. Folded(values) \in [1..Len(values) -> Text]
  BY <1>1 DEF Folded
<1>. QED BY <1>1, <1>2 DEF Folded

LEMMA ClauseIs ==
  ASSUME NEW c \in Written, ClauseAccepted(c)
  PROVE  /\ Clause(c) = [key |-> Fold[c.key], op |-> Clause(c).op, values |-> Clause(c).values]
         /\ Clause(c).op = IF c.op = "==" THEN "=" ELSE c.op
         /\ c.op \in {"exists", "=", "==", "!=", "in", "notin"}
         /\ c.key \in Text /\ Fold[c.key] \in Text
         /\ Clause(c).values \in Seq(Text) /\ DOMAIN Clause(c).values = DOMAIN c.values
         /\ Ascending(Clause(c).values) /\ IsInjective(Clause(c).values)
         /\ \A t : (\E i \in DOMAIN c.values : Clause(c).values[i] = t)
                     <=> (\E i \in DOMAIN c.values : Fold[c.values[i]] = t)
<1>1. /\ c.values \in Seq(Text) /\ c.key \in Text
      /\ c.op \in {"exists", "=", "==", "!=", "in", "notin", "other"}
  BY DEF Written
<1>2. c.op # "other" /\ IsInjective(Folded(c.values))
  BY DEF ClauseAccepted
<1>3. Clause(c).values = Sorted(Folded(c.values))
  BY DEF Clause
<1>4. Folded(c.values) \in Seq(Text) /\ DOMAIN Folded(c.values) = DOMAIN c.values
      /\ \A i \in DOMAIN c.values : Folded(c.values)[i] = Fold[c.values[i]]
  BY <1>1, FoldedIs
<1>5. /\ Clause(c).values \in Seq(Text) /\ DOMAIN Clause(c).values = DOMAIN c.values
      /\ Ascending(Clause(c).values) /\ IsInjective(Clause(c).values)
      /\ \A t : (\E i \in DOMAIN c.values : Clause(c).values[i] = t)
                  <=> (\E i \in DOMAIN c.values : Folded(c.values)[i] = t)
  <2>. DEFINE v == Folded(c.values)
  <2>1. /\ Sorted(v) \in Seq(Text) /\ DOMAIN Sorted(v) = DOMAIN v
        /\ Ascending(Sorted(v)) /\ IsInjective(Sorted(v))
        /\ \A t : (\E i \in DOMAIN v : Sorted(v)[i] = t) <=> (\E i \in DOMAIN v : v[i] = t)
    BY <1>2, <1>4, SortedIs
  <2>. QED BY <1>3, <1>4, <2>1
<1>6. \A t : (\E i \in DOMAIN c.values : Folded(c.values)[i] = t)
               <=> (\E i \in DOMAIN c.values : Fold[c.values[i]] = t)
  BY <1>4
<1>7. Clause(c) = [key |-> Fold[c.key], op |-> Clause(c).op, values |-> Clause(c).values]
      /\ Clause(c).op = IF c.op = "==" THEN "=" ELSE c.op
  BY DEF Clause
<1>8. Fold[c.key] \in Text
  BY <1>1, TextAssumption
<1>. QED BY <1>1, <1>2, <1>5, <1>6, <1>7, <1>8

Values(c) == {Fold[c.values[j]] : j \in DOMAIN c.values}

LEMMA ClauseMeans ==
  ASSUME NEW c \in Written, ClauseAccepted(c), NEW value \in Text
  PROVE  Holds(Clause(c), value) <=> /\ c.op \in {"=", "==", "in"} => value \in Values(c)
                                     /\ c.op \in {"!=", "notin"} => value \notin Values(c)
<1>. DEFINE k == Clause(c)
<1>1. /\ k.op = IF c.op = "==" THEN "=" ELSE c.op
      /\ c.op \in {"exists", "=", "==", "!=", "in", "notin"}
      /\ k.values \in Seq(Text) /\ DOMAIN k.values = DOMAIN c.values /\ Ascending(k.values)
      /\ \A t : (\E i \in DOMAIN c.values : k.values[i] = t)
                  <=> (\E i \in DOMAIN c.values : Fold[c.values[i]] = t)
  BY ClauseIs
<1>. HIDE DEF k
<1>2. \A t : t \in Values(c) <=> \E i \in DOMAIN c.values : k.values[i] = t
  BY <1>1 DEF Values
<1>3. CASE c.op = "exists"
  BY <1>1, <1>3 DEF Holds, k
<1>4. CASE c.op \in {"in", "notin"}
  <2>1. ContainsString(k.values, value) <=> value \in Values(c)
    BY <1>1, <1>2, SearchFinds
  <2>. QED BY <1>1, <1>4, <2>1 DEF Holds, k
<1>5. CASE c.op \in {"=", "==", "!="}
  <2>1. Len(c.values) = 1 /\ c.values \in Seq(Text)
    BY <1>5 DEF Written
  <2>2. DOMAIN c.values = 1..1
    BY <2>1
  <2>3. value \in Values(c) <=> value = k.values[1]
    BY <1>2, <2>2
  <2>. QED BY <1>1, <1>5, <2>3 DEF Holds, k
<1>. QED BY <1>1, <1>3, <1>4, <1>5

LEMMA MatchesMeans ==
  ASSUME NEW e \in Seq(Written), Accepted(e), NEW labels \in SUBSET (Text \X Text)
  PROVE  Matches(Parse(e), FoldLabels(labels)) <=> Means(e, labels)
<1>1. \A i \in DOMAIN e : e[i] \in Written /\ ClauseAccepted(e[i])
  BY DEF Accepted
<1>2. \A l \in labels : l[1] \in Text /\ l[2] \in Text /\ Fold[l[1]] \in Text /\ Fold[l[2]] \in Text
  BY TextAssumption
<1>3. ASSUME NEW i \in DOMAIN e, NEW l \in labels
      PROVE  (Fold[l[1]] = Clause(e[i]).key /\ Holds(Clause(e[i]), Fold[l[2]]))
               <=> /\ Fold[l[1]] = Fold[e[i].key]
                   /\ e[i].op \in {"=", "==", "in"} => Fold[l[2]] \in Values(e[i])
                   /\ e[i].op \in {"!=", "notin"} => Fold[l[2]] \notin Values(e[i])
  <2>1. Clause(e[i]).key = Fold[e[i].key]
    BY DEF Clause
  <2>. QED BY <1>1, <1>2, <2>1, ClauseMeans
<1>4. ASSUME NEW i \in DOMAIN e
      PROVE  (\E f \in FoldLabels(labels) : f[1] = Clause(e[i]).key /\ Holds(Clause(e[i]), f[2]))
               <=> (\E l \in labels : /\ Fold[l[1]] = Fold[e[i].key]
                                      /\ e[i].op \in {"=", "==", "in"} => Fold[l[2]] \in Values(e[i])
                                      /\ e[i].op \in {"!=", "notin"} => Fold[l[2]] \notin Values(e[i]))
  <2>1. (\E f \in FoldLabels(labels) : f[1] = Clause(e[i]).key /\ Holds(Clause(e[i]), f[2]))
          <=> (\E l \in labels : Fold[l[1]] = Clause(e[i]).key /\ Holds(Clause(e[i]), Fold[l[2]]))
    <3>1. ASSUME NEW f \in FoldLabels(labels), f[1] = Clause(e[i]).key, Holds(Clause(e[i]), f[2])
          PROVE  \E l \in labels : Fold[l[1]] = Clause(e[i]).key /\ Holds(Clause(e[i]), Fold[l[2]])
      <4>1. PICK l \in labels : f = <<Fold[l[1]], Fold[l[2]]>>
        BY DEF FoldLabels
      <4>2. f[1] = Fold[l[1]] /\ f[2] = Fold[l[2]]
        BY <4>1
      <4>. QED BY <3>1, <4>2
    <3>2. ASSUME NEW l \in labels, Fold[l[1]] = Clause(e[i]).key, Holds(Clause(e[i]), Fold[l[2]])
          PROVE  \E f \in FoldLabels(labels) : f[1] = Clause(e[i]).key /\ Holds(Clause(e[i]), f[2])
      <4>. DEFINE f == <<Fold[l[1]], Fold[l[2]]>>
      <4>1. f \in FoldLabels(labels) /\ f[1] = Fold[l[1]] /\ f[2] = Fold[l[2]]
        BY DEF FoldLabels
      <4>. HIDE DEF f
      <4>. QED BY <3>2, <4>1
    <3>. QED BY <3>1, <3>2
  <2>. QED BY <1>3, <2>1
<1>5. Matches(Parse(e), FoldLabels(labels))
        <=> \A i \in DOMAIN e :
              \E f \in FoldLabels(labels) : f[1] = Clause(e[i]).key /\ Holds(Clause(e[i]), f[2])
  BY DEF Matches, Parse
<1>6. Means(e, labels)
        <=> \A i \in DOMAIN e :
              \E l \in labels : /\ Fold[l[1]] = Fold[e[i].key]
                                /\ e[i].op \in {"=", "==", "in"} => Fold[l[2]] \in Values(e[i])
                                /\ e[i].op \in {"!=", "notin"} => Fold[l[2]] \notin Values(e[i])
  BY DEF Means, Values
<1>. QED BY <1>4, <1>5, <1>6

-----------------------------------------------------------------------------
(* The state: a document that was decoded, then one that was accepted; what  *)
(* is listed once has an identifier of its own.                            *)
Distinct(things) == \A t, u \in things : t.id = u.id => t = u

AcceptedContents(d) ==
  /\ IsDocument(d) /\ DOMAIN d = DOMAIN ZeroConfig
  /\ ContentsAccepted(d)
  /\ Distinct(d.stacks) /\ Distinct(d.services) /\ Distinct(d.workloads)

DocumentInv ==
  /\ input \in Input
  /\ phase = "normalize" => IsDocument(Contents(document)) /\ DOMAIN document = DOMAIN ZeroConfig
  /\ phase \in {"rules", "done"} => \E d : AcceptedContents(d) /\ document = Normalized(d)

LEMMA ContentsAre ==
  ASSUME NEW d, DOMAIN d = DOMAIN ZeroConfig
  PROVE  /\ DOMAIN Contents(d) = DOMAIN ZeroConfig
         /\ Contents(d).stacks = ToSet(d.stacks)
         /\ Contents(d).services = ToSet(d.services)
         /\ Contents(d).workloads = ToSet(d.workloads)
         /\ Contents(d).rules = d.rules
BY DEF Contents, Listings, ZeroConfig

LEMMA ListedOnceIsDistinct ==
  ASSUME NEW things, ListedOnce(things)
  PROVE  Distinct(ToSet(things))
<1>. SUFFICES ASSUME NEW t \in ToSet(things), NEW u \in ToSet(things), t.id = u.id
     PROVE  t = u
  BY DEF Distinct
<1>1. PICK i \in DOMAIN things : t = things[i]
  BY DEF ToSet
<1>2. PICK j \in DOMAIN things : u = things[j]
  BY DEF ToSet
<1>. QED BY <1>1, <1>2 DEF ListedOnce

LEMMA DocumentStep == DocumentInv /\ [Next]_vars => DocumentInv'
<1>. SUFFICES ASSUME DocumentInv, [Next]_vars PROVE DocumentInv'
  OBVIOUS
<1>1. CASE UNCHANGED vars
  BY <1>1 DEF vars, DocumentInv
<1>2. CASE ReadFails \/ Refuse
  BY <1>2 DEF ReadFails, Refuse, DocumentInv
<1>3. CASE Decode
  <2>1. /\ InputAccepted(input) /\ phase' = "normalize" /\ input' = input
        /\ document' = Decoded(input.values[1])
    BY <1>3 DEF Decode
  <2>2. DOMAIN document' = DOMAIN ZeroConfig
    BY <2>1 DEF Decoded
  <2>. QED BY <2>1, <2>2, DocumentAssumption DEF DocumentInv
<1>4. CASE Normalize
  <2>1. /\ phase = "normalize" /\ DocumentAccepted(document) /\ phase' = "rules" /\ input' = input
        /\ document' = Normalized(Contents(document))
    BY <1>4 DEF Normalize
  <2>2. IsDocument(Contents(document)) /\ DOMAIN document = DOMAIN ZeroConfig
    BY <2>1 DEF DocumentInv
  <2>3. AcceptedContents(Contents(document))
    BY <2>1, <2>2, ContentsAre, ListedOnceIsDistinct DEF DocumentAccepted, AcceptedContents
  <2>. QED BY <2>1, <2>3 DEF DocumentInv
<1>5. CASE UNCHANGED <<input, document>> /\ phase = "rules" /\ phase' \in {"rules", "done"}
  BY <1>5 DEF DocumentInv
<1>6. CASE \/ CountWithinStack \/ CountWithinService \/ CountWithinLinked
           \/ CountSelector \/ CountGroupBy \/ CountFromTo
  <2>1. Counting /\ UNCHANGED <<input, document, phase>>
    BY <1>6 DEF CountWithinStack, CountWithinService, CountWithinLinked, CountSelector,
                CountGroupBy, CountFromTo, Count
  <2>. QED BY <1>5, <2>1 DEF Counting
<1>7. CASE Return
  BY <1>5, <1>7 DEF Return
<1>. QED BY <1>1, <1>2, <1>3, <1>4, <1>6, <1>7 DEF Next

LEMMA DocumentInvariance == Spec => []DocumentInv
<1>1. Init => DocumentInv
  BY DEF Init, DocumentInv
<1>. QED BY <1>1, DocumentStep, PTL DEF Spec

LEMMA ExpressionsTyped ==
  ASSUME NEW d, IsDocument(Contents(d)), DOMAIN d = DOMAIN ZeroConfig, NEW e \in Expressions(d)
  PROVE  e \in Seq(Written)
<1>1. PICK i \in DOMAIN d.rules : e \in {d.rules[i].selector, d.rules[i].from, d.rules[i].to} \ {Absent}
  BY DEF Expressions
<1>2. d.rules[i] \in RuleType
  BY ContentsAre DEF IsDocument
<1>. QED BY <1>1, <1>2 DEF RuleType

(* A selector matches exactly the labels its clauses speak of: for sets of   *)
(* any number of values, the search finds each of them, however they are     *)
(* ordered and whatever their case.                                        *)
THEOREM SelectorsSayWhatTheyMean == Spec => []SelectorMeansItsClauses
<1>1. DocumentInv => SelectorMeansItsClauses
  <2>. SUFFICES ASSUME DocumentInv, phase = "normalize",
                       NEW e \in Expressions(document), Accepted(e), NEW w \in ToSet(document.workloads)
       PROVE  Matches(Parse(e), FoldLabels(w.labels)) <=> Means(e, w.labels)
    BY DEF SelectorMeansItsClauses
  <2>1. IsDocument(Contents(document)) /\ DOMAIN document = DOMAIN ZeroConfig
    BY DEF DocumentInv
  <2>2. e \in Seq(Written)
    BY <2>1, ExpressionsTyped
  <2>3. w.labels \in SUBSET (Text \X Text)
    BY <2>1, ContentsAre DEF IsDocument
  <2>. QED BY <2>2, <2>3, MatchesMeans
<1>. QED BY <1>1, DocumentInvariance, PTL

-----------------------------------------------------------------------------
(* The canonical form.                                                     *)
CanonicalClause(k) ==
  [key |-> k.key, op |-> k.op, values |-> k.values,
   spaces |-> IF k.op \in SetOps THEN 2 ELSE 0]

(* Reading a canonical clause gives the clause it was written for.          *)
LEMMA CanonicalClauseIs ==
  ASSUME NEW c \in Written, ClauseAccepted(c)
  PROVE  /\ ClauseAccepted(CanonicalClause(Clause(c)))
         /\ Clause(CanonicalClause(Clause(c))) = Clause(c)
<1>. DEFINE k == Clause(c)
            d == CanonicalClause(k)
            v == k.values
<1>1. /\ k = [key |-> Fold[c.key], op |-> k.op, values |-> v]
      /\ k.op = IF c.op = "==" THEN "=" ELSE c.op
      /\ c.op \in {"exists", "=", "==", "!=", "in", "notin"}
      /\ c.key \in Text
      /\ v \in Seq(Text) /\ DOMAIN v = DOMAIN c.values
      /\ Ascending(v) /\ IsInjective(v)
      /\ \A t : (\E i \in DOMAIN c.values : v[i] = t)
                  <=> (\E i \in DOMAIN c.values : Fold[c.values[i]] = t)
  BY ClauseIs
<1>2. c.values \in Seq(Text) /\ \A i \in DOMAIN c.values : c.values[i] \in Text
  BY DEF Written
<1>3. \A i \in DOMAIN c.values : Fold[c.values[i]] \in Value
  BY DEF ClauseAccepted
<1>. HIDE DEF k, v
<1>4. ASSUME NEW i \in DOMAIN v PROVE Fold[v[i]] = v[i] /\ v[i] \in Value
  <2>1. PICK j \in DOMAIN c.values : Fold[c.values[j]] = v[i]
    BY <1>1
  <2>. QED BY <1>2, <1>3, <2>1, TextAssumption
<1>5. Folded(v) = v
  <2>1. v = [i \in DOMAIN v |-> v[i]]
    BY <1>1
  <2>2. Folded(v) = [i \in DOMAIN v |-> v[i]]
    BY <1>4 DEF Folded
  <2>. QED BY <2>1, <2>2
<1>6. Sorted(Folded(v)) = v
  BY <1>1, <1>5, SortedTwice
<1>7. d.key = Fold[c.key] /\ d.op = k.op /\ d.values = v
  BY <1>1 DEF CanonicalClause, v
<1>8. Clause(d) = [key |-> Fold[d.key], op |-> IF d.op = "==" THEN "=" ELSE d.op,
                   values |-> Sorted(Folded(d.values))]
  BY DEF Clause
<1>. HIDE DEF d
<1>9. Fold[d.key] = Fold[c.key]
  BY <1>1, <1>7, TextAssumption
<1>10. k.op # "==" /\ k.op # "other"
  BY <1>1
<1>11. Clause(d) = k
  BY <1>1, <1>6, <1>7, <1>8, <1>9, <1>10
<1>12. ClauseAccepted(d)
  BY <1>1, <1>4, <1>5, <1>7, <1>10 DEF ClauseAccepted
<1>. QED BY <1>11, <1>12 DEF d, k

LEMMA SetToSeqIs ==
  ASSUME NEW S, IsFiniteSet(S)
  PROVE  /\ SetToSeq(S) \in Seq(S) /\ Len(SetToSeq(S)) = Cardinality(S)
         /\ IsInjective(SetToSeq(S))
         /\ \A x \in S : \E i \in DOMAIN SetToSeq(S) : SetToSeq(S)[i] = x
<1>1. Cardinality(S) \in Nat /\ ExistsBijection(1..Cardinality(S), S)
  BY FS_CardinalityType
<1>2. PICK f \in Bijection(1..Cardinality(S), S) : TRUE
  BY <1>1 DEF ExistsBijection
<1>3. f \in [1..Cardinality(S) -> S] /\ IsInjective(f)
  BY <1>2 DEF Bijection, Injection
<1>. DEFINE s == SetToSeq(S)
<1>4. s \in [1..Cardinality(S) -> S] /\ IsInjective(s)
  BY <1>3 DEF SetToSeq
<1>. HIDE DEF s
<1>5. s \in Seq(S) /\ Len(s) = Cardinality(S) /\ DOMAIN s = 1..Cardinality(S)
  BY <1>1, <1>4
<1>6. s \in Surjection(1..Cardinality(S), S)
  <2>1. s \in Injection(1..Cardinality(S), S)
    BY <1>4 DEF Injection
  <2>2. 1 \in Int /\ Cardinality(S) \in Int
    BY <1>1
  <2>3. Cardinality(1..Cardinality(S)) = Cardinality(S)
    BY <1>1, <2>2, FS_Interval
  <2>. QED BY <2>1, <2>3, FS_Injection
<1>7. \A x \in S : \E i \in DOMAIN s : s[i] = x
  BY <1>5, <1>6 DEF Surjection
<1>. QED BY <1>4, <1>5, <1>7 DEF s

CanonicalClauses(e) == {CanonicalClause(k) : k \in Parse(e)}

(* A canonical form lists the canonical clauses, each once.                *)
LEMMA CanonicalIs ==
  ASSUME NEW e \in Seq(Written), Accepted(e)
  PROVE  /\ Canonical(e) \in Seq(CanonicalClauses(e)) /\ IsInjective(Canonical(e))
         /\ Len(Canonical(e)) \in Nat \ {0} /\ Len(Canonical(e)) <= Len(e)
         /\ \A x \in CanonicalClauses(e) : \E i \in DOMAIN Canonical(e) : Canonical(e)[i] = x
<1>. DEFINE S == CanonicalClauses(e)
<1>1. Canonical(e) = SetToSeq(S)
  BY DEF Canonical, CanonicalClause, CanonicalClauses
<1>2. Len(e) \in Nat /\ DOMAIN e = 1..Len(e) /\ Len(e) # 0
  BY DEF Accepted
<1>3. IsFiniteSet(S) /\ Cardinality(S) <= Len(e) /\ Cardinality(S) \in Nat \ {0}
  <2>. DEFINE f == [i \in 1..Len(e) |-> CanonicalClause(Clause(e[i]))]
  <2>1. f \in Surjection(1..Len(e), S)
    BY <1>2 DEF Surjection, Parse, CanonicalClauses
  <2>2. 1 \in Int /\ Len(e) \in Int
    BY <1>2
  <2>3. IsFiniteSet(1..Len(e)) /\ Cardinality(1..Len(e)) = Len(e)
    BY <1>2, <2>2, FS_Interval
  <2>4. IsFiniteSet(S) /\ Cardinality(S) <= Len(e)
    BY <2>1, <2>3, FS_Surjection
  <2>5. S # {}
    <3>1. 1 \in DOMAIN e
      BY <1>2
    <3>2. CanonicalClause(Clause(e[1])) \in S
      BY <3>1 DEF Parse, CanonicalClauses
    <3>. QED BY <3>2
  <2>. QED BY <2>4, <2>5, FS_EmptySet, FS_CardinalityType
<1>. HIDE DEF S
<1>4. /\ SetToSeq(S) \in Seq(S) /\ Len(SetToSeq(S)) = Cardinality(S)
      /\ IsInjective(SetToSeq(S))
      /\ \A x \in S : \E i \in DOMAIN SetToSeq(S) : SetToSeq(S)[i] = x
  BY <1>3, SetToSeqIs
<1>. QED BY <1>1, <1>3, <1>4 DEF S

LEMMA CanonicalStays ==
  ASSUME NEW e \in Seq(Written), Accepted(e), Length(Canonical(e)) <= MaxLength
  PROVE  Accepted(Canonical(e)) /\ Parse(Canonical(e)) = Parse(e)
<1>. DEFINE S == CanonicalClauses(e)
            s == Canonical(e)
<1>1. /\ \A i \in DOMAIN e : e[i] \in Written /\ ClauseAccepted(e[i])
      /\ Len(e) \in Nat /\ Len(e) <= MaxClauses
  BY DEF Accepted
<1>2. ASSUME NEW x \in S
      PROVE  ClauseAccepted(x) /\ Clause(x) \in Parse(e) /\ x = CanonicalClause(Clause(x))
  <2>1. PICK i \in DOMAIN e : x = CanonicalClause(Clause(e[i]))
    BY DEF Parse, CanonicalClauses
  <2>2. ClauseAccepted(x) /\ Clause(x) = Clause(e[i])
    BY <1>1, <2>1, CanonicalClauseIs
  <2>. QED BY <2>1, <2>2 DEF Parse
<1>3. \A k \in Parse(e) : \E x \in S : Clause(x) = k
  <2>1. ASSUME NEW i \in DOMAIN e PROVE \E x \in S : Clause(x) = Clause(e[i])
    <3>1. CanonicalClause(Clause(e[i])) \in S
      BY DEF Parse, CanonicalClauses
    <3>2. Clause(CanonicalClause(Clause(e[i]))) = Clause(e[i])
      BY <1>1, CanonicalClauseIs
    <3>. QED BY <3>1, <3>2
  <2>. QED BY <2>1 DEF Parse
<1>. HIDE DEF S
<1>4. /\ s \in Seq(S) /\ Len(s) \in Nat \ {0} /\ Len(s) <= Len(e) /\ IsInjective(s)
      /\ \A x \in S : \E i \in DOMAIN s : s[i] = x
  BY CanonicalIs DEF S
<1>. HIDE DEF s
<1>5. DOMAIN s = 1..Len(s) /\ \A i \in DOMAIN s : s[i] \in S
  BY <1>4
<1>6. Parse(s) = Parse(e)
  <2>1. Parse(s) \subseteq Parse(e)
    BY <1>2, <1>5 DEF Parse
  <2>2. ASSUME NEW k \in Parse(e) PROVE k \in Parse(s)
    <3>1. PICK x \in S : Clause(x) = k
      BY <1>3
    <3>2. PICK i \in DOMAIN s : s[i] = x
      BY <1>4
    <3>. QED BY <3>1, <3>2 DEF Parse
  <2>. QED BY <2>1, <2>2
<1>7. Accepted(s)
  <2>1. s # << >> /\ Len(s) <= MaxClauses
    BY <1>1, <1>4, BoundAssumption
  <2>2. \A i, j \in DOMAIN s : Clause(s[i]) = Clause(s[j]) => i = j
    BY <1>2, <1>4, <1>5 DEF IsInjective
  <2>3. \A i \in DOMAIN s : ClauseAccepted(s[i])
    BY <1>2, <1>5
  <2>4. Length(s) <= MaxLength
    BY DEF s
  <2>. QED BY <2>1, <2>2, <2>3, <2>4 DEF Accepted
<1>. QED BY <1>6, <1>7 DEF s

(* A selector written back in its canonical form is accepted again and      *)
(* parsed to the same clauses, unless it outgrew the limit (plan.go:219).   *)
THEOREM CanonicalSelectorsStay == Spec => []CanonicalIsStable
<1>1. DocumentInv => CanonicalIsStable
  BY ExpressionsTyped, CanonicalStays DEF CanonicalIsStable, DocumentInv
<1>. QED BY <1>1, DocumentInvariance, PTL

-----------------------------------------------------------------------------
(* Documents that were accepted.                                           *)
NormalThing(thing) == [thing EXCEPT !.labels = FoldLabels(@)]

LEMMA NormalizedIs ==
  ASSUME NEW d, IsDocument(d), DOMAIN d = DOMAIN ZeroConfig
  PROVE  /\ Normalized(d).services = {NormalThing(s) : s \in d.services}
         /\ Normalized(d).workloads = {NormalThing(w) : w \in d.workloads}
         /\ Normalized(d).rules = [i \in DOMAIN d.rules |-> NormalizeRule(d.rules[i])]
         /\ Normalized(d).stacks = d.stacks
         /\ \A s \in d.services :
              /\ NormalThing(s).id = s.id /\ NormalThing(s).stack = s.stack
              /\ NormalThing(s).primary = s.primary /\ NormalThing(s).links = s.links
              /\ NormalThing(s).labels = FoldLabels(s.labels)
         /\ \A w \in d.workloads :
              /\ NormalThing(w).service = w.service /\ NormalThing(w).stack = w.stack
              /\ NormalThing(w).labels = FoldLabels(w.labels)
<1>1. DOMAIN d = {"schema", "local", "stacks", "services", "workloads", "default", "rules"}
  BY DEF ZeroConfig
<1>2. /\ Normalized(d).services = {NormalThing(s) : s \in d.services}
      /\ Normalized(d).workloads = {NormalThing(w) : w \in d.workloads}
      /\ Normalized(d).rules = [i \in DOMAIN d.rules |-> NormalizeRule(d.rules[i])]
      /\ Normalized(d).stacks = d.stacks
  BY <1>1 DEF Normalized, NormalThing
<1>3. \A s \in d.services : DOMAIN s = {"id", "stack", "labels", "primary", "links"}
  BY DEF IsDocument
<1>4. \A w \in d.workloads : DOMAIN w = {"id", "host", "stack", "service", "labels", "links"}
  BY DEF IsDocument
<1>. QED BY <1>2, <1>3, <1>4 DEF NormalThing

(* The primary a service names, if any.                                    *)
LEMMA RootIs ==
  ASSUME NEW n, Distinct(n.services), NEW s \in n.services
  PROVE  Root(n, s.id) = IF s.primary = Absent THEN s.id ELSE s.primary
<1>1. (CHOOSE t \in n.services : t.id = s.id) = s
  BY DEF Distinct
<1>. QED BY <1>1 DEF Root

(* After normalization a root is its own root, in the stack of its service. *)
THEOREM RootsAreRoots == Spec => []RootsAreIdempotent
<1>1. DocumentInv => RootsAreIdempotent
  <2>. SUFFICES ASSUME DocumentInv, phase \in {"rules", "done"}, NEW s \in document.services
       PROVE  \E r \in Named(document.services, Root(document, s.id)) :
                Root(document, r.id) = r.id /\ r.stack = s.stack
    BY DEF RootsAreIdempotent
  <2>1. PICK d : /\ AcceptedContents(d) /\ IsDocument(d) /\ ContentsAccepted(d)
                 /\ DOMAIN d = DOMAIN ZeroConfig /\ document = Normalized(d)
    BY DEF DocumentInv, AcceptedContents
  <2>2. /\ document.services = {NormalThing(t) : t \in d.services}
        /\ \A t \in d.services :
             /\ NormalThing(t).id = t.id /\ NormalThing(t).stack = t.stack
             /\ NormalThing(t).primary = t.primary
    BY <2>1, NormalizedIs
  <2>3. Distinct(d.services) /\ \A t \in d.services : PrimaryAccepted(d, t)
    BY <2>1 DEF AcceptedContents, ContentsAccepted, ServiceAccepted
  <2>4. Distinct(document.services)
    BY <2>2, <2>3 DEF Distinct
  <2>5. PICK t \in d.services : s = NormalThing(t)
    BY <2>2
  <2>6. s.id = t.id /\ s.stack = t.stack /\ s.primary = t.primary
    BY <2>2, <2>5
  <2>7. CASE t.primary = Absent
    <3>1. Root(document, s.id) = s.id
      BY <2>4, <2>6, <2>7, RootIs
    <3>. QED BY <3>1 DEF Named
  <2>8. CASE t.primary # Absent
    <3>1. PICK p \in d.services : p.id = t.primary /\ p.stack = t.stack /\ p.primary = Absent
      BY <2>3, <2>8 DEF PrimaryAccepted, Named
    <3>. DEFINE r == NormalThing(p)
    <3>2. r \in document.services /\ r.id = t.primary /\ r.stack = s.stack /\ r.primary = Absent
      BY <2>2, <2>6, <3>1
    <3>3. Root(document, s.id) = t.primary
      BY <2>4, <2>6, <2>8, RootIs
    <3>. HIDE DEF r
    <3>4. Root(document, r.id) = r.id
      BY <2>4, <3>2, RootIs
    <3>. QED BY <3>2, <3>3, <3>4 DEF Named
  <2>. QED BY <2>7, <2>8
<1>. QED BY <1>1, DocumentInvariance, PTL

LEMMA FoldedLabels ==
  ASSUME NEW labels, LabelsAccepted(labels), NEW x \in FoldLabels(labels),
         NEW y \in FoldLabels(labels), x[1] = y[1]
  PROVE  x = y
<1>1. PICK p \in labels : x = <<Fold[p[1]], Fold[p[2]]>>
  BY DEF FoldLabels
<1>2. PICK q \in labels : y = <<Fold[q[1]], Fold[q[2]]>>
  BY DEF FoldLabels
<1>3. Fold[p[1]] = Fold[q[1]]
  BY <1>1, <1>2
<1>4. p = q
  BY <1>3 DEF LabelsAccepted
<1>. QED BY <1>1, <1>2, <1>4

(* After normalization no key has two values, among the labels of a workload *)
(* and its service: which of the two is read first does not matter.         *)
THEOREM LabelsHaveOneValue == Spec => []LabelsAreUnambiguous
<1>1. DocumentInv => LabelsAreUnambiguous
  <2>. SUFFICES ASSUME DocumentInv, phase \in {"rules", "done"}, NEW w \in document.workloads,
                       NEW s \in document.services, s.id = w.service,
                       NEW a \in s.labels \cup w.labels, NEW b \in s.labels \cup w.labels,
                       a[1] = b[1]
       PROVE  a = b
    BY DEF LabelsAreUnambiguous, Named
  <2>1. PICK d : /\ AcceptedContents(d) /\ IsDocument(d) /\ ContentsAccepted(d)
                 /\ DOMAIN d = DOMAIN ZeroConfig /\ document = Normalized(d)
    BY DEF DocumentInv, AcceptedContents
  <2>2. /\ document.services = {NormalThing(t) : t \in d.services}
        /\ document.workloads = {NormalThing(v) : v \in d.workloads}
        /\ \A t \in d.services : NormalThing(t).id = t.id
                                 /\ NormalThing(t).labels = FoldLabels(t.labels)
        /\ \A v \in d.workloads : NormalThing(v).service = v.service
                                  /\ NormalThing(v).labels = FoldLabels(v.labels)
    BY <2>1, NormalizedIs
  <2>3. PICK t \in d.services : s = NormalThing(t)
    BY <2>2
  <2>4. PICK v \in d.workloads : w = NormalThing(v)
    BY <2>2
  <2>5. /\ s.labels = FoldLabels(t.labels) /\ w.labels = FoldLabels(v.labels)
        /\ t.id = v.service
    BY <2>2, <2>3, <2>4
  <2>6. /\ LabelsAccepted(t.labels) /\ LabelsAccepted(v.labels)
        /\ Distinct(d.services) /\ WorkloadAccepted(d, v) /\ ServiceAccepted(d, t)
    BY <2>1 DEF AcceptedContents, ContentsAccepted, WorkloadAccepted, ServiceAccepted
  <2>7. LabelsInherited(t, v)
    <3>. v.service # Absent
      BY <2>1, <2>5 DEF ContentsAccepted, Identified
    <3>1. PICK u \in d.services : u.id = v.service /\ LabelsInherited(u, v)
      BY <2>6 DEF WorkloadAccepted, Named
    <3>2. u = t
      BY <2>5, <2>6, <3>1 DEF Distinct
    <3>. QED BY <3>1, <3>2
  <2>. QED BY <2>5, <2>6, <2>7, FoldedLabels DEF LabelsInherited
<1>. QED BY <1>1, DocumentInvariance, PTL

-----------------------------------------------------------------------------
(* What the decoder makes of an input.                                     *)
LEMMA MaxOfOne ==
  ASSUME NEW i \in Nat
  PROVE  Max({i}) = i
BY DEF Max

(* The one member that is given for a field is the one that is read.        *)
LEMMA GivenOnce ==
  ASSUME NEW object, DOMAIN object.members \subseteq Nat, IsInjective(Keys(object)), OneKeyAField(object),
         NEW i \in DOMAIN object.members
  PROVE  LET field == FieldOf[object.members[i].key]
         IN /\ Given(object.members, field) = {i}
            /\ LastGiven(object.members, field) = object.members[i].value
<1>. DEFINE field == FieldOf[object.members[i].key]
<1>1. \A j \in DOMAIN object.members : object.members[j].key = object.members[i].key => j = i
  BY DEF Keys, IsInjective
<1>2. \A j \in DOMAIN object.members : FieldOf[object.members[j].key] = field => j = i
  BY <1>1 DEF OneKeyAField
<1>3. Given(object.members, field) = {i}
  BY <1>2 DEF Given
<1>. QED BY <1>3, MaxOfOne DEF LastGiven

LEMMA EveryMemberIsRead ==
  ASSUME NEW value, Scanned(value), Decodable(value),
         \A object \in Objects(value) : DOMAIN object.members \subseteq Nat /\ OneKeyAField(object),
         NEW object \in Objects(value), NEW i \in DOMAIN object.members,
         object.members[i].value.kind = "atom"
  PROVE  Decoded(value)[FieldOf[object.members[i].key]] = object.members[i].value.is
<1>. DEFINE member == object.members[i]
            field == FieldOf[member.key]
            given == {j \in Given(value.members, "policy") :
                        Given(value.members[j].value.members, field) # {}}
<1>1. /\ value.kind = "object" /\ Fits(value.members, TopField)
      /\ \A j \in Given(value.members, "policy") : Fits(value.members[j].value.members, PolicyField)
      /\ value \in Objects(value)
  BY DEF Decodable, Objects
<1>2. \A o \in Objects(value) : DOMAIN o.members \subseteq Nat /\ IsInjective(Keys(o)) /\ OneKeyAField(o)
  BY DEF Scanned, KeyLists
<1>3. Given(object.members, field) = {i} /\ LastGiven(object.members, field) = member.value
  BY <1>2, GivenOnce
<1>4. CASE object = value
  <2>1. field \in TopField /\ field # "policy"
    BY <1>1, <1>4 DEF Fits
  <2>2. field \in DOMAIN ZeroConfig /\ field \notin PolicyField
    BY <2>1 DEF TopField, PolicyField, ZeroConfig
  <2>3. Decoded(value)[field] = LastGiven(value.members, field).is
    BY <1>3, <1>4, <2>2 DEF Decoded
  <2>. QED BY <1>3, <1>4, <2>3
<1>5. CASE object # value
  <2>1. PICK p \in DOMAIN value.members : object = value.members[p].value /\ object.kind = "object"
    BY <1>1, <1>5 DEF Objects, ToSet
  <2>2. FieldOf[value.members[p].key] = "policy"
    BY <1>1, <2>1 DEF Fits
  <2>3. Given(value.members, "policy") = {p}
    <3>1. DOMAIN value.members \subseteq Nat /\ IsInjective(Keys(value)) /\ OneKeyAField(value)
      BY <1>1, <1>2
    <3>2. Given(value.members, FieldOf[value.members[p].key]) = {p}
      BY <2>1, <3>1, GivenOnce
    <3>. QED BY <2>2, <3>2
  <2>4. field \in PolicyField
    BY <1>1, <2>1, <2>3 DEF Fits
  <2>5. field \in DOMAIN ZeroConfig
    BY <2>4 DEF PolicyField, ZeroConfig
  <2>6. given = {p}
    BY <1>3, <2>1, <2>3
  <2>7. Max(given) = p
    BY <1>1, <1>2, <2>6, MaxOfOne
  <2>8. Decoded(value)[field] = LastGiven(value.members[Max(given)].value.members, field).is
    BY <2>4, <2>5, <2>6 DEF Decoded
  <2>. QED BY <1>3, <2>1, <2>7, <2>8
<1>. QED BY <1>4, <1>5

(* Nor is a member written over inside a value.                            *)
LEMMA EveryMemberInsideIsRead ==
  ASSUME NEW value, Scanned(value), NEW object \in Objects(value), NEW i \in DOMAIN object.members,
         object.members[i].value.kind = "atom", NEW keys \in object.members[i].value.inside
  PROVE  \A j, k \in DOMAIN keys : keys[j] = keys[k] => j = k
<1>1. object.members[i].value \in AtomsOf(object)
  BY DEF AtomsOf, ToSet
<1>2. keys \in KeyLists(value)
  BY <1>1 DEF KeyLists
<1>. QED BY <1>2 DEF Scanned, IsInjective

DecodedInv ==
  /\ input \in Input
  /\ phase = "normalize" => InputAccepted(input) /\ document = Decoded(input.values[1])

LEMMA DecodedStep == DecodedInv /\ [Next]_vars => DecodedInv'
<1>. SUFFICES ASSUME DecodedInv, [Next]_vars PROVE DecodedInv'
  OBVIOUS
<1>1. CASE UNCHANGED vars
  BY <1>1 DEF vars, DecodedInv
<1>2. CASE ReadFails \/ Refuse \/ Normalize \/ Return
  BY <1>2 DEF ReadFails, Refuse, Normalize, Return, DecodedInv
<1>3. CASE Decode
  BY <1>3 DEF Decode, DecodedInv
<1>4. CASE \/ CountWithinStack \/ CountWithinService \/ CountWithinLinked
           \/ CountSelector \/ CountGroupBy \/ CountFromTo
  <2>1. Counting /\ UNCHANGED <<input, phase>>
    BY <1>4 DEF CountWithinStack, CountWithinService, CountWithinLinked, CountSelector,
                CountGroupBy, CountFromTo, Count
  <2>. QED BY <2>1 DEF Counting, DecodedInv
<1>. QED BY <1>1, <1>2, <1>3, <1>4 DEF Next

(* What is audited is all that was submitted: whatever the input, if no two *)
(* of its keys differ in case only, every member of every object is in the  *)
(* document, the nested ones as well, and none is written over inside the   *)
(* entries of its lists (rejectDuplicateFields, decode.go).                 *)
THEOREM AllThatIsSubmittedIsAudited == Spec => []NothingIsDropped
<1>1. Init => DecodedInv
  BY DEF Init, DecodedInv
<1>2. DecodedInv => NothingIsDropped
  <2>. DEFINE value == input.values[1]
  <2>. SUFFICES ASSUME DecodedInv, phase = "normalize",
                       \A object \in Objects(value) : OneKeyAField(object),
                       NEW object \in Objects(value), NEW i \in DOMAIN object.members,
                       object.members[i].value.kind = "atom"
       PROVE  /\ document[FieldOf[object.members[i].key]] = object.members[i].value.is
              /\ \A keys \in object.members[i].value.inside :
                   \A j, k \in DOMAIN keys : keys[j] = keys[k] => j = k
    BY DEF NothingIsDropped
  <2>1. /\ input \in Input /\ Len(input.values) = 1
        /\ Scanned(value) /\ Decodable(value) /\ document = Decoded(value)
    BY DEF DecodedInv, InputAccepted
  <2>2. \A o \in Objects(value) : DOMAIN o.members \subseteq Nat
    BY <2>1, InputAssumption
  <2>. QED BY <2>1, <2>2, EveryMemberIsRead, EveryMemberInsideIsRead
<1>. QED BY <1>1, <1>2, DecodedStep, PTL DEF Spec
=============================================================================
