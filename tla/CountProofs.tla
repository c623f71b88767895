------------------------------ MODULE CountProofs ------------------------------
(***************************************************************************)
(* The counts of an audit: each is the number of relationships that the     *)
(* policy contract has for the rules counted so far.                       *)
(***************************************************************************)
EXTENDS AuditProofs

-----------------------------------------------------------------------------
(* Sums.  A sum is the size of a union of disjoint sets, one per summand:   *)
(* that it does not depend on the order of summation comes with it.         *)
SumStep(f, sum, s) ==
  IF s = {} THEN 0
  ELSE LET x == CHOOSE x \in s : TRUE IN f[x] + sum[s \ {x}]

LEMMA SumIsWellDefined ==
  ASSUME NEW S, IsFiniteSet(S), NEW f \in [S -> Nat]
  PROVE  \E g : g = [s \in SUBSET S |-> SumStep(f, g, s)]
<1>. DEFINE D == SUBSET S
            Good(m) == \E g : /\ g = [s \in D |-> g[s]]
                              /\ \A s \in D : Cardinality(s) <= m => g[s] = SumStep(f, g, s)
            T == {m \in Nat : ~Good(m)}
<1>1. \A s \in D : IsFiniteSet(s) /\ Cardinality(s) \in Nat
  BY FS_Subset, FS_CardinalityType
<1>2. Good(0)
  <2>. DEFINE g == [s \in D |-> 0]
  <2>1. g = [s \in D |-> g[s]]
    OBVIOUS
  <2>2. ASSUME NEW s \in D, Cardinality(s) <= 0 PROVE g[s] = SumStep(f, g, s)
    <3>1. s = {}
      BY <1>1, <2>2, FS_EmptySet
    <3>. QED BY <3>1 DEF SumStep
  <2>. QED BY <2>1, <2>2
<1>3. ASSUME NEW m \in Nat, Good(m) PROVE Good(m + 1)
  <2>1. PICK g : /\ g = [s \in D |-> g[s]]
                 /\ \A s \in D : Cardinality(s) <= m => g[s] = SumStep(f, g, s)
    BY <1>3
  <2>. DEFINE h == [s \in D |-> SumStep(f, g, s)]
  <2>2. ASSUME NEW s \in D, Cardinality(s) <= m + 1 PROVE h[s] = SumStep(f, h, s)
    <3>1. h[s] = SumStep(f, g, s)
      OBVIOUS
    <3>2. CASE s = {}
      BY <3>1, <3>2 DEF SumStep
    <3>3. CASE s # {}
      <4>. DEFINE x == CHOOSE x \in s : TRUE
      <4>1. x \in s
        BY <3>3
      <4>. HIDE DEF x
      <4>2. s \ {x} \in D /\ Cardinality(s \ {x}) <= m
        BY <1>1, <2>2, <4>1, FS_RemoveElement
      <4>3. h[s \ {x}] = g[s \ {x}]
        BY <2>1, <4>2
      <4>. QED BY <3>1, <4>3 DEF SumStep, x
    <3>. QED BY <3>2, <3>3
  <2>3. h = [s \in D |-> h[s]]
    OBVIOUS
  <2>. HIDE DEF h
  <2>. QED BY <2>2, <2>3
<1>4. T = {}
  <2>. SUFFICES ASSUME T # {} PROVE FALSE
    OBVIOUS
  <2>. HIDE DEF Good
  <2>1. PICK m \in T : \A k \in T : m <= k
    BY LeastNatural
  <2>2. m # 0
    BY <1>2, <2>1
  <2>3. m - 1 \in Nat /\ m - 1 \notin T
    BY <2>1, <2>2
  <2>4. Good(m - 1) /\ ~Good((m - 1) + 1)
    BY <2>1, <2>3
  <2>. QED BY <1>3, <2>3, <2>4
<1>5. Cardinality(S) \in Nat /\ \A s \in D : Cardinality(s) <= Cardinality(S)
  BY FS_CardinalityType, FS_Subset
<1>6. PICK g : /\ g = [s \in D |-> g[s]]
               /\ \A s \in D : Cardinality(s) <= Cardinality(S) => g[s] = SumStep(f, g, s)
  <2>1. Good(Cardinality(S))
    BY <1>4, <1>5
  <2>. QED BY <2>1
<1>. QED BY <1>5, <1>6

LEMMA DisjointSizes ==
  ASSUME NEW A, NEW B, IsFiniteSet(A), IsFiniteSet(B), A \cap B = {}
  PROVE  IsFiniteSet(A \cup B) /\ Cardinality(A \cup B) = Cardinality(A) + Cardinality(B)
<1>1. Cardinality(A) \in Nat /\ Cardinality(B) \in Nat /\ Cardinality(A \cap B) = 0
  BY FS_CardinalityType, FS_EmptySet
<1>2. IsFiniteSet(A \cup B)
      /\ Cardinality(A \cup B) = Cardinality(A) + Cardinality(B) - Cardinality(A \cap B)
  BY FS_Union
<1>. QED BY <1>1, <1>2

LEMMA SumIsCardinality ==
  ASSUME NEW S, IsFiniteSet(S), NEW f \in [S -> Nat], NEW P,
         \A x \in S : IsFiniteSet(P[x]) /\ Cardinality(P[x]) = f[x],
         \A x, y \in S : x # y => P[x] \cap P[y] = {},
         NEW all, \A z : z \in all <=> \E x \in S : z \in P[x]
  PROVE  SumFunction(f) = Cardinality(all) /\ IsFiniteSet(all)
<1>. DEFINE D == SUBSET S
            All(s) == UNION {P[x] : x \in s}
            sum == CHOOSE g : g = [s \in D |-> SumStep(f, g, s)]
<1>1. sum = [s \in D |-> SumStep(f, sum, s)]
  BY SumIsWellDefined
<1>2. SumFunction(f) = sum[S]
  BY DEF SumFunction, SumFunctionOnSet, FoldFunctionOnSet, MapThenFoldSet, SumStep
<1>. HIDE DEF sum
<1>3. \A s \in D : IsFiniteSet(s) /\ Cardinality(s) \in Nat
  BY FS_Subset, FS_CardinalityType
<1>. DEFINE Right(s) == sum[s] = Cardinality(All(s)) /\ IsFiniteSet(All(s))
            T == {m \in Nat : \E s \in D : Cardinality(s) = m /\ ~Right(s)}
<1>4. T = {}
  <2>. SUFFICES ASSUME T # {} PROVE FALSE
    OBVIOUS
  <2>1. PICK m \in T : \A k \in T : m <= k
    BY LeastNatural
  <2>2. PICK s \in D : Cardinality(s) = m /\ ~Right(s)
    BY <2>1
  <2>3. m \in Nat
    BY <2>1
  <2>4. CASE s = {}
    <3>1. All(s) = {} /\ sum[s] = 0
      BY <1>1, <2>4 DEF SumStep
    <3>. QED BY <2>2, <3>1, FS_EmptySet
  <2>5. CASE s # {}
    <3>. DEFINE x == CHOOSE x \in s : TRUE
                r == s \ {x}
    <3>1. x \in s /\ sum[s] = f[x] + sum[r]
      BY <1>1, <2>5 DEF SumStep
    <3>. HIDE DEF x
    <3>2. r \in D /\ Cardinality(r) \in Nat /\ Cardinality(r) < m
      BY <1>3, <2>2, <3>1, FS_RemoveElement
    <3>3. Right(r) \/ Cardinality(r) \in T
      BY <3>2
    <3>4. Right(r)
      <4>. HIDE DEF Right, T
      <4>. QED BY <2>1, <2>3, <3>2, <3>3
    <3>5. All(s) = P[x] \cup All(r) /\ P[x] \cap All(r) = {}
      BY <3>1
    <3>6. IsFiniteSet(P[x]) /\ Cardinality(P[x]) = f[x] /\ f[x] \in Nat
      BY <3>1
    <3>. HIDE DEF All
    <3>7. Cardinality(All(r)) \in Nat
      BY <3>4, FS_CardinalityType
    <3>8. /\ IsFiniteSet(P[x] \cup All(r))
          /\ Cardinality(P[x] \cup All(r)) = Cardinality(P[x]) + Cardinality(All(r))
      BY <3>4, <3>5, <3>6, DisjointSizes
    <3>. QED BY <2>2, <3>1, <3>4, <3>5, <3>6, <3>7, <3>8
  <2>. QED BY <2>4, <2>5
<1>5. Right(S)
  BY <1>3, <1>4
<1>6. All(S) = all
  OBVIOUS
<1>. QED BY <1>2, <1>5, <1>6

LEMMA SumOfNothing ==
  ASSUME NEW S, S = {}, NEW f \in [S -> Nat]
  PROVE  SumFunction(f) = 0
<1>1. IsFiniteSet(S) /\ Cardinality({}) = 0
  BY FS_EmptySet
<1>2. /\ \A x \in S : IsFiniteSet(f[x]) /\ Cardinality(f[x]) = f[x]
      /\ \A x, y \in S : x # y => f[x] \cap f[y] = {}
      /\ \A z : z \in {} <=> \E x \in S : z \in f[x]
  OBVIOUS
<1>3. SumFunction(f) = Cardinality({})
  BY <1>1, <1>2, SumIsCardinality
<1>. QED BY <1>1, <1>3

LEMMA TaggedSize ==
  ASSUME NEW y, NEW n \in Nat
  PROVE  IsFiniteSet({y} \X (1..n)) /\ Cardinality({y} \X (1..n)) = n
<1>. DEFINE A == {y}
            B == 1..n
<1>1. 1 \in Int /\ n \in Int
  OBVIOUS
<1>2. IsFiniteSet(B) /\ Cardinality(B) = n
  BY <1>1, FS_Interval
<1>3. IsFiniteSet(A) /\ Cardinality(A) = 1
  BY FS_Singleton
<1>. HIDE DEF A, B
<1>4. IsFiniteSet(A \X B) /\ Cardinality(A \X B) = 1 * n
  BY <1>2, <1>3, FS_Product
<1>. QED BY <1>4 DEF A, B

LEMMA SumOfOneMore ==
  ASSUME NEW S, IsFiniteSet(S), NEW x, x \notin S,
         NEW T, T = S \cup {x}, NEW f \in [S -> Nat], NEW g \in [T -> Nat],
         \A y \in S : g[y] = f[y]
  PROVE  SumFunction(f) \in Nat /\ SumFunction(g) = SumFunction(f) + g[x]
<1>. DEFINE P == [y \in T |-> {y} \X (1..g[y])]
            Before == UNION {P[y] : y \in S}
            After == UNION {P[y] : y \in T}
<1>1. \A y \in T : IsFiniteSet(P[y]) /\ Cardinality(P[y]) = g[y]
  BY TaggedSize
<1>2. \A y, z \in T : y # z => P[y] \cap P[z] = {}
  OBVIOUS
<1>3. IsFiniteSet(T)
  BY FS_AddElement
<1>. HIDE DEF P
<1>4. /\ After = Before \cup P[x] /\ Before \cap P[x] = {}
      /\ \A z : z \in Before <=> \E y \in S : z \in P[y]
      /\ \A z : z \in After <=> \E y \in T : z \in P[y]
  BY <1>2
<1>. HIDE DEF Before, After
<1>5. SumFunction(f) = Cardinality(Before) /\ IsFiniteSet(Before)
  BY <1>1, <1>2, <1>4, SumIsCardinality
<1>6. SumFunction(g) = Cardinality(After)
  BY <1>1, <1>2, <1>3, <1>4, SumIsCardinality
<1>7. Cardinality(After) = Cardinality(Before) + Cardinality(P[x])
  BY <1>1, <1>4, <1>5, DisjointSizes
<1>. QED BY <1>1, <1>5, <1>6, <1>7, FS_CardinalityType

(* A sum whose summands are the sizes of sets is a natural number.          *)
LEMMA SumIsNatural ==
  ASSUME NEW S, IsFiniteSet(S), NEW f \in [S -> Nat]
  PROVE  SumFunction(f) \in Nat
<1>. DEFINE x == CHOOSE x : x \notin S
            T == S \cup {x}
            g == [y \in T |-> IF y \in S THEN f[y] ELSE 0]
<1>1. x \notin S
  BY NoSetContainsEverything
<1>. HIDE DEF x
<1>2. g \in [T -> Nat] /\ \A y \in S : g[y] = f[y]
  OBVIOUS
<1>. HIDE DEF g
<1>. QED BY <1>1, <1>2, SumOfOneMore

-----------------------------------------------------------------------------
(* Documents that are counted.                                             *)
AllLabels(n, w) == w.labels \cup UNION {s.labels : s \in Named(n.services, w.service)}

Lowered(labels) ==
  /\ labels \subseteq Text \X Text
  /\ \A l \in labels : Fold[l[1]] = l[1] /\ Fold[l[2]] = l[2]

OfOneForm(r) ==
  \/ /\ r.within \in Within
     /\ r.selector = Absent /\ r.group = Absent /\ r.from = Absent /\ r.to = Absent
  \/ /\ r.within = Absent /\ r.from = Absent /\ r.to = Absent
     /\ \/ r.selector = Absent /\ r.group # Absent
        \/ r.selector # Absent /\ r.group = Absent
  \/ /\ r.within = Absent /\ r.selector = Absent /\ r.group = Absent
     /\ r.from # Absent /\ r.to # Absent

NormalRule(r) ==
  /\ OfOneForm(r)
  /\ r.group # Absent => r.group \in Text /\ Fold[r.group] = r.group
  /\ r.selector # Absent => r.selector \in Seq(Written)
  /\ r.from # Absent => r.from \in Seq(Written) /\ r.to \in Seq(Written)
  /\ \E m \in Nat : DOMAIN r.ports = 1..m /\ Len(r.ports) = m
  /\ IsInjective(r.ports)

NormalDocument(n) ==
  /\ IsFiniteSet(n.services) /\ IsFiniteSet(n.workloads) /\ IsFiniteSet(n.stacks)
  /\ Distinct(n.services) /\ Identified(n.services)
  /\ \A s \in n.services :
       /\ s.primary = Absent \/ \E p \in n.services : p.id = s.primary /\ p.primary = Absent
       /\ \A i \in DOMAIN s.links : \E t \in n.services : t.id = s.links[i]
  /\ \A w \in n.workloads :
       /\ \E s \in n.stacks : s.id = w.stack
       /\ w.service = Absent \/ \E s \in n.services : s.id = w.service
       /\ Lowered(AllLabels(n, w))
       /\ \A a, b \in AllLabels(n, w) : a[1] = b[1] => a = b
  /\ \E m \in Nat : DOMAIN n.rules = 1..m /\ Len(n.rules) = m
  /\ \A k \in DOMAIN n.rules : NormalRule(n.rules[k])

LEMMA CanonicalTyped ==
  ASSUME NEW e \in Seq(Written), Accepted(e)
  PROVE  Canonical(e) \in Seq(Written)
<1>1. ASSUME NEW x \in CanonicalClauses(e) PROVE x \in Written
  <2>1. PICK i \in DOMAIN e : x = CanonicalClause(Clause(e[i]))
    BY <1>1 DEF CanonicalClauses, Parse
  <2>. DEFINE c == e[i]
              k == Clause(c)
  <2>2. c \in Written /\ ClauseAccepted(c)
    BY DEF Accepted
  <2>3. /\ k = [key |-> Fold[c.key], op |-> k.op, values |-> k.values]
        /\ k.op = IF c.op = "==" THEN "=" ELSE c.op
        /\ c.op \in {"exists", "=", "==", "!=", "in", "notin"}
        /\ Fold[c.key] \in Text
        /\ k.values \in Seq(Text) /\ DOMAIN k.values = DOMAIN c.values
    BY <2>2, ClauseIs
  <2>4. c.values \in Seq(Text) /\ (c.op \in {"=", "==", "!="} => Len(c.values) = 1)
    BY <2>2 DEF Written
  <2>. HIDE DEF c, k
  <2>5. Len(k.values) = Len(c.values)
    BY <2>3, <2>4
  <2>6. /\ x = [key |-> k.key, op |-> k.op, values |-> k.values,
               spaces |-> IF k.op \in SetOps THEN 2 ELSE 0]
        /\ k.key = Fold[c.key]
    BY <2>1, <2>3 DEF CanonicalClause, k, c
  <2>7. /\ x \in [key : Text, op : {"exists", "=", "==", "!=", "in", "notin", "other"},
                 values : Seq(Text), spaces : Nat]
        /\ x.op \in {"=", "==", "!="} => Len(x.values) = 1
    BY <2>3, <2>4, <2>5, <2>6
  <2>. QED BY <2>7 DEF Written
<1>2. Canonical(e) \in Seq(CanonicalClauses(e))
  BY CanonicalIs
<1>. QED BY <1>1, <1>2

LEMMA NormalRules ==
  ASSUME NEW r \in RuleType, RuleAccepted(r)
  PROVE  NormalRule(NormalizeRule(r)) /\ NormalizeRule(r).action = r.action
<1>. DEFINE n == NormalizeRule(r)
<1>1. /\ r.within \in Within \cup {"other", Absent} /\ r.group \in Text \cup {Absent}
      /\ r.selector \in Seq(Written) \cup {Absent}
      /\ r.from \in Seq(Written) \cup {Absent} /\ r.to \in Seq(Written) \cup {Absent}
      /\ r.ports \in Seq(Nat \X STRING)
  BY DEF RuleType
<1>2. /\ n.within = r.within /\ n.ports = r.ports /\ n.action = r.action
      /\ n.selector = CanonicalOrAbsent(r.selector)
      /\ n.from = CanonicalOrAbsent(r.from) /\ n.to = CanonicalOrAbsent(r.to)
      /\ n.group = IF r.group = Absent THEN Absent ELSE Fold[r.group]
  BY DEF NormalizeRule, RuleType
<1>. HIDE DEF n
<1>3. \A e \in Seq(Written) : Accepted(e) =>
        CanonicalOrAbsent(e) \in Seq(Written) /\ CanonicalOrAbsent(e) # Absent
  BY CanonicalTyped, AbsentAssumption DEF CanonicalOrAbsent
<1>4. CanonicalOrAbsent(Absent) = Absent
  BY DEF CanonicalOrAbsent
<1>5. /\ n.group = Absent <=> r.group = Absent
      /\ n.group # Absent => n.group \in Text /\ Fold[n.group] = n.group
  BY <1>1, <1>2, TextAssumption, AbsentAssumption
<1>6. /\ r.selector # Absent => Accepted(r.selector)
      /\ r.from # Absent => Accepted(r.from) /\ r.to # Absent
      /\ r.to # Absent => Accepted(r.to) /\ r.from # Absent
      /\ OfOneForm(r) /\ (r.ports = << >> \/ IsInjective(r.ports))
  BY DEF RuleAccepted, OfOneForm, PortsAccepted
<1>7. /\ n.selector = Absent <=> r.selector = Absent
      /\ n.from = Absent <=> r.from = Absent
      /\ n.to = Absent <=> r.to = Absent
      /\ n.selector # Absent => n.selector \in Seq(Written)
      /\ n.from # Absent => n.from \in Seq(Written) /\ n.to \in Seq(Written)
  BY <1>1, <1>2, <1>3, <1>4, <1>6
<1>8. OfOneForm(n)
  BY <1>2, <1>5, <1>6, <1>7 DEF OfOneForm
<1>9. /\ \E m \in Nat : DOMAIN r.ports = 1..m /\ Len(r.ports) = m
      /\ IsInjective(r.ports)
  BY <1>1, <1>6 DEF IsInjective
<1>. QED BY <1>2, <1>5, <1>7, <1>8, <1>9 DEF NormalRule, n

LEMMA ImageIsFinite ==
  ASSUME NEW S, IsFiniteSet(S), NEW f, DOMAIN f = S, f = [x \in S |-> f[x]],
         NEW T, \A y : y \in T <=> \E x \in S : y = f[x]
  PROVE  IsFiniteSet(T)
<1>1. f \in Surjection(S, T)
  BY DEF Surjection
<1>. QED BY <1>1, FS_Surjection

LEMMA FoldedIsLowered ==
  ASSUME NEW labels \in SUBSET (Text \X Text)
  PROVE  Lowered(FoldLabels(labels))
BY TextAssumption DEF Lowered, FoldLabels

LEMMA NormalizedIsNormal ==
  ASSUME NEW d, AcceptedContents(d)
  PROVE  NormalDocument(Normalized(d))
<1>. DEFINE n == Normalized(d)
<1>1. /\ n.services = {NormalThing(s) : s \in d.services}
      /\ n.workloads = {NormalThing(w) : w \in d.workloads}
      /\ n.rules = [i \in DOMAIN d.rules |-> NormalizeRule(d.rules[i])]
      /\ n.stacks = d.stacks
      /\ \A s \in d.services :
           /\ NormalThing(s).id = s.id /\ NormalThing(s).stack = s.stack
           /\ NormalThing(s).primary = s.primary /\ NormalThing(s).links = s.links
           /\ NormalThing(s).labels = FoldLabels(s.labels)
      /\ \A w \in d.workloads :
           /\ NormalThing(w).service = w.service /\ NormalThing(w).stack = w.stack
           /\ NormalThing(w).labels = FoldLabels(w.labels)
  BY NormalizedIs DEF AcceptedContents
<1>. HIDE DEF n
<1>2. /\ IsFiniteSet(d.stacks) /\ IsFiniteSet(d.services) /\ IsFiniteSet(d.workloads)
      /\ \A s \in d.services : s.labels \in SUBSET (Text \X Text)
      /\ \A w \in d.workloads : w.labels \in SUBSET (Text \X Text)
      /\ d.rules \in Seq(RuleType)
  BY DEF AcceptedContents, IsDocument
<1>3. /\ Distinct(d.services) /\ Identified(d.services)
      /\ \A s \in d.services : ServiceAccepted(d, s)
      /\ \A w \in d.workloads : WorkloadAccepted(d, w)
      /\ \A i \in DOMAIN d.rules : RuleAccepted(d.rules[i])
  BY DEF AcceptedContents, ContentsAccepted
<1>4. IsFiniteSet(n.services) /\ IsFiniteSet(n.workloads) /\ IsFiniteSet(n.stacks)
  <2>. DEFINE f == [s \in d.services |-> NormalThing(s)]
              g == [w \in d.workloads |-> NormalThing(w)]
  <2>1. /\ DOMAIN f = d.services /\ f = [s \in d.services |-> f[s]]
        /\ \A y : y \in n.services <=> \E s \in d.services : y = f[s]
    BY <1>1
  <2>2. /\ DOMAIN g = d.workloads /\ g = [w \in d.workloads |-> g[w]]
        /\ \A y : y \in n.workloads <=> \E w \in d.workloads : y = g[w]
    BY <1>1
  <2>. HIDE DEF f, g
  <2>3. IsFiniteSet(n.services)
    BY <1>2, <2>1, ImageIsFinite
  <2>4. IsFiniteSet(n.workloads)
    BY <1>2, <2>2, ImageIsFinite
  <2>. QED BY <1>1, <1>2, <2>3, <2>4
<1>5. Distinct(n.services) /\ Identified(n.services)
  BY <1>1, <1>3 DEF Distinct, Identified
<1>6. ASSUME NEW s \in n.services
      PROVE  /\ s.primary = Absent \/ \E p \in n.services : p.id = s.primary /\ p.primary = Absent
             /\ \A i \in DOMAIN s.links : \E t \in n.services : t.id = s.links[i]
             /\ Lowered(s.labels)
  <2>1. PICK t \in d.services : s = NormalThing(t)
    BY <1>1
  <2>2. /\ t.primary = Absent \/ \E p \in d.services : p.id = t.primary /\ p.primary = Absent
        /\ \A i \in DOMAIN t.links : \E u \in d.services : u.id = t.links[i]
    BY <1>3 DEF ServiceAccepted, PrimaryAccepted, LinksAccepted, Named
  <2>3. Lowered(s.labels)
    BY <1>1, <1>2, <2>1, FoldedIsLowered
  <2>. QED BY <1>1, <2>1, <2>2, <2>3
<1>7. ASSUME NEW w \in n.workloads
      PROVE  /\ \E s \in n.stacks : s.id = w.stack
             /\ w.service = Absent \/ \E s \in n.services : s.id = w.service
             /\ Lowered(AllLabels(n, w))
             /\ \A a, b \in AllLabels(n, w) : a[1] = b[1] => a = b
  <2>1. PICK v \in d.workloads : w = NormalThing(v)
    BY <1>1
  <2>2. WorkloadAccepted(d, v) /\ w.service = v.service /\ w.stack = v.stack
        /\ w.labels = FoldLabels(v.labels)
    BY <1>1, <1>3, <2>1
  <2>3. /\ \E s \in n.stacks : s.id = w.stack
        /\ w.service = Absent \/ \E s \in n.services : s.id = w.service
    BY <1>1, <2>2 DEF WorkloadAccepted, Named
  <2>4. Lowered(AllLabels(n, w))
    <3>1. Lowered(w.labels)
      BY <1>2, <2>2, FoldedIsLowered
    <3>. QED BY <1>6, <3>1 DEF AllLabels, Lowered, Named
  <2>5. ASSUME NEW a \in AllLabels(n, w), NEW b \in AllLabels(n, w), a[1] = b[1] PROVE a = b
    <3>1. CASE Named(n.services, w.service) = {}
      <4>1. AllLabels(n, w) = FoldLabels(v.labels)
        BY <2>2, <3>1 DEF AllLabels
      <4>. QED BY <2>2, <2>5, <4>1, FoldedLabels DEF WorkloadAccepted
    <3>2. CASE Named(n.services, w.service) # {}
      <4>1. PICK s \in n.services : s.id = w.service
        BY <3>2 DEF Named
      <4>2. Named(n.services, w.service) = {s}
        BY <1>5, <4>1 DEF Named, Distinct
      <4>3. PICK t \in d.services : s = NormalThing(t)
        BY <1>1
      <4>4. t.id = v.service /\ s.labels = FoldLabels(t.labels) /\ t.id # Absent
        BY <1>1, <1>3, <2>2, <4>1, <4>3 DEF Identified
      <4>5. LabelsInherited(t, v)
        BY <1>3, <2>2, <4>4 DEF WorkloadAccepted, Named, Distinct
      <4>6. AllLabels(n, w) = FoldLabels(v.labels) \cup FoldLabels(t.labels)
        BY <2>2, <4>2, <4>4 DEF AllLabels
      <4>7. LabelsAccepted(v.labels) /\ LabelsAccepted(t.labels)
        BY <1>3, <2>2 DEF WorkloadAccepted, ServiceAccepted
      <4>. QED BY <2>5, <4>5, <4>6, <4>7, FoldedLabels DEF LabelsInherited
    <3>. QED BY <3>1, <3>2
  <2>. QED BY <2>3, <2>4, <2>5
<1>8. /\ \E m \in Nat : DOMAIN n.rules = 1..m /\ Len(n.rules) = m
      /\ \A k \in DOMAIN n.rules : NormalRule(n.rules[k])
  <2>1. \A i \in DOMAIN d.rules : d.rules[i] \in RuleType
    BY <1>2
  <2>2. \E m \in Nat : DOMAIN d.rules = 1..m
    BY <1>2
  <2>. QED BY <1>1, <1>3, <2>1, <2>2, NormalRules
<1>. QED BY <1>4, <1>5, <1>6, <1>7, <1>8 DEF NormalDocument, n

LEMMA CountedIsNormal ==
  ASSUME DocumentInv, phase \in {"rules", "done"}
  PROVE  NormalDocument(document)
BY NormalizedIsNormal DEF DocumentInv

-----------------------------------------------------------------------------
(* What each form of rule counts.  The workloads that are counted are       *)
(* finitely many, and so are their groups.                                 *)
LEMMA Finiteness ==
  ASSUME NEW n, IsFiniteSet(n.workloads)
  PROVE  /\ \A g \in SUBSET Application(n) :
              /\ IsFiniteSet(g) /\ Cardinality(g) \in Nat
              /\ Here(n, g) \in SUBSET g
              /\ IsFiniteSet(Here(n, g)) /\ Cardinality(Here(n, g)) \in Nat
         /\ \A groups \in SUBSET SUBSET Application(n) :
              IsFiniteSet(groups) /\ Cardinality(groups) \in Nat
<1>1. Application(n) \in SUBSET n.workloads /\ \A g : Here(n, g) \in SUBSET g
  BY DEF Application, Here
<1>2. IsFiniteSet(Application(n))
  BY <1>1, FS_Subset
<1>3. \A g \in SUBSET Application(n) : IsFiniteSet(g) /\ Cardinality(g) \in Nat
  BY <1>2, FS_Subset, FS_CardinalityType
<1>4. IsFiniteSet(SUBSET Application(n))
  BY <1>2, FS_SUBSET
<1>5. \A groups \in SUBSET SUBSET Application(n) : IsFiniteSet(groups) /\ Cardinality(groups) \in Nat
  BY <1>4, FS_Subset, FS_CardinalityType
<1>. QED BY <1>1, <1>3, <1>5

LEMMA ProductsAreNatural ==
  ASSUME NEW n, IsFiniteSet(n.workloads), NEW groups \in SUBSET SUBSET Application(n)
  PROVE  Products(n, groups) \in Nat
<1>1. IsFiniteSet(groups)
  BY Finiteness
<1>2. [g \in groups |-> Cardinality(Here(n, g)) * Cardinality(g)] \in [groups -> Nat]
  BY Finiteness
<1>. QED BY <1>1, <1>2, SumIsNatural DEF Products

(* Disjoint groups contribute disjoint pairs: nothing is counted twice.     *)
LEMMA ProductsArePairs ==
  ASSUME NEW n, IsFiniteSet(n.workloads), NEW groups \in SUBSET SUBSET Application(n),
         \A g, h \in groups : \A w : w \in g /\ w \in h => g = h,
         NEW pairs, \A p : p \in pairs <=> \E g \in groups : p \in g \X Here(n, g)
  PROVE  Products(n, groups) = Cardinality(pairs) /\ IsFiniteSet(pairs)
<1>. DEFINE f == [g \in groups |-> Cardinality(Here(n, g)) * Cardinality(g)]
            P == [g \in groups |-> g \X Here(n, g)]
<1>1. IsFiniteSet(groups) /\ f \in [groups -> Nat]
  BY Finiteness
<1>2. ASSUME NEW g \in groups PROVE IsFiniteSet(P[g]) /\ Cardinality(P[g]) = f[g]
  <2>1. /\ IsFiniteSet(g) /\ Cardinality(g) \in Nat
        /\ IsFiniteSet(Here(n, g)) /\ Cardinality(Here(n, g)) \in Nat
    BY Finiteness
  <2>2. /\ IsFiniteSet(g \X Here(n, g))
        /\ Cardinality(g \X Here(n, g)) = Cardinality(g) * Cardinality(Here(n, g))
    BY <2>1, FS_Product
  <2>3. Cardinality(g) * Cardinality(Here(n, g)) = Cardinality(Here(n, g)) * Cardinality(g)
    BY <2>1
  <2>. QED BY <2>2, <2>3
<1>3. \A g, h \in groups : g # h => P[g] \cap P[h] = {}
  OBVIOUS
<1>4. \A p : p \in pairs <=> \E g \in groups : p \in P[g]
  OBVIOUS
<1>. HIDE DEF f, P
<1>5. SumFunction(f) = Cardinality(pairs) /\ IsFiniteSet(pairs)
  BY <1>1, <1>2, <1>3, <1>4, SumIsCardinality
<1>. QED BY <1>5 DEF Products, f

LEMMA RelationshipsAre ==
  ASSUME NEW n, NEW r, NEW p
  PROVE  p \in Relationships(n, r)
           <=> \E u \in Application(n), v \in Application(n) :
                 p = <<u, v>> /\ v.host = n.local /\ Relates(n, r, u, v)
BY DEF Relationships, Here

LEMMA StackPairs ==
  ASSUME NEW n, NormalDocument(n), NEW r, NormalRule(r), r.within = "stack"
  PROVE  /\ Products(n, StackGroups(n)) = Cardinality(Relationships(n, r))
         /\ IsFiniteSet(Relationships(n, r))
<1>. DEFINE groups == StackGroups(n)
            pairs == Relationships(n, r)
<1>1. groups \in SUBSET SUBSET Application(n)
  BY DEF StackGroups
<1>2. \A g, h \in groups : \A w : w \in g /\ w \in h => g = h
  BY DEF StackGroups
<1>3. \A u, v : Relates(n, r, u, v) <=> u.stack = v.stack
  BY AbsentAssumption DEF Relates, NormalRule, OfOneForm, Within
<1>4. \A w \in Application(n) : \E s \in n.stacks : s.id = w.stack
  BY DEF NormalDocument, Application
<1>5. ASSUME NEW p PROVE p \in pairs <=> \E g \in groups : p \in g \X Here(n, g)
  <2>1. ASSUME p \in pairs PROVE \E g \in groups : p \in g \X Here(n, g)
    <3>1. PICK u \in Application(n), v \in Application(n) :
            p = <<u, v>> /\ v.host = n.local /\ u.stack = v.stack
      BY <1>3, <2>1, RelationshipsAre
    <3>2. PICK s \in n.stacks : s.id = u.stack
      BY <1>4
    <3>. DEFINE g == {w \in Application(n) : w.stack = s.id}
    <3>3. g \in groups /\ u \in g /\ v \in Here(n, g)
      BY <3>1, <3>2 DEF StackGroups, Here
    <3>. QED BY <3>1, <3>3
  <2>2. ASSUME NEW g \in groups, p \in g \X Here(n, g) PROVE p \in pairs
    <3>1. PICK s \in n.stacks : g = {w \in Application(n) : w.stack = s.id}
      BY DEF StackGroups
    <3>2. PICK u \in g, v \in g : p = <<u, v>> /\ v.host = n.local
      BY <2>2 DEF Here
    <3>. QED BY <1>3, <3>1, <3>2, RelationshipsAre
  <2>. QED BY <2>1, <2>2
<1>6. IsFiniteSet(n.workloads)
  BY DEF NormalDocument
<1>. QED BY <1>1, <1>2, <1>5, <1>6, ProductsArePairs

(* Kin services are those of one root.                                     *)
LEMMA KinIsSameRoot ==
  ASSUME NEW n, NormalDocument(n), NEW s \in n.services, NEW t \in n.services
  PROVE  Kin(n, s.id, t.id) <=> Root(n, s.id) = Root(n, t.id)
<1>1. /\ Distinct(n.services)
      /\ \A x \in n.services : x.id # Absent
      /\ \A x \in n.services : x.primary # Absent =>
           \E p \in n.services : p.id = x.primary /\ p.primary = Absent
  BY DEF NormalDocument, Identified
<1>2. /\ Root(n, s.id) = IF s.primary = Absent THEN s.id ELSE s.primary
      /\ Root(n, t.id) = IF t.primary = Absent THEN t.id ELSE t.primary
  BY <1>1, RootIs
<1>3. \A x \in n.services : \A y : x.id = y => (\A z \in Named(n.services, y) : z = x) /\ x \in Named(n.services, y)
  BY <1>1 DEF Named, Distinct
<1>4. Kin(n, s.id, t.id)
        <=> (s.id = t.id \/ s.primary = t.id \/ t.primary = s.id
               \/ (s.primary # Absent /\ s.primary = t.primary))
  BY <1>3 DEF Kin
<1>5. s.id = t.id => s = t
  BY <1>1 DEF Distinct
<1>6. /\ s.primary = t.id => t.primary = Absent
      /\ t.primary = s.id => s.primary = Absent
  BY <1>1 DEF Distinct
<1>. QED BY <1>1, <1>2, <1>4, <1>5, <1>6

(* A workload without a service has no root and no kin.                    *)
LEMMA RootOfWorkload ==
  ASSUME NEW n, NormalDocument(n), NEW w \in n.workloads
  PROVE  /\ w.service = Absent => RootOf(n, w) = Absent /\ \A a : ~Kin(n, a, w.service) /\ ~Kin(n, w.service, a)
         /\ w.service # Absent => \E s \in n.services : s.id = w.service /\ RootOf(n, w) = Root(n, s.id)
         /\ \A s \in n.services : Root(n, s.id) # Absent
<1>1. /\ Distinct(n.services) /\ \A x \in n.services : x.id # Absent
      /\ w.service = Absent \/ \E s \in n.services : s.id = w.service
  BY DEF NormalDocument, Identified
<1>2. \A s \in n.services : Root(n, s.id) # Absent
  BY <1>1, RootIs
<1>3. w.service = Absent => Named(n.services, w.service) = {}
  BY <1>1 DEF Named
<1>. QED BY <1>1, <1>2, <1>3 DEF RootOf, Kin

LEMMA ServicePairs ==
  ASSUME NEW n, NormalDocument(n), NEW r, NormalRule(r), r.within = "service"
  PROVE  /\ Products(n, ServiceGroups(n)) = Cardinality(Relationships(n, r))
         /\ IsFiniteSet(Relationships(n, r))
<1>. DEFINE groups == ServiceGroups(n)
            pairs == Relationships(n, r)
<1>1. groups \in SUBSET SUBSET Application(n)
  BY DEF ServiceGroups
<1>2. \A g, h \in groups : \A w : w \in g /\ w \in h => g = h
  BY DEF ServiceGroups
<1>3. \A u, v : Relates(n, r, u, v) <=> Kin(n, u.service, v.service)
  BY AbsentAssumption DEF Relates, NormalRule, OfOneForm, Within
<1>4. ASSUME NEW u \in Application(n), NEW v \in Application(n)
      PROVE  Kin(n, u.service, v.service)
               <=> \E s \in n.services : RootOf(n, u) = Root(n, s.id) /\ RootOf(n, v) = Root(n, s.id)
  <2>1. u \in n.workloads /\ v \in n.workloads
    BY DEF Application
  <2>2. CASE u.service = Absent \/ v.service = Absent
    BY <2>1, <2>2, RootOfWorkload
  <2>3. CASE u.service # Absent /\ v.service # Absent
    <3>1. PICK s \in n.services : s.id = u.service /\ RootOf(n, u) = Root(n, s.id)
      BY <2>1, <2>3, RootOfWorkload
    <3>2. PICK t \in n.services : t.id = v.service /\ RootOf(n, v) = Root(n, t.id)
      BY <2>1, <2>3, RootOfWorkload
    <3>3. Kin(n, s.id, t.id) <=> Root(n, s.id) = Root(n, t.id)
      BY KinIsSameRoot
    <3>. QED BY <3>1, <3>2, <3>3
  <2>. QED BY <2>2, <2>3
<1>5. ASSUME NEW p PROVE p \in pairs <=> \E g \in groups : p \in g \X Here(n, g)
  <2>1. ASSUME p \in pairs PROVE \E g \in groups : p \in g \X Here(n, g)
    <3>1. PICK u \in Application(n), v \in Application(n) :
            p = <<u, v>> /\ v.host = n.local /\ Kin(n, u.service, v.service)
      BY <1>3, <2>1, RelationshipsAre
    <3>2. PICK s \in n.services : RootOf(n, u) = Root(n, s.id) /\ RootOf(n, v) = Root(n, s.id)
      BY <1>4, <3>1
    <3>. DEFINE g == {w \in Application(n) : RootOf(n, w) = Root(n, s.id)}
    <3>3. g \in groups /\ u \in g /\ v \in Here(n, g)
      BY <3>1, <3>2 DEF ServiceGroups, Here
    <3>. QED BY <3>1, <3>3
  <2>2. ASSUME NEW g \in groups, p \in g \X Here(n, g) PROVE p \in pairs
    <3>1. PICK s \in n.services : g = {w \in Application(n) : RootOf(n, w) = Root(n, s.id)}
      BY DEF ServiceGroups
    <3>2. PICK u \in g, v \in g : p = <<u, v>> /\ v.host = n.local
      BY <2>2 DEF Here
    <3>. QED BY <1>3, <1>4, <3>1, <3>2, RelationshipsAre
  <2>. QED BY <2>1, <2>2
<1>6. IsFiniteSet(n.workloads)
  BY DEF NormalDocument
<1>. QED BY <1>1, <1>2, <1>5, <1>6, ProductsArePairs

(* What a selector matches is what it says of the labels of a workload and   *)
(* its service, whichever of the two comes first.                          *)
LEMMA LabelsAreAll ==
  ASSUME NEW n, NormalDocument(n), NEW w \in n.workloads
  PROVE  Labels(n, w) = AllLabels(n, w) /\ FoldLabels(AllLabels(n, w)) = AllLabels(n, w)
<1>1. /\ Lowered(AllLabels(n, w))
      /\ \A a, b \in AllLabels(n, w) : a[1] = b[1] => a = b
  BY DEF NormalDocument
<1>2. Labels(n, w) = AllLabels(n, w)
  BY <1>1 DEF Labels, AllLabels
<1>3. \A l \in AllLabels(n, w) : l = <<Fold[l[1]], Fold[l[2]]>>
  BY <1>1 DEF Lowered
<1>4. FoldLabels(AllLabels(n, w)) = AllLabels(n, w)
  <2>. DEFINE L == AllLabels(n, w)
  <2>. HIDE DEF L
  <2>1. \A l \in L : l = <<Fold[l[1]], Fold[l[2]]>>
    BY <1>3 DEF L
  <2>. QED BY <2>1 DEF FoldLabels, L
<1>. QED BY <1>2, <1>4

LEMMA MatchingIs ==
  ASSUME NEW n, NormalDocument(n), NEW e \in Seq(Written), Accepted(e), NEW w \in n.workloads
  PROVE  Matches(ParseOrNil(e), Labels(n, w)) <=> Says(n, w, e)
<1>1. Labels(n, w) = AllLabels(n, w) /\ FoldLabels(AllLabels(n, w)) = AllLabels(n, w)
  BY LabelsAreAll
<1>2. AllLabels(n, w) \in SUBSET (Text \X Text)
  BY DEF NormalDocument, Lowered
<1>3. Matches(Parse(e), FoldLabels(AllLabels(n, w))) <=> Means(e, AllLabels(n, w))
  BY <1>2, MatchesMeans
<1>. QED BY <1>1, <1>3 DEF ParseOrNil, Says, AllLabels

LEMMA SelectorPairs ==
  ASSUME NEW n, NormalDocument(n), NEW r, NormalRule(r), r.selector # Absent, Accepted(r.selector)
  PROVE  /\ Products(n, {Matching(n, r.selector)}) = Cardinality(Relationships(n, r))
         /\ IsFiniteSet(Relationships(n, r))
<1>. DEFINE g == Matching(n, r.selector)
            groups == {g}
            pairs == Relationships(n, r)
<1>1. r.selector \in Seq(Written)
  BY DEF NormalRule
<1>2. \A w : w \in g <=> w \in Application(n) /\ Says(n, w, r.selector)
  BY <1>1, MatchingIs DEF Matching, Application
<1>3. \A u, v : Relates(n, r, u, v) <=> Says(n, u, r.selector) /\ Says(n, v, r.selector)
  BY AbsentAssumption DEF Relates, NormalRule, OfOneForm, Within
<1>. HIDE DEF g
<1>4. groups \in SUBSET SUBSET Application(n)
  BY <1>2
<1>5. \A h, i \in groups : \A w : w \in h /\ w \in i => h = i
  OBVIOUS
<1>6. ASSUME NEW p PROVE p \in pairs <=> \E h \in groups : p \in h \X Here(n, h)
  BY <1>2, <1>3, RelationshipsAre DEF Here
<1>7. IsFiniteSet(n.workloads)
  BY DEF NormalDocument
<1>8. Products(n, groups) = Cardinality(pairs) /\ IsFiniteSet(pairs)
  BY <1>4, <1>5, <1>6, <1>7, ProductsArePairs
<1>. QED BY <1>8 DEF g

(* The groups of a key are those of its values, and no workload is in two.  *)
LEMMA ValuesAre ==
  ASSUME NEW n, NormalDocument(n), NEW w \in n.workloads, NEW key \in Text, Fold[key] = key
  PROVE  /\ \A x : x \in ValuesOf(n, w, key) <=> <<key, x>> \in Labels(n, w)
         /\ \A x, y \in ValuesOf(n, w, key) : x = y
<1>1. Labels(n, w) = AllLabels(n, w)
  BY LabelsAreAll
<1>2. /\ Lowered(AllLabels(n, w))
      /\ \A a, b \in AllLabels(n, w) : a[1] = b[1] => a = b
  BY DEF NormalDocument
<1>3. ValuesOf(n, w, key) = {l[2] : l \in {l \in AllLabels(n, w) : Fold[l[1]] = Fold[key]}}
  BY DEF ValuesOf, AllLabels
<1>4. \A l \in AllLabels(n, w) : l = <<l[1], l[2]>> /\ Fold[l[1]] = l[1]
  BY <1>2 DEF Lowered
<1>. QED BY <1>1, <1>2, <1>3, <1>4

GroupOf(n, key, x) == {w \in Application(n) : <<key, x>> \in Labels(n, w)}

LEMMA GroupsAre ==
  ASSUME NEW n, NormalDocument(n), NEW key
  PROVE  \A g : g \in LabelGroups(n, key)
                  <=> \E x : g = GroupOf(n, key, x) /\ \E w \in Application(n) : <<key, x>> \in Labels(n, w)
<1>1. \A w \in Application(n) : \A l \in Labels(n, w) : l = <<l[1], l[2]>>
  BY LabelsAreAll DEF Application, NormalDocument, Lowered
<1>2. \A x : x \in LabelValues(n, key) <=> \E w \in Application(n) : <<key, x>> \in Labels(n, w)
  BY <1>1 DEF LabelValues
<1>3. LabelGroups(n, key) = {GroupOf(n, key, x) : x \in LabelValues(n, key)}
  BY DEF LabelGroups, GroupOf
<1>. QED BY <1>2, <1>3

LEMMA GroupPairs ==
  ASSUME NEW n, NormalDocument(n), NEW r, NormalRule(r), r.group # Absent
  PROVE  /\ Products(n, LabelGroups(n, r.group)) = Cardinality(Relationships(n, r))
         /\ IsFiniteSet(Relationships(n, r))
<1>. DEFINE groups == LabelGroups(n, r.group)
            pairs == Relationships(n, r)
            Group(x) == GroupOf(n, r.group, x)
<1>1. r.group \in Text /\ Fold[r.group] = r.group
  BY DEF NormalRule
<1>2. \A u, v : Relates(n, r, u, v) <=> \E x : x \in ValuesOf(n, u, r.group) /\ x \in ValuesOf(n, v, r.group)
  BY AbsentAssumption DEF Relates, NormalRule, OfOneForm, Within
<1>3. \A w \in Application(n) :
        /\ \A x : x \in ValuesOf(n, w, r.group) <=> <<r.group, x>> \in Labels(n, w)
        /\ \A x, y \in ValuesOf(n, w, r.group) : x = y
  BY <1>1, ValuesAre DEF Application
<1>4. \A g : g \in groups <=> \E x : g = Group(x) /\ \E w \in Application(n) : <<r.group, x>> \in Labels(n, w)
  BY GroupsAre
<1>. HIDE DEF groups
<1>5. groups \in SUBSET SUBSET Application(n)
  BY <1>4 DEF GroupOf
<1>6. ASSUME NEW g \in groups, NEW h \in groups, NEW w, w \in g, w \in h PROVE g = h
  <2>1. PICK x : g = Group(x)
    BY <1>4
  <2>2. PICK y : h = Group(y)
    BY <1>4
  <2>3. w \in Application(n) /\ <<r.group, x>> \in Labels(n, w) /\ <<r.group, y>> \in Labels(n, w)
    BY <1>6, <2>1, <2>2 DEF GroupOf
  <2>. QED BY <1>3, <2>1, <2>2, <2>3
<1>7. ASSUME NEW p PROVE p \in pairs <=> \E g \in groups : p \in g \X Here(n, g)
  <2>1. ASSUME p \in pairs PROVE \E g \in groups : p \in g \X Here(n, g)
    <3>1. PICK u \in Application(n), v \in Application(n) :
            /\ p = <<u, v>> /\ v.host = n.local
            /\ \E x : x \in ValuesOf(n, u, r.group) /\ x \in ValuesOf(n, v, r.group)
      BY <1>2, <2>1, RelationshipsAre
    <3>2. PICK x : x \in ValuesOf(n, u, r.group) /\ x \in ValuesOf(n, v, r.group)
      BY <3>1
    <3>3. <<r.group, x>> \in Labels(n, u) /\ <<r.group, x>> \in Labels(n, v)
      BY <1>3, <3>1, <3>2
    <3>4. u \in Group(x) /\ v \in Here(n, Group(x))
      BY <3>1, <3>3 DEF Here, GroupOf
    <3>5. Group(x) \in groups
      BY <1>4, <3>1, <3>3
    <3>6. p \in Group(x) \X Here(n, Group(x))
      BY <3>1, <3>4
    <3>. QED BY <3>5, <3>6
  <2>2. ASSUME NEW g \in groups, p \in g \X Here(n, g) PROVE p \in pairs
    <3>1. PICK x : g = Group(x)
      BY <1>4
    <3>2. PICK u \in g, v \in g : p = <<u, v>> /\ v.host = n.local
      BY <2>2 DEF Here
    <3>. QED BY <1>2, <1>3, <3>1, <3>2, RelationshipsAre DEF GroupOf
  <2>. QED BY <2>1, <2>2
<1>8. IsFiniteSet(n.workloads)
  BY DEF NormalDocument
<1>. QED BY <1>5, <1>6, <1>7, <1>8, ProductsArePairs DEF groups

(* There are as many groups of a key as values.                            *)
LEMMA GroupsAreValues ==
  ASSUME NEW n, NormalDocument(n), NEW key \in Text, Fold[key] = key
  PROVE  Cardinality(LabelGroups(n, key))
           = Cardinality(UNION {ValuesOf(n, w, key) : w \in Application(n)})
<1>. DEFINE groups == LabelGroups(n, key)
            values == UNION {ValuesOf(n, w, key) : w \in Application(n)}
            Group(x) == GroupOf(n, key, x)
            f == [g \in groups |-> CHOOSE x \in values : g = Group(x)]
<1>1. \A w \in Application(n) :
        /\ \A x : x \in ValuesOf(n, w, key) <=> <<key, x>> \in Labels(n, w)
        /\ \A x, y \in ValuesOf(n, w, key) : x = y
  BY ValuesAre DEF Application
<1>2. \A x : x \in values <=> \E w \in Application(n) : <<key, x>> \in Labels(n, w)
  BY <1>1
<1>3. \A g : g \in groups <=> \E x : g = Group(x) /\ \E w \in Application(n) : <<key, x>> \in Labels(n, w)
  BY GroupsAre
<1>. HIDE DEF groups, values
<1>4. \A x, y \in values : Group(x) = Group(y) => x = y
  BY <1>1, <1>2 DEF GroupOf
<1>5. \A g \in groups : f[g] \in values /\ g = Group(f[g])
  BY <1>2, <1>3
<1>6. IsFiniteSet(groups)
  <2>1. groups \in SUBSET SUBSET Application(n)
    BY <1>3 DEF GroupOf
  <2>. QED BY <2>1, Finiteness DEF NormalDocument
<1>7. \A x \in values : Group(x) \in groups
  BY <1>2, <1>3
<1>8. ExistsBijection(groups, values)
  <2>1. f \in [groups -> values]
    BY <1>5
  <2>. HIDE DEF f
  <2>2. \A g, h \in groups : f[g] = f[h] => g = h
    BY <1>5
  <2>3. \A x \in values : f[Group(x)] = x
    BY <1>4, <1>5, <1>7
  <2>. HIDE DEF Group
  <2>4. f \in Bijection(groups, values)
    BY <1>7, <2>1, <2>2, <2>3 DEF Bijection, Injection, Surjection, IsInjective
  <2>. QED BY <2>4 DEF ExistsBijection
<1>9. Cardinality(values) = Cardinality(groups)
  BY <1>6, <1>8, FS_Bijection
<1>. QED BY <1>9 DEF groups, values

(* A directed rule relates every source to every local destination, and     *)
(* opens each of its ports for each of these pairs.                        *)
LEMMA FromToPairs ==
  ASSUME NEW n, NormalDocument(n), NEW r, NormalRule(r), r.from # Absent,
         Accepted(r.from), Accepted(r.to)
  PROVE  LET pairs == Cardinality(Matching(n, r.from)) * Cardinality(Here(n, Matching(n, r.to)))
         IN /\ pairs = Cardinality(Relationships(n, r)) /\ IsFiniteSet(Relationships(n, r))
            /\ pairs * (IF r.ports = << >> THEN 1 ELSE Len(r.ports))
                 = Cardinality(Relationships(n, r) \X Scopes(r))
<1>. DEFINE f == Matching(n, r.from)
            t == Here(n, Matching(n, r.to))
            pairs == Relationships(n, r)
            scopes == Scopes(r)
            many == IF r.ports = << >> THEN 1 ELSE Len(r.ports)
<1>1. r.from \in Seq(Written) /\ r.to \in Seq(Written)
  BY DEF NormalRule
<1>2. \A w : /\ w \in f <=> w \in Application(n) /\ Says(n, w, r.from)
             /\ w \in t <=> w \in Application(n) /\ Says(n, w, r.to) /\ w.host = n.local
  BY <1>1, MatchingIs DEF Matching, Application, Here
<1>3. \A u, v : Relates(n, r, u, v) <=> Says(n, u, r.from) /\ Says(n, v, r.to)
  BY AbsentAssumption DEF Relates, NormalRule, OfOneForm, Within
<1>4. IsFiniteSet(scopes) /\ Cardinality(scopes) = many
  <2>1. CASE r.ports = << >>
    BY <2>1, FS_Singleton DEF Scopes
  <2>2. CASE r.ports # << >>
    <3>1. PICK m \in Nat : DOMAIN r.ports = 1..m /\ Len(r.ports) = m
      BY DEF NormalRule
    <3>. DEFINE g == [i \in 1..m |-> r.ports[i]]
    <3>2. \A i, j \in 1..m : r.ports[i] = r.ports[j] => i = j
      BY <3>1 DEF NormalRule, IsInjective
    <3>3. scopes = {r.ports[i] : i \in 1..m}
      BY <2>2, <3>1 DEF Scopes, ToSet
    <3>. HIDE DEF scopes
    <3>4. g \in Bijection(1..m, scopes)
      BY <3>2, <3>3 DEF Bijection, Injection, Surjection, IsInjective
    <3>. HIDE DEF g
    <3>5. IsFiniteSet(1..m) /\ Cardinality(1..m) = m
      <4>1. 1 \in Int /\ m \in Int
        OBVIOUS
      <4>. QED BY <4>1, FS_Interval
    <3>6. ExistsBijection(1..m, scopes)
      BY <3>4 DEF ExistsBijection
    <3>. QED BY <2>2, <3>1, <3>5, <3>6, FS_Bijection
  <2>. QED BY <2>1, <2>2
<1>. HIDE DEF f, t, scopes, many
<1>5. f \in SUBSET Application(n) /\ t \in SUBSET Application(n)
  BY <1>2
<1>6. /\ IsFiniteSet(f) /\ Cardinality(f) \in Nat
      /\ IsFiniteSet(t) /\ Cardinality(t) \in Nat
  BY <1>5, Finiteness DEF NormalDocument
<1>7. pairs = f \X t
  <2>1. \A p : p \in pairs <=> p \in f \X t
    BY <1>2, <1>3, RelationshipsAre
  <2>2. \A p \in pairs : p = <<p[1], p[2]>>
    BY DEF Relationships
  <2>. QED BY <2>1, <2>2
<1>. HIDE DEF pairs
<1>8. IsFiniteSet(pairs) /\ Cardinality(pairs) = Cardinality(f) * Cardinality(t)
  BY <1>6, <1>7, FS_Product
<1>9. Cardinality(pairs \X scopes) = Cardinality(pairs) * Cardinality(scopes)
  BY <1>4, <1>8, FS_Product
<1>. QED BY <1>4, <1>8, <1>9 DEF f, t, pairs, scopes, many

(* Links are taken both ways, and between services they are between roots.  *)
LEMMA LinkedIs ==
  ASSUME NEW things, NEW a, NEW b
  PROVE  /\ <<a, b>> \in OneWayLinks(things) <=> Declares(things, a, b)
         /\ <<a, b>> \in BothWays(OneWayLinks(things)) <=> Linked(things, a, b)
<1>1. \A x, y : <<x, y>> \in OneWayLinks(things) <=> Declares(things, x, y)
  BY DEF OneWayLinks, Declares, Named
<1>2. \A l \in OneWayLinks(things) : l = <<l[1], l[2]>>
  BY DEF OneWayLinks
<1>3. <<a, b>> \in {<<p[2], p[1]>> : p \in OneWayLinks(things)} <=> <<b, a>> \in OneWayLinks(things)
  BY <1>2
<1>. QED BY <1>1, <1>3 DEF BothWays, Linked

LEMMA KinIsRoot ==
  ASSUME NEW n, NormalDocument(n), NEW w \in n.workloads, NEW s \in n.services
  PROVE  Kin(n, s.id, w.service) <=> Root(n, s.id) = RootOf(n, w)
<1>1. CASE w.service = Absent
  BY <1>1, RootOfWorkload
<1>2. CASE w.service # Absent
  <2>1. PICK t \in n.services : t.id = w.service /\ RootOf(n, w) = Root(n, t.id)
    BY <1>2, RootOfWorkload
  <2>. QED BY <2>1, KinIsSameRoot
<1>. QED BY <1>1, <1>2

LEMMA KinIsSymmetric ==
  ASSUME NEW n, NEW a, NEW b, Kin(n, a, b)
  PROVE  Kin(n, b, a)
BY DEF Kin

LEMMA ServiceLinkIs ==
  ASSUME NEW n, NormalDocument(n), NEW u \in n.workloads, NEW v \in n.workloads
  PROVE  <<RootOf(n, v), RootOf(n, u)>> \in ServiceLinks(n)
           <=> /\ ~Kin(n, u.service, v.service)
               /\ \E s, t \in n.services : /\ Kin(n, s.id, u.service) /\ Kin(n, t.id, v.service)
                                           /\ Linked(n.services, s.id, t.id)
<1>. DEFINE between == {<<Root(n, l[1]), Root(n, l[2])>> : l \in OneWayLinks(n.services)}
            across == {p \in between : p[1] # p[2]}
            x == RootOf(n, v)
            y == RootOf(n, u)
<1>1. \A a, b : Declares(n.services, a, b) =>
        /\ \E s \in n.services : s.id = a
        /\ \E t \in n.services : t.id = b
  BY DEF NormalDocument, Declares, Named
<1>2. \A l \in OneWayLinks(n.services) : l = <<l[1], l[2]>>
  BY DEF OneWayLinks
<1>3. \A a, b : <<a, b>> \in between <=> \E s, t \in n.services :
                  a = Root(n, s.id) /\ b = Root(n, t.id) /\ Declares(n.services, s.id, t.id)
  <2>1. \A i, j : <<i, j>> \in OneWayLinks(n.services) <=> Declares(n.services, i, j)
    BY LinkedIs
  <2>2. ASSUME NEW a, NEW b, <<a, b>> \in between
        PROVE  \E s, t \in n.services :
                 a = Root(n, s.id) /\ b = Root(n, t.id) /\ Declares(n.services, s.id, t.id)
    <3>1. PICK l \in OneWayLinks(n.services) : <<a, b>> = <<Root(n, l[1]), Root(n, l[2])>>
      BY <2>2
    <3>2. Declares(n.services, l[1], l[2]) /\ a = Root(n, l[1]) /\ b = Root(n, l[2])
      BY <1>2, <2>1, <3>1
    <3>. QED BY <1>1, <3>2
  <2>3. ASSUME NEW s \in n.services, NEW t \in n.services, Declares(n.services, s.id, t.id)
        PROVE  <<Root(n, s.id), Root(n, t.id)>> \in between
    <3>. DEFINE l == <<s.id, t.id>>
    <3>1. l \in OneWayLinks(n.services) /\ l[1] = s.id /\ l[2] = t.id
      BY <2>1, <2>3
    <3>. QED BY <3>1
  <2>. HIDE DEF between
  <2>. QED BY <2>2, <2>3
<1>. HIDE DEF between
<1>4. \A p \in between : p = <<p[1], p[2]>>
  BY DEF between
<1>5. <<x, y>> \in ServiceLinks(n) <=> x # y /\ (<<x, y>> \in between \/ <<y, x>> \in between)
  <2>1. ServiceLinks(n) = across \cup {<<p[2], p[1]>> : p \in across}
    BY DEF ServiceLinks, BothWays, between
  <2>2. \A a, b : <<a, b>> \in across <=> a # b /\ <<a, b>> \in between
    OBVIOUS
  <2>3. <<x, y>> \in {<<p[2], p[1]>> : p \in across} <=> <<y, x>> \in across
    BY <1>4
  <2>. HIDE DEF across, x, y
  <2>. QED BY <2>1, <2>2, <2>3
<1>6. \A s \in n.services :
        /\ Kin(n, s.id, u.service) <=> Root(n, s.id) = y
        /\ Kin(n, s.id, v.service) <=> Root(n, s.id) = x
  BY KinIsRoot
<1>7. \A s, t \in n.services : Kin(n, s.id, u.service) /\ Kin(n, t.id, v.service) =>
        (Kin(n, u.service, v.service) <=> x = y)
  <2>1. ASSUME NEW s \in n.services, NEW t \in n.services,
               Kin(n, s.id, u.service), Kin(n, t.id, v.service)
        PROVE  Kin(n, u.service, v.service) <=> x = y
    <3>1. u.service # Absent
      BY <2>1, RootOfWorkload
    <3>2. PICK a \in n.services : a.id = u.service /\ y = Root(n, a.id)
      BY <3>1, RootOfWorkload
    <3>. QED BY <1>6, <3>2
  <2>. QED BY <2>1
<1>8. <<x, y>> \in ServiceLinks(n)
        <=> x # y /\ \E s, t \in n.services : /\ Root(n, s.id) = y /\ Root(n, t.id) = x
                                              /\ Linked(n.services, s.id, t.id)
  BY <1>3, <1>5 DEF Linked
<1>. HIDE DEF x, y
<1>9. <<x, y>> \in ServiceLinks(n)
        <=> (~Kin(n, u.service, v.service)
              /\ \E s, t \in n.services : /\ Kin(n, s.id, u.service) /\ Kin(n, t.id, v.service)
                                          /\ Linked(n.services, s.id, t.id))
  BY <1>6, <1>7, <1>8
<1>. QED BY <1>9 DEF x, y

LEMMA SourcesAre ==
  ASSUME NEW n, NormalDocument(n), NEW r, NormalRule(r), r.within = "linked",
         NEW u \in Application(n), NEW v \in Application(n)
  PROVE  u \in Sources(n, v) <=> Relates(n, r, u, v)
<1>1. u \in n.workloads /\ v \in n.workloads
  BY DEF Application
<1>2. Relates(n, r, u, v)
        <=> (\/ Linked(n.workloads, u.id, v.id)
             \/ (~Kin(n, u.service, v.service)
                  /\ \E s, t \in n.services : /\ Kin(n, s.id, u.service) /\ Kin(n, t.id, v.service)
                                              /\ Linked(n.services, s.id, t.id)))
  BY AbsentAssumption DEF Relates, NormalRule, OfOneForm, Within
<1>3. <<v.id, u.id>> \in WorkloadLinks(n) <=> Linked(n.workloads, u.id, v.id)
  BY LinkedIs DEF WorkloadLinks, Linked
<1>4. u \in Sources(n, v)
        <=> (<<v.id, u.id>> \in WorkloadLinks(n) \/ <<RootOf(n, v), RootOf(n, u)>> \in ServiceLinks(n))
  BY DEF Sources
<1>. QED BY <1>1, <1>2, <1>3, <1>4, ServiceLinkIs

LinkedSum(n) ==
  SumFunction([v \in Here(n, Application(n)) |-> Cardinality(Sources(n, v))])

LEMMA LinkedPairs ==
  ASSUME NEW n, NormalDocument(n), NEW r, NormalRule(r), r.within = "linked"
  PROVE  LinkedSum(n) = Cardinality(Relationships(n, r)) /\ IsFiniteSet(Relationships(n, r))
<1>. DEFINE local == Here(n, Application(n))
            pairs == Relationships(n, r)
            f == [v \in local |-> Cardinality(Sources(n, v))]
            P == [v \in local |-> Sources(n, v) \X {v}]
<1>1. /\ Application(n) \in SUBSET Application(n)
      /\ \A v : Sources(n, v) \in SUBSET Application(n)
  BY DEF Sources
<1>2. /\ IsFiniteSet(local)
      /\ \A v : IsFiniteSet(Sources(n, v)) /\ Cardinality(Sources(n, v)) \in Nat
  BY <1>1, Finiteness DEF NormalDocument
<1>3. f \in [local -> Nat]
  BY <1>2
<1>4. ASSUME NEW v \in local PROVE IsFiniteSet(P[v]) /\ Cardinality(P[v]) = f[v]
  <2>. DEFINE A == Sources(n, v)
              B == {v}
  <2>1. IsFiniteSet(A) /\ Cardinality(A) \in Nat
    BY <1>2
  <2>2. IsFiniteSet(B) /\ Cardinality(B) = 1
    BY FS_Singleton
  <2>. HIDE DEF A, B
  <2>3. IsFiniteSet(A \X B) /\ Cardinality(A \X B) = Cardinality(A) * Cardinality(B)
    BY <2>1, <2>2, FS_Product
  <2>. QED BY <2>1, <2>2, <2>3 DEF A, B
<1>5. \A v, w \in local : v # w => P[v] \cap P[w] = {}
  OBVIOUS
<1>6. ASSUME NEW p PROVE p \in pairs <=> \E v \in local : p \in P[v]
  <2>1. p \in pairs <=> \E u \in Application(n), v \in Application(n) :
                          p = <<u, v>> /\ v.host = n.local /\ u \in Sources(n, v)
    BY RelationshipsAre, SourcesAre
  <2>2. \A v : v \in local <=> v \in Application(n) /\ v.host = n.local
    BY DEF Here
  <2>. HIDE DEF pairs
  <2>. QED BY <1>1, <2>1, <2>2
<1>. HIDE DEF f, P
<1>7. SumFunction(f) = Cardinality(pairs) /\ IsFiniteSet(pairs)
  BY <1>2, <1>3, <1>4, <1>5, <1>6, SumIsCardinality
<1>. QED BY <1>7 DEF LinkedSum, f

-----------------------------------------------------------------------------
(* The counts, rule by rule.                                               *)
SizeOf(d, k) == Cardinality(Relationships(d, d.rules[k]))

ScopesOf(d, k) == Cardinality(Relationships(d, d.rules[k]) \X Scopes(d.rules[k]))

ValuesFor(d, k) ==
  Cardinality(UNION {ValuesOf(d, w, d.rules[k].group) : w \in Application(d)})

(* What c is when the rules before the m-th are counted.                    *)
CountsOf(d, m, c) ==
  /\ c.relationships = SumFunction([k \in 1..(m - 1) |-> SizeOf(d, k)])
  /\ c.zeroMatches = Cardinality({k \in 1..(m - 1) : Relationships(d, d.rules[k]) = {}})
  /\ c.portScopes =
       SumFunction([k \in {k \in 1..(m - 1) : d.rules[k].from # Absent} |-> ScopesOf(d, k)])
  /\ c.labelGroups =
       SumFunction([k \in {k \in 1..(m - 1) : d.rules[k].group # Absent} |-> ValuesFor(d, k)])
  /\ c.allow = Cardinality({k \in 1..(m - 1) : d.rules[k].action = "allow"})

LEMMA SumGoesOn ==
  ASSUME NEW j \in Nat \ {0}, NEW K, NEW F,
         NEW S, S = {k \in 1..(j - 1) : k \in K},
         NEW T, T = {k \in 1..j : k \in K},
         \A k \in T : F[k] \in Nat
  PROVE  SumFunction([k \in T |-> F[k]])
           = SumFunction([k \in S |-> F[k]]) + (IF j \in K THEN F[j] ELSE 0)
<1>. DEFINE f == [k \in S |-> F[k]]
            g == [k \in T |-> F[k]]
<1>1. IsFiniteSet(S)
  <2>1. 1 \in Int /\ j - 1 \in Int
    OBVIOUS
  <2>2. IsFiniteSet(1..(j - 1))
    BY <2>1, FS_Interval
  <2>3. S \in SUBSET (1..(j - 1))
    OBVIOUS
  <2>. QED BY <2>2, <2>3, FS_Subset
<1>2. CASE j \in K
  <2>1. T = S \cup {j} /\ j \notin S
    BY <1>2
  <2>2. f \in [S -> Nat] /\ g \in [T -> Nat] /\ (\A k \in S : g[k] = f[k]) /\ g[j] = F[j]
    BY <2>1
  <2>. HIDE DEF f, g
  <2>3. SumFunction(g) = SumFunction(f) + g[j]
    BY <1>1, <2>1, <2>2, SumOfOneMore
  <2>. QED BY <1>2, <2>2, <2>3 DEF f, g
<1>3. CASE j \notin K
  <2>1. T = S
    BY <1>3
  <2>2. f = g /\ f \in [S -> Nat]
    BY <2>1
  <2>. HIDE DEF f, g
  <2>3. SumFunction(f) \in Nat
    BY <1>1, <2>2, SumIsNatural
  <2>. QED BY <1>3, <2>2, <2>3 DEF f, g
<1>. QED BY <1>2, <1>3

LEMMA CardinalityGoesOn ==
  ASSUME NEW j \in Nat \ {0}, NEW K,
         NEW S, S = {k \in 1..(j - 1) : k \in K},
         NEW T, T = {k \in 1..j : k \in K}
  PROVE  Cardinality(T) = IF j \in K THEN Cardinality(S) + 1 ELSE Cardinality(S)
<1>1. IsFiniteSet(S)
  <2>1. 1 \in Int /\ j - 1 \in Int
    OBVIOUS
  <2>2. IsFiniteSet(1..(j - 1))
    BY <2>1, FS_Interval
  <2>3. S \in SUBSET (1..(j - 1))
    OBVIOUS
  <2>. QED BY <2>2, <2>3, FS_Subset
<1>2. j \notin S /\ T = IF j \in K THEN S \cup {j} ELSE S
  OBVIOUS
<1>. QED BY <1>1, <1>2, FS_AddElement

(* The relationships of a rule are finitely many.                           *)
LEMMA SizesAreNatural ==
  ASSUME NEW d, NormalDocument(d), NEW k \in DOMAIN d.rules
  PROVE  /\ IsFiniteSet(Relationships(d, d.rules[k]))
         /\ SizeOf(d, k) \in Nat
         /\ d.rules[k].from # Absent => ScopesOf(d, k) \in Nat
         /\ d.rules[k].group # Absent => ValuesFor(d, k) \in Nat
<1>. DEFINE r == d.rules[k]
            pairs == Relationships(d, r)
            scopes == Scopes(r)
            A == Application(d)
            H == Here(d, A)
<1>1. NormalRule(r) /\ A \in SUBSET Application(d)
  BY DEF NormalDocument
<1>2. IsFiniteSet(A) /\ IsFiniteSet(H)
  BY <1>1, Finiteness DEF NormalDocument
<1>3. pairs \in SUBSET (A \X H)
  BY DEF Relationships
<1>4. IsFiniteSet(scopes)
  <2>1. PICK m \in Nat : DOMAIN r.ports = 1..m
    BY <1>1 DEF NormalRule
  <2>2. CASE r.ports = << >>
    BY <2>2, FS_Singleton DEF Scopes
  <2>3. CASE r.ports # << >>
    <3>1. 1 \in Int /\ m \in Int
      OBVIOUS
    <3>2. IsFiniteSet(1..m)
      BY <3>1, FS_Interval
    <3>. DEFINE S == 1..m
                f == [i \in S |-> r.ports[i]]
    <3>3. /\ DOMAIN f = S /\ f = [i \in S |-> f[i]]
          /\ \A y : y \in scopes <=> \E i \in S : y = f[i]
      BY <2>1, <2>3 DEF Scopes, ToSet
    <3>. HIDE DEF f, scopes
    <3>. QED BY <3>2, <3>3, ImageIsFinite
  <2>. QED BY <2>2, <2>3
<1>. HIDE DEF A, H, scopes
<1>5. IsFiniteSet(A \X H)
  BY <1>2, FS_Product
<1>6. IsFiniteSet(pairs)
  BY <1>3, <1>5, FS_Subset
<1>. HIDE DEF pairs
<1>7. IsFiniteSet(pairs \X scopes)
  BY <1>4, <1>6, FS_Product
<1>8. Cardinality(pairs) \in Nat /\ Cardinality(pairs \X scopes) \in Nat
  BY <1>6, <1>7, FS_CardinalityType
<1>9. r.group # Absent => ValuesFor(d, k) \in Nat
  <2>1. LabelGroups(d, r.group) \in SUBSET SUBSET Application(d)
    BY DEF LabelGroups
  <2>2. Cardinality(LabelGroups(d, r.group)) \in Nat
    BY <2>1, Finiteness DEF NormalDocument
  <2>3. r.group # Absent => Cardinality(LabelGroups(d, r.group)) = ValuesFor(d, k)
    BY <1>1, GroupsAreValues DEF NormalRule, ValuesFor
  <2>. QED BY <2>2, <2>3
<1>. QED BY <1>6, <1>8, <1>9 DEF SizeOf, ScopesOf, pairs, scopes

LEMMA CountsGoOn ==
  ASSUME NEW d, NormalDocument(d), NEW j \in DOMAIN d.rules, NEW c, CountsOf(d, j, c), NEW e,
         e.relationships = c.relationships + SizeOf(d, j),
         e.portScopes = c.portScopes + (IF d.rules[j].from # Absent THEN ScopesOf(d, j) ELSE 0),
         e.labelGroups = c.labelGroups + (IF d.rules[j].group # Absent THEN ValuesFor(d, j) ELSE 0),
         e.zeroMatches = IF SizeOf(d, j) = 0 THEN c.zeroMatches + 1 ELSE c.zeroMatches,
         e.allow = IF d.rules[j].action = "allow" THEN c.allow + 1 ELSE c.allow
  PROVE  CountsOf(d, j + 1, e)
<1>1. PICK m \in Nat : DOMAIN d.rules = 1..m
  BY DEF NormalDocument
<1>2. j \in Nat \ {0} /\ (j + 1) - 1 = j /\ \A k \in 1..j : k \in DOMAIN d.rules
  BY <1>1
<1>3. e.relationships = SumFunction([k \in 1..j |-> SizeOf(d, k)])
  <2>. DEFINE F == [k \in DOMAIN d.rules |-> SizeOf(d, k)]
              K == DOMAIN d.rules
              S == {k \in 1..(j - 1) : k \in K}
              T == {k \in 1..j : k \in K}
  <2>1. \A k \in T : F[k] \in Nat
    BY SizesAreNatural
  <2>2. S = 1..(j - 1) /\ T = 1..j
    BY <1>2
  <2>3. /\ [k \in S |-> F[k]] = [k \in 1..(j - 1) |-> SizeOf(d, k)]
        /\ [k \in T |-> F[k]] = [k \in 1..j |-> SizeOf(d, k)]
        /\ F[j] = SizeOf(d, j) /\ j \in K
    BY <2>2
  <2>. HIDE DEF F, K
  <2>4. SumFunction([k \in T |-> F[k]])
           = SumFunction([k \in S |-> F[k]]) + (IF j \in K THEN F[j] ELSE 0)
    BY <1>2, <2>1, SumGoesOn
  <2>. QED BY <2>3, <2>4 DEF CountsOf
<1>4. e.zeroMatches = Cardinality({k \in 1..j : Relationships(d, d.rules[k]) = {}})
  <2>. DEFINE K == {k \in DOMAIN d.rules : Relationships(d, d.rules[k]) = {}}
              S == {k \in 1..(j - 1) : k \in K}
              T == {k \in 1..j : k \in K}
  <2>1. /\ S = {k \in 1..(j - 1) : Relationships(d, d.rules[k]) = {}}
        /\ T = {k \in 1..j : Relationships(d, d.rules[k]) = {}}
    BY <1>2
  <2>2. j \in K <=> SizeOf(d, j) = 0
    BY SizesAreNatural, FS_EmptySet DEF SizeOf
  <2>. HIDE DEF K
  <2>3. Cardinality(T) = IF j \in K THEN Cardinality(S) + 1 ELSE Cardinality(S)
    BY <1>2, CardinalityGoesOn
  <2>. HIDE DEF S, T
  <2>. QED BY <2>1, <2>2, <2>3 DEF CountsOf
<1>5. e.allow = Cardinality({k \in 1..j : d.rules[k].action = "allow"})
  <2>. DEFINE K == {k \in DOMAIN d.rules : d.rules[k].action = "allow"}
              S == {k \in 1..(j - 1) : k \in K}
              T == {k \in 1..j : k \in K}
  <2>1. /\ S = {k \in 1..(j - 1) : d.rules[k].action = "allow"}
        /\ T = {k \in 1..j : d.rules[k].action = "allow"}
        /\ j \in K <=> d.rules[j].action = "allow"
    BY <1>2
  <2>. HIDE DEF K
  <2>2. Cardinality(T) = IF j \in K THEN Cardinality(S) + 1 ELSE Cardinality(S)
    BY <1>2, CardinalityGoesOn
  <2>. HIDE DEF S, T
  <2>. QED BY <2>1, <2>2 DEF CountsOf
<1>6. e.portScopes =
        SumFunction([k \in {k \in 1..j : d.rules[k].from # Absent} |-> ScopesOf(d, k)])
  <2>. DEFINE F == [k \in DOMAIN d.rules |-> ScopesOf(d, k)]
              K == {k \in DOMAIN d.rules : d.rules[k].from # Absent}
              S == {k \in 1..(j - 1) : k \in K}
              T == {k \in 1..j : k \in K}
  <2>1. \A k \in T : F[k] \in Nat
    BY SizesAreNatural
  <2>2. /\ S = {k \in 1..(j - 1) : d.rules[k].from # Absent}
        /\ T = {k \in 1..j : d.rules[k].from # Absent}
    BY <1>2
  <2>3. /\ [k \in S |-> F[k]]
             = [k \in {k \in 1..(j - 1) : d.rules[k].from # Absent} |-> ScopesOf(d, k)]
        /\ [k \in T |-> F[k]] = [k \in {k \in 1..j : d.rules[k].from # Absent} |-> ScopesOf(d, k)]
        /\ F[j] = ScopesOf(d, j) /\ (j \in K <=> d.rules[j].from # Absent)
    BY <2>2
  <2>. HIDE DEF F, K
  <2>4. SumFunction([k \in T |-> F[k]])
           = SumFunction([k \in S |-> F[k]]) + (IF j \in K THEN F[j] ELSE 0)
    BY <1>2, <2>1, SumGoesOn
  <2>. QED BY <2>3, <2>4 DEF CountsOf
<1>7. e.labelGroups =
        SumFunction([k \in {k \in 1..j : d.rules[k].group # Absent} |-> ValuesFor(d, k)])
  <2>. DEFINE F == [k \in DOMAIN d.rules |-> ValuesFor(d, k)]
              K == {k \in DOMAIN d.rules : d.rules[k].group # Absent}
              S == {k \in 1..(j - 1) : k \in K}
              T == {k \in 1..j : k \in K}
  <2>1. \A k \in T : F[k] \in Nat
    BY SizesAreNatural
  <2>2. /\ S = {k \in 1..(j - 1) : d.rules[k].group # Absent}
        /\ T = {k \in 1..j : d.rules[k].group # Absent}
    BY <1>2
  <2>3. /\ [k \in S |-> F[k]]
             = [k \in {k \in 1..(j - 1) : d.rules[k].group # Absent} |-> ValuesFor(d, k)]
        /\ [k \in T |-> F[k]] = [k \in {k \in 1..j : d.rules[k].group # Absent} |-> ValuesFor(d, k)]
        /\ F[j] = ValuesFor(d, j) /\ (j \in K <=> d.rules[j].group # Absent)
    BY <2>2
  <2>. HIDE DEF F, K
  <2>4. SumFunction([k \in T |-> F[k]])
           = SumFunction([k \in S |-> F[k]]) + (IF j \in K THEN F[j] ELSE 0)
    BY <1>2, <2>1, SumGoesOn
  <2>. QED BY <2>3, <2>4 DEF CountsOf
<1>. QED BY <1>2, <1>3, <1>4, <1>5, <1>6, <1>7 DEF CountsOf

(* What a step adds: natural numbers, and what the contract says when every  *)
(* selector can be parsed again.                                           *)
AllAccepted(d) == \A e \in Expressions(d) : Accepted(e)

Adds(x, y, z) ==
  /\ x \in Nat /\ y \in Nat /\ z \in Nat
  /\ AllAccepted(document) =>
       /\ x = SizeOf(document, next)
       /\ y = IF document.rules[next].from # Absent THEN ScopesOf(document, next) ELSE 0
       /\ z = IF document.rules[next].group # Absent THEN ValuesFor(document, next) ELSE 0

LEMMA RuleStep ==
  ASSUME DocumentInv, next \in Nat \ {0},
         \/ CountWithinStack \/ CountWithinService \/ CountWithinLinked
         \/ CountSelector \/ CountGroupBy \/ CountFromTo
  PROVE  /\ phase = "rules" /\ next \in DOMAIN document.rules
         /\ \E x, y, z : Adds(x, y, z) /\ Count(x, y, z)
<1>. DEFINE r == document.rules[next]
<1>1. Counting
  BY DEF CountWithinStack, CountWithinService, CountWithinLinked, CountSelector, CountGroupBy, CountFromTo
<1>2. NormalDocument(document) /\ phase = "rules"
  BY <1>1, CountedIsNormal DEF Counting
<1>3. next \in DOMAIN document.rules /\ NormalRule(r)
  <2>1. PICK m \in Nat : DOMAIN document.rules = 1..m /\ Len(document.rules) = m
    BY <1>2 DEF NormalDocument
  <2>2. next \in DOMAIN document.rules
    BY <1>1, <2>1 DEF Counting
  <2>. QED BY <1>2, <2>2 DEF NormalDocument
<1>4. IsFiniteSet(document.workloads)
  BY <1>2 DEF NormalDocument
<1>5. OfOneForm(r)
  BY <1>3 DEF NormalRule
<1>6. \A e : (e = r.selector \/ e = r.from \/ e = r.to) /\ e # Absent => e \in Expressions(document)
  BY <1>3 DEF Expressions
<1>7. CASE CountWithinStack
  <2>. DEFINE x == Products(document, StackGroups(document))
  <2>1. r.within = "stack" /\ Count(x, 0, 0)
    BY <1>7 DEF CountWithinStack
  <2>2. StackGroups(document) \in SUBSET SUBSET Application(document)
    BY DEF StackGroups
  <2>3. x \in Nat
    BY <1>4, <2>2, ProductsAreNatural
  <2>4. x = SizeOf(document, next)
    BY <1>2, <1>3, <2>1, StackPairs DEF SizeOf
  <2>5. r.from = Absent /\ r.group = Absent
    BY <1>5, <2>1, AbsentAssumption DEF OfOneForm, Within
  <2>. HIDE DEF x
  <2>6. Adds(x, 0, 0)
    BY <2>3, <2>4, <2>5 DEF Adds
  <2>. QED BY <1>2, <1>3, <2>1, <2>6
<1>8. CASE CountWithinService
  <2>. DEFINE x == Products(document, ServiceGroups(document))
  <2>1. r.within = "service" /\ Count(x, 0, 0)
    BY <1>8 DEF CountWithinService
  <2>2. ServiceGroups(document) \in SUBSET SUBSET Application(document)
    BY DEF ServiceGroups
  <2>3. x \in Nat
    BY <1>4, <2>2, ProductsAreNatural
  <2>4. x = SizeOf(document, next)
    BY <1>2, <1>3, <2>1, ServicePairs DEF SizeOf
  <2>5. r.from = Absent /\ r.group = Absent
    BY <1>5, <2>1, AbsentAssumption DEF OfOneForm, Within
  <2>. HIDE DEF x
  <2>6. Adds(x, 0, 0)
    BY <2>3, <2>4, <2>5 DEF Adds
  <2>. QED BY <1>2, <1>3, <2>1, <2>6
<1>9. CASE CountWithinLinked
  <2>. DEFINE x == LinkedSum(document)
  <2>1. r.within = "linked" /\ Count(x, 0, 0)
    BY <1>9 DEF CountWithinLinked, LinkedSum
  <2>2. x = SizeOf(document, next)
    BY <1>2, <1>3, <2>1, LinkedPairs DEF SizeOf
  <2>3. x \in Nat
    BY <1>2, <1>3, <2>2, SizesAreNatural
  <2>4. r.from = Absent /\ r.group = Absent
    BY <1>5, <2>1, AbsentAssumption DEF OfOneForm, Within
  <2>. HIDE DEF x
  <2>5. Adds(x, 0, 0)
    BY <2>2, <2>3, <2>4 DEF Adds
  <2>. QED BY <1>2, <1>3, <2>1, <2>5
<1>10. CASE CountSelector
  <2>. DEFINE x == Products(document, {Matching(document, r.selector)})
  <2>1. r.selector # Absent /\ Count(x, 0, 0)
    BY <1>10 DEF CountSelector
  <2>2. {Matching(document, r.selector)} \in SUBSET SUBSET Application(document)
    BY DEF Matching
  <2>3. x \in Nat
    BY <1>4, <2>2, ProductsAreNatural
  <2>4. AllAccepted(document) => x = SizeOf(document, next)
    <3>1. AllAccepted(document) => Accepted(r.selector)
      BY <1>6, <2>1 DEF AllAccepted
    <3>. QED BY <1>2, <1>3, <2>1, <3>1, SelectorPairs DEF SizeOf
  <2>5. r.from = Absent /\ r.group = Absent
    BY <1>5, <2>1 DEF OfOneForm
  <2>. HIDE DEF x
  <2>6. Adds(x, 0, 0)
    BY <2>3, <2>4, <2>5 DEF Adds
  <2>. QED BY <1>2, <1>3, <2>1, <2>6
<1>11. CASE CountGroupBy
  <2>. DEFINE groups == LabelGroups(document, r.group)
              x == Products(document, groups)
              z == Cardinality(groups)
  <2>1. r.group # Absent /\ Count(x, 0, z)
    BY <1>11 DEF CountGroupBy
  <2>2. groups \in SUBSET SUBSET Application(document)
    BY DEF LabelGroups
  <2>3. x \in Nat /\ z \in Nat
    BY <1>4, <2>2, ProductsAreNatural, Finiteness
  <2>4. x = SizeOf(document, next)
    BY <1>2, <1>3, <2>1, GroupPairs DEF SizeOf
  <2>5. z = ValuesFor(document, next)
    BY <1>2, <1>3, <2>1, GroupsAreValues DEF ValuesFor, NormalRule
  <2>6. r.from = Absent
    BY <1>5, <2>1 DEF OfOneForm
  <2>. HIDE DEF x, z
  <2>7. Adds(x, 0, z)
    BY <2>1, <2>3, <2>4, <2>5, <2>6 DEF Adds
  <2>. QED BY <1>2, <1>3, <2>1, <2>7
<1>12. CASE CountFromTo
  <2>. DEFINE x == Cardinality(Matching(document, r.from))
                     * Cardinality(Here(document, Matching(document, r.to)))
              many == IF r.ports = << >> THEN 1 ELSE Len(r.ports)
              y == x * many
  <2>1. r.from # Absent /\ Count(x, y, 0)
    BY <1>12 DEF CountFromTo
  <2>2. x \in Nat
    <3>1. /\ Matching(document, r.from) \in SUBSET Application(document)
          /\ Matching(document, r.to) \in SUBSET Application(document)
      BY DEF Matching
    <3>2. /\ Cardinality(Matching(document, r.from)) \in Nat
          /\ Cardinality(Here(document, Matching(document, r.to))) \in Nat
      BY <1>4, <3>1, Finiteness
    <3>. QED BY <3>2
  <2>3. many \in Nat
    BY <1>3 DEF NormalRule
  <2>. HIDE DEF many
  <2>4. y \in Nat
    <3>. HIDE DEF x
    <3>. QED BY <2>2, <2>3
  <2>5. r.to # Absent /\ r.group = Absent
    BY <1>5, <2>1 DEF OfOneForm
  <2>6. AllAccepted(document) => x = SizeOf(document, next) /\ y = ScopesOf(document, next)
    <3>1. AllAccepted(document) => Accepted(r.from) /\ Accepted(r.to)
      BY <1>6, <2>1, <2>5 DEF AllAccepted
    <3>. QED BY <1>2, <1>3, <2>1, <3>1, FromToPairs DEF SizeOf, ScopesOf, many
  <2>. HIDE DEF x, y
  <2>7. Adds(x, y, 0)
    BY <2>1, <2>2, <2>4, <2>5, <2>6 DEF Adds
  <2>. QED BY <1>2, <1>3, <2>1, <2>7
<1>. QED BY <1>7, <1>8, <1>9, <1>10, <1>11, <1>12

-----------------------------------------------------------------------------
(* The inductive invariant.                                                *)
CountTypes ==
  [relationships : Nat, portScopes : Nat, labelGroups : Nat, zeroMatches : Nat, allow : Nat]

NoCounts == [relationships |-> 0, portScopes |-> 0, labelGroups |-> 0, zeroMatches |-> 0, allow |-> 0]

CountInv ==
  /\ DocumentInv
  /\ phase \in {"decode", "normalize", "rules", "done", "refused"}
  /\ Len(document.rules) \in Nat
  /\ next \in 1..(Len(document.rules) + 1)
  /\ counts \in CountTypes
  /\ counts.zeroMatches < next /\ counts.allow < next
  /\ phase = "decode" => document = ZeroConfig
  /\ phase \in {"decode", "normalize"} => next = 1 /\ counts = NoCounts
  /\ phase \in {"rules", "done"} /\ AllAccepted(document) => CountsOf(document, next, counts)

LEMMA NothingCounted ==
  ASSUME NEW d
  PROVE  CountsOf(d, 1, NoCounts)
<1>1. 1..(1 - 1) = {}
  OBVIOUS
<1>2. Cardinality({}) = 0
  BY FS_EmptySet
<1>3. /\ SumFunction([k \in 1..(1 - 1) |-> SizeOf(d, k)]) = 0
      /\ SumFunction([k \in {k \in 1..(1 - 1) : d.rules[k].from # Absent} |-> ScopesOf(d, k)]) = 0
      /\ SumFunction([k \in {k \in 1..(1 - 1) : d.rules[k].group # Absent} |-> ValuesFor(d, k)]) = 0
  <2>1. ASSUME NEW S, S = {}, NEW f, DOMAIN f = S, f = [k \in S |-> f[k]] PROVE SumFunction(f) = 0
    <3>1. f \in [S -> Nat]
      BY <2>1
    <3>. QED BY <2>1, <3>1, SumOfNothing
  <2>. QED BY <1>1, <2>1
<1>4. /\ {k \in 1..(1 - 1) : Relationships(d, d.rules[k]) = {}} = {}
      /\ {k \in 1..(1 - 1) : d.rules[k].action = "allow"} = {}
  BY <1>1
<1>. QED BY <1>2, <1>3, <1>4 DEF CountsOf, NoCounts

LEMMA CountStep == CountInv /\ [Next]_vars => CountInv'
<1>. SUFFICES ASSUME CountInv, [Next]_vars PROVE CountInv'
  OBVIOUS
<1>1. DocumentInv'
  BY DocumentStep DEF CountInv
<1>2. CASE UNCHANGED vars
  BY <1>1, <1>2 DEF vars, CountInv
<1>3. CASE ReadFails \/ Refuse
  BY <1>1, <1>3 DEF ReadFails, Refuse, CountInv
<1>4. CASE Decode
  <2>1. phase' = "normalize" /\ UNCHANGED <<next, counts>> /\ phase = "decode"
    BY <1>4 DEF Decode
  <2>2. IsDocument(Contents(document)') /\ DOMAIN document' = DOMAIN ZeroConfig
    BY <1>1, <2>1 DEF DocumentInv
  <2>3. Len(document'.rules) \in Nat
    BY <2>2, ContentsAre DEF IsDocument
  <2>. QED BY <1>1, <2>1, <2>3 DEF CountInv
<1>5. CASE Normalize
  <2>1. phase = "normalize" /\ phase' = "rules" /\ UNCHANGED <<next, counts>>
    BY <1>5 DEF Normalize
  <2>2. next = 1 /\ counts = NoCounts
    BY <2>1 DEF CountInv
  <2>3. PICK d : AcceptedContents(d) /\ document' = Normalized(d)
    BY <1>1, <2>1 DEF DocumentInv
  <2>4. Len(document'.rules) \in Nat
    BY <2>3, NormalizedIsNormal DEF NormalDocument
  <2>. QED BY <1>1, <2>1, <2>2, <2>4, NothingCounted DEF CountInv
<1>6. CASE \/ CountWithinStack \/ CountWithinService \/ CountWithinLinked
           \/ CountSelector \/ CountGroupBy \/ CountFromTo
  <2>1. next \in Nat \ {0} /\ DocumentInv
    BY DEF CountInv
  <2>2. phase = "rules" /\ next \in DOMAIN document.rules
    BY <1>6, <2>1, RuleStep
  <2>3. PICK x, y, z : Adds(x, y, z) /\ Count(x, y, z)
    BY <1>6, <2>1, RuleStep
  <2>4. NormalDocument(document)
    BY <2>1, <2>2, CountedIsNormal
  <2>5. /\ UNCHANGED <<input, document, phase>> /\ next' = next + 1
        /\ counts' \in CountTypes
        /\ counts'.relationships = counts.relationships + x
        /\ counts'.portScopes = counts.portScopes + y
        /\ counts'.labelGroups = counts.labelGroups + z
        /\ counts'.zeroMatches = IF x = 0 THEN counts.zeroMatches + 1 ELSE counts.zeroMatches
        /\ counts'.allow = IF document.rules[next].action = "allow" THEN counts.allow + 1 ELSE counts.allow
    <3>1. x \in Nat /\ y \in Nat /\ z \in Nat
      BY <2>3 DEF Adds
    <3>2. counts \in CountTypes
      BY DEF CountInv
    <3>3. /\ UNCHANGED <<input, document, phase>> /\ next' = next + 1
          /\ counts' = [counts EXCEPT
               !.relationships = @ + x, !.portScopes = @ + y, !.labelGroups = @ + z,
               !.zeroMatches = IF x = 0 THEN @ + 1 ELSE @,
               !.allow = IF document.rules[next].action = "allow" THEN @ + 1 ELSE @]
      BY <2>3 DEF Count
    <3>. DEFINE zero == IF x = 0 THEN counts.zeroMatches + 1 ELSE counts.zeroMatches
                allow == IF document.rules[next].action = "allow" THEN counts.allow + 1
                         ELSE counts.allow
    <3>4. counts' = [counts EXCEPT
               !.relationships = @ + x, !.portScopes = @ + y, !.labelGroups = @ + z,
               !.zeroMatches = zero, !.allow = allow]
      BY <3>3
    <3>5. zero \in Nat /\ allow \in Nat
      BY <3>2 DEF CountTypes
    <3>6. counts' = [relationships |-> counts.relationships + x,
                     portScopes |-> counts.portScopes + y,
                     labelGroups |-> counts.labelGroups + z, zeroMatches |-> zero, allow |-> allow]
      BY <3>2, <3>4 DEF CountTypes
    <3>7. counts' \in CountTypes
      <4>. HIDE DEF zero, allow
      <4>. QED BY <3>1, <3>2, <3>5, <3>6 DEF CountTypes
    <3>. QED BY <3>3, <3>6, <3>7
  <2>6. next <= Len(document.rules)
    BY <2>2, <2>4 DEF NormalDocument
  <2>7. /\ counts.zeroMatches \in Nat /\ counts.allow \in Nat
        /\ counts'.zeroMatches < next + 1 /\ counts'.allow < next + 1
    BY <2>5 DEF CountInv, CountTypes
  <2>8. AllAccepted(document) => CountsOf(document, next + 1, counts')
    <3>. SUFFICES ASSUME AllAccepted(document) PROVE CountsOf(document, next + 1, counts')
      OBVIOUS
    <3>1. CountsOf(document, next, counts)
      BY <2>2 DEF CountInv
    <3>2. /\ x = SizeOf(document, next)
          /\ y = IF document.rules[next].from # Absent THEN ScopesOf(document, next) ELSE 0
          /\ z = IF document.rules[next].group # Absent THEN ValuesFor(document, next) ELSE 0
      BY <2>3 DEF Adds
    <3>. QED BY <2>2, <2>4, <2>5, <3>1, <3>2, CountsGoOn
  <2>9. /\ phase' = phase /\ document' = document
        /\ Len(document.rules) \in Nat
        /\ next + 1 \in 1..(Len(document.rules) + 1)
    BY <2>1, <2>5, <2>6 DEF CountInv
  <2>. QED BY <1>1, <2>2, <2>5, <2>7, <2>8, <2>9 DEF CountInv
<1>7. CASE Return
  BY <1>1, <1>7 DEF Return, CountInv
<1>. QED BY <1>2, <1>3, <1>4, <1>5, <1>6, <1>7 DEF Next

LEMMA CountInvariance == Spec => []CountInv
<1>1. Init => CountInv
  <2>. SUFFICES ASSUME Init PROVE CountInv
    OBVIOUS
  <2>1. DocumentInv
    BY DEF Init, DocumentInv
  <2>2. Len(document.rules) = 0 /\ document = ZeroConfig
    BY DEF Init, ZeroConfig
  <2>. QED BY <2>1, <2>2 DEF Init, CountInv, CountTypes, NoCounts
<1>. QED BY <1>1, CountStep, PTL DEF Spec

(* An audit counts each rule of the policy once: the index of the next rule  *)
(* stays within the policy, every count is a number, and neither the rules  *)
(* that relate nothing nor those that allow outnumber the rules counted     *)
(* (BuildPlan, plan.go).                                                    *)
THEOREM AuditTypeCorrect == Spec => []TypeOK
<1>1. CountInv => TypeOK
  BY DEF CountInv, CountTypes, TypeOK
<1>. QED BY <1>1, CountInvariance, PTL

(* The estimates are what the policy contract says (README.md:66-79): for   *)
(* any document, any policy and any selectors that can be parsed again,     *)
(* the products of group sizes that BuildPlan adds up are the numbers of     *)
(* pairs of a workload and a local one that the rules relate, none counted  *)
(* twice and none left out, whatever the services, sidekicks, links and     *)
(* labels.                                                                 *)
THEOREM CountsAreRight == Spec => []CountsAreCardinalities
<1>1. CountInv => CountsAreCardinalities
  BY DEF CountInv, CountsAreCardinalities, CountsOf, AllAccepted, SizeOf, ScopesOf, ValuesFor
<1>. QED BY <1>1, CountInvariance, PTL
=============================================================================
