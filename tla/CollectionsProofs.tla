--------------------------- MODULE CollectionsProofs ---------------------------
(***************************************************************************)
(* The one equality and the text of Collections, for any number of cells,  *)
(* any length of lists, any values and any order of strings.               *)
(***************************************************************************)
EXTENDS Collections, FiniteSetTheorems, WellFoundedInduction, TLAPS

-----------------------------------------------------------------------------
(* Numbers and folds *)

\* Every set of numbers has a least one.
LEMMA LeastOne ==
  ASSUME NEW T, T \subseteq Nat, T # {}
  PROVE  \E n \in T : \A k \in T : n <= k
  <1>1. PICK n \in T : \A k \in T : ~ (<<k, n>> \in OpToRel(<, Nat))
    BY NatLessThanWellFounded, WFMin, Zenon
  <1>2. \A k \in T : ~(k < n)
    BY <1>1 DEF OpToRel
  <1>. QED  BY <1>2

\* a set that has 0, and k if it has k - 1, has every number up to n
LEMMA Steadily ==
  ASSUME NEW n \in Nat, NEW S, 0 \in S, \A k \in 1..n : k - 1 \in S => k \in S
  PROVE  \A k \in 0..n : k \in S
  <1>. DEFINE T == {k \in 0..n : k \notin S}
  <1>1. SUFFICES ASSUME T # {} PROVE FALSE
    OBVIOUS
  <1>2. T \subseteq Nat
    OBVIOUS
  <1>3. PICK k \in T : \A l \in T : k <= l
    BY <1>1, <1>2, LeastOne
  <1>4. k \in 1..n /\ k - 1 \in 0..n
    BY <1>3
  <1>5. k - 1 \notin T
    BY <1>3, <1>4
  <1>. QED  BY <1>3, <1>4, <1>5

\* Max is the greatest of a set of numbers.
LEMMA MaxIs ==
  ASSUME NEW k \in Nat, NEW x \in SUBSET (1..k), x # {}
  PROVE  Max(x) \in x /\ \A y \in x : Max(x) >= y
  <1>. DEFINE T == {l \in Nat : k - l \in x}
  <1>1. PICK y0 : y0 \in x
    OBVIOUS
  <1>2. k - y0 \in T
    <2>1. k - (k - y0) = y0 /\ k - y0 \in Nat
      BY <1>1
    <2>. QED  BY <1>1, <2>1
  <1>3. PICK m \in T : \A l \in T : m <= l
    BY <1>2, LeastOne
  <1>4. ASSUME NEW y \in x PROVE k - m >= y
    <2>1. k - (k - y) = y /\ k - y \in Nat /\ y \in Int
      BY <1>4
    <2>2. k - y \in T
      BY <2>1
    <2>. QED  BY <2>1, <2>2, <1>3
  <1>5. \E z \in x : \A y \in x : z >= y
    BY <1>3, <1>4
  <1>. QED  BY <1>5 DEF Max

\* The greatest of 1..k is k, and 1..(k - 1) is left without it.
LEMMA MaxOfInterval ==
  ASSUME NEW k \in Nat, k # 0
  PROVE  Max(1..k) = k /\ (1..k) \ {k} = 1..(k - 1)
  <1>1. 1..k # {} /\ k \in 1..k
    OBVIOUS
  <1>2. Max(1..k) \in 1..k /\ Max(1..k) >= k
    BY <1>1, MaxIs
  <1>. QED  BY <1>2

\* what FoldLeft of a step g computes on the parts of 1..k
Iterates(g, b, s, k, it) ==
  it = [x \in SUBSET (1..k) |-> IF x = {} THEN b ELSE g[<<it[x \ {Max(x)}], s[Max(x)]>>]]

Iterated(R, g, b, s, k) == \E it \in [SUBSET (1..k) -> R] : Iterates(g, b, s, k, it)

\* The recursive function by which FoldLeft of a typed step is defined exists.
LEMMA IteratesExist ==
  ASSUME NEW R, NEW V, NEW b \in R, NEW s \in Seq(V), NEW g \in [R \X V -> R]
  PROVE  Iterated(R, g, b, s, Len(s))
  <1>. DEFINE S == {k \in 0..Len(s) : Iterated(R, g, b, s, k)}
  <1>0. Len(s) \in Nat
    OBVIOUS
  <1>1. 0 \in S
    <2>1. PICK it : it = [x \in SUBSET (1..0) |-> b]
      OBVIOUS
    <2>2. 1..0 = {}
      OBVIOUS
    <2>3. it \in [SUBSET (1..0) -> R]
      BY <2>1
    <2>4. Iterates(g, b, s, 0, it)
      BY <2>1, <2>2 DEF Iterates
    <2>5. Iterated(R, g, b, s, 0)
      BY <2>3, <2>4 DEF Iterated
    <2>. QED  BY <2>5, <1>0
  <1>2. ASSUME NEW k \in 1..Len(s), k - 1 \in S PROVE k \in S
    <2>0. k \in Nat /\ k - 1 \in Nat /\ k \in 1..k /\ k \notin 1..(k - 1) /\ 1..(k - 1) \subseteq 1..k
      OBVIOUS
    <2>1. PICK it \in [SUBSET (1..(k - 1)) -> R] : Iterates(g, b, s, k - 1, it)
      BY <1>2 DEF Iterated
    <2>2. PICK f : f = [x \in SUBSET (1..k) |-> IF k \in x THEN g[<<it[x \ {k}], s[k]>>] ELSE it[x]]
      OBVIOUS
    <2>3. ASSUME NEW x \in SUBSET (1..k)
          PROVE  f[x] \in R /\ f[x] = IF x = {} THEN b ELSE g[<<f[x \ {Max(x)}], s[Max(x)]>>]
      <3>1. CASE k \in x
        <4>1. Max(x) = k
          <5>1. Max(x) \in x /\ Max(x) >= k
            BY <3>1, <2>0, MaxIs
          <5>2. Max(x) \in 1..k
            BY <5>1
          <5>. QED  BY <5>1, <5>2
        <4>2. x \ {k} \in SUBSET (1..(k - 1)) /\ k \notin x \ {k} /\ x \ {k} \in SUBSET (1..k)
          BY <2>0
        <4>3. f[x \ {k}] = it[x \ {k}]
          BY <4>2, <2>2
        <4>4. it[x \ {k}] \in R /\ s[k] \in V
          BY <4>2, <2>1
        <4>5. f[x] = g[<<it[x \ {k}], s[k]>>]
          BY <3>1, <2>2
        <4>. QED  BY <3>1, <4>1, <4>3, <4>4, <4>5
      <3>2. CASE k \notin x
        <4>1. x \in SUBSET (1..(k - 1))
          BY <3>2, <2>0
        <4>2. f[x] = it[x]
          BY <3>2, <2>2
        <4>3. it[x] \in R /\ it[x] = IF x = {} THEN b ELSE g[<<it[x \ {Max(x)}], s[Max(x)]>>]
          BY <4>1, <2>1 DEF Iterates
        <4>4. x # {} => f[x \ {Max(x)}] = it[x \ {Max(x)}]
          <5>1. x \ {Max(x)} \in SUBSET (1..k) /\ k \notin x \ {Max(x)}
            BY <3>2
          <5>. QED  BY <5>1, <2>2
        <4>. QED  BY <4>2, <4>3, <4>4
      <3>. QED  BY <3>1, <3>2
    <2>4. f \in [SUBSET (1..k) -> R]
      BY <2>2, <2>3
    <2>5. Iterates(g, b, s, k, f)
      BY <2>2, <2>3 DEF Iterates
    <2>. QED  BY <2>4, <2>5 DEF Iterated
  <1>3. \A k \in 0..Len(s) : k \in S
    <2>. HIDE DEF S
    <2>. QED  BY <1>0, <1>1, <1>2, Steadily
  <1>. QED  BY <1>0, <1>3

\* a function that is b on {} and takes the step g from 1..(k - 1) to 1..k
StepsUp(R, g, s, f) ==
  \A k \in 1..Len(s) : f[1..(k - 1)] \in R => f[1..k] = g[<<f[1..(k - 1)], s[k]>>]

StepsOf(R, g, b, s, e) ==
  \E p \in [0..Len(s) -> R] : /\ p[0] = b /\ p[Len(s)] = e
                             /\ \A k \in 1..Len(s) : p[k] = g[<<p[k - 1], s[k]>>]

\* So a fold is reached from its base by one step for each element.
LEMMA FoldSteps ==
  ASSUME NEW R, NEW V, NEW b \in R, NEW s \in Seq(V), NEW g \in [R \X V -> R], NEW f,
         f[{}] = b, StepsUp(R, g, s, f)
  PROVE  StepsOf(R, g, b, s, f[DOMAIN s])
  <1>1. PICK n \in Nat : n = Len(s)
    OBVIOUS
  <1>2. DOMAIN s = 1..n /\ \A k \in 1..n : s[k] \in V
    BY <1>1
  <1>3. PICK p : p = [k \in 0..n |-> f[1..k]]
    OBVIOUS
  <1>4. p[0] = b /\ p[n] = f[DOMAIN s]
    <2>1. 1..0 = {}
      OBVIOUS
    <2>. QED  BY <1>2, <1>3, <2>1
  <1>5. ASSUME NEW k \in 1..n, p[k - 1] \in R
        PROVE  p[k] = g[<<p[k - 1], s[k]>>] /\ p[k] \in R
    <2>1. p[k] = f[1..k] /\ p[k - 1] = f[1..(k - 1)]
      BY <1>3
    <2>2. p[k] = g[<<p[k - 1], s[k]>>]
      BY <2>1, <1>1, <1>5 DEF StepsUp
    <2>. QED  BY <2>2, <1>2, <1>5
  <1>6. \A k \in 0..n : p[k] \in R
    <2>1. PICK S : S = {k \in 0..n : p[k] \in R}
      OBVIOUS
    <2>2. 0 \in S
      BY <1>4, <2>1
    <2>3. ASSUME NEW k \in 1..n, k - 1 \in S PROVE k \in S
      <3>1. p[k - 1] \in R /\ k \in 0..n
        BY <2>1, <2>3
      <3>. QED  BY <3>1, <1>5, <2>1
    <2>4. \A k \in 0..n : k \in S
      BY <2>2, <2>3, Steadily
    <2>. QED  BY <2>1, <2>4
  <1>7. p \in [0..n -> R]
    BY <1>3, <1>6
  <1>8. \A k \in 1..n : p[k] = g[<<p[k - 1], s[k]>>]
    <2>1. \A k \in 1..n : k - 1 \in 0..n
      OBVIOUS
    <2>. QED  BY <2>1, <1>5, <1>6
  <1>. QED  BY <1>1, <1>4, <1>7, <1>8 DEF StepsOf

\* Same is an equivalence.
LEMMA SameIs ==
  ASSUME NEW u, NEW v, NEW w
  PROVE  /\ Same(u, u)
         /\ Same(u, v) => Same(v, u)
         /\ Same(u, v) /\ Same(v, w) => Same(u, w)
  BY DEF Same, IsNumeric

\* < and equality of the values in K are those of numbers
Ranked(K, r) ==
  /\ K \subseteq StackValues /\ r \in [K -> Int]
  /\ \A v, w \in K : /\ Less(v, w) <=> r[v] < r[w]
                     /\ Same(v, w) <=> r[v] = r[w]

\* Numbers, 1 and 1.0 among them, are ranked by what they count.
LEMMA NumbersRanked ==
  \E r : Ranked({v \in StackValues : IsNumeric(v)}, r)
  <1>1. PICK K : K = {v \in StackValues : IsNumeric(v)}
    OBVIOUS
  <1>2. PICK r : r = [v \in K |-> v[2]]
    OBVIOUS
  <1>3. \A v \in K : IsNumeric(v) /\ v[2] \in Int /\ v \in StackValues
    BY <1>1 DEF StackValues, IsNumeric, NullV
  <1>4. r \in [K -> Int] /\ \A v \in K : r[v] = v[2]
    BY <1>2, <1>3
  <1>5. \A v, w \in K : (Less(v, w) <=> r[v] < r[w]) /\ (Same(v, w) <=> r[v] = r[w])
    BY <1>3, <1>4 DEF Less, Same
  <1>. QED  BY <1>1, <1>3, <1>4, <1>5 DEF Ranked

\* A string's rank is its place in Order.
LEMMA RankIs ==
  ASSUME NEW k \in Range(Order)
  PROVE  Rank(k) \in Int /\ Order[Rank(k)] = k
  <1>1. PICK i \in DOMAIN Order : Order[i] = k
    BY DEF Range
  <1>2. Rank(k) \in DOMAIN Order /\ Order[Rank(k)] = k
    BY <1>1 DEF Rank
  <1>. QED  BY <1>2, CollectionsAssumption

\* Strings are ranked by their place in Order.
LEMMA StringsRanked ==
  \E r : Ranked({v \in StackValues : IsStr(v)}, r)
  <1>1. PICK K : K = {v \in StackValues : IsStr(v)}
    OBVIOUS
  <1>2. PICK r : r = [v \in K |-> Rank(v[2])]
    OBVIOUS
  <1>3. ASSUME NEW v \in K
        PROVE  ~IsNumeric(v) /\ v[2] \in Range(Order) /\ v = <<"str", v[2]>> /\ v \in StackValues
    BY <1>1 DEF StackValues, IsNumeric, NullV, IsStr
  <1>4. \A v \in K : r[v] = Rank(v[2]) /\ r[v] \in Int /\ Order[r[v]] = v[2]
    BY <1>2, <1>3, RankIs
  <1>5. r \in [K -> Int]
    BY <1>2, <1>4
  <1>6. \A v, w \in K : (Less(v, w) <=> r[v] < r[w]) /\ (Same(v, w) <=> r[v] = r[w])
    <2>1. SUFFICES ASSUME NEW v \in K, NEW w \in K
                   PROVE  (Less(v, w) <=> r[v] < r[w]) /\ (Same(v, w) <=> r[v] = r[w])
      OBVIOUS
    <2>2. Less(v, w) <=> r[v] < r[w]
      BY <1>3, <1>4 DEF Less
    <2>3. Same(v, w) <=> v = w
      BY <1>3 DEF Same
    <2>4. r[v] = r[w] => v = w
      <3>1. r[v] = r[w] => v[2] = w[2]
        BY <1>4
      <3>. QED  BY <3>1, <1>3
    <2>. QED  BY <2>2, <2>3, <2>4
  <1>. QED  BY <1>1, <1>3, <1>5, <1>6 DEF Ranked

-----------------------------------------------------------------------------
(* What each fold computes, one element after the other *)

UniqueStep(kept, v) == IF ContainsValue(kept, v) THEN kept ELSE Append(kept, v)
UniqueOf(s, f) ==
  f = [x \in SUBSET (DOMAIN s) |->
         IF x = {} THEN <<>> ELSE LET y == Max(x) IN UniqueStep(f[x \ {y}], s[y])]

UniqueRuns(V, s) ==
  \E p \in [0..Len(s) -> Seq(V)] :
    /\ p[0] = <<>> /\ p[Len(s)] = Unique(s)
    /\ \A k \in 1..Len(s) : p[k] = UniqueStep(p[k - 1], s[k])

\* The steps of the folds. A fold is the value of a recursive function that CHOOSE finds;
\* for each operation one exists, and its steps are the operation's. (The proofs are alike: a
\* step cannot be a parameter of a lemma here.)
LEMMA UniqueSteps ==
  ASSUME NEW V, NEW s \in Seq(V)
  PROVE  UniqueRuns(V, s)
  <1>0. PICK R : R = Seq(V)
    OBVIOUS
  <1>1. PICK n \in Nat : n = Len(s)
    OBVIOUS
  <1>2. DOMAIN s = 1..n /\ \A k \in 1..n : s[k] \in V
    BY <1>1
  <1>3. <<>> \in R /\ \A q \in R, v \in V : UniqueStep(q, v) \in R
    BY <1>0 DEF UniqueStep
  <1>4. PICK g : g = [q \in R \X V |-> UniqueStep(q[1], q[2])]
    OBVIOUS
  <1>5. /\ g \in [R \X V -> R]
        /\ \A q \in R, v \in V : g[<<q, v>>] = UniqueStep(q, v)
    BY <1>3, <1>4
  <1>6. \E f : UniqueOf(s, f)
    <2>1. Iterated(R, g, <<>>, s, n)
      BY <1>1, <1>3, <1>5, IteratesExist
    <2>2. PICK it \in [SUBSET (1..n) -> R] : Iterates(g, <<>>, s, n, it)
      BY <2>1 DEF Iterated
    <2>3. ASSUME NEW x \in SUBSET (1..n), x # {}
          PROVE  it[x] = UniqueStep(it[x \ {Max(x)}], s[Max(x)])
      <3>1. Max(x) \in 1..n /\ x \ {Max(x)} \in SUBSET (1..n)
        BY <2>3, MaxIs
      <3>2. it[x] = g[<<it[x \ {Max(x)}], s[Max(x)]>>]
        BY <2>2, <2>3 DEF Iterates
      <3>. QED  BY <3>1, <3>2, <2>2, <1>2, <1>5
    <2>4. UniqueOf(s, it)
      BY <1>2, <2>2, <2>3 DEF UniqueOf, Iterates
    <2>. QED  BY <2>4
  <1>7. PICK f : UniqueOf(s, f) /\ Unique(s) = f[DOMAIN s]
    <2>1. Unique(s) = (CHOOSE f : UniqueOf(s, f))[DOMAIN s]
      BY Zenon DEF Unique, FoldLeft, MapThenFoldSet, UniqueOf, UniqueStep
    <2>. QED  BY <1>6, <2>1
  <1>8. f[{}] = <<>>
    BY <1>2, <1>7 DEF UniqueOf
  <1>9. ASSUME NEW k \in 1..n, f[1..(k - 1)] \in R
        PROVE  f[1..k] = g[<<f[1..(k - 1)], s[k]>>]
    <2>1. k \in Nat /\ k # 0 /\ 1..k \in SUBSET (1..n) /\ k \in 1..k
      OBVIOUS
    <2>2. Max(1..k) = k /\ (1..k) \ {k} = 1..(k - 1)
      BY <2>1, MaxOfInterval
    <2>3. f[1..k] = UniqueStep(f[1..(k - 1)], s[k])
      BY <2>1, <2>2, <1>2, <1>7 DEF UniqueOf
    <2>. QED  BY <2>3, <1>2, <1>5, <1>9
  <1>10. \E p \in [0..n -> R] : /\ p[0] = <<>> /\ p[n] = f[DOMAIN s]
                                  /\ \A k \in 1..n : p[k] = g[<<p[k - 1], s[k]>>]
    <2>1. StepsUp(R, g, s, f)
      BY <1>1, <1>9 DEF StepsUp
    <2>2. <<>> \in R /\ g \in [R \X V -> R]
      BY <1>3, <1>5
    <2>3. StepsOf(R, g, <<>>, s, f[DOMAIN s])
      BY <1>8, <2>1, <2>2, FoldSteps
    <2>. QED  BY <1>1, <2>3 DEF StepsOf
  <1>11. PICK p \in [0..n -> R] : /\ p[0] = <<>> /\ p[n] = f[DOMAIN s]
                                   /\ \A k \in 1..n : p[k] = g[<<p[k - 1], s[k]>>]
    BY <1>10
  <1>12. \A k \in 1..n : p[k] = UniqueStep(p[k - 1], s[k])
    <2>1. \A k \in 1..n : k - 1 \in 0..n
      OBVIOUS
    <2>. QED  BY <2>1, <1>2, <1>5, <1>11
  <1>. QED  BY <1>0, <1>1, <1>7, <1>11, <1>12 DEF UniqueRuns

IntersectionStep(t, kept, v) == IF ContainsValue(t, v) /\ ~ContainsValue(kept, v) THEN Append(kept, v) ELSE kept
IntersectionOf(t, s, f) ==
  f = [x \in SUBSET (DOMAIN s) |->
         IF x = {} THEN <<>> ELSE LET y == Max(x) IN IntersectionStep(t, f[x \ {y}], s[y])]

IntersectionRuns(V, t, s) ==
  \E p \in [0..Len(s) -> Seq(V)] :
    /\ p[0] = <<>> /\ p[Len(s)] = Intersection(s, t)
    /\ \A k \in 1..Len(s) : p[k] = IntersectionStep(t, p[k - 1], s[k])

LEMMA IntersectionSteps ==
  ASSUME NEW V, NEW s \in Seq(V), NEW t
  PROVE  IntersectionRuns(V, t, s)
  <1>0. PICK R : R = Seq(V)
    OBVIOUS
  <1>1. PICK n \in Nat : n = Len(s)
    OBVIOUS
  <1>2. DOMAIN s = 1..n /\ \A k \in 1..n : s[k] \in V
    BY <1>1
  <1>3. <<>> \in R /\ \A q \in R, v \in V : IntersectionStep(t, q, v) \in R
    BY <1>0 DEF IntersectionStep
  <1>4. PICK g : g = [q \in R \X V |-> IntersectionStep(t, q[1], q[2])]
    OBVIOUS
  <1>5. /\ g \in [R \X V -> R]
        /\ \A q \in R, v \in V : g[<<q, v>>] = IntersectionStep(t, q, v)
    BY <1>3, <1>4
  <1>6. \E f : IntersectionOf(t, s, f)
    <2>1. Iterated(R, g, <<>>, s, n)
      BY <1>1, <1>3, <1>5, IteratesExist
    <2>2. PICK it \in [SUBSET (1..n) -> R] : Iterates(g, <<>>, s, n, it)
      BY <2>1 DEF Iterated
    <2>3. ASSUME NEW x \in SUBSET (1..n), x # {}
          PROVE  it[x] = IntersectionStep(t, it[x \ {Max(x)}], s[Max(x)])
      <3>1. Max(x) \in 1..n /\ x \ {Max(x)} \in SUBSET (1..n)
        BY <2>3, MaxIs
      <3>2. it[x] = g[<<it[x \ {Max(x)}], s[Max(x)]>>]
        BY <2>2, <2>3 DEF Iterates
      <3>. QED  BY <3>1, <3>2, <2>2, <1>2, <1>5
    <2>4. IntersectionOf(t, s, it)
      BY <1>2, <2>2, <2>3 DEF IntersectionOf, Iterates
    <2>. QED  BY <2>4
  <1>7. PICK f : IntersectionOf(t, s, f) /\ Intersection(s, t) = f[DOMAIN s]
    <2>1. Intersection(s, t) = (CHOOSE f : IntersectionOf(t, s, f))[DOMAIN s]
      BY Zenon DEF Intersection, FoldLeft, MapThenFoldSet, IntersectionOf, IntersectionStep
    <2>. QED  BY <1>6, <2>1
  <1>8. f[{}] = <<>>
    BY <1>2, <1>7 DEF IntersectionOf
  <1>9. ASSUME NEW k \in 1..n, f[1..(k - 1)] \in R
        PROVE  f[1..k] = g[<<f[1..(k - 1)], s[k]>>]
    <2>1. k \in Nat /\ k # 0 /\ 1..k \in SUBSET (1..n) /\ k \in 1..k
      OBVIOUS
    <2>2. Max(1..k) = k /\ (1..k) \ {k} = 1..(k - 1)
      BY <2>1, MaxOfInterval
    <2>3. f[1..k] = IntersectionStep(t, f[1..(k - 1)], s[k])
      BY <2>1, <2>2, <1>2, <1>7 DEF IntersectionOf
    <2>. QED  BY <2>3, <1>2, <1>5, <1>9
  <1>10. \E p \in [0..n -> R] : /\ p[0] = <<>> /\ p[n] = f[DOMAIN s]
                                  /\ \A k \in 1..n : p[k] = g[<<p[k - 1], s[k]>>]
    <2>1. StepsUp(R, g, s, f)
      BY <1>1, <1>9 DEF StepsUp
    <2>2. <<>> \in R /\ g \in [R \X V -> R]
      BY <1>3, <1>5
    <2>3. StepsOf(R, g, <<>>, s, f[DOMAIN s])
      BY <1>8, <2>1, <2>2, FoldSteps
    <2>. QED  BY <1>1, <2>3 DEF StepsOf
  <1>11. PICK p \in [0..n -> R] : /\ p[0] = <<>> /\ p[n] = f[DOMAIN s]
                                   /\ \A k \in 1..n : p[k] = g[<<p[k - 1], s[k]>>]
    BY <1>10
  <1>12. \A k \in 1..n : p[k] = IntersectionStep(t, p[k - 1], s[k])
    <2>1. \A k \in 1..n : k - 1 \in 0..n
      OBVIOUS
    <2>. QED  BY <2>1, <1>2, <1>5, <1>11
  <1>. QED  BY <1>0, <1>1, <1>7, <1>11, <1>12 DEF IntersectionRuns

\* How many elements are not greater is a number of places.
LEMMA Inserted ==
  ASSUME NEW V, NEW done \in Seq(V), NEW v
  PROVE  /\ IsFiniteSet({i \in DOMAIN done : ~Less(v, done[i])})
         /\ Cardinality({i \in DOMAIN done : ~Less(v, done[i])}) \in 0..Len(done)
  <1>1. PICK N : N = {i \in DOMAIN done : ~Less(v, done[i])}
    OBVIOUS
  <1>2. Len(done) \in Nat /\ 1..Len(done) = DOMAIN done /\ 1 \in Int /\ Len(done) \in Int
    OBVIOUS
  <1>3. IsFiniteSet(1..Len(done)) /\ Cardinality(1..Len(done)) = Len(done)
    BY <1>2, FS_Interval
  <1>4. N \subseteq 1..Len(done)
    BY <1>1, <1>2
  <1>5. IsFiniteSet(N) /\ Cardinality(N) <= Len(done)
    BY <1>3, <1>4, FS_Subset
  <1>6. Cardinality(N) \in Nat
    BY <1>5, FS_CardinalityType
  <1>. QED  BY <1>1, <1>2, <1>5, <1>6

LEMMA InsertedTyped ==
  ASSUME NEW V, NEW done \in Seq(V), NEW v \in V, NEW n \in 0..Len(done)
  PROVE  SubSeq(done, 1, n) \o <<v>> \o SubSeq(done, n + 1, Len(done)) \in Seq(V)
  OBVIOUS

SortedStep(done, v) ==
  LET n == Cardinality({i \in DOMAIN done : ~Less(v, done[i])})
  IN SubSeq(done, 1, n) \o <<v>> \o SubSeq(done, n + 1, Len(done))
SortedOf(s, f) ==
  f = [x \in SUBSET (DOMAIN s) |->
         IF x = {} THEN <<>> ELSE LET y == Max(x) IN SortedStep(f[x \ {y}], s[y])]

SortedRuns(V, s) ==
  \E p \in [0..Len(s) -> Seq(V)] :
    /\ p[0] = <<>> /\ p[Len(s)] = Sorted(s)
    /\ \A k \in 1..Len(s) : p[k] = SortedStep(p[k - 1], s[k])

LEMMA SortedSteps ==
  ASSUME NEW V, NEW s \in Seq(V)
  PROVE  SortedRuns(V, s)
  <1>0. PICK R : R = Seq(V)
    OBVIOUS
  <1>1. PICK n \in Nat : n = Len(s)
    OBVIOUS
  <1>2. DOMAIN s = 1..n /\ \A k \in 1..n : s[k] \in V
    BY <1>1
  <1>3. <<>> \in R /\ \A q \in R, v \in V : SortedStep(q, v) \in R
    <2>1. SUFFICES ASSUME NEW q \in R, NEW v \in V PROVE SortedStep(q, v) \in R
      BY <1>0
    <2>2. PICK n2 : n2 = Cardinality({i \in DOMAIN q : ~Less(v, q[i])})
      OBVIOUS
    <2>3. n2 \in 0..Len(q)
      BY <1>0, <2>2, Inserted
    <2>4. SubSeq(q, 1, n2) \o <<v>> \o SubSeq(q, n2 + 1, Len(q)) \in R
      BY <1>0, <2>3, InsertedTyped
    <2>. QED  BY <2>2, <2>4 DEF SortedStep
  <1>4. PICK g : g = [q \in R \X V |-> SortedStep(q[1], q[2])]
    OBVIOUS
  <1>5. /\ g \in [R \X V -> R]
        /\ \A q \in R, v \in V : g[<<q, v>>] = SortedStep(q, v)
    BY <1>3, <1>4
  <1>6. \E f : SortedOf(s, f)
    <2>1. Iterated(R, g, <<>>, s, n)
      BY <1>1, <1>3, <1>5, IteratesExist
    <2>2. PICK it \in [SUBSET (1..n) -> R] : Iterates(g, <<>>, s, n, it)
      BY <2>1 DEF Iterated
    <2>3. ASSUME NEW x \in SUBSET (1..n), x # {}
          PROVE  it[x] = SortedStep(it[x \ {Max(x)}], s[Max(x)])
      <3>1. Max(x) \in 1..n /\ x \ {Max(x)} \in SUBSET (1..n)
        BY <2>3, MaxIs
      <3>2. it[x] = g[<<it[x \ {Max(x)}], s[Max(x)]>>]
        BY <2>2, <2>3 DEF Iterates
      <3>. QED  BY <3>1, <3>2, <2>2, <1>2, <1>5
    <2>4. SortedOf(s, it)
      BY <1>2, <2>2, <2>3 DEF SortedOf, Iterates
    <2>. QED  BY <2>4
  <1>7. PICK f : SortedOf(s, f) /\ Sorted(s) = f[DOMAIN s]
    <2>1. Sorted(s) = (CHOOSE f : SortedOf(s, f))[DOMAIN s]
      BY Zenon DEF Sorted, FoldLeft, MapThenFoldSet, SortedOf, SortedStep
    <2>. QED  BY <1>6, <2>1
  <1>8. f[{}] = <<>>
    BY <1>2, <1>7 DEF SortedOf
  <1>9. ASSUME NEW k \in 1..n, f[1..(k - 1)] \in R
        PROVE  f[1..k] = g[<<f[1..(k - 1)], s[k]>>]
    <2>1. k \in Nat /\ k # 0 /\ 1..k \in SUBSET (1..n) /\ k \in 1..k
      OBVIOUS
    <2>2. Max(1..k) = k /\ (1..k) \ {k} = 1..(k - 1)
      BY <2>1, MaxOfInterval
    <2>3. f[1..k] = SortedStep(f[1..(k - 1)], s[k])
      BY <2>1, <2>2, <1>2, <1>7 DEF SortedOf
    <2>. QED  BY <2>3, <1>2, <1>5, <1>9
  <1>10. \E p \in [0..n -> R] : /\ p[0] = <<>> /\ p[n] = f[DOMAIN s]
                                  /\ \A k \in 1..n : p[k] = g[<<p[k - 1], s[k]>>]
    <2>1. StepsUp(R, g, s, f)
      BY <1>1, <1>9 DEF StepsUp
    <2>2. <<>> \in R /\ g \in [R \X V -> R]
      BY <1>3, <1>5
    <2>3. StepsOf(R, g, <<>>, s, f[DOMAIN s])
      BY <1>8, <2>1, <2>2, FoldSteps
    <2>. QED  BY <1>1, <2>3 DEF StepsOf
  <1>11. PICK p \in [0..n -> R] : /\ p[0] = <<>> /\ p[n] = f[DOMAIN s]
                                   /\ \A k \in 1..n : p[k] = g[<<p[k - 1], s[k]>>]
    BY <1>10
  <1>12. \A k \in 1..n : p[k] = SortedStep(p[k - 1], s[k])
    <2>1. \A k \in 1..n : k - 1 \in 0..n
      OBVIOUS
    <2>. QED  BY <2>1, <1>2, <1>5, <1>11
  <1>. QED  BY <1>0, <1>1, <1>7, <1>11, <1>12 DEF SortedRuns

SmallestFrom(b, s) == FoldLeft(LAMBDA m, v : IF Less(v, m) THEN v ELSE m, b, s)
SmallestStep(m, v) == IF Less(v, m) THEN v ELSE m
SmallestOf(b, s, f) ==
  f = [x \in SUBSET (DOMAIN s) |->
         IF x = {} THEN b ELSE LET y == Max(x) IN SmallestStep(f[x \ {y}], s[y])]

SmallestRuns(V, b, s) ==
  \E p \in [0..Len(s) -> V] :
    /\ p[0] = b /\ p[Len(s)] = SmallestFrom(b, s)
    /\ \A k \in 1..Len(s) : p[k] = SmallestStep(p[k - 1], s[k])

LEMMA SmallestSteps ==
  ASSUME NEW V, NEW s \in Seq(V), NEW b \in V
  PROVE  SmallestRuns(V, b, s)
  <1>0. PICK R : R = V
    OBVIOUS
  <1>1. PICK n \in Nat : n = Len(s)
    OBVIOUS
  <1>2. DOMAIN s = 1..n /\ \A k \in 1..n : s[k] \in V
    BY <1>1
  <1>3. b \in R /\ \A q \in R, v \in V : SmallestStep(q, v) \in R
    BY <1>0 DEF SmallestStep
  <1>4. PICK g : g = [q \in R \X V |-> SmallestStep(q[1], q[2])]
    OBVIOUS
  <1>5. /\ g \in [R \X V -> R]
        /\ \A q \in R, v \in V : g[<<q, v>>] = SmallestStep(q, v)
    BY <1>3, <1>4
  <1>6. \E f : SmallestOf(b, s, f)
    <2>1. Iterated(R, g, b, s, n)
      BY <1>1, <1>3, <1>5, IteratesExist
    <2>2. PICK it \in [SUBSET (1..n) -> R] : Iterates(g, b, s, n, it)
      BY <2>1 DEF Iterated
    <2>3. ASSUME NEW x \in SUBSET (1..n), x # {}
          PROVE  it[x] = SmallestStep(it[x \ {Max(x)}], s[Max(x)])
      <3>1. Max(x) \in 1..n /\ x \ {Max(x)} \in SUBSET (1..n)
        BY <2>3, MaxIs
      <3>2. it[x] = g[<<it[x \ {Max(x)}], s[Max(x)]>>]
        BY <2>2, <2>3 DEF Iterates
      <3>. QED  BY <3>1, <3>2, <2>2, <1>2, <1>5
    <2>4. SmallestOf(b, s, it)
      BY <1>2, <2>2, <2>3 DEF SmallestOf, Iterates
    <2>. QED  BY <2>4
  <1>7. PICK f : SmallestOf(b, s, f) /\ SmallestFrom(b, s) = f[DOMAIN s]
    <2>1. SmallestFrom(b, s) = (CHOOSE f : SmallestOf(b, s, f))[DOMAIN s]
      BY Zenon DEF SmallestFrom, FoldLeft, MapThenFoldSet, SmallestOf, SmallestStep
    <2>. QED  BY <1>6, <2>1
  <1>8. f[{}] = b
    BY <1>2, <1>7 DEF SmallestOf
  <1>9. ASSUME NEW k \in 1..n, f[1..(k - 1)] \in R
        PROVE  f[1..k] = g[<<f[1..(k - 1)], s[k]>>]
    <2>1. k \in Nat /\ k # 0 /\ 1..k \in SUBSET (1..n) /\ k \in 1..k
      OBVIOUS
    <2>2. Max(1..k) = k /\ (1..k) \ {k} = 1..(k - 1)
      BY <2>1, MaxOfInterval
    <2>3. f[1..k] = SmallestStep(f[1..(k - 1)], s[k])
      BY <2>1, <2>2, <1>2, <1>7 DEF SmallestOf
    <2>. QED  BY <2>3, <1>2, <1>5, <1>9
  <1>10. \E p \in [0..n -> R] : /\ p[0] = b /\ p[n] = f[DOMAIN s]
                                  /\ \A k \in 1..n : p[k] = g[<<p[k - 1], s[k]>>]
    <2>1. StepsUp(R, g, s, f)
      BY <1>1, <1>9 DEF StepsUp
    <2>2. b \in R /\ g \in [R \X V -> R]
      BY <1>3, <1>5
    <2>3. StepsOf(R, g, b, s, f[DOMAIN s])
      BY <1>8, <2>1, <2>2, FoldSteps
    <2>. QED  BY <1>1, <2>3 DEF StepsOf
  <1>11. PICK p \in [0..n -> R] : /\ p[0] = b /\ p[n] = f[DOMAIN s]
                                   /\ \A k \in 1..n : p[k] = g[<<p[k - 1], s[k]>>]
    BY <1>10
  <1>12. \A k \in 1..n : p[k] = SmallestStep(p[k - 1], s[k])
    <2>1. \A k \in 1..n : k - 1 \in 0..n
      OBVIOUS
    <2>. QED  BY <2>1, <1>2, <1>5, <1>11
  <1>. QED  BY <1>0, <1>1, <1>7, <1>11, <1>12 DEF SmallestRuns

LargestFrom(b, s) == FoldLeft(LAMBDA m, v : IF ~Less(v, m) /\ ~Same(v, m) THEN v ELSE m, b, s)
LargestStep(m, v) == IF ~Less(v, m) /\ ~Same(v, m) THEN v ELSE m
LargestOf(b, s, f) ==
  f = [x \in SUBSET (DOMAIN s) |->
         IF x = {} THEN b ELSE LET y == Max(x) IN LargestStep(f[x \ {y}], s[y])]

LargestRuns(V, b, s) ==
  \E p \in [0..Len(s) -> V] :
    /\ p[0] = b /\ p[Len(s)] = LargestFrom(b, s)
    /\ \A k \in 1..Len(s) : p[k] = LargestStep(p[k - 1], s[k])

LEMMA LargestSteps ==
  ASSUME NEW V, NEW s \in Seq(V), NEW b \in V
  PROVE  LargestRuns(V, b, s)
  <1>0. PICK R : R = V
    OBVIOUS
  <1>1. PICK n \in Nat : n = Len(s)
    OBVIOUS
  <1>2. DOMAIN s = 1..n /\ \A k \in 1..n : s[k] \in V
    BY <1>1
  <1>3. b \in R /\ \A q \in R, v \in V : LargestStep(q, v) \in R
    BY <1>0 DEF LargestStep
  <1>4. PICK g : g = [q \in R \X V |-> LargestStep(q[1], q[2])]
    OBVIOUS
  <1>5. /\ g \in [R \X V -> R]
        /\ \A q \in R, v \in V : g[<<q, v>>] = LargestStep(q, v)
    BY <1>3, <1>4
  <1>6. \E f : LargestOf(b, s, f)
    <2>1. Iterated(R, g, b, s, n)
      BY <1>1, <1>3, <1>5, IteratesExist
    <2>2. PICK it \in [SUBSET (1..n) -> R] : Iterates(g, b, s, n, it)
      BY <2>1 DEF Iterated
    <2>3. ASSUME NEW x \in SUBSET (1..n), x # {}
          PROVE  it[x] = LargestStep(it[x \ {Max(x)}], s[Max(x)])
      <3>1. Max(x) \in 1..n /\ x \ {Max(x)} \in SUBSET (1..n)
        BY <2>3, MaxIs
      <3>2. it[x] = g[<<it[x \ {Max(x)}], s[Max(x)]>>]
        BY <2>2, <2>3 DEF Iterates
      <3>. QED  BY <3>1, <3>2, <2>2, <1>2, <1>5
    <2>4. LargestOf(b, s, it)
      BY <1>2, <2>2, <2>3 DEF LargestOf, Iterates
    <2>. QED  BY <2>4
  <1>7. PICK f : LargestOf(b, s, f) /\ LargestFrom(b, s) = f[DOMAIN s]
    <2>1. LargestFrom(b, s) = (CHOOSE f : LargestOf(b, s, f))[DOMAIN s]
      BY Zenon DEF LargestFrom, FoldLeft, MapThenFoldSet, LargestOf, LargestStep
    <2>. QED  BY <1>6, <2>1
  <1>8. f[{}] = b
    BY <1>2, <1>7 DEF LargestOf
  <1>9. ASSUME NEW k \in 1..n, f[1..(k - 1)] \in R
        PROVE  f[1..k] = g[<<f[1..(k - 1)], s[k]>>]
    <2>1. k \in Nat /\ k # 0 /\ 1..k \in SUBSET (1..n) /\ k \in 1..k
      OBVIOUS
    <2>2. Max(1..k) = k /\ (1..k) \ {k} = 1..(k - 1)
      BY <2>1, MaxOfInterval
    <2>3. f[1..k] = LargestStep(f[1..(k - 1)], s[k])
      BY <2>1, <2>2, <1>2, <1>7 DEF LargestOf
    <2>. QED  BY <2>3, <1>2, <1>5, <1>9
  <1>10. \E p \in [0..n -> R] : /\ p[0] = b /\ p[n] = f[DOMAIN s]
                                  /\ \A k \in 1..n : p[k] = g[<<p[k - 1], s[k]>>]
    <2>1. StepsUp(R, g, s, f)
      BY <1>1, <1>9 DEF StepsUp
    <2>2. b \in R /\ g \in [R \X V -> R]
      BY <1>3, <1>5
    <2>3. StepsOf(R, g, b, s, f[DOMAIN s])
      BY <1>8, <2>1, <2>2, FoldSteps
    <2>. QED  BY <1>1, <2>3 DEF StepsOf
  <1>11. PICK p \in [0..n -> R] : /\ p[0] = b /\ p[n] = f[DOMAIN s]
                                   /\ \A k \in 1..n : p[k] = g[<<p[k - 1], s[k]>>]
    BY <1>10
  <1>12. \A k \in 1..n : p[k] = LargestStep(p[k - 1], s[k])
    <2>1. \A k \in 1..n : k - 1 \in 0..n
      OBVIOUS
    <2>. QED  BY <2>1, <1>2, <1>5, <1>11
  <1>. QED  BY <1>0, <1>1, <1>7, <1>11, <1>12 DEF LargestRuns

KeysFrom(h, s) == FoldLeft(LAMBDA keys, k : IF k \in DOMAIN h THEN Append(keys, k) ELSE keys, <<>>, s)
KeysStep(h, keys, v) == IF v \in DOMAIN h THEN Append(keys, v) ELSE keys
KeysOf(h, s, f) ==
  f = [x \in SUBSET (DOMAIN s) |->
         IF x = {} THEN <<>> ELSE LET y == Max(x) IN KeysStep(h, f[x \ {y}], s[y])]

KeysRuns(V, h, s) ==
  \E p \in [0..Len(s) -> Seq(V)] :
    /\ p[0] = <<>> /\ p[Len(s)] = KeysFrom(h, s)
    /\ \A k \in 1..Len(s) : p[k] = KeysStep(h, p[k - 1], s[k])

LEMMA KeysSteps ==
  ASSUME NEW V, NEW s \in Seq(V), NEW h
  PROVE  KeysRuns(V, h, s)
  <1>0. PICK R : R = Seq(V)
    OBVIOUS
  <1>1. PICK n \in Nat : n = Len(s)
    OBVIOUS
  <1>2. DOMAIN s = 1..n /\ \A k \in 1..n : s[k] \in V
    BY <1>1
  <1>3. <<>> \in R /\ \A q \in R, v \in V : KeysStep(h, q, v) \in R
    BY <1>0 DEF KeysStep
  <1>4. PICK g : g = [q \in R \X V |-> KeysStep(h, q[1], q[2])]
    OBVIOUS
  <1>5. /\ g \in [R \X V -> R]
        /\ \A q \in R, v \in V : g[<<q, v>>] = KeysStep(h, q, v)
    BY <1>3, <1>4
  <1>6. \E f : KeysOf(h, s, f)
    <2>1. Iterated(R, g, <<>>, s, n)
      BY <1>1, <1>3, <1>5, IteratesExist
    <2>2. PICK it \in [SUBSET (1..n) -> R] : Iterates(g, <<>>, s, n, it)
      BY <2>1 DEF Iterated
    <2>3. ASSUME NEW x \in SUBSET (1..n), x # {}
          PROVE  it[x] = KeysStep(h, it[x \ {Max(x)}], s[Max(x)])
      <3>1. Max(x) \in 1..n /\ x \ {Max(x)} \in SUBSET (1..n)
        BY <2>3, MaxIs
      <3>2. it[x] = g[<<it[x \ {Max(x)}], s[Max(x)]>>]
        BY <2>2, <2>3 DEF Iterates
      <3>. QED  BY <3>1, <3>2, <2>2, <1>2, <1>5
    <2>4. KeysOf(h, s, it)
      BY <1>2, <2>2, <2>3 DEF KeysOf, Iterates
    <2>. QED  BY <2>4
  <1>7. PICK f : KeysOf(h, s, f) /\ KeysFrom(h, s) = f[DOMAIN s]
    <2>1. KeysFrom(h, s) = (CHOOSE f : KeysOf(h, s, f))[DOMAIN s]
      BY Zenon DEF KeysFrom, FoldLeft, MapThenFoldSet, KeysOf, KeysStep
    <2>. QED  BY <1>6, <2>1
  <1>8. f[{}] = <<>>
    BY <1>2, <1>7 DEF KeysOf
  <1>9. ASSUME NEW k \in 1..n, f[1..(k - 1)] \in R
        PROVE  f[1..k] = g[<<f[1..(k - 1)], s[k]>>]
    <2>1. k \in Nat /\ k # 0 /\ 1..k \in SUBSET (1..n) /\ k \in 1..k
      OBVIOUS
    <2>2. Max(1..k) = k /\ (1..k) \ {k} = 1..(k - 1)
      BY <2>1, MaxOfInterval
    <2>3. f[1..k] = KeysStep(h, f[1..(k - 1)], s[k])
      BY <2>1, <2>2, <1>2, <1>7 DEF KeysOf
    <2>. QED  BY <2>3, <1>2, <1>5, <1>9
  <1>10. \E p \in [0..n -> R] : /\ p[0] = <<>> /\ p[n] = f[DOMAIN s]
                                  /\ \A k \in 1..n : p[k] = g[<<p[k - 1], s[k]>>]
    <2>1. StepsUp(R, g, s, f)
      BY <1>1, <1>9 DEF StepsUp
    <2>2. <<>> \in R /\ g \in [R \X V -> R]
      BY <1>3, <1>5
    <2>3. StepsOf(R, g, <<>>, s, f[DOMAIN s])
      BY <1>8, <2>1, <2>2, FoldSteps
    <2>. QED  BY <1>1, <2>3 DEF StepsOf
  <1>11. PICK p \in [0..n -> R] : /\ p[0] = <<>> /\ p[n] = f[DOMAIN s]
                                   /\ \A k \in 1..n : p[k] = g[<<p[k - 1], s[k]>>]
    BY <1>10
  <1>12. \A k \in 1..n : p[k] = KeysStep(h, p[k - 1], s[k])
    <2>1. \A k \in 1..n : k - 1 \in 0..n
      OBVIOUS
    <2>. QED  BY <2>1, <1>2, <1>5, <1>11
  <1>. QED  BY <1>0, <1>1, <1>7, <1>11, <1>12 DEF KeysRuns

-----------------------------------------------------------------------------
(* First occurrences *)

FirstOf(s) == {i \in DOMAIN s : \A j \in 1..(i - 1) : ~Same(s[j], s[i])}

\* What is contained has a first place.
LEMMA Finds ==
  ASSUME NEW V, NEW s \in Seq(V), NEW v, ContainsValue(s, v)
  PROVE  \E i \in DOMAIN s : Same(s[i], v) /\ \A j \in 1..(i - 1) : ~Same(s[j], v)
  <1>1. PICK n \in Nat : n = Len(s)
    OBVIOUS
  <1>2. DOMAIN s = 1..n
    BY <1>1
  <1>3. PICK T : T = {i \in 1..n : Same(s[i], v)}
    OBVIOUS
  <1>4. T \subseteq Nat /\ T # {}
    BY <1>2, <1>3 DEF ContainsValue
  <1>5. PICK i \in T : \A j \in T : i <= j
    BY <1>4, LeastOne
  <1>6. ASSUME NEW j \in 1..(i - 1) PROVE ~Same(s[j], v)
    <2>1. j \in 1..n /\ ~(i <= j)
      BY <1>3, <1>5
    <2>. QED  BY <2>1, <1>3, <1>5
  <1>. QED  BY <1>2, <1>3, <1>5, <1>6

LEMMA FindsFirst ==
  ASSUME NEW V, NEW s \in Seq(V), NEW v, ContainsValue(s, v)
  PROVE  \E i \in FirstOf(s) : Same(s[i], v)
  <1>1. PICK i \in DOMAIN s : Same(s[i], v) /\ \A j \in 1..(i - 1) : ~Same(s[j], v)
    BY Finds
  <1>2. ASSUME NEW j \in 1..(i - 1) PROVE ~Same(s[j], s[i])
    BY <1>1, SameIs
  <1>. QED  BY <1>1, <1>2 DEF FirstOf

\* FindIndex leads to the first place.
LEMMA FoundAtFirst ==
  ASSUME NEW V, NEW s \in Seq(V), NEW v, ContainsValue(s, v),
         \A i \in DOMAIN s : Same(s[i], v) /\ (\A j \in 1..(i - 1) : ~Same(s[j], v)) => s[i] = v
  PROVE  FoundFirst(s, v)
  <1>1. PICK c : c = CHOOSE i \in DOMAIN s : Same(s[i], v) /\ \A j \in 1..(i - 1) : ~Same(s[j], v)
    OBVIOUS
  <1>2. c \in DOMAIN s /\ Same(s[c], v) /\ \A j \in 1..(c - 1) : ~Same(s[j], v)
    BY <1>1, Finds
  <1>3. c \in Int /\ s[c] = v
    BY <1>2
  <1>4. FindIndex(s, v) = c - 1
    BY <1>1 DEF FindIndex
  <1>5. FindIndex(s, v) + 1 = c
    BY <1>3, <1>4
  <1>. QED  BY <1>3, <1>5 DEF FoundFirst

LEMMA AppendedDistinct ==
  ASSUME NEW V, NEW q \in Seq(V), NEW v \in V, NoTwoSame(q), ~ContainsValue(q, v)
  PROVE  NoTwoSame(Append(q, v))
  <1>1. PICK n \in Nat : n = Len(q)
    OBVIOUS
  <1>2. PICK r : r = Append(q, v)
    OBVIOUS
  <1>3. DOMAIN r = 1..(n + 1) /\ r[n + 1] = v /\ DOMAIN q = 1..n /\ \A i \in 1..n : r[i] = q[i]
    BY <1>1, <1>2
  <1>4. \A i \in 1..n : ~Same(r[i], r[n + 1]) /\ ~Same(r[n + 1], r[i])
    BY <1>3, SameIs DEF ContainsValue
  <1>5. \A i, j \in 1..n : Same(r[i], r[j]) => i = j
    BY <1>3 DEF NoTwoSame
  <1>6. \A i \in DOMAIN r : i \in 1..n \/ i = n + 1
    BY <1>3
  <1>7. \A i, j \in DOMAIN r : Same(r[i], r[j]) => i = j
    BY <1>4, <1>5, <1>6
  <1>. QED  BY <1>2, <1>7 DEF NoTwoSame

LEMMA AppendedContains ==
  ASSUME NEW V, NEW q \in Seq(V), NEW v \in V, NEW w
  PROVE  ContainsValue(Append(q, v), w) <=> ContainsValue(q, w) \/ Same(v, w)
  <1>1. PICK n \in Nat : n = Len(q)
    OBVIOUS
  <1>2. PICK r : r = Append(q, v)
    OBVIOUS
  <1>3. DOMAIN r = 1..(n + 1) /\ r[n + 1] = v /\ DOMAIN q = 1..n /\ \A i \in 1..n : r[i] = q[i]
    BY <1>1, <1>2
  <1>4. \A i : i \in 1..(n + 1) <=> i \in 1..n \/ i = n + 1
    OBVIOUS
  <1>5. ContainsValue(r, w) <=> (\E i \in 1..n : Same(r[i], w)) \/ Same(r[n + 1], w)
    BY <1>3, <1>4 DEF ContainsValue
  <1>6. (\E i \in 1..n : Same(r[i], w)) <=> ContainsValue(q, w)
    BY <1>3 DEF ContainsValue
  <1>. QED  BY <1>2, <1>3, <1>5, <1>6

\* the elements of s at the places in A, each kept once
KeptUpTo(V, s, A, q, k) ==
  /\ NoTwoSame(q)
  /\ Len(q) = Cardinality({i \in FirstOf(s) \cap A : i <= k})
  /\ \A v \in V : ContainsValue(q, v) <=> \E i \in A : i <= k /\ Same(s[i], v)

SameInside(s, A) == \A i, j \in DOMAIN s : Same(s[i], s[j]) /\ i \in A => j \in A

\* One more element kept, if none like it is.
LEMMA KeepsOneMore ==
  ASSUME NEW V, NEW s \in Seq(V), NEW A \in SUBSET DOMAIN s, SameInside(s, A),
         NEW k \in 1..Len(s), NEW q \in Seq(V), KeptUpTo(V, s, A, q, k - 1)
  PROVE  KeptUpTo(V, s, A, IF k \in A /\ ~ContainsValue(q, s[k]) THEN Append(q, s[k]) ELSE q, k)
  <1>1. PICK n \in Nat : n = Len(s)
    OBVIOUS
  <1>2. DOMAIN s = 1..n /\ k \in 1..n /\ s[k] \in V /\ A \subseteq 1..n /\ k \in Int
    BY <1>1
  <1>3. PICK B : B = {i \in FirstOf(s) \cap A : i <= k - 1}
    OBVIOUS
  <1>4. IsFiniteSet(B) /\ k \notin B
    <2>1. B \subseteq 1..n
      BY <1>2, <1>3
    <2>2. IsFiniteSet(1..n)
      BY FS_Interval
    <2>. QED  BY <2>1, <2>2, <1>2, <1>3, FS_Subset
  <1>5. \A i \in 1..n : i <= k <=> i <= k - 1 \/ i = k
    BY <1>2
  <1>6. {i \in FirstOf(s) \cap A : i <= k} = IF k \in FirstOf(s) \cap A THEN B \cup {k} ELSE B
    BY <1>2, <1>3, <1>5
  <1>7. k \in A => (ContainsValue(q, s[k]) <=> k \notin FirstOf(s))
    <2>1. ASSUME k \in A, ContainsValue(q, s[k]) PROVE k \notin FirstOf(s)
      <3>1. PICK i \in A : i <= k - 1 /\ Same(s[i], s[k])
        BY <2>1, <1>2 DEF KeptUpTo
      <3>2. i \in 1..(k - 1)
        BY <3>1, <1>2
      <3>. QED  BY <3>1, <3>2 DEF FirstOf
    <2>2. ASSUME k \in A, k \notin FirstOf(s) PROVE ContainsValue(q, s[k])
      <3>1. PICK i \in 1..(k - 1) : Same(s[i], s[k])
        BY <2>2, <1>2 DEF FirstOf
      <3>2. i \in 1..n /\ i <= k - 1
        BY <1>2
      <3>3. i \in A
        BY <3>1, <3>2, <2>2, <1>2, SameIs DEF SameInside
      <3>. QED  BY <3>1, <3>2, <3>3, <1>2 DEF KeptUpTo
    <2>. QED  BY <2>1, <2>2
  <1>8. CASE k \in A /\ ~ContainsValue(q, s[k])
    <2>1. PICK r : r = Append(q, s[k])
      OBVIOUS
    <2>2. NoTwoSame(r)
      BY <2>1, <1>2, <1>8, AppendedDistinct DEF KeptUpTo
    <2>3. Len(r) = Cardinality({i \in FirstOf(s) \cap A : i <= k})
      <3>1. Len(r) = Len(q) + 1 /\ Len(q) = Cardinality(B)
        BY <2>1, <1>3 DEF KeptUpTo
      <3>2. Cardinality(B \cup {k}) = Cardinality(B) + 1
        BY <1>4, FS_AddElement
      <3>3. {i \in FirstOf(s) \cap A : i <= k} = B \cup {k}
        BY <1>6, <1>7, <1>8
      <3>. QED  BY <3>1, <3>2, <3>3
    <2>4. ASSUME NEW v \in V PROVE ContainsValue(r, v) <=> \E i \in A : i <= k /\ Same(s[i], v)
      <3>1. ContainsValue(r, v) <=> ContainsValue(q, v) \/ Same(s[k], v)
        BY <2>1, <1>2, AppendedContains
      <3>2. ContainsValue(q, v) <=> \E i \in A : i <= k - 1 /\ Same(s[i], v)
        BY DEF KeptUpTo
      <3>. QED  BY <3>1, <3>2, <1>2, <1>5, <1>8
    <2>. QED  BY <2>1, <2>2, <2>3, <2>4, <1>8 DEF KeptUpTo
  <1>9. CASE ~(k \in A /\ ~ContainsValue(q, s[k]))
    <2>1. {i \in FirstOf(s) \cap A : i <= k} = B
      BY <1>6, <1>7, <1>9
    <2>2. ASSUME NEW v \in V PROVE ContainsValue(q, v) <=> \E i \in A : i <= k /\ Same(s[i], v)
      <3>1. ContainsValue(q, v) <=> \E i \in A : i <= k - 1 /\ Same(s[i], v)
        BY DEF KeptUpTo
      <3>2. ASSUME k \in A, Same(s[k], v) PROVE \E i \in A : i <= k - 1 /\ Same(s[i], v)
        <4>1. PICK i \in A : i <= k - 1 /\ Same(s[i], s[k])
          BY <3>2, <1>2, <1>9 DEF KeptUpTo
        <4>. QED  BY <4>1, <3>2, SameIs
      <3>. QED  BY <3>1, <3>2, <1>2, <1>5
    <2>. QED  BY <2>1, <2>2, <1>3, <1>9 DEF KeptUpTo
  <1>. QED  BY <1>8, <1>9

Keeps(s, A, p) ==
  /\ p[0] = <<>>
  /\ \A k \in 1..Len(s) :
       p[k] = IF k \in A /\ ~ContainsValue(p[k - 1], s[k]) THEN Append(p[k - 1], s[k]) ELSE p[k - 1]

\* What is kept of s has no two the same, and is as long as s has first places in A.
LEMMA Kept ==
  ASSUME NEW V, NEW s \in Seq(V), NEW A \in SUBSET DOMAIN s, SameInside(s, A),
         NEW p \in [0..Len(s) -> Seq(V)], Keeps(s, A, p)
  PROVE  NoTwoSame(p[Len(s)]) /\ Len(p[Len(s)]) = Cardinality(FirstOf(s) \cap A)
  <1>1. PICK n \in Nat : n = Len(s)
    OBVIOUS
  <1>2. DOMAIN s = 1..n
    BY <1>1
  <1>3. PICK S : S = {k \in 0..n : KeptUpTo(V, s, A, p[k], k)}
    OBVIOUS
  <1>4. 0 \in S
    <2>1. {i \in FirstOf(s) \cap A : i <= 0} = {} /\ \A i \in A : ~(i <= 0)
      BY <1>2
    <2>2. Cardinality({}) = 0
      BY FS_EmptySet
    <2>3. DOMAIN <<>> = {} /\ Len(<<>>) = 0
      OBVIOUS
    <2>4. KeptUpTo(V, s, A, <<>>, 0)
      BY <2>1, <2>2, <2>3 DEF KeptUpTo, NoTwoSame, ContainsValue
    <2>. QED  BY <2>4, <1>3 DEF Keeps
  <1>5. ASSUME NEW k \in 1..n, k - 1 \in S PROVE k \in S
    <2>1. k - 1 \in 0..n /\ k \in 0..n
      OBVIOUS
    <2>2. p[k - 1] \in Seq(V) /\ KeptUpTo(V, s, A, p[k - 1], k - 1)
      BY <2>1, <1>1, <1>3, <1>5
    <2>3. KeptUpTo(V, s, A, p[k], k)
      BY <2>2, <1>1, KeepsOneMore DEF Keeps
    <2>. QED  BY <2>1, <2>3, <1>3
  <1>6. n \in S
    <2>1. \A k \in 0..n : k \in S
      BY <1>4, <1>5, Steadily
    <2>. QED  BY <2>1
  <1>7. {i \in FirstOf(s) \cap A : i <= n} = FirstOf(s) \cap A
    BY <1>2
  <1>. QED  BY <1>1, <1>3, <1>6, <1>7 DEF KeptUpTo

-----------------------------------------------------------------------------
(* Sets *)

InBoth(s, t) == {i \in FirstOf(s) : ContainsValue(t, s[i])}

\* Unique keeps the first of each.
LEMMA UniqueIs ==
  ASSUME NEW V, NEW s \in Seq(V)
  PROVE  /\ Unique(s) \in Seq(V)
         /\ NoTwoSame(Unique(s)) /\ Len(Unique(s)) = Cardinality(FirstOf(s))
  <1>1. PICK p \in [0..Len(s) -> Seq(V)] :
          /\ p[0] = <<>> /\ p[Len(s)] = Unique(s)
          /\ \A k \in 1..Len(s) : p[k] = UniqueStep(p[k - 1], s[k])
    BY UniqueSteps DEF UniqueRuns
  <1>0. PICK A : A = DOMAIN s
    OBVIOUS
  <1>2. Keeps(s, A, p)
    BY <1>0, <1>1 DEF UniqueStep, Keeps
  <1>3. SameInside(s, A) /\ A \in SUBSET DOMAIN s
    BY <1>0 DEF SameInside
  <1>4. NoTwoSame(p[Len(s)]) /\ Len(p[Len(s)]) = Cardinality(FirstOf(s) \cap A)
    BY <1>1, <1>2, <1>3, Kept
  <1>5. FirstOf(s) \cap A = FirstOf(s)
    BY <1>0 DEF FirstOf
  <1>6. Len(s) \in 0..Len(s)
    OBVIOUS
  <1>. QED  BY <1>1, <1>4, <1>5, <1>6

\* Intersection keeps the first of each that the other side has too.
LEMMA IntersectionIs ==
  ASSUME NEW V, NEW s \in Seq(V), NEW t
  PROVE  /\ Intersection(s, t) \in Seq(V)
         /\ NoTwoSame(Intersection(s, t)) /\ Len(Intersection(s, t)) = Cardinality(InBoth(s, t))
  <1>0. IntersectionRuns(V, t, s)
    BY IntersectionSteps
  <1>1. PICK p \in [0..Len(s) -> Seq(V)] :
          /\ p[0] = <<>> /\ p[Len(s)] = Intersection(s, t)
          /\ \A k \in 1..Len(s) : p[k] = IntersectionStep(t, p[k - 1], s[k])
    BY <1>0 DEF IntersectionRuns
  <1>2. PICK A : A = {i \in DOMAIN s : ContainsValue(t, s[i])}
    OBVIOUS
  <1>3. Keeps(s, A, p)
    <2>1. \A k \in 1..Len(s) : k \in A <=> ContainsValue(t, s[k])
      BY <1>2
    <2>. QED  BY <1>1, <2>1 DEF IntersectionStep, Keeps
  <1>4. SameInside(s, A)
    <2>1. \A v, w : Same(v, w) /\ ContainsValue(t, v) => ContainsValue(t, w)
      BY SameIs DEF ContainsValue
    <2>. QED  BY <1>2, <2>1 DEF SameInside
  <1>5. A \in SUBSET DOMAIN s
    BY <1>2
  <1>6. NoTwoSame(p[Len(s)]) /\ Len(p[Len(s)]) = Cardinality(FirstOf(s) \cap A)
    BY <1>1, <1>3, <1>4, <1>5, Kept
  <1>7. FirstOf(s) \cap A = InBoth(s, t)
    BY <1>2 DEF FirstOf, InBoth
  <1>8. Len(s) \in 0..Len(s)
    OBVIOUS
  <1>. QED  BY <1>1, <1>6, <1>7, <1>8

LEMMA FirstsFinite ==
  ASSUME NEW V, NEW s \in Seq(V)
  PROVE  /\ IsFiniteSet(FirstOf(s)) /\ Cardinality(FirstOf(s)) \in Nat
         /\ \A A \in SUBSET FirstOf(s) : IsFiniteSet(A) /\ Cardinality(A) \in Nat
  <1>1. PICK n \in Nat : n = Len(s)
    OBVIOUS
  <1>2. FirstOf(s) \subseteq 1..n
    BY <1>1 DEF FirstOf
  <1>3. IsFiniteSet(1..n)
    BY FS_Interval
  <1>4. \A A \in SUBSET FirstOf(s) : IsFiniteSet(A)
    BY <1>2, <1>3, FS_Subset
  <1>. QED  BY <1>4, FS_CardinalityType

\* For each first element of s that t has there is a first one of t that s has.
LEMMA NoMoreInBoth ==
  ASSUME NEW V, NEW s \in Seq(V), NEW t \in Seq(V)
  PROVE  Cardinality(InBoth(s, t)) <= Cardinality(InBoth(t, s))
  <1>1. PICK S, T : S = InBoth(s, t) /\ T = InBoth(t, s)
    OBVIOUS
  <1>2. \A i \in S : \E j \in T : Same(t[j], s[i])
    <2>1. SUFFICES ASSUME NEW i \in S PROVE \E j \in T : Same(t[j], s[i])
      OBVIOUS
    <2>2. i \in DOMAIN s /\ ContainsValue(t, s[i])
      BY <1>1 DEF InBoth, FirstOf
    <2>3. PICK j \in FirstOf(t) : Same(t[j], s[i])
      BY <2>2, FindsFirst
    <2>4. ContainsValue(s, t[j])
      BY <2>2, <2>3, SameIs DEF ContainsValue
    <2>. QED  BY <2>3, <2>4, <1>1 DEF InBoth
  <1>3. PICK f : f = [i \in S |-> CHOOSE j \in T : Same(t[j], s[i])]
    OBVIOUS
  <1>4. f \in [S -> T] /\ \A i \in S : Same(t[f[i]], s[i])
    BY <1>2, <1>3
  <1>5. \A i, j \in S : f[i] = f[j] => i = j
    <2>1. SUFFICES ASSUME NEW i \in S, NEW j \in S, f[i] = f[j] PROVE i = j
      OBVIOUS
    <2>2. Same(s[i], s[j]) /\ Same(s[j], s[i])
      BY <1>4, <2>1, SameIs
    <2>3. /\ i \in DOMAIN s /\ \A l \in 1..(i - 1) : ~Same(s[l], s[i])
          /\ j \in DOMAIN s /\ \A l \in 1..(j - 1) : ~Same(s[l], s[j])
      BY <1>1 DEF InBoth, FirstOf
    <2>4. i \in Nat \ {0} /\ j \in Nat \ {0}
      BY <2>3
    <2>5. ~(i < j) /\ ~(j < i)
      BY <2>2, <2>3, <2>4
    <2>. QED  BY <2>4, <2>5
  <1>6. f \in Injection(S, T)
    BY <1>4, <1>5 DEF Injection, IsInjective
  <1>7. IsFiniteSet(T)
    BY <1>1, FirstsFinite DEF InBoth
  <1>. QED  BY <1>1, <1>6, <1>7, FS_Injection

\* the first occurrences in s \o t: those in s, and those in t of what s does not have
LEMMA FirstsOfBoth ==
  ASSUME NEW V, NEW s \in Seq(V), NEW t \in Seq(V)
  PROVE  FirstOf(s \o t) = FirstOf(s) \cup {Len(s) + j : j \in FirstOf(t) \ InBoth(t, s)}
  <1>1. PICK n \in Nat : n = Len(s)
    OBVIOUS
  <1>2. PICK m \in Nat : m = Len(t)
    OBVIOUS
  <1>3. PICK u : u = s \o t
    OBVIOUS
  <1>4. /\ DOMAIN s = 1..n /\ DOMAIN t = 1..m /\ DOMAIN u = 1..(n + m)
        /\ \A i \in 1..n : u[i] = s[i]
        /\ \A i \in 1..m : u[n + i] = t[i]
    BY <1>1, <1>2, <1>3
  <1>5. ASSUME NEW i \in 1..n PROVE i \in FirstOf(u) <=> i \in FirstOf(s)
    <2>1. \A j \in 1..(i - 1) : u[j] = s[j] /\ u[i] = s[i]
      BY <1>4
    <2>2. i \in DOMAIN u /\ i \in DOMAIN s
      BY <1>4
    <2>. QED  BY <2>1, <2>2 DEF FirstOf
  <1>6. ASSUME NEW j \in 1..m PROVE n + j \in FirstOf(u) <=> j \in FirstOf(t) \ InBoth(t, s)
    <2>1. n + j \in DOMAIN u /\ j \in DOMAIN t /\ u[n + j] = t[j]
      BY <1>4
    <2>2. \A l : l \in 1..(n + j - 1) <=> l \in 1..n \/ (\E h \in 1..(j - 1) : l = n + h)
      <3>1. SUFFICES ASSUME NEW l PROVE l \in 1..(n + j - 1) <=> l \in 1..n \/ \E h \in 1..(j - 1) : l = n + h
        OBVIOUS
      <3>2. ASSUME l \in 1..(n + j - 1), l \notin 1..n PROVE \E h \in 1..(j - 1) : l = n + h
        <4>1. l - n \in 1..(j - 1) /\ l = n + (l - n)
          BY <3>2
        <4>. QED  BY <4>1
      <3>3. ASSUME l \in 1..n PROVE l \in 1..(n + j - 1)
        BY <3>3
      <3>4. ASSUME NEW h \in 1..(j - 1), l = n + h PROVE l \in 1..(n + j - 1)
        BY <3>4
      <3>. QED  BY <3>2, <3>3, <3>4
    <2>3. (\A l \in 1..(n + j - 1) : ~Same(u[l], t[j]))
            <=> (\A l \in 1..n : ~Same(u[l], t[j])) /\ (\A h \in 1..(j - 1) : ~Same(u[n + h], t[j]))
      BY <2>2
    <2>4. (\A l \in 1..n : ~Same(u[l], t[j])) <=> ~ContainsValue(s, t[j])
      BY <1>4 DEF ContainsValue
    <2>5. \A h \in 1..(j - 1) : u[n + h] = t[h]
      BY <1>4
    <2>. QED  BY <2>1, <2>3, <2>4, <2>5 DEF FirstOf, InBoth
  <1>7. \A i \in 1..(n + m) : i \in 1..n \/ \E j \in 1..m : i = n + j
    <2>1. SUFFICES ASSUME NEW i \in 1..(n + m), i \notin 1..n PROVE \E j \in 1..m : i = n + j
      OBVIOUS
    <2>2. i - n \in 1..m /\ i = n + (i - n)
      BY <2>1
    <2>. QED  BY <2>2
  <1>8. FirstOf(u) \subseteq 1..(n + m) /\ FirstOf(s) \subseteq 1..n /\ FirstOf(t) \subseteq 1..m
    BY <1>4 DEF FirstOf
  <1>9. \A i \in FirstOf(u) : i \in FirstOf(s) \cup {n + j : j \in FirstOf(t) \ InBoth(t, s)}
    BY <1>5, <1>6, <1>7, <1>8
  <1>10. \A i \in FirstOf(s) : i \in FirstOf(u)
    BY <1>5, <1>8
  <1>11. \A j \in FirstOf(t) \ InBoth(t, s) : n + j \in FirstOf(u)
    BY <1>6, <1>8
  <1>. QED  BY <1>1, <1>3, <1>9, <1>10, <1>11

LEMMA Shifted ==
  ASSUME NEW n \in Int, NEW T \in SUBSET Int, IsFiniteSet(T)
  PROVE  IsFiniteSet({n + j : j \in T}) /\ Cardinality({n + j : j \in T}) = Cardinality(T)
  <1>1. PICK U : U = {n + j : j \in T}
    OBVIOUS
  <1>2. PICK f : f = [j \in T |-> n + j]
    OBVIOUS
  <1>3. f \in [T -> U] /\ \A j \in T : f[j] = n + j
    BY <1>1, <1>2
  <1>4. \A i, j \in T : f[i] = f[j] => i = j
    BY <1>3
  <1>5. \A u \in U : \E j \in T : f[j] = u
    BY <1>1, <1>3
  <1>6. f \in Bijection(T, U)
    BY <1>3, <1>4, <1>5 DEF Bijection, Injection, Surjection, IsInjective
  <1>7. ExistsBijection(T, U)
    BY <1>6 DEF ExistsBijection
  <1>. QED  BY <1>1, <1>7, FS_Bijection

\* A union and an intersection have as many elements as both sides.
LEMMA Counted ==
  ASSUME NEW V, NEW s \in Seq(V), NEW t \in Seq(V)
  PROVE  Cardinality(FirstOf(s \o t)) + Cardinality(InBoth(s, t))
           = Cardinality(FirstOf(s)) + Cardinality(FirstOf(t))
  <1>1. PICK n \in Nat : n = Len(s)
    OBVIOUS
  <1>2. PICK T : T = FirstOf(t) \ InBoth(t, s)
    OBVIOUS
  <1>3. PICK U : U = {n + j : j \in T}
    OBVIOUS
  <1>4. FirstOf(t) \subseteq Nat \ {0} /\ FirstOf(s) \subseteq 1..n
    BY <1>1 DEF FirstOf
  <1>5. IsFiniteSet(T) /\ Cardinality(T) = Cardinality(FirstOf(t)) - Cardinality(InBoth(t, s))
    <2>1. FirstOf(t) \cap InBoth(t, s) = InBoth(t, s)
      BY DEF InBoth
    <2>2. IsFiniteSet(FirstOf(t))
      BY FirstsFinite
    <2>3. /\ IsFiniteSet(FirstOf(t) \ InBoth(t, s))
          /\ Cardinality(FirstOf(t) \ InBoth(t, s))
               = Cardinality(FirstOf(t)) - Cardinality(FirstOf(t) \cap InBoth(t, s))
      BY <2>2, FS_Difference
    <2>. QED  BY <2>1, <2>3, <1>2
  <1>6. IsFiniteSet(U) /\ Cardinality(U) = Cardinality(T)
    <2>1. T \in SUBSET Int /\ n \in Int
      BY <1>2, <1>4
    <2>. QED  BY <2>1, <1>3, <1>5, Shifted
  <1>7. FirstOf(s) \cap U = {}
    BY <1>2, <1>3, <1>4
  <1>8. FirstOf(s \o t) = FirstOf(s) \cup U
    BY <1>1, <1>2, <1>3, FirstsOfBoth
  <1>9. Cardinality(FirstOf(s \o t)) = Cardinality(FirstOf(s)) + Cardinality(U)
    <2>1. IsFiniteSet(FirstOf(s)) /\ Cardinality(FirstOf(s)) \in Nat
      BY FirstsFinite
    <2>2. Cardinality(FirstOf(s) \cup U) = Cardinality(FirstOf(s)) + Cardinality(U) - Cardinality(FirstOf(s) \cap U)
      BY <2>1, <1>6, FS_Union
    <2>3. Cardinality({}) = 0 /\ Cardinality(U) \in Nat
      BY <1>6, FS_EmptySet, FS_CardinalityType
    <2>4. Cardinality(FirstOf(s) \cap U) = 0
      BY <2>3, <1>7
    <2>5. Cardinality(FirstOf(s) \cup U) = Cardinality(FirstOf(s)) + Cardinality(U)
      BY <2>1, <2>2, <2>3, <2>4
    <2>. QED  BY <2>5, <1>8
  <1>10. /\ Cardinality(InBoth(s, t)) \in Nat /\ Cardinality(InBoth(t, s)) \in Nat
         /\ Cardinality(FirstOf(s)) \in Nat /\ Cardinality(FirstOf(t)) \in Nat
    BY FirstsFinite DEF InBoth
  <1>11. Cardinality(InBoth(s, t)) = Cardinality(InBoth(t, s))
    BY <1>10, NoMoreInBoth
  <1>. QED  BY <1>5, <1>6, <1>9, <1>10, <1>11

LEMMA DisjointIs ==
  ASSUME NEW V, NEW s \in Seq(V), NEW t \in Seq(V)
  PROVE  Disjoint(s, t) <=> Intersection(s, t) = <<>>
  <1>1. /\ Intersection(s, t) \in Seq(V)
        /\ Len(Intersection(s, t)) = Cardinality(InBoth(s, t))
    BY IntersectionIs
  <1>2. Intersection(s, t) = <<>> <=> Len(Intersection(s, t)) = 0
    BY <1>1
  <1>3. Cardinality(InBoth(s, t)) = 0 <=> InBoth(s, t) = {}
    <2>1. IsFiniteSet(InBoth(s, t))
      BY FirstsFinite DEF InBoth
    <2>. QED  BY <2>1, FS_EmptySet
  <1>4. ASSUME InBoth(s, t) = {}, NEW i \in DOMAIN s, ContainsValue(t, s[i]) PROVE FALSE
    <2>1. ContainsValue(s, s[i])
      BY SameIs DEF ContainsValue
    <2>2. PICK l \in FirstOf(s) : Same(s[l], s[i])
      BY <2>1, FindsFirst
    <2>3. ContainsValue(t, s[l])
      BY <1>4, <2>2, SameIs DEF ContainsValue
    <2>. QED  BY <1>4, <2>2, <2>3 DEF InBoth
  <1>5. Disjoint(s, t) <=> InBoth(s, t) = {}
    <2>1. Disjoint(s, t) => InBoth(s, t) = {}
      BY DEF Disjoint, InBoth, FirstOf
    <2>. QED  BY <2>1, <1>4 DEF Disjoint
  <1>. QED  BY <1>1, <1>2, <1>3, <1>5

\* The operations on two lists agree.
LEMMA SetsDoAgree ==
  ASSUME NEW V, NEW s \in Seq(V), NEW t \in Seq(V)
  PROVE  SetsAgree(s, t)
  <1>1. s \o t \in Seq(V)
    OBVIOUS
  <1>2. NoTwoSame(Intersection(s, t)) /\ NoTwoSame(Unique(s))
    BY UniqueIs, IntersectionIs
  <1>3. /\ Len(Union(s, t)) = Cardinality(FirstOf(s \o t))
        /\ Len(Unique(s)) = Cardinality(FirstOf(s)) /\ Len(Unique(t)) = Cardinality(FirstOf(t))
        /\ Len(Intersection(s, t)) = Cardinality(InBoth(s, t))
    BY <1>1, UniqueIs, IntersectionIs DEF Union
  <1>. QED  BY <1>2, <1>3, Counted, DisjointIs DEF SetsAgree

-----------------------------------------------------------------------------
(* The smallest, the largest and the sorted list *)

\* the extreme by h of the first k, one after the other
Extremes(s, h, q) ==
  /\ q[1] = s[1]
  /\ \A k \in 2..Len(s) : q[k] = IF h[s[k]] < h[q[k - 1]] THEN s[k] ELSE q[k - 1]

FirstLeast(s, h, k, m) ==
  \E i \in 1..k : /\ m = s[i]
                  /\ \A j \in 1..k : h[m] <= h[s[j]]
                  /\ \A j \in 1..(i - 1) : h[m] < h[s[j]]

\* Going through a list for the least finds the first of the least.
LEMMA ExtremesAreFirst ==
  ASSUME NEW K, NEW s \in Seq(K), s # <<>>, NEW h \in [K -> Int],
         NEW q, Extremes(s, h, q)
  PROVE  FirstLeast(s, h, Len(s), q[Len(s)])
  <1>1. PICK n \in Nat : n = Len(s)
    OBVIOUS
  <1>2. n # 0 /\ (\A i \in 1..n : s[i] \in K /\ h[s[i]] \in Int)
    BY <1>1
  <1>3. PICK S : S = {k \in 0..n : k # 0 => FirstLeast(s, h, k, q[k])}
    OBVIOUS
  <1>4. 0 \in S
    BY <1>3
  <1>5. ASSUME NEW k \in 1..n, k - 1 \in S PROVE k \in S
    <2>1. k \in 0..n /\ k # 0
      OBVIOUS
    <2>2. CASE k = 1
      <3>1. 1 \in 1..1 /\ (\A j \in 1..1 : j = 1) /\ 1..(1 - 1) = {}
        OBVIOUS
      <3>2. q[1] = s[1] /\ h[s[1]] \in Int
        BY <1>2, <2>2 DEF Extremes
      <3>3. FirstLeast(s, h, 1, q[1])
        BY <3>1, <3>2 DEF FirstLeast
      <3>. QED  BY <3>3, <2>1, <2>2, <1>3
    <2>3. CASE k # 1
      <3>1. k \in 2..n /\ k - 1 # 0
        BY <2>3
      <3>2. FirstLeast(s, h, k - 1, q[k - 1])
        BY <3>1, <1>3, <1>5
      <3>3. PICK i \in 1..(k - 1) : /\ q[k - 1] = s[i]
                                    /\ \A j \in 1..(k - 1) : h[s[i]] <= h[s[j]]
                                    /\ \A j \in 1..(i - 1) : h[s[i]] < h[s[j]]
        BY <3>2 DEF FirstLeast
      <3>4. q[k] = IF h[s[k]] < h[s[i]] THEN s[k] ELSE s[i]
        BY <3>1, <3>3, <1>1 DEF Extremes
      <3>5. i \in 1..n /\ i \in 1..k /\ \A j \in 1..k : j \in 1..n /\ (j \in 1..(k - 1) \/ j = k)
        BY <3>1
      <3>6. h[s[i]] \in Int /\ h[s[k]] \in Int /\ \A j \in 1..k : h[s[j]] \in Int
        BY <3>5, <1>2
      <3>7. ASSUME h[s[k]] < h[s[i]] PROVE FirstLeast(s, h, k, q[k])
        <4>1. \A j \in 1..(k - 1) : h[s[k]] < h[s[j]]
          <5>1. \A j \in 1..(k - 1) : j \in 1..k
            OBVIOUS
          <5>. QED  BY <5>1, <3>3, <3>6, <3>7
        <4>2. \A j \in 1..k : h[s[k]] <= h[s[j]]
          BY <4>1, <3>5, <3>6
        <4>3. q[k] = s[k] /\ k \in 1..k
          BY <3>4, <3>7
        <4>. QED  BY <4>1, <4>2, <4>3 DEF FirstLeast
      <3>8. ASSUME ~(h[s[k]] < h[s[i]]) PROVE FirstLeast(s, h, k, q[k])
        <4>1. \A j \in 1..k : h[s[i]] <= h[s[j]]
          BY <3>3, <3>5, <3>6, <3>8
        <4>2. q[k] = s[i]
          BY <3>4, <3>8
        <4>. QED  BY <4>1, <4>2, <3>3, <3>5 DEF FirstLeast
      <3>9. FirstLeast(s, h, k, q[k])
        BY <3>7, <3>8
      <3>. QED  BY <3>9, <2>1, <1>3
    <2>. QED  BY <2>2, <2>3
  <1>6. \A k \in 0..n : k \in S
    BY <1>4, <1>5, Steadily
  <1>. QED  BY <1>1, <1>2, <1>3, <1>6

LEMMA ExtremesFoundFirst ==
  ASSUME NEW K, NEW s \in Seq(K), NEW h \in [K -> Int],
         \A v, w \in K : Same(v, w) <=> h[v] = h[w],
         NEW m, FirstLeast(s, h, Len(s), m)
  PROVE  FoundFirst(s, m)
  <1>1. PICK n \in Nat : n = Len(s)
    OBVIOUS
  <1>2. DOMAIN s = 1..n /\ (\A i \in 1..n : s[i] \in K /\ h[s[i]] \in Int)
    BY <1>1
  <1>3. PICK i \in 1..n : m = s[i] /\ \A j \in 1..(i - 1) : h[m] < h[s[j]]
    BY <1>1 DEF FirstLeast
  <1>4. m \in K /\ h[m] \in Int /\ \A j \in 1..n : Same(s[j], m) <=> h[s[j]] = h[m]
    BY <1>2, <1>3
  <1>5. Same(s[i], m)
    BY <1>3, <1>4
  <1>6. ASSUME NEW j \in DOMAIN s, Same(s[j], m), \A l \in 1..(j - 1) : ~Same(s[l], m)
        PROVE  s[j] = m
    <2>1. ~(i < j)
      <3>1. i < j => i \in 1..(j - 1)
        BY <1>2
      <3>. QED  BY <3>1, <1>5, <1>6
    <2>2. ~(j < i)
      <3>1. j < i => j \in 1..(i - 1)
        BY <1>2
      <3>2. h[s[j]] = h[m]
        BY <1>2, <1>4, <1>6
      <3>. QED  BY <3>1, <3>2, <1>3, <1>4
    <2>3. i = j
      BY <2>1, <2>2, <1>2
    <2>. QED  BY <2>3, <1>3
  <1>7. ContainsValue(s, m)
    BY <1>2, <1>5 DEF ContainsValue
  <1>. QED  BY <1>6, <1>7, FoundAtFirst

\* Smallest is the first of the least, ...
LEMMA SmallestIs ==
  ASSUME NEW K, NEW r, Ranked(K, r), NEW s \in Seq(K), s # <<>>
  PROVE  \E q \in [1..Len(s) -> K] : Extremes(s, r, q) /\ q[Len(s)] = Smallest(s)
  <1>1. PICK n \in Nat : n = Len(s)
    OBVIOUS
  <1>2. PICK t : t = Tail(s)
    OBVIOUS
  <1>3. /\ n # 0 /\ s[1] \in K /\ t \in Seq(K) /\ Len(t) = n - 1
        /\ \A k \in 1..(n - 1) : t[k] = s[k + 1]
        /\ \A k \in 1..n : s[k] \in K
    BY <1>1, <1>2
  <1>4. SmallestRuns(K, s[1], t)
    BY <1>3, SmallestSteps
  <1>5. PICK p \in [0..(n - 1) -> K] :
          /\ p[0] = s[1] /\ p[n - 1] = SmallestFrom(s[1], t)
          /\ \A k \in 1..(n - 1) : p[k] = SmallestStep(p[k - 1], t[k])
    BY <1>3, <1>4 DEF SmallestRuns
  <1>6. SmallestFrom(s[1], t) = Smallest(s)
    BY <1>2, Zenon DEF SmallestFrom, Smallest
  <1>7. PICK q : q = [k \in 1..n |-> p[k - 1]]
    OBVIOUS
  <1>8. q \in [1..n -> K] /\ q[1] = s[1] /\ q[n] = Smallest(s)
    BY <1>3, <1>5, <1>6, <1>7
  <1>9. ASSUME NEW k \in 2..n PROVE q[k] = IF r[s[k]] < r[q[k - 1]] THEN s[k] ELSE q[k - 1]
    <2>1. k \in 1..n /\ k - 1 \in 1..n /\ k - 1 \in 1..(n - 1) /\ (k - 1) + 1 = k
      OBVIOUS
    <2>2. q[k] = p[k - 1] /\ q[k - 1] = p[(k - 1) - 1] /\ q[k - 1] \in K
      BY <2>1, <1>7, <1>8
    <2>3. t[k - 1] = s[k] /\ s[k] \in K
      BY <2>1, <1>3
    <2>4. p[k - 1] = SmallestStep(p[(k - 1) - 1], t[k - 1])
      BY <2>1, <1>5
    <2>5. q[k] = SmallestStep(q[k - 1], s[k])
      BY <2>2, <2>3, <2>4
    <2>6. Less(s[k], q[k - 1]) <=> r[s[k]] < r[q[k - 1]]
      BY <2>2, <2>3 DEF Ranked
    <2>. QED  BY <2>5, <2>6 DEF SmallestStep
  <1>. QED  BY <1>1, <1>8, <1>9 DEF Extremes

Opposite(K, r, h) == h = [v \in K |-> -r[v]]

\* ... and Largest that of the greatest.
LEMMA LargestIs ==
  ASSUME NEW K, NEW r, Ranked(K, r), NEW s \in Seq(K), s # <<>>, NEW h, Opposite(K, r, h)
  PROVE  \E q \in [1..Len(s) -> K] : Extremes(s, h, q) /\ q[Len(s)] = Largest(s)
  <1>1. PICK n \in Nat : n = Len(s)
    OBVIOUS
  <1>2. PICK t : t = Tail(s)
    OBVIOUS
  <1>3. /\ n # 0 /\ s[1] \in K /\ t \in Seq(K) /\ Len(t) = n - 1
        /\ \A k \in 1..(n - 1) : t[k] = s[k + 1]
        /\ \A k \in 1..n : s[k] \in K
    BY <1>1, <1>2
  <1>4. LargestRuns(K, s[1], t)
    BY <1>3, LargestSteps
  <1>5. PICK p \in [0..(n - 1) -> K] :
          /\ p[0] = s[1] /\ p[n - 1] = LargestFrom(s[1], t)
          /\ \A k \in 1..(n - 1) : p[k] = LargestStep(p[k - 1], t[k])
    BY <1>3, <1>4 DEF LargestRuns
  <1>6. LargestFrom(s[1], t) = Largest(s)
    BY <1>2, Zenon DEF LargestFrom, Largest
  <1>7. PICK q : q = [k \in 1..n |-> p[k - 1]]
    OBVIOUS
  <1>8. q \in [1..n -> K] /\ q[1] = s[1] /\ q[n] = Largest(s)
    BY <1>3, <1>5, <1>6, <1>7
  <1>9. ASSUME NEW k \in 2..n PROVE q[k] = IF h[s[k]] < h[q[k - 1]] THEN s[k] ELSE q[k - 1]
    <2>1. k \in 1..n /\ k - 1 \in 1..n /\ k - 1 \in 1..(n - 1) /\ (k - 1) + 1 = k
      OBVIOUS
    <2>2. q[k] = p[k - 1] /\ q[k - 1] = p[(k - 1) - 1] /\ q[k - 1] \in K
      BY <2>1, <1>7, <1>8
    <2>3. t[k - 1] = s[k] /\ s[k] \in K
      BY <2>1, <1>3
    <2>4. p[k - 1] = LargestStep(p[(k - 1) - 1], t[k - 1])
      BY <2>1, <1>5
    <2>5. q[k] = LargestStep(q[k - 1], s[k])
      BY <2>2, <2>3, <2>4
    <2>6. ~Less(s[k], q[k - 1]) /\ ~Same(s[k], q[k - 1]) <=> r[q[k - 1]] < r[s[k]]
      <3>1. PICK u \in K, w \in K : u = s[k] /\ w = q[k - 1]
        BY <2>2, <2>3
      <3>2. r[u] \in Int /\ r[w] \in Int /\ (Less(u, w) <=> r[u] < r[w]) /\ (Same(u, w) <=> r[u] = r[w])
        BY DEF Ranked
      <3>. QED  BY <3>1, <3>2
    <2>7. h[s[k]] < h[q[k - 1]] <=> r[q[k - 1]] < r[s[k]]
      <3>1. h[s[k]] = -r[s[k]] /\ h[q[k - 1]] = -r[q[k - 1]]
        BY <2>2, <2>3 DEF Opposite
      <3>2. r[s[k]] \in Int /\ r[q[k - 1]] \in Int
        BY <2>2, <2>3 DEF Ranked
      <3>. QED  BY <3>1, <3>2
    <2>. QED  BY <2>5, <2>6, <2>7 DEF LargestStep
  <1>. QED  BY <1>1, <1>8, <1>9 DEF Extremes

\* a set of numbers from 1 on without a gap
LEMMA NoGap ==
  ASSUME NEW m \in Nat, NEW A \in SUBSET (1..m),
         \A i \in A : \A j \in 1..i : j \in A
  PROVE  Cardinality(A) \in 0..m /\ A = 1..Cardinality(A)
  <1>1. PICK T : T = {i \in Nat \ {0} : i \notin A}
    OBVIOUS
  <1>2. m + 1 \in T /\ T \subseteq Nat
    BY <1>1
  <1>3. PICK c \in T : \A i \in T : c <= i
    BY <1>2, LeastOne
  <1>4. c \in 1..(m + 1) /\ c - 1 \in 0..m
    BY <1>1, <1>2, <1>3
  <1>5. \A i \in 1..(c - 1) : i \in A
    <2>1. SUFFICES ASSUME NEW i \in 1..(c - 1) PROVE i \in A
      OBVIOUS
    <2>2. i \in Nat \ {0} /\ ~(c <= i)
      BY <1>4
    <2>. QED  BY <2>2, <1>1, <1>3
  <1>6. \A i \in A : i \in 1..(c - 1)
    <2>1. SUFFICES ASSUME NEW i \in A, i \notin 1..(c - 1) PROVE FALSE
      OBVIOUS
    <2>2. c \in 1..i
      BY <2>1, <1>4
    <2>. QED  BY <2>1, <2>2, <1>1, <1>3
  <1>7. A = 1..(c - 1)
    BY <1>5, <1>6
  <1>8. Cardinality(1..(c - 1)) = c - 1
    <2>1. 1 \in Int /\ c - 1 \in Int
      BY <1>4
    <2>2. Cardinality(1..(c - 1)) = IF 1 > c - 1 THEN 0 ELSE (c - 1) - 1 + 1
      BY <2>1, FS_Interval
    <2>. QED  BY <2>2, <1>4
  <1>. QED  BY <1>4, <1>7, <1>8

InOrder(r, d) == \A i, j \in DOMAIN d : i < j => r[d[i]] <= r[d[j]]

Splices(d, v, c, e) == e = SubSeq(d, 1, c) \o <<v>> \o SubSeq(d, c + 1, Len(d))

InsertedAt(r, d, v, c) ==
  /\ \A i \in 1..Len(d) : r[d[i]] <= r[v] <=> i <= c
  /\ Splices(d, v, c, SortedStep(d, v))

\* A step of the sort puts an element behind all that are not greater.
LEMMA InsertedInOrder ==
  ASSUME NEW K, NEW r, Ranked(K, r), NEW d \in Seq(K), InOrder(r, d), NEW v \in K
  PROVE  \E c \in 0..Len(d) : InsertedAt(r, d, v, c)
  <1>1. PICK m \in Nat : m = Len(d)
    OBVIOUS
  <1>2. DOMAIN d = 1..m /\ r[v] \in Int /\ (\A i \in 1..m : d[i] \in K /\ r[d[i]] \in Int)
    BY <1>1 DEF Ranked
  <1>3. PICK A : A = {i \in DOMAIN d : ~Less(v, d[i])}
    OBVIOUS
  <1>4. A \in SUBSET (1..m) /\ \A i \in 1..m : i \in A <=> r[d[i]] <= r[v]
    <2>1. \A i \in 1..m : Less(v, d[i]) <=> r[v] < r[d[i]]
      BY <1>2 DEF Ranked
    <2>. QED  BY <2>1, <1>2, <1>3
  <1>5. \A i \in A : \A j \in 1..i : j \in A
    <2>1. SUFFICES ASSUME NEW i \in A, NEW j \in 1..i PROVE j \in A
      OBVIOUS
    <2>2. i \in 1..m /\ j \in 1..m /\ (j = i \/ j < i)
      BY <1>4
    <2>3. j < i => r[d[j]] <= r[d[i]]
      BY <2>2, <1>2 DEF InOrder
    <2>. QED  BY <2>2, <2>3, <1>2, <1>4
  <1>6. PICK c : c = Cardinality(A)
    OBVIOUS
  <1>7. c \in 0..m /\ A = 1..c
    BY <1>4, <1>5, <1>6, NoGap
  <1>8. \A i \in 1..m : r[d[i]] <= r[v] <=> i <= c
    BY <1>4, <1>7
  <1>9. SortedStep(d, v) = SubSeq(d, 1, c) \o <<v>> \o SubSeq(d, c + 1, Len(d))
    BY <1>3, <1>6 DEF SortedStep
  <1>. QED  BY <1>1, <1>7, <1>8, <1>9 DEF InsertedAt, Splices

SplicedAt(d, v, c, e) ==
  /\ \A i \in 1..c : e[i] = d[i]
  /\ e[c + 1] = v
  /\ \A i \in (c + 2)..(Len(d) + 1) : e[i] = d[i - 1]

Joins(e, f, b) ==
  /\ Len(e) = Len(f) + Len(b)
  /\ \A i \in 1..Len(f) : e[i] = f[i]
  /\ \A i \in 1..Len(b) : e[Len(f) + i] = b[i]

\* What two sequences are, one behind the other.
LEMMA Joined ==
  ASSUME NEW K, NEW f \in Seq(K), NEW b \in Seq(K)
  PROVE  f \o b \in Seq(K) /\ Joins(f \o b, f, b)
  BY DEF Joins

LEMMA Spliced ==
  ASSUME NEW K, NEW d \in Seq(K), NEW v \in K, NEW c \in 0..Len(d), NEW e,
         Splices(d, v, c, e)
  PROVE  e \in Seq(K) /\ Len(e) = Len(d) + 1 /\ SplicedAt(d, v, c, e)
  <1>1. PICK a : a = SubSeq(d, 1, c)
    OBVIOUS
  <1>2. a \in Seq(K) /\ Len(a) = c /\ \A i \in 1..c : a[i] = d[i]
    BY <1>1
  <1>3. PICK b : b = SubSeq(d, c + 1, Len(d))
    OBVIOUS
  <1>4. Len(d) \in Nat /\ b \in Seq(K) /\ Len(b) = Len(d) - c /\ \A i \in 1..(Len(d) - c) : b[i] = d[i + c]
    BY <1>3
  <1>5. PICK f : f = a \o <<v>>
    OBVIOUS
  <1>6. f \in Seq(K) /\ Len(f) = c + 1 /\ f[c + 1] = v /\ \A i \in 1..c : f[i] = d[i]
    <2>1. PICK o \in Seq(K) : o = <<v>> /\ Len(o) = 1 /\ o[1] = v
      <3>1. <<v>> \in Seq(K) /\ Len(<<v>>) = 1 /\ <<v>>[1] = v
        OBVIOUS
      <3>. QED  BY <3>1, Zenon
    <2>2. f \in Seq(K) /\ Joins(f, a, o)
      BY <2>1, <1>2, <1>5, Joined
    <2>3. 1 \in 1..Len(o)
      BY <2>1
    <2>. QED  BY <2>1, <2>2, <2>3, <1>2 DEF Joins
  <1>7. e = f \o b
    BY <1>1, <1>3, <1>5 DEF Splices
  <1>8. e \in Seq(K) /\ Len(e) = Len(d) + 1
    <2>1. e \in Seq(K) /\ Len(e) = Len(f) + Len(b)
      BY <1>4, <1>6, <1>7, Joined DEF Joins
    <2>2. (c + 1) + (Len(d) - c) = Len(d) + 1
      BY <1>4
    <2>. QED  BY <2>1, <2>2, <1>4, <1>6
  <1>9. (\A i \in 1..(c + 1) : e[i] = f[i]) /\ \A i \in 1..Len(b) : e[c + 1 + i] = b[i]
    <2>1. (\A i \in 1..Len(f) : e[i] = f[i]) /\ \A i \in 1..Len(b) : e[Len(f) + i] = b[i]
      BY <1>4, <1>6, <1>7, Joined DEF Joins
    <2>. QED  BY <2>1, <1>6
  <1>10. ASSUME NEW i \in (c + 2)..(Len(d) + 1) PROVE e[i] = d[i - 1]
    <2>1. PICK j \in 1..Len(b) : i = c + 1 + j
      <3>1. i - (c + 1) \in 1..Len(b) /\ i = c + 1 + (i - (c + 1))
        BY <1>4
      <3>. QED  BY <3>1
    <2>2. j + c = i - 1
      BY <2>1, <1>4
    <2>. QED  BY <2>1, <2>2, <1>4, <1>9
  <1>11. \A i \in 1..c : e[i] = d[i]
    <2>1. \A i \in 1..c : i \in 1..(c + 1)
      OBVIOUS
    <2>. QED  BY <2>1, <1>6, <1>9
  <1>12. e[c + 1] = v
    <2>1. c + 1 \in 1..(c + 1)
      OBVIOUS
    <2>. QED  BY <2>1, <1>6, <1>9
  <1>. QED  BY <1>8, <1>10, <1>11, <1>12 DEF SplicedAt

\* the first k sorted: in order, with the smallest and one like the largest of them
\* at the ends
SortedUpTo(r, d, k, low, high) ==
  /\ Len(d) = k /\ InOrder(r, d)
  /\ k # 0 => d[1] = low /\ r[d[k]] = r[high]

\* the smallest and the largest when v comes behind the first k
Bounds(r, k, v, low, high, low2, high2) ==
  /\ low2 = IF k = 0 \/ r[v] < r[low] THEN v ELSE low
  /\ high2 = IF k = 0 \/ r[high] < r[v] THEN v ELSE high

\* A step of the sort keeps the smallest in front and one like the largest last.
LEMMA SortsOneMore ==
  ASSUME NEW K, NEW r, Ranked(K, r), NEW k \in Nat, NEW d \in Seq(K), NEW v \in K,
         NEW low \in K, NEW high \in K, SortedUpTo(r, d, k, low, high),
         NEW low2, NEW high2, Bounds(r, k, v, low, high, low2, high2)
  PROVE  SortedUpTo(r, SortedStep(d, v), k + 1, low2, high2)
  <1>1. DOMAIN d = 1..k /\ r[v] \in Int /\ r[low] \in Int /\ r[high] \in Int
        /\ (\A i \in 1..k : d[i] \in K /\ r[d[i]] \in Int) /\ Len(d) = k /\ InOrder(r, d)
    BY DEF SortedUpTo, Ranked
  <1>2. PICK e : e = SortedStep(d, v)
    OBVIOUS
  <1>3. PICK c \in 0..k :
          /\ \A i \in 1..k : r[d[i]] <= r[v] <=> i <= c
          /\ Splices(d, v, c, e)
    <2>1. \E c \in 0..Len(d) : InsertedAt(r, d, v, c)
      BY <1>1, InsertedInOrder
    <2>. QED  BY <2>1, <1>1, <1>2 DEF InsertedAt
  <1>4. /\ e \in Seq(K) /\ Len(e) = k + 1
        /\ \A i \in 1..c : e[i] = d[i]
        /\ e[c + 1] = v
        /\ \A i \in (c + 2)..(k + 1) : e[i] = d[i - 1]
    <2>1. c \in 0..Len(d)
      BY <1>1
    <2>2. e \in Seq(K) /\ Len(e) = Len(d) + 1 /\ SplicedAt(d, v, c, e)
      BY <2>1, <1>3, Spliced
    <2>. QED  BY <2>2, <1>1 DEF SplicedAt
  <1>5. DOMAIN e = 1..(k + 1)
    BY <1>4
  <1>6. ASSUME NEW i \in 1..(k + 1), NEW j \in 1..(k + 1), i < j PROVE r[e[i]] <= r[e[j]]
    <2>1. CASE j <= c
      <3>1. i \in 1..c /\ j \in 1..c /\ i \in 1..k /\ j \in 1..k
        BY <2>1, <1>6
      <3>. QED  BY <3>1, <1>1, <1>4, <1>6 DEF InOrder
    <2>2. CASE j = c + 1
      <3>1. i \in 1..c /\ i \in 1..k /\ i <= c
        BY <2>2, <1>6
      <3>2. r[d[i]] <= r[v]
        BY <3>1, <1>3
      <3>3. e[i] = d[i] /\ e[j] = v
        BY <3>1, <2>2, <1>4
      <3>. QED  BY <3>2, <3>3
    <2>3. CASE c + 1 < j
      <3>1. j \in (c + 2)..(k + 1) /\ j - 1 \in 1..k /\ ~(j - 1 <= c)
        BY <2>3
      <3>2. e[j] = d[j - 1] /\ r[v] < r[d[j - 1]]
        <4>1. e[j] = d[j - 1]
          BY <3>1, <1>4
        <4>2. r[d[j - 1]] \in Int /\ ~(r[d[j - 1]] <= r[v])
          BY <3>1, <1>1, <1>3
        <4>. QED  BY <4>1, <4>2, <1>1
      <3>3. CASE i <= c
        <4>1. i \in 1..c /\ i \in 1..k
          BY <3>3
        <4>2. e[i] = d[i] /\ r[d[i]] <= r[v]
          BY <4>1, <3>3, <1>3, <1>4
        <4>. QED  BY <4>1, <4>2, <3>1, <3>2, <1>1
      <3>4. CASE i = c + 1
        BY <3>4, <3>1, <3>2, <1>1, <1>4
      <3>5. CASE c + 1 < i
        <4>1. i \in (c + 2)..(k + 1) /\ i - 1 \in 1..k /\ i - 1 < j - 1
          BY <3>5, <1>6
        <4>2. e[i] = d[i - 1] /\ e[j] = d[j - 1]
          BY <4>1, <3>2, <1>4
        <4>3. i - 1 \in DOMAIN d /\ j - 1 \in DOMAIN d
          BY <4>1, <3>1, <1>1
        <4>4. r[d[i - 1]] <= r[d[j - 1]]
          BY <4>1, <4>3, <1>1 DEF InOrder
        <4>. QED  BY <4>2, <4>4
      <3>. QED  BY <3>3, <3>4, <3>5
    <2>. QED  BY <2>1, <2>2, <2>3
  <1>7. e[1] = low2
    <2>1. CASE k = 0
      BY <2>1, <1>4 DEF Bounds
    <2>2. CASE k # 0
      <3>1. d[1] = low /\ 1 \in 1..k
        BY <2>2 DEF SortedUpTo
      <3>2. c = 0 <=> r[v] < r[low]
        BY <3>1, <1>1, <1>3
      <3>3. c # 0 => e[1] = low
        BY <3>1, <1>4
      <3>4. c = 0 => e[1] = v
        BY <1>4
      <3>. QED  BY <3>2, <3>3, <3>4, <2>2 DEF Bounds
    <2>. QED  BY <2>1, <2>2
  <1>8. r[e[k + 1]] = r[high2]
    <2>1. CASE k = 0
      BY <2>1, <1>4 DEF Bounds
    <2>2. CASE k # 0
      <3>1. r[d[k]] = r[high] /\ k \in 1..k /\ (k + 1) - 1 = k
        BY <2>2 DEF SortedUpTo
      <3>2. c = k <=> r[high] <= r[v]
        BY <3>1, <1>1, <1>3
      <3>3. c # k => e[k + 1] = d[k]
        <4>1. c # k => k + 1 \in (c + 2)..(k + 1)
          OBVIOUS
        <4>. QED  BY <4>1, <3>1, <1>4
      <3>4. c = k => e[k + 1] = v
        BY <1>4
      <3>. QED  BY <3>1, <3>2, <3>3, <3>4, <2>2, <1>1 DEF Bounds
    <2>. QED  BY <2>1, <2>2
  <1>. QED  BY <1>2, <1>4, <1>5, <1>6, <1>7, <1>8 DEF SortedUpTo, InOrder

LEMMA SortedHasExtremes ==
  ASSUME NEW K, NEW r, Ranked(K, r), NEW s \in Seq(K), s # <<>>
  PROVE  Smallest(s) = Sorted(s)[1] /\ Same(Largest(s), Last(Sorted(s)))
  <1>1. PICK n \in Nat : n = Len(s)
    OBVIOUS
  <1>2. n # 0 /\ \A k \in 1..n : s[k] \in K
    BY <1>1
  <1>3. PICK low \in [1..n -> K] : Extremes(s, r, low) /\ low[n] = Smallest(s)
    BY <1>1, SmallestIs
  <1>4. PICK h : Opposite(K, r, h)
    BY DEF Opposite
  <1>5. PICK high \in [1..n -> K] : Extremes(s, h, high) /\ high[n] = Largest(s)
    BY <1>1, <1>4, LargestIs
  <1>6. SortedRuns(K, s)
    BY SortedSteps
  <1>7. PICK d \in [0..n -> Seq(K)] :
          /\ d[0] = <<>> /\ d[n] = Sorted(s)
          /\ \A k \in 1..n : d[k] = SortedStep(d[k - 1], s[k])
    BY <1>1, <1>6 DEF SortedRuns
  <1>8. PICK S : S = {k \in 0..n : k # 0 => SortedUpTo(r, d[k], k, low[k], high[k])}
    OBVIOUS
  <1>9. 0 \in S
    BY <1>8
  <1>10. ASSUME NEW k \in 1..n, k - 1 \in S PROVE k \in S
    <2>1. k \in 0..n /\ k - 1 \in 0..n /\ k - 1 \in Nat /\ (k - 1) + 1 = k /\ k # 0
      OBVIOUS
    <2>2. d[k - 1] \in Seq(K) /\ s[k] \in K
      BY <2>1, <1>2, <1>7
    <2>3. CASE k = 1
      <3>1. SortedUpTo(r, d[0], 0, s[1], s[1])
        BY <1>7 DEF SortedUpTo, InOrder
      <3>2. SortedUpTo(r, SortedStep(d[0], s[1]), 0 + 1, s[1], s[1])
        <4>1. PICK v \in K, e \in Seq(K), l \in Nat : v = s[1] /\ e = d[0] /\ l = 0
          BY <2>2, <2>3
        <4>2. Bounds(r, l, v, v, v, v, v) /\ SortedUpTo(r, e, l, v, v)
          BY <3>1, <4>1 DEF Bounds
        <4>3. SortedUpTo(r, SortedStep(e, v), l + 1, v, v)
          BY <4>2, SortsOneMore
        <4>. QED  BY <4>1, <4>3
      <3>3. d[1] = SortedStep(d[0], s[1]) /\ low[1] = s[1] /\ high[1] = s[1]
        BY <2>3, <1>3, <1>5, <1>7 DEF Extremes
      <3>. QED  BY <3>2, <3>3, <2>1, <2>3, <1>8
    <2>4. CASE k # 1
      <3>1. k \in 2..n /\ k - 1 # 0 /\ k - 1 \in 1..n
        BY <2>4
      <3>2. SortedUpTo(r, d[k - 1], k - 1, low[k - 1], high[k - 1])
        BY <3>1, <1>8, <1>10
      <3>3. low[k - 1] \in K /\ high[k - 1] \in K
        BY <3>1, <1>3, <1>5
      <3>4. low[k] = IF k - 1 = 0 \/ r[s[k]] < r[low[k - 1]] THEN s[k] ELSE low[k - 1]
        BY <3>1, <1>1, <1>3 DEF Extremes
      <3>5. h[s[k]] < h[high[k - 1]] <=> r[high[k - 1]] < r[s[k]]
        <4>1. h[s[k]] = -r[s[k]] /\ h[high[k - 1]] = -r[high[k - 1]]
          BY <3>3, <2>2, <1>4 DEF Opposite
        <4>2. r[s[k]] \in Int /\ r[high[k - 1]] \in Int
          BY <3>3, <2>2 DEF Ranked
        <4>. QED  BY <4>1, <4>2
      <3>6. high[k] = IF k - 1 = 0 \/ r[high[k - 1]] < r[s[k]] THEN s[k] ELSE high[k - 1]
        BY <3>1, <3>5, <1>1, <1>5 DEF Extremes
      <3>7. SortedUpTo(r, SortedStep(d[k - 1], s[k]), (k - 1) + 1, low[k], high[k])
        <4>1. PICK l \in Nat : l = k - 1
          BY <2>1
        <4>2. SortedUpTo(r, d[l], l, low[l], high[l])
          BY <4>1, <3>2
        <4>3. d[l] \in Seq(K) /\ low[l] \in K /\ high[l] \in K
          BY <4>1, <3>3, <2>2
        <4>4. low[k] = IF l = 0 \/ r[s[k]] < r[low[l]] THEN s[k] ELSE low[l]
          BY <4>1, <3>4
        <4>5. high[k] = IF l = 0 \/ r[high[l]] < r[s[k]] THEN s[k] ELSE high[l]
          BY <4>1, <3>6
        <4>6. Bounds(r, l, s[k], low[l], high[l], low[k], high[k])
          BY <4>4, <4>5 DEF Bounds
        <4>7. SortedUpTo(r, SortedStep(d[l], s[k]), l + 1, low[k], high[k])
          BY <4>2, <4>3, <4>6, <2>2, SortsOneMore
        <4>. QED  BY <4>1, <4>7
      <3>. QED  BY <3>7, <2>1, <1>7, <1>8
    <2>. QED  BY <2>3, <2>4
  <1>11. \A k \in 0..n : k \in S
    BY <1>9, <1>10, Steadily
  <1>12. SortedUpTo(r, d[n], n, low[n], high[n])
    BY <1>2, <1>8, <1>11
  <1>13. d[n] \in Seq(K) /\ Len(d[n]) = n /\ d[n][1] = low[n] /\ r[d[n][n]] = r[high[n]]
    BY <1>2, <1>7, <1>12 DEF SortedUpTo
  <1>14. Last(d[n]) = d[n][n] /\ d[n][n] \in K /\ high[n] \in K
    BY <1>2, <1>5, <1>13 DEF Last
  <1>15. Same(high[n], d[n][n])
    BY <1>13, <1>14 DEF Ranked
  <1>. QED  BY <1>3, <1>5, <1>7, <1>13, <1>14, <1>15

LEMMA RankedExtremesFound ==
  ASSUME NEW K, NEW r, Ranked(K, r), NEW s \in Seq(K), s # <<>>
  PROVE  ExtremesFound(s)
  <1>1. PICK low \in [1..Len(s) -> K] : Extremes(s, r, low) /\ low[Len(s)] = Smallest(s)
    BY SmallestIs
  <1>2. PICK h : Opposite(K, r, h)
    BY DEF Opposite
  <1>3. PICK high \in [1..Len(s) -> K] : Extremes(s, h, high) /\ high[Len(s)] = Largest(s)
    BY <1>2, LargestIs
  <1>4. r \in [K -> Int] /\ h \in [K -> Int]
        /\ (\A v, w \in K : Same(v, w) <=> r[v] = r[w])
        /\ (\A v, w \in K : Same(v, w) <=> h[v] = h[w])
    BY <1>2 DEF Ranked, Opposite
  <1>5. FirstLeast(s, r, Len(s), Smallest(s))
    <2>1. r \in [K -> Int] /\ Extremes(s, r, low)
      BY <1>1, <1>4
    <2>2. FirstLeast(s, r, Len(s), low[Len(s)])
      BY <2>1, ExtremesAreFirst
    <2>. QED  BY <1>1, <2>2, Zenon
  <1>6. FirstLeast(s, h, Len(s), Largest(s))
    <2>1. h \in [K -> Int] /\ Extremes(s, h, high)
      BY <1>3, <1>4
    <2>2. FirstLeast(s, h, Len(s), high[Len(s)])
      BY <2>1, ExtremesAreFirst
    <2>. QED  BY <1>3, <2>2, Zenon
  <1>7. FoundFirst(s, Smallest(s)) /\ FoundFirst(s, Largest(s))
    <2>1. FoundFirst(s, Smallest(s))
      BY <1>4, <1>5, ExtremesFoundFirst, Zenon
    <2>2. FoundFirst(s, Largest(s))
      BY <1>4, <1>6, ExtremesFoundFirst, Zenon
    <2>. QED  BY <2>1, <2>2
  <1>. QED  BY <1>7, SortedHasExtremes DEF ExtremesFound

\* So a search for an extreme finds it, and a sort puts it first or last.
LEMMA ExtremesAreFound ==
  ASSUME NEW s \in Seq(StackValues), s # <<>>, Sortable(s)
  PROVE  ExtremesFound(s)
  <1>1. PICK n \in Nat : n = Len(s)
    OBVIOUS
  <1>2. DOMAIN s = 1..n /\ \A i \in 1..n : s[i] \in StackValues
    BY <1>1
  <1>3. CASE \A i \in DOMAIN s : IsNumeric(s[i])
    <2>1. PICK K : K = {v \in StackValues : IsNumeric(v)}
      OBVIOUS
    <2>2. PICK r : Ranked(K, r)
      BY <2>1, NumbersRanked
    <2>3. \A i \in 1..n : s[i] \in K
      BY <2>1, <1>2, <1>3
    <2>4. s \in Seq(K)
      BY <2>3, <1>1
    <2>. QED  BY <2>2, <2>4, RankedExtremesFound
  <1>4. CASE \A i \in DOMAIN s : IsStr(s[i])
    <2>1. PICK K : K = {v \in StackValues : IsStr(v)}
      OBVIOUS
    <2>2. PICK r : Ranked(K, r)
      BY <2>1, StringsRanked
    <2>3. \A i \in 1..n : s[i] \in K
      BY <2>1, <1>2, <1>4
    <2>4. s \in Seq(K)
      BY <2>3, <1>1
    <2>. QED  BY <2>2, <2>4, RankedExtremesFound
  <1>. QED  BY <1>3, <1>4 DEF Sortable

-----------------------------------------------------------------------------
(* Types *)

HeapOK(h) == DOMAIN h = Cells /\ \A c \in Cells : WellFormed(h[c])

\* What Becomes makes of typed cells and variables is typed.
LEMMA BecomesTyped ==
  ASSUME NEW h, NEW e \in [Variables -> StackValues], HeapOK(h), Becomes(h, e)
  PROVE  TypeOK'
  <1>1. PICK live : heap' = [c \in Cells |-> IF c \in live THEN h[c] ELSE Free] /\ env' = e
    BY Zenon DEF Becomes
  <1>2. WellFormed(Free)
    BY DEF WellFormed, Free, Cell
  <1>3. \A c \in Cells : WellFormed(heap'[c])
    BY <1>1, <1>2 DEF HeapOK
  <1>4. DOMAIN heap' = Cells
    BY <1>1
  <1>. QED  BY <1>1, <1>3, <1>4 DEF TypeOK

LEMMA GetsTyped ==
  ASSUME TypeOK, NEW x \in Variables, NEW v \in StackValues, Gets(x, v)
  PROVE  TypeOK'
  <1>1. [env EXCEPT ![x] = v] \in [Variables -> StackValues] /\ HeapOK(heap)
    BY DEF TypeOK, HeapOK
  <1>. QED  BY <1>1, BecomesTyped DEF Gets

LEMMA HandleIs ==
  ASSUME TypeOK, NEW y \in Variables, IsCell(env[y])
  PROVE  env[y][2] \in Cells
  BY DEF TypeOK, StackValues, IsCell, NullV

LEMMA ListItems ==
  ASSUME TypeOK, NEW y \in Variables, Of(heap, env[y], "list") \/ Of(heap, env[y], "tuple")
  PROVE  env[y][2] \in Cells /\ Items(env[y]) \in Seq(StackValues)
  <1>1. env[y][2] \in Cells
    BY HandleIs DEF Of
  <1>. QED  BY <1>1 DEF TypeOK, WellFormed, Of, Items

LEMMA EntriesTyped ==
  ASSUME TypeOK, NEW y \in Variables, Of(heap, env[y], "map") \/ Of(heap, env[y], "instance")
  PROVE  /\ env[y][2] \in Cells /\ Items(env[y]) \in [DOMAIN Items(env[y]) -> StackValues]
         /\ Of(heap, env[y], "map") => DOMAIN Items(env[y]) \subseteq Range(Order)
  <1>1. env[y][2] \in Cells
    BY HandleIs DEF Of
  <1>. QED  BY <1>1 DEF TypeOK, WellFormed, Of, Items

\* the data of one cell replaced
LEMMA DataReplaced ==
  ASSUME TypeOK, NEW c \in Cells, NEW data, WellFormed(Cell(heap[c].kind, data))
  PROVE  HeapOK([heap EXCEPT ![c].data = data])
  <1>1. PICK h : h = [heap EXCEPT ![c].data = data]
    OBVIOUS
  <1>2. heap[c] = Cell(heap[c].kind, heap[c].data) /\ DOMAIN heap = Cells
    BY DEF TypeOK, WellFormed
  <1>3. h[c] = Cell(heap[c].kind, data) /\ DOMAIN h = Cells
    BY <1>1, <1>2 DEF Cell
  <1>4. \A d \in Cells : d # c => h[d] = heap[d]
    BY <1>1, <1>2
  <1>5. \A d \in Cells : WellFormed(h[d])
    BY <1>3, <1>4 DEF TypeOK
  <1>. QED  BY <1>1, <1>3, <1>5 DEF HeapOK

LEMMA ListReplaced ==
  ASSUME TypeOK, NEW x \in Variables, Of(heap, env[x], "list"), NEW s \in Seq(StackValues)
  PROVE  HeapOK([heap EXCEPT ![env[x][2]].data = s])
  <1>1. env[x][2] \in Cells /\ heap[env[x][2]].kind = "list"
    BY ListItems DEF Of
  <1>2. WellFormed(Cell(heap[env[x][2]].kind, s))
    BY <1>1 DEF WellFormed, Cell
  <1>. QED  BY <1>1, <1>2, DataReplaced

LEMMA EntriesReplaced ==
  ASSUME TypeOK, NEW x \in Variables, Of(heap, env[x], "map") \/ Of(heap, env[x], "instance"),
         NEW f, f \in [DOMAIN f -> StackValues], Of(heap, env[x], "map") => DOMAIN f \subseteq Range(Order)
  PROVE  HeapOK([heap EXCEPT ![env[x][2]].data = f])
  <1>1. /\ env[x][2] \in Cells /\ heap[env[x][2]].kind \in {"map", "instance"}
        /\ heap[env[x][2]].kind = "map" => DOMAIN f \subseteq Range(Order)
    BY EntriesTyped DEF Of
  <1>2. WellFormed(Cell(heap[env[x][2]].kind, f))
    BY <1>1 DEF WellFormed, Cell
  <1>. QED  BY <1>1, <1>2, DataReplaced

LEMMA HoldsList ==
  ASSUME TypeOK, NEW x \in Variables, Of(heap, env[x], "list"), NEW s \in Seq(StackValues),
         Holds(env[x][2], s)
  PROVE  TypeOK'
  <1>1. HeapOK([heap EXCEPT ![env[x][2]].data = s])
    BY ListReplaced
  <1>2. env \in [Variables -> StackValues]
    BY DEF TypeOK
  <1>. QED  BY <1>1, <1>2, BecomesTyped DEF Holds

LEMMA HoldsEntries ==
  ASSUME TypeOK, NEW x \in Variables, Of(heap, env[x], "map") \/ Of(heap, env[x], "instance"),
         NEW f, f \in [DOMAIN f -> StackValues], Of(heap, env[x], "map") => DOMAIN f \subseteq Range(Order),
         Holds(env[x][2], f)
  PROVE  TypeOK'
  <1>1. HeapOK([heap EXCEPT ![env[x][2]].data = f])
    BY EntriesReplaced
  <1>2. env \in [Variables -> StackValues]
    BY DEF TypeOK
  <1>. QED  BY <1>1, <1>2, BecomesTyped DEF Holds

LEMMA MakesTyped ==
  ASSUME TypeOK, NEW x \in Variables, NEW cell, WellFormed(cell), Makes(x, cell)
  PROVE  TypeOK'
  <1>1. \E d \in Cells : heap[d] = Free /\ \A b \in Cells : b < d => heap[b] # Free
    <2>1. PICK T : T = {c \in Cells : heap[c] = Free}
      OBVIOUS
    <2>2. T \subseteq Nat /\ T # {}
      BY <2>1, CollectionsAssumption DEF Makes
    <2>3. PICK d \in T : \A b \in T : d <= b
      BY <2>2, LeastOne
    <2>4. ASSUME NEW b \in Cells, b < d PROVE b \notin T
      <3>1. b \in T => d <= b /\ b \in Nat /\ d \in Nat
        BY <2>2, <2>3
      <3>. QED  BY <3>1, <2>4
    <2>. QED  BY <2>1, <2>3, <2>4
  <1>2. PICK c : c = CHOOSE d \in Cells : heap[d] = Free /\ \A b \in Cells : b < d => heap[b] # Free
    OBVIOUS
  <1>3. c \in Cells
    BY <1>1, <1>2
  <1>4. Becomes([heap EXCEPT ![c] = cell], [env EXCEPT ![x] = Handle(c)])
    BY <1>2, Zenon DEF Makes
  <1>5. HeapOK([heap EXCEPT ![c] = cell])
    BY DEF TypeOK, HeapOK
  <1>6. Handle(c) \in StackValues
    BY <1>3 DEF Handle, StackValues
  <1>7. [env EXCEPT ![x] = Handle(c)] \in [Variables -> StackValues]
    BY <1>6 DEF TypeOK
  <1>. QED  BY <1>4, <1>5, <1>7, BecomesTyped

LEMMA MakesSequence ==
  ASSUME TypeOK, NEW x \in Variables, NEW s \in Seq(StackValues), NEW kind \in {"list", "tuple"},
         Makes(x, Cell(kind, s))
  PROVE  TypeOK'
  <1>1. WellFormed(Cell(kind, s))
    BY DEF WellFormed, Cell
  <1>. QED  BY <1>1, MakesTyped

LEMMA MakesEntries ==
  ASSUME TypeOK, NEW x \in Variables, NEW f, f \in [DOMAIN f -> StackValues],
         NEW kind \in {"map", "instance"}, kind = "map" => DOMAIN f \subseteq Range(Order),
         Makes(x, Cell(kind, f))
  PROVE  TypeOK'
  <1>1. WellFormed(Cell(kind, f))
    BY DEF WellFormed, Cell
  <1>. QED  BY <1>1, MakesTyped

LEMMA ReverseTyped ==
  ASSUME NEW V, NEW s \in Seq(V)
  PROVE  Reverse(s) \in Seq(V)
  <1>1. PICK n \in Nat : n = Len(s)
    OBVIOUS
  <1>2. \A i \in 1..n : s[(n - i) + 1] \in V
    <2>1. \A i \in 1..n : (n - i) + 1 \in 1..n
      OBVIOUS
    <2>. QED  BY <2>1, <1>1
  <1>. QED  BY <1>1, <1>2 DEF Reverse

LEMMA Updated ==
  ASSUME NEW V, NEW s \in Seq(V), NEW i, NEW v \in V
  PROVE  [s EXCEPT ![i] = v] \in Seq(V)
  <1>1. PICK n \in Nat : n = Len(s)
    OBVIOUS
  <1>2. PICK t : t = [s EXCEPT ![i] = v]
    OBVIOUS
  <1>3. DOMAIN s = 1..n /\ s = [j \in 1..n |-> s[j]]
    BY <1>1
  <1>4. t = [j \in 1..n |-> IF j = i THEN v ELSE s[j]]
    BY <1>2, <1>3
  <1>5. \A j \in 1..n : t[j] \in V
    BY <1>1, <1>4
  <1>6. t \in [1..n -> V]
    BY <1>4, <1>5
  <1>7. t \in Seq(V)
    BY <1>6
  <1>. QED  BY <1>2, <1>7

LEMMA RemoveAtTyped ==
  ASSUME NEW V, NEW s \in Seq(V), NEW i \in 1..Len(s)
  PROVE  RemoveAt(s, i) \in Seq(V)
  BY DEF RemoveAt

LEMMA SortedTyped ==
  ASSUME NEW V, NEW s \in Seq(V)
  PROVE  Sorted(s) \in Seq(V)
  <1>1. SortedRuns(V, s)
    BY SortedSteps
  <1>2. Len(s) \in 0..Len(s)
    OBVIOUS
  <1>. QED  BY <1>1, <1>2 DEF SortedRuns

LEMMA ExtremesTyped ==
  ASSUME NEW V, NEW s \in Seq(V), s # <<>>
  PROVE  Smallest(s) \in V /\ Largest(s) \in V
  <1>1. PICK t : t = Tail(s)
    OBVIOUS
  <1>2. t \in Seq(V) /\ s[1] \in V /\ Len(t) \in 0..Len(t)
    BY <1>1
  <1>3. SmallestRuns(V, s[1], t) /\ LargestRuns(V, s[1], t)
    BY <1>2, SmallestSteps, LargestSteps
  <1>4. SmallestFrom(s[1], t) \in V
    BY <1>2, <1>3 DEF SmallestRuns
  <1>5. LargestFrom(s[1], t) \in V
    BY <1>2, <1>3 DEF LargestRuns
  <1>6. Smallest(s) = SmallestFrom(s[1], t)
    BY <1>1, Zenon DEF Smallest, SmallestFrom
  <1>7. Largest(s) = LargestFrom(s[1], t)
    BY <1>1, Zenon DEF Largest, LargestFrom
  <1>. QED  BY <1>4, <1>5, <1>6, <1>7

LEMMA OrderTyped == Order \in Seq(Range(Order))
  <1>1. PICK n \in Nat : n = Len(Order)
    BY CollectionsAssumption
  <1>2. DOMAIN Order = 1..n /\ Order = [i \in 1..n |-> Order[i]]
    BY <1>1, CollectionsAssumption
  <1>3. \A i \in 1..n : Order[i] \in Range(Order)
    BY <1>2 DEF Range
  <1>. QED  BY <1>2, <1>3

LEMMA KeysTyped ==
  ASSUME NEW f
  PROVE  [i \in DOMAIN KeysInOrder(f) |-> StrV(KeysInOrder(f)[i])] \in Seq(StackValues)
  <1>1. PICK V : V = Range(Order)
    OBVIOUS
  <1>2. Order \in Seq(V)
    BY <1>1, OrderTyped
  <1>3. KeysRuns(V, f, Order)
    BY <1>2, KeysSteps
  <1>4. KeysFrom(f, Order) \in Seq(V)
    <2>1. Len(Order) \in 0..Len(Order)
      BY <1>2
    <2>. QED  BY <1>3, <2>1 DEF KeysRuns
  <1>5. KeysInOrder(f) = KeysFrom(f, Order)
    BY Zenon DEF KeysInOrder, KeysFrom
  <1>6. PICK keys \in Seq(V) : keys = KeysInOrder(f)
    BY <1>4, <1>5
  <1>7. \A i \in DOMAIN keys : StrV(keys[i]) \in StackValues
    <2>1. \A i \in DOMAIN keys : keys[i] \in V
      OBVIOUS
    <2>. QED  BY <2>1, <1>1 DEF StrV, StackValues
  <1>8. [i \in DOMAIN keys |-> StrV(keys[i])] \in Seq(StackValues)
    <2>1. PICK n \in Nat : DOMAIN keys = 1..n
      OBVIOUS
    <2>. QED  BY <2>1, <1>7
  <1>. QED  BY <1>6, <1>8

LEMMA WithTyped ==
  ASSUME NEW f, f \in [DOMAIN f -> StackValues], NEW k, NEW v \in StackValues
  PROVE  /\ With(f, k, v) \in [DOMAIN With(f, k, v) -> StackValues]
         /\ DOMAIN With(f, k, v) = DOMAIN f \cup {k}
  BY DEF With

Table(f) == f \in [DOMAIN f -> StackValues] /\ DOMAIN f \subseteq Range(Order)

LEMMA WithTable ==
  ASSUME NEW f, Table(f), NEW k \in Range(Order), NEW v \in StackValues
  PROVE  Table(With(f, k, v))
  BY DEF Table, With

LEMMA InitTyped == Init => TypeOK
  <1>1. NullV \in StackValues /\ WellFormed(Free)
    BY DEF StackValues, WellFormed, Free, Cell
  <1>2. SUFFICES ASSUME Init PROVE TypeOK
    OBVIOUS
  <1>3. DOMAIN heap = Cells /\ (\A c \in Cells : heap[c] = Free) /\ env = [x \in Variables |-> NullV]
    BY <1>2 DEF Init
  <1>. QED  BY <1>1, <1>3 DEF TypeOK

LEMMA NextTyped == TypeOK /\ [Next]_vars => TypeOK'
  <1>. SUFFICES ASSUME TypeOK, [Next]_vars PROVE TypeOK'
    OBVIOUS
  <1>1. env \in [Variables -> StackValues] /\ (\A x \in Variables : env[x] \in StackValues)
    BY DEF TypeOK
  <1>2. Scalars \subseteq StackValues /\ NullV \in StackValues
    BY CollectionsAssumption DEF StackValues
  <1>3. ASSUME NEW x \in Variables, ListLiteral(x) PROVE TypeOK'
    <2>1. PICK s \in {<<>>} \cup {<<v>> : v \in Scalars} : MakesList(x, s)
      BY <1>3 DEF ListLiteral
    <2>2. s \in Seq(StackValues)
      <3>1. <<>> \in Seq(StackValues) /\ \A v \in StackValues : <<v>> \in Seq(StackValues)
        OBVIOUS
      <3>2. s = <<>> \/ \E v \in StackValues : s = <<v>>
        BY <2>1, <1>2
      <3>. QED  BY <3>1, <3>2, Zenon
    <2>. QED  BY <2>1, <2>2, MakesSequence DEF MakesList
  <1>4. ASSUME NEW x \in Variables, MapLiteral(x) PROVE TypeOK'
    <2>1. PICK f \in {<<>>} \cup {With(<<>>, KeyOf(k), v) : k \in Keys, v \in Scalars} : Makes(x, Cell("map", f))
      BY <1>4 DEF MapLiteral
    <2>2. Table(f)
      <3>1. CASE f = <<>>
        BY <3>1 DEF Table
      <3>2. ASSUME NEW k \in Keys, NEW v \in Scalars, f = With(<<>>, KeyOf(k), v)
            PROVE  Table(f)
        <4>1. v \in StackValues /\ KeyOf(k) \in Range(Order)
          BY <1>2, CollectionsAssumption
        <4>2. PICK e : e = <<>>
          OBVIOUS
        <4>3. Table(e)
          BY <4>2 DEF Table
        <4>4. Table(With(e, KeyOf(k), v))
          BY <4>1, <4>3, WithTable
        <4>. QED  BY <3>2, <4>2, <4>4
      <3>. QED  BY <2>1, <3>1, <3>2
    <2>. QED  BY <2>1, <2>2, MakesEntries DEF Table
  <1>5. ASSUME NEW x \in Variables, New(x) PROVE TypeOK'
    <2>1. <<>> \in [DOMAIN <<>> -> StackValues]
      OBVIOUS
    <2>. QED  BY <2>1, <1>5, MakesEntries DEF New
  <1>6. ASSUME NEW x \in Variables, NEW y \in Variables, Assign(x, y) PROVE TypeOK'
    BY <1>1, <1>6, GetsTyped DEF Assign
  <1>7. ASSUME NEW x \in Variables, NEW y \in Variables, LoadIndex(x, y) PROVE TypeOK'
    <2>1. Items(env[y]) \in Seq(StackValues)
      BY <1>7, ListItems DEF LoadIndex
    <2>2. PICK i \in Indices : i < Len(Items(env[y])) /\ Gets(x, Items(env[y])[i + 1])
      BY <1>7 DEF LoadIndex
    <2>3. Items(env[y])[i + 1] \in StackValues
      BY <2>1, <2>2 DEF Indices
    <2>. QED  BY <2>2, <2>3, GetsTyped
  <1>8. ASSUME NEW x \in Variables, NEW v \in StackValues, StoreIndex(x, v) PROVE TypeOK'
    <2>1. Of(heap, env[x], "list") /\ Items(env[x]) \in Seq(StackValues)
      BY <1>8, ListItems DEF StoreIndex
    <2>2. PICK i \in Indices : Holds(env[x][2], [Items(env[x]) EXCEPT ![i + 1] = v])
      BY <1>8 DEF StoreIndex
    <2>3. [Items(env[x]) EXCEPT ![i + 1] = v] \in Seq(StackValues)
      BY <2>1, Updated
    <2>. QED  BY <2>1, <2>2, <2>3, HoldsList
  <1>9. ASSUME NEW x \in Variables, NEW v \in StackValues, ListAppend(x, v) PROVE TypeOK'
    <2>1. Of(heap, env[x], "list") /\ Items(env[x]) \in Seq(StackValues)
      BY <1>9, ListItems DEF ListAppend
    <2>2. Append(Items(env[x]), v) \in Seq(StackValues)
      BY <2>1
    <2>. QED  BY <2>1, <2>2, <1>9, HoldsList DEF ListAppend
  <1>10. ASSUME NEW x \in Variables, NEW y \in Variables, ListRemoveAt(x, y) PROVE TypeOK'
    <2>1. Of(heap, env[y], "list") /\ Items(env[y]) \in Seq(StackValues) /\ env[y][2] \in Cells
      BY <1>10, ListItems DEF ListRemoveAt
    <2>2. PICK i \in Indices :
            /\ i < Len(Items(env[y]))
            /\ Becomes([heap EXCEPT ![env[y][2]].data = RemoveAt(@, i + 1)],
                       [env EXCEPT ![x] = Items(env[y])[i + 1]])
      BY <1>10 DEF ListRemoveAt
    <2>3. i + 1 \in 1..Len(Items(env[y])) /\ Items(env[y])[i + 1] \in StackValues
      BY <2>1, <2>2 DEF Indices
    <2>4. RemoveAt(Items(env[y]), i + 1) \in Seq(StackValues)
      BY <2>1, <2>3, RemoveAtTyped
    <2>5. HeapOK([heap EXCEPT ![env[y][2]].data = RemoveAt(Items(env[y]), i + 1)])
      BY <2>1, <2>4, ListReplaced
    <2>6. [heap EXCEPT ![env[y][2]].data = RemoveAt(@, i + 1)]
            = [heap EXCEPT ![env[y][2]].data = RemoveAt(Items(env[y]), i + 1)]
      BY Zenon DEF Items
    <2>7. [env EXCEPT ![x] = Items(env[y])[i + 1]] \in [Variables -> StackValues]
      BY <2>3, <1>1
    <2>. QED  BY <2>2, <2>5, <2>6, <2>7, BecomesTyped
  <1>11. ASSUME NEW x \in Variables, ListReverse(x) PROVE TypeOK'
    <2>1. Reverse(Items(env[x])) \in Seq(StackValues)
      BY <1>11, ListItems, ReverseTyped DEF ListReverse
    <2>. QED  BY <2>1, <1>11, HoldsList DEF ListReverse
  <1>12. ASSUME NEW x \in Variables, ListUnique(x) PROVE TypeOK'
    <2>1. Unique(Items(env[x])) \in Seq(StackValues)
      BY <1>12, ListItems, UniqueIs DEF ListUnique
    <2>. QED  BY <2>1, <1>12, HoldsList DEF ListUnique
  <1>13. ASSUME NEW x \in Variables, ListSort(x) PROVE TypeOK'
    <2>1. Sorted(Items(env[x])) \in Seq(StackValues)
      BY <1>13, ListItems, SortedTyped DEF ListSort
    <2>. QED  BY <2>1, <1>13, HoldsList DEF ListSort
  <1>14. ASSUME NEW x \in Variables, NEW y \in Variables, ListExtreme(x, y) PROVE TypeOK'
    <2>1. Smallest(Items(env[y])) \in StackValues /\ Largest(Items(env[y])) \in StackValues
      BY <1>14, ListItems, ExtremesTyped DEF ListExtreme
    <2>. QED  BY <2>1, <1>14, GetsTyped DEF ListExtreme
  <1>15. ASSUME NEW x \in Variables, NEW y \in Variables, ToTuple(x, y) PROVE TypeOK'
    <2>1. CASE Of(heap, env[y], "list") /\ Makes(x, Cell("tuple", Items(env[y])))
      <3>1. Items(env[y]) \in Seq(StackValues)
        BY <2>1, ListItems
      <3>. QED  BY <2>1, <3>1, MakesSequence
    <2>2. CASE Gets(x, env[y])
      BY <2>2, <1>1, GetsTyped
    <2>. QED  BY <2>1, <2>2, <1>15 DEF ToTuple
  <1>16. ASSUME NEW x \in Variables, NEW y \in Variables, ToList(x, y) PROVE TypeOK'
    <2>1. Items(env[y]) \in Seq(StackValues)
      BY <1>16, ListItems DEF ToList
    <2>. QED  BY <2>1, <1>16, MakesSequence DEF ToList, MakesList
  <1>17. ASSUME NEW x \in Variables, NEW y \in Variables, SetFromList(x, y) PROVE TypeOK'
    <2>1. Unique(Items(env[y])) \in Seq(StackValues)
      BY <1>17, ListItems, UniqueIs DEF SetFromList
    <2>. QED  BY <2>1, <1>17, MakesSequence DEF SetFromList, MakesList
  <1>18. ASSUME NEW x \in Variables, NEW y \in Variables, NEW z \in Variables, SetOperation(x, y, z)
         PROVE  TypeOK'
    <2>1. Items(env[y]) \in Seq(StackValues) /\ Items(env[z]) \in Seq(StackValues)
      BY <1>18, ListItems DEF SetOperation
    <2>2. Items(env[y]) \o Items(env[z]) \in Seq(StackValues)
      BY <2>1, Joined
    <2>3. Union(Items(env[y]), Items(env[z])) \in Seq(StackValues)
      BY <2>2, UniqueIs DEF Union
    <2>4. Intersection(Items(env[y]), Items(env[z])) \in Seq(StackValues)
      BY <2>1, IntersectionIs
    <2>. QED  BY <2>3, <2>4, <1>18, MakesSequence DEF SetOperation, MakesList
  <1>19. ASSUME NEW x \in Variables, NEW k \in Keys, NEW v \in StackValues, MapSet(x, k, v) PROVE TypeOK'
    <2>1. PICK f : f = With(Items(env[x]), KeyOf(k), v)
      OBVIOUS
    <2>2. f \in [DOMAIN f -> StackValues] /\ DOMAIN f = DOMAIN Items(env[x]) \cup {KeyOf(k)}
      BY <2>1, <1>19, EntriesTyped, WithTyped DEF MapSet
    <2>3. DOMAIN f \subseteq Range(Order)
      BY <2>2, <1>19, EntriesTyped, CollectionsAssumption DEF MapSet
    <2>. QED  BY <2>1, <2>2, <2>3, <1>19, HoldsEntries DEF MapSet
  <1>20. ASSUME NEW x \in Variables, NEW y \in Variables, NEW k, MapGet(x, y, k, NullV) PROVE TypeOK'
    <2>1. Items(env[y]) \in [DOMAIN Items(env[y]) -> StackValues]
      BY <1>20, EntriesTyped DEF MapGet
    <2>. QED  BY <2>1, <1>2, <1>20, GetsTyped DEF MapGet
  <1>21. ASSUME NEW x \in Variables, NEW y \in Variables, NEW k, MapRemove(x, y, k) PROVE TypeOK'
    <2>1. PICK f : f = Items(env[y])
      OBVIOUS
    <2>2. Of(heap, env[y], "map") /\ f \in [DOMAIN f -> StackValues] /\ DOMAIN f \subseteq Range(Order)
      BY <2>1, <1>21, EntriesTyped DEF MapRemove
    <2>3. CASE KeyOf(k) \notin DOMAIN f
      BY <2>1, <2>3, <1>2, <1>21, GetsTyped DEF MapRemove
    <2>4. CASE KeyOf(k) \in DOMAIN f
      <3>1. PICK g : g = [j \in DOMAIN f \ {KeyOf(k)} |-> f[j]]
        OBVIOUS
      <3>2. Becomes([heap EXCEPT ![env[y][2]].data = g], [env EXCEPT ![x] = f[KeyOf(k)]])
        BY <2>1, <2>4, <3>1, <1>21 DEF MapRemove
      <3>3. g \in [DOMAIN g -> StackValues] /\ DOMAIN g \subseteq Range(Order)
        BY <2>2, <3>1
      <3>4. HeapOK([heap EXCEPT ![env[y][2]].data = g])
        BY <2>2, <3>3, EntriesReplaced
      <3>5. [env EXCEPT ![x] = f[KeyOf(k)]] \in [Variables -> StackValues]
        BY <2>2, <2>4, <1>1
      <3>. QED  BY <3>2, <3>4, <3>5, BecomesTyped
    <2>. QED  BY <2>3, <2>4
  <1>22. ASSUME NEW x \in Variables, NEW y \in Variables, MapKeys(x, y) PROVE TypeOK'
    <2>1. PICK s \in Seq(StackValues) :
            s = [i \in DOMAIN KeysInOrder(Items(env[y])) |-> StrV(KeysInOrder(Items(env[y]))[i])]
      BY KeysTyped
    <2>2. Makes(x, Cell("list", s))
      BY <2>1, <1>22, Zenon DEF MapKeys, MakesList
    <2>. QED  BY <2>2, MakesSequence
  <1>23. ASSUME NEW x \in Variables, NEW f, NEW v \in StackValues, SetField(x, f, v) PROVE TypeOK'
    <2>1. PICK g : g = With(Items(env[x]), f, v)
      OBVIOUS
    <2>2. g \in [DOMAIN g -> StackValues]
      BY <2>1, <1>23, EntriesTyped, WithTyped DEF SetField
    <2>3. ~Of(heap, env[x], "map")
      BY <1>23 DEF SetField, Of
    <2>. QED  BY <2>1, <2>2, <2>3, <1>23, HoldsEntries DEF SetField
  <1>24. ASSUME NEW x \in Variables, NEW y \in Variables, NEW f, GetField(x, y, f) PROVE TypeOK'
    <2>1. Items(env[y]) \in [DOMAIN Items(env[y]) -> StackValues]
      BY <1>24, EntriesTyped DEF GetField
    <2>. QED  BY <2>1, <1>24, GetsTyped DEF GetField
  <1>25. CASE UNCHANGED vars
    BY <1>25 DEF vars, TypeOK
  <1>26. CASE Next
    <2>1. PICK x \in Variables, y \in Variables :
            \/ ListLiteral(x) \/ MapLiteral(x) \/ New(x)
            \/ Assign(x, y) \/ LoadIndex(x, y) \/ StoreIndex(x, env[y]) \/ ListAppend(x, env[y])
            \/ ListRemoveAt(x, y) \/ ListReverse(x) \/ ListUnique(x) \/ ListSort(x) \/ ListExtreme(x, y)
            \/ ToTuple(x, y) \/ ToList(x, y) \/ SetFromList(x, y) \/ MapKeys(x, y)
            \/ \E z \in Variables : SetOperation(x, y, z)
            \/ \E v \in Scalars : StoreIndex(x, v) \/ ListAppend(x, v)
            \/ \E k \in Keys : MapSet(x, k, env[y]) \/ MapGet(x, y, k, NullV) \/ MapRemove(x, y, k)
            \/ \E f \in Fields : SetField(x, f, env[y]) \/ GetField(x, y, f)
      BY <1>26, Zenon DEF Next
    <2>2. CASE \E z \in Variables : SetOperation(x, y, z)
      BY <2>2, <1>18
    <2>3. CASE \E v \in Scalars : StoreIndex(x, v) \/ ListAppend(x, v)
      BY <2>3, <1>2, <1>8, <1>9
    <2>4. CASE \E k \in Keys : MapSet(x, k, env[y]) \/ MapGet(x, y, k, NullV) \/ MapRemove(x, y, k)
      BY <2>4, <1>1, <1>19, <1>20, <1>21
    <2>5. CASE \E f \in Fields : SetField(x, f, env[y]) \/ GetField(x, y, f)
      BY <2>5, <1>1, <1>23, <1>24
    <2>. QED  BY <2>1, <2>2, <2>3, <2>4, <2>5, <1>1, <1>3, <1>4, <1>5, <1>6, <1>7, <1>8, <1>9, <1>10,
                 <1>11, <1>12, <1>13, <1>14, <1>15, <1>16, <1>17, <1>22
  <1>. QED  BY <1>25, <1>26

\* Every operation leaves each variable and each cell a value of its kind: handles lead to
\* cells, and the keys of maps are strings there are.
THEOREM Typing == Spec => []TypeOK
  <1>. QED  BY InitTyped, NextTyped, PTL DEF Spec

\* On typed lists the operations agree.
LEMMA TypedAgree == TypeOK => OneEquality
  <1>. SUFFICES ASSUME TypeOK PROVE OneEquality
    OBVIOUS
  <1>1. \A s \in Lists : s \in Seq(StackValues)
    BY DEF Lists, TypeOK, WellFormed
  <1>. QED  BY <1>1, SetsDoAgree, ExtremesAreFound DEF OneEquality

\* On any lists a program can make, of any length and any values, all operations use the one
\* equality (value.h 99-103): what is unique, common, found, smallest, largest and sorted agree.
THEOREM Equality == Spec => []OneEquality
  <1>. QED  BY Typing, TypedAgree, PTL

-----------------------------------------------------------------------------
(* The text of a value *)

Words == {Spelling(v) : v \in StackValues}
         \cup {"<instance>", "<cycle>", "end", "free", "list", "tuple", "map", "instance"}

Answers(A) == [text : Seq(Words), active : {A}]
Answering(wr, A) == wr[A] \in [StackValues -> Answers(A)]

\* A call for one more value adds its text and leaves active as it was.
LEMMA FurtherIs ==
  ASSUME NEW wr, NEW B, Answering(wr, B), NEW r \in Answers(B), NEW w \in StackValues
  PROVE  /\ Further(wr, r, w) \in Answers(B)
         /\ Further(wr, r, w) = [text |-> r.text \o wr[B][w].text, active |-> B]
  <1>1. PICK a : a = wr[B][w]
    OBVIOUS
  <1>2. a.text \in Seq(Words) /\ a.active = B
    <2>1. PICK f \in [StackValues -> Answers(B)] : f = wr[B]
      BY DEF Answering
    <2>2. f[w] \in Answers(B)
      OBVIOUS
    <2>. QED  BY <1>1, <2>1, <2>2 DEF Answers
  <1>3. r.text \in Seq(Words) /\ r.active = B
    BY DEF Answers
  <1>4. r.text \o a.text \in Seq(Words)
    BY <1>2, <1>3
  <1>5. Further(wr, r, w) = [text |-> r.text \o a.text, active |-> a.active]
    BY <1>1, <1>3, Zenon DEF Further
  <1>6. Further(wr, r, w) = [text |-> r.text \o a.text, active |-> B]
    BY <1>2, <1>5
  <1>7. [text |-> r.text \o a.text, active |-> B] \in Answers(B)
    BY <1>4 DEF Answers
  <1>. QED  BY <1>1, <1>6, <1>7, Zenon

InsideFrom(wr, b, s) == FoldLeft(LAMBDA r, w : Further(wr, r, w), b, s)
InsideStep(wr, r, v) == Further(wr, r, v)
InsideOf(wr, b, s, f) ==
  f = [x \in SUBSET (DOMAIN s) |->
         IF x = {} THEN b ELSE LET y == Max(x) IN InsideStep(wr, f[x \ {y}], s[y])]

InsideRuns(V, wr, B, b, s) ==
  \E p \in [0..Len(s) -> Answers(B)] :
    /\ p[0] = b /\ p[Len(s)] = InsideFrom(wr, b, s)
    /\ \A k \in 1..Len(s) : p[k] = InsideStep(wr, p[k - 1], s[k])

\* The same for the two folds of texts.
LEMMA InsideSteps ==
  ASSUME NEW V, NEW s \in Seq(V), V \subseteq StackValues, NEW wr, NEW B,
         NEW b \in Answers(B), Answering(wr, B)
  PROVE  InsideRuns(V, wr, B, b, s)
  <1>0. PICK R : R = Answers(B)
    OBVIOUS
  <1>1. PICK n \in Nat : n = Len(s)
    OBVIOUS
  <1>2. DOMAIN s = 1..n /\ \A k \in 1..n : s[k] \in V
    BY <1>1
  <1>3. b \in R /\ \A q \in R, v \in V : InsideStep(wr, q, v) \in R
    BY <1>0, FurtherIs DEF InsideStep
  <1>4. PICK g : g = [q \in R \X V |-> InsideStep(wr, q[1], q[2])]
    OBVIOUS
  <1>5. /\ g \in [R \X V -> R]
        /\ \A q \in R, v \in V : g[<<q, v>>] = InsideStep(wr, q, v)
    BY <1>3, <1>4
  <1>6. \E f : InsideOf(wr, b, s, f)
    <2>1. Iterated(R, g, b, s, n)
      BY <1>1, <1>3, <1>5, IteratesExist
    <2>2. PICK it \in [SUBSET (1..n) -> R] : Iterates(g, b, s, n, it)
      BY <2>1 DEF Iterated
    <2>3. ASSUME NEW x \in SUBSET (1..n), x # {}
          PROVE  it[x] = InsideStep(wr, it[x \ {Max(x)}], s[Max(x)])
      <3>1. Max(x) \in 1..n /\ x \ {Max(x)} \in SUBSET (1..n)
        BY <2>3, MaxIs
      <3>2. it[x] = g[<<it[x \ {Max(x)}], s[Max(x)]>>]
        BY <2>2, <2>3 DEF Iterates
      <3>. QED  BY <3>1, <3>2, <2>2, <1>2, <1>5
    <2>4. InsideOf(wr, b, s, it)
      BY <1>2, <2>2, <2>3 DEF InsideOf, Iterates
    <2>. QED  BY <2>4
  <1>7. PICK f : InsideOf(wr, b, s, f) /\ InsideFrom(wr, b, s) = f[DOMAIN s]
    <2>1. InsideFrom(wr, b, s) = (CHOOSE f : InsideOf(wr, b, s, f))[DOMAIN s]
      BY Zenon DEF InsideFrom, FoldLeft, MapThenFoldSet, InsideOf, InsideStep
    <2>. QED  BY <1>6, <2>1
  <1>8. f[{}] = b
    BY <1>2, <1>7 DEF InsideOf
  <1>9. ASSUME NEW k \in 1..n, f[1..(k - 1)] \in R
        PROVE  f[1..k] = g[<<f[1..(k - 1)], s[k]>>]
    <2>1. k \in Nat /\ k # 0 /\ 1..k \in SUBSET (1..n) /\ k \in 1..k
      OBVIOUS
    <2>2. Max(1..k) = k /\ (1..k) \ {k} = 1..(k - 1)
      BY <2>1, MaxOfInterval
    <2>3. f[1..k] = InsideStep(wr, f[1..(k - 1)], s[k])
      BY <2>1, <2>2, <1>2, <1>7 DEF InsideOf
    <2>. QED  BY <2>3, <1>2, <1>5, <1>9
  <1>10. \E p \in [0..n -> R] : /\ p[0] = b /\ p[n] = f[DOMAIN s]
                                  /\ \A k \in 1..n : p[k] = g[<<p[k - 1], s[k]>>]
    <2>1. StepsUp(R, g, s, f)
      BY <1>1, <1>9 DEF StepsUp
    <2>2. b \in R /\ g \in [R \X V -> R]
      BY <1>3, <1>5
    <2>3. StepsOf(R, g, b, s, f[DOMAIN s])
      BY <1>8, <2>1, <2>2, FoldSteps
    <2>. QED  BY <1>1, <2>3 DEF StepsOf
  <1>11. PICK p \in [0..n -> R] : /\ p[0] = b /\ p[n] = f[DOMAIN s]
                                   /\ \A k \in 1..n : p[k] = g[<<p[k - 1], s[k]>>]
    BY <1>10
  <1>12. \A k \in 1..n : p[k] = InsideStep(wr, p[k - 1], s[k])
    <2>1. \A k \in 1..n : k - 1 \in 0..n
      OBVIOUS
    <2>. QED  BY <2>1, <1>2, <1>5, <1>11
  <1>. QED  BY <1>0, <1>1, <1>7, <1>11, <1>12 DEF InsideRuns

TextsFrom(s) == FoldLeft(LAMBDA text, w : text \o TextOf(w), <<>>, s)
TextsStep(text, v) == text \o TextOf(v)
TextsOf(s, f) ==
  f = [x \in SUBSET (DOMAIN s) |->
         IF x = {} THEN <<>> ELSE LET y == Max(x) IN TextsStep(f[x \ {y}], s[y])]

TextsRuns(V, s) ==
  \E p \in [0..Len(s) -> Seq(Words)] :
    /\ p[0] = <<>> /\ p[Len(s)] = TextsFrom(s)
    /\ \A k \in 1..Len(s) : p[k] = TextsStep(p[k - 1], s[k])

LEMMA TextsSteps ==
  ASSUME NEW V, NEW s \in Seq(V),
         \A w \in V : TextOf(w) \in Seq(Words)
  PROVE  TextsRuns(V, s)
  <1>0. PICK R : R = Seq(Words)
    OBVIOUS
  <1>1. PICK n \in Nat : n = Len(s)
    OBVIOUS
  <1>2. DOMAIN s = 1..n /\ \A k \in 1..n : s[k] \in V
    BY <1>1
  <1>3. <<>> \in R /\ \A q \in R, v \in V : TextsStep(q, v) \in R
    BY <1>0 DEF TextsStep
  <1>4. PICK g : g = [q \in R \X V |-> TextsStep(q[1], q[2])]
    OBVIOUS
  <1>5. /\ g \in [R \X V -> R]
        /\ \A q \in R, v \in V : g[<<q, v>>] = TextsStep(q, v)
    BY <1>3, <1>4
  <1>6. \E f : TextsOf(s, f)
    <2>1. Iterated(R, g, <<>>, s, n)
      BY <1>1, <1>3, <1>5, IteratesExist
    <2>2. PICK it \in [SUBSET (1..n) -> R] : Iterates(g, <<>>, s, n, it)
      BY <2>1 DEF Iterated
    <2>3. ASSUME NEW x \in SUBSET (1..n), x # {}
          PROVE  it[x] = TextsStep(it[x \ {Max(x)}], s[Max(x)])
      <3>1. Max(x) \in 1..n /\ x \ {Max(x)} \in SUBSET (1..n)
        BY <2>3, MaxIs
      <3>2. it[x] = g[<<it[x \ {Max(x)}], s[Max(x)]>>]
        BY <2>2, <2>3 DEF Iterates
      <3>. QED  BY <3>1, <3>2, <2>2, <1>2, <1>5
    <2>4. TextsOf(s, it)
      BY <1>2, <2>2, <2>3 DEF TextsOf, Iterates
    <2>. QED  BY <2>4
  <1>7. PICK f : TextsOf(s, f) /\ TextsFrom(s) = f[DOMAIN s]
    <2>1. TextsFrom(s) = (CHOOSE f : TextsOf(s, f))[DOMAIN s]
      BY Zenon DEF TextsFrom, FoldLeft, MapThenFoldSet, TextsOf, TextsStep
    <2>. QED  BY <1>6, <2>1
  <1>8. f[{}] = <<>>
    BY <1>2, <1>7 DEF TextsOf
  <1>9. ASSUME NEW k \in 1..n, f[1..(k - 1)] \in R
        PROVE  f[1..k] = g[<<f[1..(k - 1)], s[k]>>]
    <2>1. k \in Nat /\ k # 0 /\ 1..k \in SUBSET (1..n) /\ k \in 1..k
      OBVIOUS
    <2>2. Max(1..k) = k /\ (1..k) \ {k} = 1..(k - 1)
      BY <2>1, MaxOfInterval
    <2>3. f[1..k] = TextsStep(f[1..(k - 1)], s[k])
      BY <2>1, <2>2, <1>2, <1>7 DEF TextsOf
    <2>. QED  BY <2>3, <1>2, <1>5, <1>9
  <1>10. \E p \in [0..n -> R] : /\ p[0] = <<>> /\ p[n] = f[DOMAIN s]
                                  /\ \A k \in 1..n : p[k] = g[<<p[k - 1], s[k]>>]
    <2>1. StepsUp(R, g, s, f)
      BY <1>1, <1>9 DEF StepsUp
    <2>2. <<>> \in R /\ g \in [R \X V -> R]
      BY <1>3, <1>5
    <2>3. StepsOf(R, g, <<>>, s, f[DOMAIN s])
      BY <1>8, <2>1, <2>2, FoldSteps
    <2>. QED  BY <1>1, <2>3 DEF StepsOf
  <1>11. PICK p \in [0..n -> R] : /\ p[0] = <<>> /\ p[n] = f[DOMAIN s]
                                   /\ \A k \in 1..n : p[k] = g[<<p[k - 1], s[k]>>]
    BY <1>10
  <1>12. \A k \in 1..n : p[k] = TextsStep(p[k - 1], s[k])
    <2>1. \A k \in 1..n : k - 1 \in 0..n
      OBVIOUS
    <2>. QED  BY <2>1, <1>2, <1>5, <1>11
  <1>. QED  BY <1>0, <1>1, <1>7, <1>11, <1>12 DEF TextsRuns

\* e is the texts t of the values in s, one after the other
ConcatOf(s, t, e) ==
  \E q \in [0..Len(s) -> Seq(Words)] :
    q[0] = <<>> /\ q[Len(s)] = e /\ \A k \in 1..Len(s) : q[k] = q[k - 1] \o t[s[k]]

\* The same texts make the same text.
LEMMA SameConcat ==
  ASSUME NEW V, NEW s \in Seq(V), NEW t, NEW u, NEW e, NEW f,
         ConcatOf(s, t, e), ConcatOf(s, u, f), \A k \in 1..Len(s) : t[s[k]] = u[s[k]]
  PROVE  e = f
  <1>1. PICK n \in Nat : n = Len(s)
    OBVIOUS
  <1>2. PICK q \in [0..n -> Seq(Words)] :
          q[0] = <<>> /\ q[n] = e /\ \A k \in 1..n : q[k] = q[k - 1] \o t[s[k]]
    BY <1>1 DEF ConcatOf
  <1>3. PICK r \in [0..n -> Seq(Words)] :
          r[0] = <<>> /\ r[n] = f /\ \A k \in 1..n : r[k] = r[k - 1] \o u[s[k]]
    BY <1>1 DEF ConcatOf
  <1>4. PICK S : S = {k \in 0..n : q[k] = r[k]}
    OBVIOUS
  <1>5. 0 \in S
    BY <1>2, <1>3, <1>4
  <1>6. ASSUME NEW k \in 1..n, k - 1 \in S PROVE k \in S
    <2>1. q[k - 1] = r[k - 1] /\ t[s[k]] = u[s[k]] /\ k \in 0..n
      BY <1>1, <1>4, <1>6
    <2>2. q[k] = r[k]
      BY <2>1, <1>2, <1>3, Zenon
    <2>. QED  BY <2>1, <2>2, <1>4
  <1>7. n \in S
    <2>1. \A k \in 0..n : k \in S
      BY <1>5, <1>6, Steadily
    <2>. QED  BY <2>1
  <1>. QED  BY <1>2, <1>3, <1>4, <1>7

LEMMA ConcatTyped ==
  ASSUME NEW V, NEW s \in Seq(V), NEW t, NEW e, ConcatOf(s, t, e)
  PROVE  e \in Seq(Words)
  <1>1. Len(s) \in 0..Len(s)
    OBVIOUS
  <1>. QED  BY <1>1 DEF ConcatOf

\* The words of a text have the words of what is in it.
LEMMA JoinedHas ==
  ASSUME NEW W, NEW a \in Seq(W), NEW b \in Seq(W)
  PROVE  Range(a \o b) = Range(a) \cup Range(b)
  <1>0. Len(a) \in Nat /\ Len(b) \in Nat
    OBVIOUS
  <1>1. PICK m \in Nat, n \in Nat : m = Len(a) /\ n = Len(b)
    BY <1>0
  <1>2. PICK c : c = a \o b
    OBVIOUS
  <1>3. DOMAIN a = 1..m /\ DOMAIN b = 1..n /\ DOMAIN c = 1..(m + n)
    BY <1>1, <1>2
  <1>4. (\A i \in 1..m : i \in 1..(m + n) /\ c[i] = a[i]) /\ (\A i \in 1..n : m + i \in 1..(m + n) /\ c[m + i] = b[i])
    BY <1>1, <1>2
  <1>5. ASSUME NEW i \in 1..(m + n) PROVE c[i] \in Range(a) \cup Range(b)
    <2>1. CASE i <= m
      <3>1. i \in 1..m
        BY <2>1
      <3>. QED  BY <3>1, <1>3, <1>4 DEF Range
    <2>2. CASE ~(i <= m)
      <3>1. i - m \in 1..n /\ m + (i - m) = i
        BY <2>2
      <3>2. c[i] = b[i - m]
        BY <3>1, <1>4
      <3>. QED  BY <3>1, <3>2, <1>3 DEF Range
    <2>. QED  BY <2>1, <2>2
  <1>6. Range(c) = Range(a) \cup Range(b)
    <2>1. Range(c) \subseteq Range(a) \cup Range(b)
      BY <1>3, <1>5 DEF Range
    <2>2. Range(a) \subseteq Range(c)
      BY <1>3, <1>4 DEF Range
    <2>3. Range(b) \subseteq Range(c)
      BY <1>3, <1>4 DEF Range
    <2>. QED  BY <2>1, <2>2, <2>3
  <1>. QED  BY <1>2, <1>6

LEMMA ConcatHas ==
  ASSUME NEW V, NEW s \in Seq(V), NEW t, NEW e, ConcatOf(s, t, e),
         \A k \in 1..Len(s) : t[s[k]] \in Seq(Words)
  PROVE  \A k \in 1..Len(s) : Range(t[s[k]]) \subseteq Range(e)
  <1>1. PICK n \in Nat : n = Len(s)
    OBVIOUS
  <1>2. PICK q \in [0..n -> Seq(Words)] :
          q[0] = <<>> /\ q[n] = e /\ \A k \in 1..n : q[k] = q[k - 1] \o t[s[k]]
    BY <1>1 DEF ConcatOf
  <1>3. PICK S : S = {k \in 0..n : \A j \in 1..k : Range(t[s[j]]) \subseteq Range(q[k])}
    OBVIOUS
  <1>4. 0 \in S
    BY <1>3
  <1>5. ASSUME NEW k \in 1..n, k - 1 \in S PROVE k \in S
    <2>1. PICK a \in Seq(Words), b \in Seq(Words) : a = q[k - 1] /\ b = t[s[k]]
      BY <1>1, <1>2
    <2>2. Range(q[k]) = Range(a) \cup Range(b)
      <3>1. q[k] = a \o b
        BY <2>1, <1>2, Zenon
      <3>. QED  BY <3>1, JoinedHas
    <2>3. \A j \in 1..(k - 1) : Range(t[s[j]]) \subseteq Range(a)
      BY <1>3, <1>5, <2>1
    <2>4. ASSUME NEW j \in 1..k PROVE Range(t[s[j]]) \subseteq Range(q[k])
      <3>1. CASE j = k
        BY <3>1, <2>1, <2>2
      <3>2. CASE j # k
        <4>1. j \in 1..(k - 1)
          BY <3>2
        <4>. QED  BY <4>1, <2>2, <2>3
      <3>. QED  BY <3>1, <3>2
    <2>. QED  BY <2>4, <1>3
  <1>6. n \in S
    <2>1. \A k \in 0..n : k \in S
      BY <1>4, <1>5, Steadily
    <2>. QED  BY <2>1
  <1>. QED  BY <1>1, <1>2, <1>3, <1>6

TextsAt(wr, A) == [w \in StackValues |-> wr[A][w].text]

\* What is written between brackets is one text behind the other.
LEMMA InsideIs ==
  ASSUME NEW s \in Seq(StackValues), NEW wr, NEW B, Answering(wr, B)
  PROVE  LET e == InsideFrom(wr, [text |-> <<>>, active |-> B], s)
         IN  e \in Answers(B) /\ ConcatOf(s, TextsAt(wr, B), e.text)
  <1>1. PICK b : b = [text |-> <<>>, active |-> B]
    OBVIOUS
  <1>2. b \in Answers(B)
    BY <1>1 DEF Answers
  <1>3. PICK e : e = InsideFrom(wr, b, s)
    OBVIOUS
  <1>4. PICK n \in Nat : n = Len(s)
    OBVIOUS
  <1>5. PICK p \in [0..n -> Answers(B)] :
          p[0] = b /\ p[n] = e /\ \A k \in 1..n : p[k] = InsideStep(wr, p[k - 1], s[k])
    BY <1>2, <1>3, <1>4, InsideSteps DEF InsideRuns
  <1>6. PICK t : t = TextsAt(wr, B)
    OBVIOUS
  <1>7. ASSUME NEW k \in 1..n
        PROVE  p[k].text = p[k - 1].text \o t[s[k]]
    <2>1. s[k] \in StackValues /\ p[k - 1] \in Answers(B)
      BY <1>4
    <2>2. p[k] = [text |-> p[k - 1].text \o wr[B][s[k]].text, active |-> B]
      BY <2>1, <1>5, FurtherIs, Zenon DEF InsideStep
    <2>3. t[s[k]] = wr[B][s[k]].text
      BY <2>1, <1>6 DEF TextsAt
    <2>4. p[k].text = p[k - 1].text \o wr[B][s[k]].text
      <3>1. PICK x : x = p[k - 1].text \o wr[B][s[k]].text
        OBVIOUS
      <3>2. p[k] = [text |-> x, active |-> B]
        BY <2>2, <3>1, Zenon
      <3>3. p[k].text = x
        BY <3>2
      <3>. QED  BY <3>1, <3>3, Zenon
    <2>. QED  BY <2>3, <2>4, Zenon
  <1>8. PICK q : q = [k \in 0..n |-> p[k].text]
    OBVIOUS
  <1>9. q \in [0..n -> Seq(Words)]
    <2>1. \A k \in 0..n : p[k] \in Answers(B)
      OBVIOUS
    <2>. QED  BY <2>1, <1>8 DEF Answers
  <1>10. q[0] = <<>> /\ q[n] = e.text
    BY <1>1, <1>5, <1>8
  <1>11. \A k \in 1..n : q[k] = q[k - 1] \o t[s[k]]
    <2>1. \A k \in 1..n : k \in 0..n /\ k - 1 \in 0..n
      OBVIOUS
    <2>. QED  BY <2>1, <1>7, <1>8
  <1>12. ConcatOf(s, t, e.text)
    BY <1>4, <1>9, <1>10, <1>11 DEF ConcatOf
  <1>13. e \in Answers(B)
    BY <1>5
  <1>. QED  BY <1>1, <1>3, <1>6, <1>12, <1>13

LEMMA TextsAre ==
  ASSUME NEW s \in Seq(StackValues), \A w \in StackValues : TextOf(w) \in Seq(Words)
  PROVE  ConcatOf(s, [w \in StackValues |-> TextOf(w)], TextsFrom(s))
  <1>1. PICK n \in Nat : n = Len(s)
    OBVIOUS
  <1>2. PICK p \in [0..n -> Seq(Words)] :
          p[0] = <<>> /\ p[n] = TextsFrom(s) /\ \A k \in 1..n : p[k] = TextsStep(p[k - 1], s[k])
    BY <1>1, TextsSteps DEF TextsRuns
  <1>3. PICK t : t = [w \in StackValues |-> TextOf(w)]
    OBVIOUS
  <1>4. ASSUME NEW k \in 1..n PROVE p[k] = p[k - 1] \o t[s[k]]
    <2>1. s[k] \in StackValues
      BY <1>1
    <2>2. t[s[k]] = TextOf(s[k])
      BY <2>1, <1>3
    <2>3. p[k] = p[k - 1] \o TextOf(s[k])
      BY <1>2, Zenon DEF TextsStep
    <2>. QED  BY <2>2, <2>3
  <1>5. ConcatOf(s, t, TextsFrom(s))
    BY <1>1, <1>2, <1>4 DEF ConcatOf
  <1>. QED  BY <1>3, <1>5

LEMMA AppendHas ==
  ASSUME NEW W, NEW a \in Seq(W), NEW v \in W
  PROVE  Range(Append(a, v)) = Range(a) \cup {v}
  <1>1. PICK o : o = <<v>>
    OBVIOUS
  <1>2. o \in Seq(W) /\ Append(a, v) = a \o o
    BY <1>1
  <1>3. Range(o) = {v}
    BY <1>1 DEF Range
  <1>4. Range(a \o o) = Range(a) \cup Range(o)
    BY <1>2, JoinedHas
  <1>. QED  BY <1>2, <1>3, <1>4

\* The keys in order are the keys.
LEMMA KeysAre ==
  ASSUME NEW f, DOMAIN f \subseteq Range(Order)
  PROVE  KeysInOrder(f) \in Seq(Range(Order)) /\ Range(KeysInOrder(f)) = DOMAIN f
  <1>1. PICK V : V = Range(Order)
    OBVIOUS
  <1>2. Order \in Seq(V)
    BY <1>1, OrderTyped
  <1>3. PICK n \in Nat : n = Len(Order) /\ DOMAIN Order = 1..n
    BY <1>2
  <1>4. PICK p \in [0..n -> Seq(V)] :
          /\ p[0] = <<>> /\ p[n] = KeysFrom(f, Order)
          /\ \A k \in 1..n : p[k] = KeysStep(f, p[k - 1], Order[k])
    <2>1. KeysRuns(V, f, Order)
      BY <1>2, KeysSteps
    <2>. QED  BY <2>1, <1>3 DEF KeysRuns
  <1>5. PICK D : D = DOMAIN f
    OBVIOUS
  <1>6. PICK S : S = {k \in 0..n : Range(p[k]) = {Order[j] : j \in 1..k} \cap D}
    OBVIOUS
  <1>7. 0 \in S
    BY <1>4, <1>6 DEF Range
  <1>8. ASSUME NEW k \in 1..n, k - 1 \in S PROVE k \in S
    <2>1. PICK a \in Seq(V), v \in V : a = p[k - 1] /\ v = Order[k]
      BY <1>2, <1>3
    <2>2. p[k] = IF v \in D THEN Append(a, v) ELSE a
      BY <2>1, <1>4, <1>5, Zenon DEF KeysStep
    <2>3. Range(Append(a, v)) = Range(a) \cup {v}
      BY AppendHas
    <2>4. {Order[j] : j \in 1..k} = {Order[j] : j \in 1..(k - 1)} \cup {v}
      <3>1. 1..k = (1..(k - 1)) \cup {k}
        OBVIOUS
      <3>. QED  BY <2>1, <3>1
    <2>5. Range(a) = {Order[j] : j \in 1..(k - 1)} \cap D
      BY <2>1, <1>6, <1>8
    <2>6. Range(p[k]) = {Order[j] : j \in 1..k} \cap D
      BY <2>2, <2>3, <2>4, <2>5
    <2>. QED  BY <2>6, <1>6
  <1>9. \A k \in 0..n : k \in S
    BY <1>7, <1>8, Steadily
  <1>10. Range(p[n]) = V \cap D
    <2>1. {Order[j] : j \in 1..n} = V
      BY <1>1, <1>3 DEF Range
    <2>2. n \in 0..n
      OBVIOUS
    <2>. QED  BY <2>1, <2>2, <1>6, <1>9
  <1>11. KeysInOrder(f) = p[n]
    BY <1>4, Zenon DEF KeysInOrder, KeysFrom
  <1>12. p[n] \in Seq(V)
    <2>1. n \in 0..n
      OBVIOUS
    <2>. QED  BY <2>1
  <1>. QED  BY <1>1, <1>5, <1>10, <1>11, <1>12

\* What is written between brackets is typed, and leads where the data lead.
LEMMA ContentsAre ==
  ASSUME NEW cell, WellFormed(cell), cell.kind # "instance"
  PROVE  /\ Contents(cell) \in Seq(StackValues)
         /\ \A v : IsCell(v) => (v \in Range(Contents(cell)) <=> v \in Values(cell))
  <1>1. CASE cell.kind # "map"
    <2>1. Contents(cell) = cell.data /\ cell.data \in Seq(StackValues)
      BY <1>1 DEF Contents, WellFormed
    <2>. QED  BY <2>1 DEF Values
  <1>2. CASE cell.kind = "map"
    <2>1. PICK f : f = cell.data
      OBVIOUS
    <2>2. f \in [DOMAIN f -> StackValues] /\ DOMAIN f \subseteq Range(Order)
      BY <1>2, <2>1 DEF WellFormed
    <2>3. PICK keys : keys = KeysInOrder(f)
      OBVIOUS
    <2>4. keys \in Seq(Range(Order)) /\ Range(keys) = DOMAIN f
      BY <2>2, <2>3, KeysAre
    <2>5. PICK n \in Nat : n = Len(keys) /\ DOMAIN keys = 1..n
      BY <2>4
    <2>6. PICK s : s = Contents(cell)
      OBVIOUS
    <2>7. s = [i \in 1..(2 * n) |-> IF i % 2 = 1 THEN StrV(keys[(i + 1) \div 2]) ELSE f[keys[(i + 1) \div 2]]]
      BY <1>2, <2>1, <2>3, <2>5, <2>6, Zenon DEF Contents
    <2>8. \A i \in 1..(2 * n) : (i + 1) \div 2 \in 1..n
      OBVIOUS
    <2>9. \A j \in 1..n : /\ keys[j] \in Range(Order) /\ keys[j] \in DOMAIN f
                          /\ StrV(keys[j]) \in StackValues /\ ~IsCell(StrV(keys[j])) /\ f[keys[j]] \in StackValues
      <3>1. ASSUME NEW j \in 1..n PROVE keys[j] \in Range(Order) /\ keys[j] \in DOMAIN f
        BY <2>4, <2>5 DEF Range
      <3>2. \A x \in Range(Order) : StrV(x) \in StackValues /\ ~IsCell(StrV(x))
        BY DEF StrV, StackValues, IsCell
      <3>. QED  BY <3>1, <3>2, <2>2
    <2>10. s \in Seq(StackValues) /\ DOMAIN s = 1..(2 * n)
      <3>1. \A i \in 1..(2 * n) : s[i] \in StackValues
        BY <2>7, <2>8, <2>9
      <3>2. 2 * n \in Nat
        OBVIOUS
      <3>. QED  BY <3>1, <3>2, <2>7
    <2>11. ASSUME NEW v, IsCell(v), v \in Range(s) PROVE v \in Range(f)
      <3>1. PICK i \in 1..(2 * n) : v = s[i]
        BY <2>10, <2>11 DEF Range
      <3>2. PICK j \in 1..n : j = (i + 1) \div 2
        BY <2>8
      <3>3. v = IF i % 2 = 1 THEN StrV(keys[j]) ELSE f[keys[j]]
        BY <2>7, <3>1, <3>2
      <3>4. v = f[keys[j]]
        BY <3>3, <2>9, <2>11
      <3>. QED  BY <3>4, <2>9 DEF Range
    <2>12. ASSUME NEW v, v \in Range(f) PROVE v \in Range(s)
      <3>1. PICK k \in DOMAIN f : v = f[k]
        BY <2>12 DEF Range
      <3>2. PICK j \in 1..n : k = keys[j]
        BY <3>1, <2>4, <2>5 DEF Range
      <3>3. 2 * j \in 1..(2 * n) /\ (2 * j + 1) \div 2 = j /\ (2 * j) % 2 = 0
        OBVIOUS
      <3>4. s[2 * j] = f[keys[j]]
        BY <3>3, <2>7
      <3>. QED  BY <3>1, <3>2, <3>3, <3>4, <2>10 DEF Range
    <2>. QED  BY <2>1, <2>6, <2>10, <2>11, <2>12 DEF Values
  <1>. QED  BY <1>1, <1>2

\* a list, tuple or map that is not being written
Opened(A, v) == IsCell(v) /\ heap[v[2]].kind # "instance" /\ v[2] \notin A

\* e is the text of v if A is being written and t has the texts of what is in v
TextIs(t, A, v, e) ==
  /\ ~IsCell(v) => e = <<Spelling(v)>>
  /\ Of(heap, v, "instance") => e = <<"<instance>">>
  /\ IsCell(v) /\ heap[v[2]].kind # "instance" /\ v[2] \in A => e = <<"<cycle>">>
  /\ Opened(A, v) => \E x : /\ ConcatOf(Contents(heap[v[2]]), t, x)
                            /\ e = <<heap[v[2]].kind>> \o x \o <<"end">>

Telling(wr, A, v, r) == r \in Answers(A) /\ TextIs(TextsAt(wr, A \cup {v[2]}), A, v, r.text)

LEMMA CellOf ==
  ASSUME TypeOK, NEW v \in StackValues, IsCell(v)
  PROVE  v[2] \in Cells /\ WellFormed(heap[v[2]])
  <1>1. v[2] \in Cells
    BY DEF StackValues, IsCell, NullV
  <1>. QED  BY <1>1 DEF TypeOK

LEMMA KindsAreWords ==
  ASSUME NEW cell, WellFormed(cell)
  PROVE  cell.kind \in Words
  BY DEF WellFormed, Words

\* What a call writes, in each of its cases.
LEMMA WritesIs ==
  ASSUME TypeOK, NEW wr, NEW A \in SUBSET Cells, NEW v \in StackValues,
         Opened(A, v) => Answering(wr, A \cup {v[2]})
  PROVE  Telling(wr, A, v, Writes(wr, A, v))
  <1>1. PICK r : r = Writes(wr, A, v)
    OBVIOUS
  <1>2. SUFFICES Telling(wr, A, v, r)
    BY <1>1
  <1>3. CASE ~IsCell(v)
    <2>0. ~Of(heap, v, "instance")
      BY <1>3 DEF Of
    <2>1. r = [text |-> <<Spelling(v)>>, active |-> A]
      BY <1>1, <1>3, <2>0 DEF Writes
    <2>2. Spelling(v) \in Words
      BY DEF Words
    <2>3. <<Spelling(v)>> \in Seq(Words)
      BY <2>2
    <2>4. r \in Answers(A)
      BY <2>1, <2>3 DEF Answers
    <2>. QED  BY <1>3, <2>1, <2>4 DEF Telling, TextIs, Of, Opened
  <1>4. CASE Of(heap, v, "instance")
    <2>1. IsCell(v) /\ heap[v[2]].kind = "instance"
      BY <1>4 DEF Of
    <2>2. r = [text |-> <<"<instance>">>, active |-> A]
      BY <1>1, <1>4, <2>1 DEF Writes
    <2>3. <<"<instance>">> \in Seq(Words)
      BY DEF Words
    <2>4. r \in Answers(A)
      BY <2>2, <2>3 DEF Answers
    <2>. QED  BY <1>4, <2>1, <2>2, <2>4 DEF Telling, TextIs, Opened
  <1>5. CASE IsCell(v) /\ heap[v[2]].kind # "instance" /\ v[2] \in A
    <2>1. ~Of(heap, v, "instance")
      BY <1>5 DEF Of
    <2>2. r = [text |-> <<"<cycle>">>, active |-> A]
      BY <1>1, <1>5, <2>1 DEF Writes
    <2>3. <<"<cycle>">> \in Seq(Words)
      BY DEF Words
    <2>4. r \in Answers(A)
      BY <2>2, <2>3 DEF Answers
    <2>. QED  BY <1>5, <2>1, <2>2, <2>4 DEF Telling, TextIs, Opened
  <1>6. CASE Opened(A, v)
    <2>1. PICK c : c = v[2]
      OBVIOUS
    <2>2. PICK cell : cell = heap[c]
      OBVIOUS
    <2>3. IsCell(v) /\ cell.kind # "instance" /\ c \notin A /\ c \in Cells /\ WellFormed(cell)
      BY <1>6, <2>1, <2>2, CellOf DEF Opened
    <2>4. PICK B : B = A \cup {c}
      OBVIOUS
    <2>5. Answering(wr, B)
      BY <1>6, <2>1, <2>4
    <2>6. PICK e : e = InsideFrom(wr, [text |-> <<>>, active |-> B], Contents(cell))
      OBVIOUS
    <2>7. e \in Answers(B) /\ ConcatOf(Contents(cell), TextsAt(wr, B), e.text)
      BY <2>3, <2>5, <2>6, ContentsAre, InsideIs
    <2>8. PICK kind \in Words : kind = cell.kind
      BY <2>3, KindsAreWords
    <2>9. PICK q : q = <<kind>> \o e.text \o <<"end">>
      OBVIOUS
    <2>10. r = [text |-> q, active |-> A]
      <3>1. ~Of(heap, v, "instance")
        BY <2>1, <2>2, <2>3 DEF Of
      <3>2. r = [text |-> <<cell.kind>> \o e.text \o <<"end">>, active |-> NoLongerActive(e.active, c)]
        BY <1>1, <2>1, <2>2, <2>3, <2>4, <2>6, <3>1 DEF Writes, InsideFrom
      <3>3. NoLongerActive(e.active, c) = A
        BY <2>3, <2>4, <2>7 DEF NoLongerActive, Answers
      <3>. QED  BY <2>8, <2>9, <3>2, <3>3
    <2>11. q \in Seq(Words)
      <3>1. e.text \in Seq(Words)
        BY <2>7 DEF Answers
      <3>2. <<kind>> \in Seq(Words) /\ <<"end">> \in Seq(Words)
        BY DEF Words
      <3>. QED  BY <2>9, <3>1, <3>2
    <2>12. r \in Answers(A) /\ r.text = q
      BY <2>10, <2>11 DEF Answers
    <2>13. TextIs(TextsAt(wr, B), A, v, q)
      <3>1. ~Of(heap, v, "instance")
        BY <2>1, <2>2, <2>3 DEF Of
      <3>2. \E x : ConcatOf(Contents(cell), TextsAt(wr, B), x) /\ q = <<cell.kind>> \o x \o <<"end">>
        BY <2>7, <2>8, <2>9
      <3>. QED  BY <2>1, <2>2, <2>3, <3>1, <3>2, Zenon DEF TextIs
    <2>. QED  BY <2>1, <2>4, <2>12, <2>13 DEF Telling
  <1>. QED  BY <1>3, <1>4, <1>5, <1>6 DEF Opened, Of

\* The text is the only one of its parts.
LEMMA OneText ==
  ASSUME TypeOK, NEW A, NEW B, NEW v \in StackValues, NEW t, NEW u, NEW e, NEW f,
         TextIs(t, A, v, e), TextIs(u, B, v, f), Opened(A, v) <=> Opened(B, v),
         Opened(A, v) => \A w \in Range(Contents(heap[v[2]])) : t[w] = u[w]
  PROVE  e = f
  <1>1. CASE Opened(A, v)
    <2>1. PICK s : s = Contents(heap[v[2]])
      OBVIOUS
    <2>2. s \in Seq(StackValues)
      BY <1>1, <2>1, CellOf, ContentsAre DEF Opened
    <2>3. PICK x : ConcatOf(s, t, x) /\ e = <<heap[v[2]].kind>> \o x \o <<"end">>
      BY <1>1, <2>1, Zenon DEF TextIs
    <2>4. PICK y : ConcatOf(s, u, y) /\ f = <<heap[v[2]].kind>> \o y \o <<"end">>
      BY <1>1, <2>1, Zenon DEF TextIs
    <2>5. \A k \in 1..Len(s) : t[s[k]] = u[s[k]]
      BY <1>1, <2>1, <2>2 DEF Range
    <2>6. x = y
      BY <2>2, <2>3, <2>4, <2>5, SameConcat
    <2>. QED  BY <2>3, <2>4, <2>6
  <1>2. CASE ~Opened(A, v)
    <2>1. CASE ~IsCell(v)
      BY <2>1 DEF TextIs
    <2>2. CASE Of(heap, v, "instance")
      BY <2>2 DEF TextIs
    <2>3. CASE IsCell(v) /\ heap[v[2]].kind # "instance" /\ v[2] \in A /\ v[2] \in B
      BY <2>3 DEF TextIs
    <2>. QED  BY <1>2, <2>1, <2>2, <2>3 DEF Opened, Of
  <1>. QED  BY <1>1, <1>2

\* A call asks only for texts with one collection more being written.
LEMMA WritesSame ==
  ASSUME TypeOK, NEW wr, NEW wz, NEW A \in SUBSET Cells, NEW v \in StackValues,
         Opened(A, v) => Answering(wr, A \cup {v[2]}) /\ wr[A \cup {v[2]}] = wz[A \cup {v[2]}]
  PROVE  Writes(wr, A, v) = Writes(wz, A, v)
  <1>1. Opened(A, v) => Answering(wz, A \cup {v[2]}) /\ TextsAt(wr, A \cup {v[2]}) = TextsAt(wz, A \cup {v[2]})
    BY DEF Answering, TextsAt
  <1>2. PICK r, z : r = Writes(wr, A, v) /\ z = Writes(wz, A, v)
    OBVIOUS
  <1>3. Telling(wr, A, v, r) /\ Telling(wz, A, v, z)
    BY <1>1, <1>2, WritesIs
  <1>4. r.text = z.text
    <2>1. PICK t, u, e, f : /\ t = TextsAt(wr, A \cup {v[2]}) /\ u = TextsAt(wz, A \cup {v[2]})
                            /\ e = r.text /\ f = z.text
      OBVIOUS
    <2>2. TextIs(t, A, v, e) /\ TextIs(u, A, v, f)
      BY <2>1, <1>3 DEF Telling
    <2>3. Opened(A, v) => t = u
      BY <2>1, <1>1
    <2>4. e = f
      BY <2>2, <2>3, OneText
    <2>. QED  BY <2>1, <2>4
  <1>5. r = z
    BY <1>3, <1>4 DEF Telling, Answers
  <1>. QED  BY <1>2, <1>5

CellsLeft(A) == Cardinality(Cells \ A)

\* Each collection that is being written leaves one fewer.
LEMMA Lefts ==
  ASSUME NEW A \in SUBSET Cells
  PROVE  /\ CellsLeft(A) \in 0..CellsLeft({})
         /\ \A c \in Cells \ A : CellsLeft(A \cup {c}) = CellsLeft(A) - 1
  <1>1. IsFiniteSet(Cells \ A) /\ IsFiniteSet(Cells \ {})
    BY CollectionsAssumption, FS_Subset
  <1>2. CellsLeft(A) \in Nat /\ CellsLeft({}) \in Nat /\ CellsLeft(A) <= CellsLeft({})
    <2>1. Cells \ A \subseteq Cells \ {}
      OBVIOUS
    <2>. QED  BY <1>1, <2>1, FS_Subset, FS_CardinalityType DEF CellsLeft
  <1>3. ASSUME NEW c \in Cells \ A PROVE CellsLeft(A \cup {c}) = CellsLeft(A) - 1
    <2>1. PICK S : S = Cells \ A
      OBVIOUS
    <2>2. IsFiniteSet(S) /\ c \in S /\ Cells \ (A \cup {c}) = S \ {c}
      BY <1>1, <2>1
    <2>3. Cardinality(S \ {c}) = Cardinality(S) - 1
      BY <2>2, FS_RemoveElement
    <2>. QED  BY <2>1, <2>2, <2>3 DEF CellsLeft
  <1>. QED  BY <1>2, <1>3

\* what holds of A if it holds of all that have one cell more, holds of all sets of cells
LEMMA CellsInduction ==
  ASSUME NEW G, \A A \in SUBSET Cells : (\A c \in Cells \ A : A \cup {c} \in G) => A \in G
  PROVE  \A A \in SUBSET Cells : A \in G
  <1>1. PICK T : T = {CellsLeft(A) : A \in (SUBSET Cells) \ G}
    OBVIOUS
  <1>2. SUFFICES ASSUME T # {} PROVE FALSE
    BY <1>1
  <1>3. T \subseteq Nat
    BY <1>1, Lefts
  <1>4. PICK n \in T : \A k \in T : n <= k
    BY <1>2, <1>3, LeastOne
  <1>5. PICK A \in (SUBSET Cells) \ G : n = CellsLeft(A)
    BY <1>1, <1>4
  <1>6. ASSUME NEW c \in Cells \ A PROVE A \cup {c} \in G
    <2>1. A \cup {c} \in SUBSET Cells /\ CellsLeft(A \cup {c}) = n - 1
      BY <1>5, Lefts
    <2>2. n - 1 \notin T
      BY <1>3, <1>4
    <2>. QED  BY <2>1, <2>2, <1>1
  <1>. QED  BY <1>5, <1>6

Texts(wr, A) == [v \in StackValues |-> Writes(wr, A, v)]

\* wr writes as Written does where fewer than n cells are left
WrittenUpTo(wr, n) ==
  /\ wr = [A \in SUBSET Cells |-> wr[A]]
  /\ \A A \in SUBSET Cells : CellsLeft(A) < n => wr[A] = Texts(wr, A) /\ Answering(wr, A)

\* So, by how many are left, there is a function that writes as the calls do, ...
LEMMA WrittenOneMore ==
  ASSUME TypeOK, NEW n \in Nat, NEW wr, WrittenUpTo(wr, n)
  PROVE  \E wz : WrittenUpTo(wz, n + 1)
  <1>1. PICK wz : wz = [A \in SUBSET Cells |-> IF CellsLeft(A) < n THEN wr[A] ELSE Texts(wr, A)]
    OBVIOUS
  <1>2. ASSUME NEW A \in SUBSET Cells, CellsLeft(A) < n + 1, NEW v \in StackValues, Opened(A, v)
        PROVE  /\ Answering(wr, A \cup {v[2]}) /\ wr[A \cup {v[2]}] = wz[A \cup {v[2]}]
    <2>1. v[2] \in Cells \ A
      BY <1>2, CellOf DEF Opened
    <2>2. A \cup {v[2]} \in SUBSET Cells /\ CellsLeft(A \cup {v[2]}) < n
      BY <1>2, <2>1, Lefts
    <2>. QED  BY <2>2, <1>1 DEF WrittenUpTo
  <1>3. ASSUME NEW A \in SUBSET Cells, CellsLeft(A) < n + 1
        PROVE  wz[A] = Texts(wr, A) /\ Texts(wr, A) = Texts(wz, A)
    <2>1. wz[A] = Texts(wr, A)
      BY <1>1 DEF WrittenUpTo
    <2>2. \A v \in StackValues : Writes(wr, A, v) = Writes(wz, A, v)
      BY <1>2, <1>3, WritesSame
    <2>. QED  BY <2>1, <2>2 DEF Texts
  <1>4. ASSUME NEW A \in SUBSET Cells, CellsLeft(A) < n + 1
        PROVE  Answering(wz, A)
    <2>1. \A v \in StackValues : Writes(wr, A, v) \in Answers(A)
      BY <1>2, <1>4, WritesIs DEF Telling
    <2>2. Texts(wr, A) \in [StackValues -> Answers(A)]
      BY <2>1 DEF Texts
    <2>. QED  BY <2>2, <1>3, <1>4 DEF Answering
  <1>5. wz = [A \in SUBSET Cells |-> wz[A]]
    BY <1>1
  <1>6. WrittenUpTo(wz, n + 1)
    BY <1>3, <1>4, <1>5 DEF WrittenUpTo
  <1>. QED  BY <1>6

LEMMA WrittenExists ==
  ASSUME TypeOK
  PROVE  \E wr : /\ wr = [A \in SUBSET Cells |-> Texts(wr, A)]
                 /\ \A A \in SUBSET Cells : Answering(wr, A)
  <1>1. PICK N \in Nat : N = CellsLeft({}) + 1 /\ \A A \in SUBSET Cells : CellsLeft(A) < N
    BY Lefts
  <1>2. PICK S : S = {n \in 0..N : \E wr : WrittenUpTo(wr, n)}
    OBVIOUS
  <1>3. 0 \in S
    <2>1. PICK wr : wr = [A \in SUBSET Cells |-> {}]
      OBVIOUS
    <2>2. WrittenUpTo(wr, 0)
      <3>1. \A A \in SUBSET Cells : ~(CellsLeft(A) < 0)
        BY Lefts
      <3>. QED  BY <2>1, <3>1 DEF WrittenUpTo
    <2>. QED  BY <2>2, <1>1, <1>2
  <1>4. ASSUME NEW n \in 1..N, n - 1 \in S PROVE n \in S
    <2>1. PICK wr : WrittenUpTo(wr, n - 1)
      BY <1>2, <1>4
    <2>2. n - 1 \in Nat /\ (n - 1) + 1 = n
      OBVIOUS
    <2>3. \E wz : WrittenUpTo(wz, n)
      BY <2>1, <2>2, WrittenOneMore
    <2>. QED  BY <2>3, <1>2
  <1>5. \A n \in 0..N : n \in S
    BY <1>3, <1>4, Steadily
  <1>6. PICK wr : WrittenUpTo(wr, N)
    BY <1>1, <1>2, <1>5
  <1>7. \A A \in SUBSET Cells : wr[A] = Texts(wr, A) /\ Answering(wr, A)
    BY <1>1, <1>6 DEF WrittenUpTo
  <1>8. wr = [A \in SUBSET Cells |-> Texts(wr, A)]
    BY <1>6, <1>7, Zenon DEF WrittenUpTo
  <1>. QED  BY <1>7, <1>8

IsWritten(wr) == wr = [A \in SUBSET Cells |-> Texts(wr, A)]

\* ... and Written is one: the recursion ends, in circles too.
LEMMA WrittenSatisfies ==
  ASSUME TypeOK
  PROVE  IsWritten(Written)
  <1>1. \E wr : IsWritten(wr)
    BY WrittenExists DEF IsWritten
  <1>2. Written = CHOOSE wr : IsWritten(wr)
    BY Zenon DEF Written, IsWritten, Texts
  <1>. QED  BY <1>1, <1>2, Zenon

\* Each call answers with a text, and leaves active as it was.
LEMMA WrittenAnswers ==
  ASSUME TypeOK, NEW A \in SUBSET Cells
  PROVE  Answering(Written, A) /\ Written[A] = Texts(Written, A)
  <1>1. PICK wr : IsWritten(wr)
    BY WrittenSatisfies
  <1>2. IsWritten(Written)
    BY WrittenSatisfies
  <1>3. PICK w : w = Written
    OBVIOUS
  <1>4. \A B \in SUBSET Cells : w[B] = Texts(w, B)
    BY <1>2, <1>3 DEF IsWritten
  <1>5. PICK G : G = {B \in SUBSET Cells : Answering(w, B)}
    OBVIOUS
  <1>6. ASSUME NEW B \in SUBSET Cells, \A c \in Cells \ B : B \cup {c} \in G
        PROVE  B \in G
    <2>1. ASSUME NEW v \in StackValues PROVE Writes(w, B, v) \in Answers(B)
      <3>1. Opened(B, v) => Answering(w, B \cup {v[2]})
        BY <1>5, <1>6, CellOf DEF Opened
      <3>. QED  BY <3>1, WritesIs DEF Telling
    <2>2. Texts(w, B) \in [StackValues -> Answers(B)]
      BY <2>1 DEF Texts
    <2>. QED  BY <2>2, <1>4, <1>5 DEF Answering
  <1>7. \A B \in SUBSET Cells : B \in G
    BY <1>6, CellsInduction
  <1>. QED  BY <1>3, <1>4, <1>5, <1>7

\* the text of v if A is being written
TextIn(A, v) == Written[A][v].text

LEMMA TextInIs ==
  ASSUME TypeOK, NEW A \in SUBSET Cells, NEW v \in StackValues
  PROVE  /\ TextIn(A, v) \in Seq(Words)
         /\ TextIs(TextsAt(Written, A \cup {v[2]}), A, v, TextIn(A, v))
  <1>1. PICK w : w = Written
    OBVIOUS
  <1>2. PICK r : r = Writes(w, A, v)
    OBVIOUS
  <1>3. Opened(A, v) => Answering(w, A \cup {v[2]})
    <2>1. SUFFICES ASSUME Opened(A, v) PROVE Answering(w, A \cup {v[2]})
      OBVIOUS
    <2>2. A \cup {v[2]} \in SUBSET Cells
      BY <2>1, CellOf DEF Opened
    <2>. QED  BY <2>2, <1>1, WrittenAnswers
  <1>4. Telling(w, A, v, r)
    BY <1>2, <1>3, WritesIs
  <1>5. w[A][v] = r
    BY <1>1, <1>2, WrittenAnswers DEF Texts
  <1>. QED  BY <1>1, <1>4, <1>5 DEF Telling, Answers, TextIn

-----------------------------------------------------------------------------
(* What a text goes into *)

LeadsTo(c) == HandlesIn(Shown[c])
Sight(R) == ReachedFrom(Shown, R)
Closed(S) == \A d \in S : LeadsTo(d) \subseteq S

LEMMA LeadsToCells ==
  ASSUME TypeOK, NEW c \in Cells
  PROVE  /\ LeadsTo(c) \in SUBSET Cells
         /\ heap[c].kind = "instance" => LeadsTo(c) = {}
         /\ heap[c].kind # "instance" =>
              \A d : d \in LeadsTo(c) <=> \E w \in Range(Contents(heap[c])) : w \in StackValues /\ IsCell(w) /\ w[2] = d
  <1>1. CASE heap[c].kind = "instance"
    <2>1. Shown[c] = Free
      BY <1>1 DEF Shown
    <2>2. Values(Free) = {}
      BY DEF Values, Free, Cell, Range
    <2>3. LeadsTo(c) = {}
      BY <2>1, <2>2 DEF LeadsTo, HandlesIn
    <2>. QED  BY <1>1, <2>3
  <1>2. CASE heap[c].kind # "instance"
    <2>1. PICK cell : cell = heap[c]
      OBVIOUS
    <2>2. Shown[c] = cell /\ WellFormed(cell) /\ cell.kind # "instance"
      BY <1>2, <2>1 DEF Shown, TypeOK
    <2>3. PICK s : s = Contents(cell)
      OBVIOUS
    <2>4. s \in Seq(StackValues) /\ \A v : IsCell(v) => (v \in Range(s) <=> v \in Values(cell))
      BY <2>2, <2>3, ContentsAre
    <2>5. \A w \in Range(s) : w \in StackValues
      BY <2>4 DEF Range
    <2>6. LeadsTo(c) = {w[2] : w \in {v \in Values(cell) : IsCell(v)}}
      BY <2>2 DEF LeadsTo, HandlesIn
    <2>7. \A d : d \in LeadsTo(c) <=> \E w \in Range(s) : w \in StackValues /\ IsCell(w) /\ w[2] = d
      BY <2>4, <2>5, <2>6
    <2>8. LeadsTo(c) \in SUBSET Cells
      BY <2>7, CellOf
    <2>. QED  BY <1>2, <2>1, <2>3, <2>7, <2>8
  <1>. QED  BY <1>1, <1>2

\* What is in sight is the least set that holds the roots and what its members hold.
LEMMA SightIs ==
  ASSUME TypeOK, NEW R \in SUBSET Cells
  PROVE  /\ Sight(R) \in SUBSET Cells /\ R \subseteq Sight(R) /\ Closed(Sight(R))
         /\ \A S \in SUBSET Cells : R \subseteq S /\ Closed(S) => Sight(R) \subseteq S
  <1>1. Sight(R) = {c \in Cells : \A S \in SUBSET Cells : R \subseteq S /\ Closed(S) => c \in S}
    BY Zenon DEF Sight, ReachedFrom, Closed, LeadsTo
  <1>2. PICK X : X = Sight(R)
    OBVIOUS
  <1>3. X = {c \in Cells : \A S \in SUBSET Cells : R \subseteq S /\ Closed(S) => c \in S}
    BY <1>1, <1>2
  <1>4. X \in SUBSET Cells /\ R \subseteq X /\ \A S \in SUBSET Cells : R \subseteq S /\ Closed(S) => X \subseteq S
    BY <1>3
  <1>5. Closed(X)
    <2>1. ASSUME NEW d \in X, NEW f \in LeadsTo(d) PROVE f \in X
      <3>1. \A S \in SUBSET Cells : R \subseteq S /\ Closed(S) => f \in S
        BY <2>1, <1>3 DEF Closed
      <3>2. f \in Cells
        <4>1. d \in Cells
          BY <2>1, <1>3
        <4>2. LeadsTo(d) \in SUBSET Cells
          BY <4>1, LeadsToCells
        <4>. QED  BY <2>1, <4>2
      <3>. QED  BY <3>1, <3>2, <1>3
    <2>. QED  BY <2>1 DEF Closed
  <1>. QED  BY <1>2, <1>4, <1>5

LEMMA SightWithin ==
  ASSUME TypeOK, NEW R \in SUBSET Cells, NEW Q \in SUBSET Cells, R \subseteq Sight(Q)
  PROVE  Sight(R) \subseteq Sight(Q)
  BY SightIs

LEMMA SightOfOne ==
  ASSUME TypeOK, NEW c \in Cells
  PROVE  /\ c \in Sight({c}) /\ Sight({c}) = {c} \cup Sight(LeadsTo(c))
         /\ \A d \in LeadsTo(c) : Sight({d}) \subseteq Sight(LeadsTo(c))
  <1>1. PICK L \in SUBSET Cells : L = LeadsTo(c)
    BY LeadsToCells
  <1>2. {c} \in SUBSET Cells /\ c \in Sight({c}) /\ L \subseteq Sight({c})
    BY <1>1, SightIs DEF Closed
  <1>3. Sight(L) \subseteq Sight({c})
    BY <1>2, SightWithin
  <1>4. Sight({c}) \subseteq {c} \cup Sight(L)
    <2>1. PICK S : S = {c} \cup Sight(L)
      OBVIOUS
    <2>2. S \in SUBSET Cells /\ {c} \subseteq S /\ Closed(S)
      <3>1. Sight(L) \in SUBSET Cells /\ L \subseteq Sight(L) /\ Closed(Sight(L))
        BY SightIs
      <3>. QED  BY <2>1, <3>1, <1>1 DEF Closed
    <2>. QED  BY <2>1, <2>2, SightIs
  <1>5. ASSUME NEW d \in L PROVE Sight({d}) \subseteq Sight(L)
    <2>1. {d} \in SUBSET Cells /\ {d} \subseteq Sight(L)
      BY SightIs
    <2>. QED  BY <2>1, SightWithin
  <1>. QED  BY <1>1, <1>2, <1>3, <1>4, <1>5

\* Whatever is in sight of several is in sight of one of them.
LEMMA SightOfMany ==
  ASSUME TypeOK, NEW R \in SUBSET Cells
  PROVE  \A e \in Sight(R) : \E d \in R : e \in Sight({d})
  <1>1. PICK S : S = {e \in Cells : \E d \in R : e \in Sight({d})}
    OBVIOUS
  <1>2. \A d \in R : {d} \in SUBSET Cells /\ Sight({d}) \in SUBSET Cells /\ {d} \subseteq Sight({d}) /\ Closed(Sight({d}))
    <2>1. ASSUME NEW d \in R
          PROVE  {d} \in SUBSET Cells /\ Sight({d}) \in SUBSET Cells /\ {d} \subseteq Sight({d}) /\ Closed(Sight({d}))
      <3>1. {d} \in SUBSET Cells
        OBVIOUS
      <3>. QED  BY <3>1, SightIs
    <2>. QED  BY <2>1
  <1>3. S \in SUBSET Cells /\ R \subseteq S
    BY <1>1, <1>2
  <1>4. Closed(S)
    <2>1. ASSUME NEW e \in S, NEW f \in LeadsTo(e) PROVE f \in S
      <3>1. PICK d \in R : e \in Sight({d})
        BY <1>1
      <3>2. f \in Sight({d}) /\ Sight({d}) \in SUBSET Cells
        BY <3>1, <1>2 DEF Closed
      <3>. QED  BY <3>2, <1>1
    <2>. QED  BY <2>1 DEF Closed
  <1>5. Sight(R) \subseteq S
    BY <1>3, <1>4, SightIs
  <1>. QED  BY <1>1, <1>5

LEMMA SightOfNone ==
  ASSUME TypeOK
  PROVE  Sight({}) = {}
  <1>1. {} \in SUBSET Cells /\ Closed({})
    BY DEF Closed
  <1>. QED  BY <1>1, SightIs

NoCircle(c) == \A e \in Sight({c}) : e \notin Sight(LeadsTo(e))
Clear(A, c) == Sight({c}) \cap A = {} /\ NoCircle(c)

\* nothing to be written in sight of what is in c, nor c itself
LEMMA ClearOfParts ==
  ASSUME TypeOK, NEW A \in SUBSET Cells, NEW c \in Cells \ A,
         \A d \in LeadsTo(c) : Clear(A \cup {c}, d)
  PROVE  Clear(A, c)
  <1>1. LeadsTo(c) \in SUBSET Cells
    BY LeadsToCells
  <1>2. Sight({c}) = {c} \cup Sight(LeadsTo(c))
    BY SightOfOne
  <1>3. ASSUME NEW e \in Sight(LeadsTo(c)) PROVE e \notin A \cup {c} /\ e \notin Sight(LeadsTo(e))
    <2>1. PICK d \in LeadsTo(c) : e \in Sight({d})
      BY <1>1, SightOfMany
    <2>. QED  BY <2>1 DEF Clear, NoCircle
  <1>. QED  BY <1>2, <1>3 DEF Clear, NoCircle

LEMMA PartsOfClear ==
  ASSUME TypeOK, NEW A \in SUBSET Cells, NEW c \in Cells, Clear(A, c), NEW d \in LeadsTo(c)
  PROVE  d \in Cells /\ Clear(A \cup {c}, d)
  <1>1. d \in Cells
    BY LeadsToCells
  <1>2. Sight({c}) = {c} \cup Sight(LeadsTo(c)) /\ Sight({d}) \subseteq Sight(LeadsTo(c)) /\ c \in Sight({c})
    BY SightOfOne
  <1>3. c \notin Sight(LeadsTo(c))
    BY <1>2 DEF Clear, NoCircle
  <1>. QED  BY <1>1, <1>2, <1>3 DEF Clear, NoCircle

NoObjects(A) == \A c \in A : heap[c].kind # "instance"
Tells(A) ==
  NoObjects(A) => \A v \in StackValues :
                    IsCell(v) /\ "<cycle>" \notin Range(TextIn(A, v)) => Clear(A, v[2])

LEMMA ClearOfObjects ==
  ASSUME TypeOK, NEW A \in SUBSET Cells, NoObjects(A), NEW c \in Cells, heap[c].kind = "instance"
  PROVE  Clear(A, c)
  <1>1. LeadsTo(c) = {} /\ Sight({c}) = {c}
    BY LeadsToCells, SightOfOne, SightOfNone
  <1>. QED  BY <1>1, SightOfNone DEF Clear, NoCircle, NoObjects

\* where no piece of the text of what is in an opened cell says so, neither does the text
LEMMA PiecesTold ==
  ASSUME TypeOK, NEW A \in SUBSET Cells, NEW v \in StackValues, Opened(A, v),
         NEW w \in Range(Contents(heap[v[2]]))
  PROVE  /\ w \in StackValues
         /\ Range(TextIn(A \cup {v[2]}, w)) \subseteq Range(TextIn(A, v))
  <1>1. PICK c \in Cells : c = v[2]
    BY CellOf DEF Opened
  <1>2. PICK kind \in Words, s \in Seq(StackValues) : kind = heap[c].kind /\ s = Contents(heap[c])
    <2>1. WellFormed(heap[c]) /\ heap[c].kind # "instance"
      BY <1>1, CellOf DEF Opened
    <2>. QED  BY <2>1, KindsAreWords, ContentsAre
  <1>3. PICK B \in SUBSET Cells : B = A \cup {c}
    OBVIOUS
  <1>4. PICK t : t = TextsAt(Written, B)
    OBVIOUS
  <1>5. \A u \in StackValues : t[u] = TextIn(B, u) /\ t[u] \in Seq(Words)
    BY <1>4, TextInIs DEF TextsAt, TextIn
  <1>6. PICK e : e = TextIn(A, v)
    OBVIOUS
  <1>7. TextIs(t, A, v, e)
    BY <1>1, <1>3, <1>4, <1>6, TextInIs
  <1>8. PICK x : ConcatOf(s, t, x) /\ e = <<kind>> \o x \o <<"end">>
    BY <1>1, <1>2, <1>7 DEF TextIs
  <1>9. Range(x) \subseteq Range(e)
    <2>1. PICK a, z : a = <<kind>> /\ z = <<"end">>
      OBVIOUS
    <2>2. x \in Seq(Words) /\ a \in Seq(Words) /\ z \in Seq(Words)
      <3>1. x \in Seq(Words)
        BY <1>8, ConcatTyped
      <3>2. "end" \in Words
        BY DEF Words
      <3>3. a \in Seq(Words) /\ z \in Seq(Words)
        BY <2>1, <3>2
      <3>. QED  BY <3>1, <3>3
    <2>3. PICK y : y = a \o x
      OBVIOUS
    <2>4. Range(y) = Range(a) \cup Range(x) /\ Range(y \o z) = Range(y) \cup Range(z)
      <3>1. y \in Seq(Words) /\ Range(y) = Range(a) \cup Range(x)
        BY <2>2, <2>3, JoinedHas
      <3>. QED  BY <2>2, <3>1, JoinedHas
    <2>5. e = y \o z
      BY <1>8, <2>1, <2>3
    <2>. QED  BY <2>4, <2>5
  <1>10. PICK k \in 1..Len(s) : w = s[k]
    BY <1>1, <1>2 DEF Range
  <1>11. w \in StackValues
    BY <1>10
  <1>12. \A j \in 1..Len(s) : t[s[j]] \in Seq(Words)
    BY <1>5
  <1>13. Range(t[s[k]]) \subseteq Range(x)
    BY <1>8, <1>12, ConcatHas
  <1>. QED  BY <1>1, <1>3, <1>5, <1>6, <1>9, <1>10, <1>11, <1>13

\* A text without <cycle> has no circle in sight, nor what is being written.
LEMMA TellsAlways ==
  ASSUME TypeOK
  PROVE  \A A \in SUBSET Cells : Tells(A)
  <1>1. PICK G : G = {A \in SUBSET Cells : Tells(A)}
    OBVIOUS
  <1>2. ASSUME NEW A \in SUBSET Cells, \A c \in Cells \ A : A \cup {c} \in G
        PROVE  A \in G
    <2>1. ASSUME NoObjects(A), NEW v \in StackValues, IsCell(v), "<cycle>" \notin Range(TextIn(A, v))
          PROVE  Clear(A, v[2])
      <3>1. PICK c \in Cells : c = v[2]
        BY <2>1, CellOf
      <3>2. CASE heap[c].kind = "instance"
        BY <2>1, <3>1, <3>2, ClearOfObjects
      <3>3. CASE heap[c].kind # "instance" /\ c \in A
        <4>1. TextIn(A, v) = <<"<cycle>">>
          BY <2>1, <3>1, <3>3, TextInIs DEF TextIs
        <4>2. Range(<<"<cycle>">>) = {"<cycle>"}
          BY DEF Range
        <4>. QED  BY <2>1, <4>1, <4>2
      <3>4. CASE heap[c].kind # "instance" /\ c \notin A
        <4>1. Opened(A, v)
          BY <2>1, <3>1, <3>4 DEF Opened
        <4>2. Tells(A \cup {c}) /\ NoObjects(A \cup {c}) /\ A \cup {c} \in SUBSET Cells
          BY <1>1, <1>2, <2>1, <3>4 DEF NoObjects
        <4>3. ASSUME NEW d \in LeadsTo(c) PROVE Clear(A \cup {c}, d)
          <5>1. PICK w \in Range(Contents(heap[c])) : w \in StackValues /\ IsCell(w) /\ w[2] = d
            BY <3>4, <4>3, LeadsToCells
          <5>2. "<cycle>" \notin Range(TextIn(A \cup {c}, w))
            BY <2>1, <3>1, <4>1, <5>1, PiecesTold
          <5>. QED  BY <4>2, <5>1, <5>2 DEF Tells
        <4>4. Clear(A, c)
          BY <3>4, <4>3, ClearOfParts
        <4>. QED  BY <3>1, <4>4
      <3>. QED  BY <3>2, <3>3, <3>4
    <2>. QED  BY <1>1, <2>1 DEF Tells
  <1>3. \A A \in SUBSET Cells : A \in G
    BY <1>2, CellsInduction
  <1>. QED  BY <1>1, <1>3

\* the text does not depend on what is being written out of sight
Unmoved(A) ==
  \A B \in SUBSET Cells, v \in StackValues :
    (IsCell(v) => Clear(A \cup B, v[2])) => TextIn(A, v) = TextIn(B, v)

\* A text is the same whatever is being written out of its sight.
LEMMA UnmovedAlways ==
  ASSUME TypeOK
  PROVE  \A A \in SUBSET Cells : Unmoved(A)
  <1>1. PICK G : G = {A \in SUBSET Cells : Unmoved(A)}
    OBVIOUS
  <1>2. ASSUME NEW A \in SUBSET Cells, \A c \in Cells \ A : A \cup {c} \in G
        PROVE  A \in G
    <2>1. ASSUME NEW B \in SUBSET Cells, NEW v \in StackValues, IsCell(v) => Clear(A \cup B, v[2])
          PROVE  TextIn(A, v) = TextIn(B, v)
      <3>1. PICK t, u : t = TextsAt(Written, A \cup {v[2]}) /\ u = TextsAt(Written, B \cup {v[2]})
        OBVIOUS
      <3>2. PICK e, f : e = TextIn(A, v) /\ f = TextIn(B, v)
        OBVIOUS
      <3>3. TextIs(t, A, v, e) /\ TextIs(u, B, v, f)
        BY <3>1, <3>2, TextInIs
      <3>4. IsCell(v) => v[2] \in Cells /\ v[2] \notin A /\ v[2] \notin B
        <4>1. SUFFICES ASSUME IsCell(v) PROVE v[2] \in Cells /\ v[2] \notin A /\ v[2] \notin B
          OBVIOUS
        <4>2. v[2] \in Cells
          BY <4>1, CellOf
        <4>3. v[2] \in Sight({v[2]})
          BY <4>2, SightOfOne
        <4>. QED  BY <4>1, <4>2, <4>3, <2>1 DEF Clear
      <3>5. Opened(A, v) <=> Opened(B, v)
        BY <3>4 DEF Opened
      <3>6. ASSUME Opened(A, v), NEW w \in Range(Contents(heap[v[2]])) PROVE t[w] = u[w]
        <4>1. PICK c \in Cells : c = v[2] /\ IsCell(v) /\ heap[c].kind # "instance" /\ c \notin A
          BY <3>4, <3>6 DEF Opened
        <4>2. w \in StackValues
          BY <3>6, PiecesTold
        <4>3. Unmoved(A \cup {c}) /\ B \cup {c} \in SUBSET Cells
          BY <1>1, <1>2, <4>1
        <4>4. IsCell(w) => Clear((A \cup {c}) \cup (B \cup {c}), w[2])
          <5>1. SUFFICES ASSUME IsCell(w) PROVE Clear((A \cup {c}) \cup (B \cup {c}), w[2])
            OBVIOUS
          <5>2. w[2] \in LeadsTo(c)
            BY <3>6, <4>1, <4>2, <5>1, LeadsToCells
          <5>3. Clear(A \cup B, c) /\ A \cup B \in SUBSET Cells
            BY <2>1, <4>1
          <5>4. Clear((A \cup B) \cup {c}, w[2])
            BY <5>2, <5>3, PartsOfClear
          <5>5. (A \cup B) \cup {c} = (A \cup {c}) \cup (B \cup {c})
            OBVIOUS
          <5>. QED  BY <5>4, <5>5
        <4>5. TextIn(A \cup {c}, w) = TextIn(B \cup {c}, w)
          BY <4>2, <4>3, <4>4 DEF Unmoved
        <4>6. t[w] = TextIn(A \cup {c}, w) /\ u[w] = TextIn(B \cup {c}, w)
          BY <3>1, <4>1, <4>2 DEF TextsAt, TextIn
        <4>. QED  BY <4>5, <4>6
      <3>7. e = f
        BY <3>3, <3>5, <3>6, OneText
      <3>. QED  BY <3>2, <3>7
    <2>. QED  BY <1>1, <2>1 DEF Unmoved
  <1>3. \A A \in SUBSET Cells : A \in G
    BY <1>2, CellsInduction
  <1>. QED  BY <1>1, <1>3

LEMMA CircularIs ==
  ASSUME TypeOK, NEW v \in StackValues
  PROVE  Circular(v) <=> IsCell(v) /\ ~NoCircle(v[2])
  BY DEF Circular, NoCircle, Sight, LeadsTo

LEMMA ToldIfCircular ==
  ASSUME TypeOK, NEW v \in StackValues, Circular(v)
  PROVE  "<cycle>" \in Range(TextOf(v))
  <1>1. IsCell(v) /\ ~NoCircle(v[2])
    BY CircularIs
  <1>2. {} \in SUBSET Cells /\ NoObjects({}) /\ Tells({})
    BY TellsAlways DEF NoObjects
  <1>3. TextOf(v) = TextIn({}, v)
    BY Zenon DEF TextOf, TextIn
  <1>. QED  BY <1>1, <1>2, <1>3 DEF Tells, Clear

LEMMA NestedIfNot ==
  ASSUME TypeOK, NEW v \in StackValues, ~Circular(v)
  PROVE  TextOf(v) = Nested(v)
  <1>1. {} \in SUBSET Cells
    OBVIOUS
  <1>2. \A w \in StackValues : TextOf(w) = TextIn({}, w) /\ TextOf(w) \in Seq(Words)
    BY <1>1, TextInIs DEF TextOf, TextIn
  <1>3. PICK e : e = TextOf(v)
    OBVIOUS
  <1>4. PICK t : t = TextsAt(Written, {} \cup {v[2]})
    OBVIOUS
  <1>5. TextIs(t, {}, v, e)
    BY <1>1, <1>2, <1>3, <1>4, TextInIs
  <1>6. CASE ~IsCell(v)
    <2>1. ~Of(heap, v, "instance")
      BY <1>6 DEF Of
    <2>. QED  BY <1>3, <1>5, <1>6, <2>1 DEF TextIs, Nested
  <1>7. CASE Of(heap, v, "instance")
    <2>1. IsCell(v)
      BY <1>7 DEF Of
    <2>. QED  BY <1>3, <1>5, <1>7, <2>1 DEF TextIs, Nested
  <1>8. CASE Opened({}, v)
    <2>1. PICK c \in Cells : c = v[2] /\ IsCell(v) /\ heap[c].kind # "instance"
      BY <1>8, CellOf DEF Opened
    <2>2. PICK s \in Seq(StackValues) : s = Contents(heap[c])
      BY <2>1, ContentsAre DEF TypeOK
    <2>3. PICK x : ConcatOf(s, t, x) /\ e = <<heap[c].kind>> \o x \o <<"end">>
      BY <1>5, <1>8, <2>1, <2>2 DEF TextIs
    <2>4. PICK u : u = [w \in StackValues |-> TextOf(w)]
      OBVIOUS
    <2>5. ConcatOf(s, u, TextsFrom(s))
      BY <1>2, <2>4, TextsAre
    <2>6. ASSUME NEW k \in 1..Len(s) PROVE t[s[k]] = u[s[k]]
      <3>1. PICK w \in StackValues : w = s[k]
        OBVIOUS
      <3>2. IsCell(w) => Clear({c} \cup {}, w[2])
        <4>1. SUFFICES ASSUME IsCell(w) PROVE Clear({c} \cup {}, w[2])
          OBVIOUS
        <4>2. w \in Range(s)
          BY <3>1 DEF Range
        <4>3. w[2] \in LeadsTo(c)
          BY <2>1, <2>2, <4>1, <4>2, LeadsToCells
        <4>4. Clear({}, c)
          BY <2>1, CircularIs DEF Clear
        <4>5. Clear({} \cup {c}, w[2])
          BY <1>1, <4>3, <4>4, PartsOfClear
        <4>6. {} \cup {c} = {c} \cup {}
          OBVIOUS
        <4>. QED  BY <4>5, <4>6
      <3>3. {c} \in SUBSET Cells
        OBVIOUS
      <3>4. TextIn({c}, w) = TextIn({}, w)
        BY <1>1, <3>2, <3>3, UnmovedAlways DEF Unmoved
      <3>5. t[w] = TextIn({c}, w)
        <4>1. {} \cup {v[2]} = {c}
          BY <2>1
        <4>. QED  BY <1>4, <4>1 DEF TextsAt, TextIn
      <3>6. u[w] = TextIn({}, w)
        BY <1>2, <2>4
      <3>. QED  BY <3>1, <3>4, <3>5, <3>6
    <2>7. x = TextsFrom(s)
      BY <2>3, <2>5, <2>6, SameConcat
    <2>8. ~Of(heap, v, "instance")
      BY <2>1 DEF Of
    <2>9. Nested(v) = <<heap[c].kind>> \o TextsFrom(s) \o <<"end">>
      BY <2>1, <2>2, <2>8 DEF Nested, TextsFrom
    <2>. QED  BY <1>3, <2>3, <2>7, <2>9
  <1>. QED  BY <1>6, <1>7, <1>8 DEF Opened, Of

\* On typed cells the text tells.
LEMMA TypedTells == TypeOK => TextTells
  <1>. SUFFICES ASSUME TypeOK PROVE TextTells
    OBVIOUS
  <1>1. ASSUME NEW v \in Range(env) \cup {Handle(c) : c \in Cells} PROVE v \in StackValues
    <2>1. CASE v \in Range(env)
      BY <2>1 DEF TypeOK, Range
    <2>2. CASE v \in {Handle(c) : c \in Cells}
      BY <2>2 DEF Handle, StackValues
    <2>. QED  BY <2>1, <2>2
  <1>2. ASSUME NEW v \in StackValues
        PROVE  IF Circular(v) THEN "<cycle>" \in Range(TextOf(v)) ELSE TextOf(v) = Nested(v)
    BY ToldIfCircular, NestedIfNot
  <1>. QED  BY <1>1, <1>2, Zenon DEF TextTells

\* However collections hold each other, the text of a value ends; it says <cycle> if a circle
\* is in sight, and else has what is in it as it would be written alone (value.h 232-235).
THEOREM Texting == Spec => []TextTells
  <1>. QED  BY Typing, TypedTells, PTL
================================================================================
