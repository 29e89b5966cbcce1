----------------------- MODULE EditorialPipelineProofs -----------------------
(***************************************************************************)
(* What holds of EditorialPipeline for every number of workers, sources,   *)
(* items and articles: articles of one URL and their plans stay distinct,  *)
(* and every plan chooses the best articles.                               *)
(***************************************************************************)
EXTENDS EditorialPipeline, FiniteSetTheorems, SequenceTheorems, WellFoundedInduction, TLAPS

(* Recursion up to a number.                                               *)

\* What holds of 0 and of every number after one it holds of, it holds of all.
LEMMA UpTo ==
  ASSUME NEW N \in Nat, NEW T, 0 \in T, \A n \in 1..N : n - 1 \in T => n \in T
  PROVE  0..N \subseteq T
<1> DEFINE R == {p \in Nat \X Nat : p[1] < p[2]}
           U == {n \in 0..N : n \notin T}
<1>1. IsWellFoundedOn(R, Nat) BY NatLessThanWellFounded DEF OpToRel
<1>2. U = {}
  <2>1. SUFFICES ASSUME U # {} PROVE FALSE
    OBVIOUS
  <2>2. U \subseteq Nat
    OBVIOUS
  <2>3. PICK x \in U : \A y \in U : ~ (<<y, x>> \in R)
    <3> HIDE DEF R, U
    <3>1. QED BY <1>1, <2>1, <2>2, WFMin, Zenon
  <2>4. x \in 1..N /\ x \notin T BY <2>3
  <2>5. x - 1 \notin U
    <3>1. x - 1 \in Nat /\ x \in Nat /\ x - 1 < x BY <2>4
    <3>2. <<x - 1, x>> \in R BY <3>1
    <3>3. QED BY <2>3, <3>2
  <2>6. QED BY <2>3, <2>4, <2>5
<1>3. QED BY <1>2

\* A function can be defined from each value to the next.
Course(g, N, a, F) == g[0] = a /\ \A n \in 1..N : g[n] = F[<<n, g[n - 1]>>]
HasCourse(N, S, a, F) == \E g \in [0..N -> S] : Course(g, N, a, F)
LEMMA StepByStep ==
  ASSUME NEW N \in Nat, NEW S, NEW a \in S, NEW F \in [(1..N) \X S -> S]
  PROVE  HasCourse(N, S, a, F)
<1> USE DEF HasCourse, Course
<1> DEFINE Good(m, g) == g[0] = a /\ \A n \in 1..m : g[n] = F[<<n, g[n - 1]>>]
           T == {m \in 0..N : \E g \in [0..m -> S] : Good(m, g)}
<1>1. 0 \in T
  <2> DEFINE g == [n \in 0..0 |-> a]
  <2>1. g \in [0..0 -> S] /\ g[0] = a /\ 1..0 = {}
    OBVIOUS
  <2> HIDE DEF g
  <2>2. Good(0, g) BY <2>1
  <2> HIDE DEF Good
  <2>3. QED BY <2>1, <2>2
<1>2. ASSUME NEW m \in 1..N, m - 1 \in T PROVE m \in T
  <2>1. PICK g \in [0..(m - 1) -> S] : Good(m - 1, g) BY <1>2
  <2> DEFINE h == [n \in 0..m |-> IF n = m THEN F[<<m, g[m - 1]>>] ELSE g[n]]
  <2>2. h \in [0..m -> S] BY <2>1
  <2>3. Good(m, h)
    <3>1. h[0] = a BY <2>1
    <3>2. ASSUME NEW n \in 1..m PROVE h[n] = F[<<n, h[n - 1]>>]
      <4>1. CASE n = m
        <5>1. n \in 0..m /\ n - 1 \in 0..m /\ n - 1 # m BY <4>1
        <5>2. QED BY <4>1, <5>1
      <4>2. CASE n # m
        <5>1. n \in 1..(m - 1) /\ n - 1 \in 0..m /\ n - 1 # m BY <4>2
        <5>2. QED BY <2>1, <5>1, <4>2
      <4>3. QED BY <4>1, <4>2
    <3>3. QED BY <3>1, <3>2
  <2>4. m \in 0..N
    OBVIOUS
  <2> HIDE DEF Good, h
  <2>5. QED BY <2>2, <2>3, <2>4
<1>3. 0..N \subseteq T
  <2> HIDE DEF T
  <2>1. QED BY <1>1, <1>2, UpTo
<1>4. QED
  <2> HIDE DEF Good
  <2>1. N \in T BY <1>3
  <2>2. \E g \in [0..N -> S] : Good(N, g) BY <2>1
  <2>3. QED BY <2>2 DEF Good
-----------------------------------------------------------------------------
(* Parts of sequences.                                                     *)

\* h lists the numbers of P in increasing order.
Lists(h, m, P) ==
  /\ h \in [1..m -> P]
  /\ \A i, j \in 1..m : i < j => h[i] < h[j]
  /\ \A x \in P : \E k \in 1..m : h[k] = x

\* One place after the other.
KeptAt(g, seq, S, A) ==
  /\ g \in [0..Len(seq) -> Seq(A)] /\ g[0] = <<>>
  /\ \A n \in 1..Len(seq) : g[n] = IF n \in S THEN Append(g[n - 1], seq[n]) ELSE g[n - 1]
  /\ Kept(seq, S) = g[Len(seq)]
LEMMA KeptUnfolds ==
  ASSUME NEW A, NEW seq \in Seq(A), NEW S
  PROVE  \E g : KeptAt(g, seq, S, A)
<1> DEFINE N == Len(seq)
           next(s, n) == IF n \in S THEN Append(s, seq[n]) ELSE s
           IsKept(g) == g = [n \in 0..N |-> IF n = 0 THEN <<>>
                                            ELSE IF n \in S THEN Append(g[n - 1], seq[n]) ELSE g[n - 1]]
           kept == CHOOSE g : IsKept(g)
<1>1. N \in Nat /\ <<>> \in Seq(A) /\ \A n \in 1..N : \A s \in Seq(A) : next(s, n) \in Seq(A)
  OBVIOUS
<1>2. Kept(seq, S) = kept[N] BY DEF Kept
<1>3. PICK g \in [0..N -> Seq(A)] : g[0] = <<>> /\ \A n \in 1..N : g[n] = next(g[n - 1], n)
  <2> DEFINE F == [x \in (1..N) \X Seq(A) |-> next(x[2], x[1])]
  <2> HIDE DEF N, next
  <2>1. F \in [(1..N) \X Seq(A) -> Seq(A)] /\ \A n \in 1..N, s \in Seq(A) : F[<<n, s>>] = next(s, n)
    BY <1>1
  <2> HIDE DEF F
  <2>2. HasCourse(N, Seq(A), <<>>, F) BY <1>1, <2>1, StepByStep
  <2>3. PICK g \in [0..N -> Seq(A)] : g[0] = <<>> /\ \A n \in 1..N : g[n] = F[<<n, g[n - 1]>>]
    BY <2>2 DEF HasCourse, Course
  <2>4. \A n \in 1..N : g[n] = next(g[n - 1], n)
    <3>1. \A n \in 1..N : n - 1 \in 0..N BY <1>1
    <3>2. QED BY <2>1, <2>3, <3>1
  <2>5. QED BY <2>3, <2>4
<1>4. IsKept(g)
  <2> HIDE DEF N
  <2>1. ASSUME NEW n \in 0..N
        PROVE  g[n] = IF n = 0 THEN <<>> ELSE IF n \in S THEN Append(g[n - 1], seq[n]) ELSE g[n - 1]
    <3>1. CASE n = 0 BY <1>3, <3>1
    <3>2. CASE n # 0
      <4>1. n \in 1..N BY <1>1, <3>2
      <4>2. QED BY <1>3, <4>1, <3>2
    <3>3. QED BY <3>1, <3>2
  <2>2. QED BY <1>3, <2>1
<1> HIDE DEF IsKept
<1>5. IsKept(kept) BY <1>4
<1> HIDE DEF kept
<1>6. /\ kept[0] = <<>>
      /\ \A n \in 1..N : kept[n] = next(kept[n - 1], n)
      /\ DOMAIN kept = 0..N
  <2> HIDE DEF N
  <2>1. /\ DOMAIN kept = 0..N
        /\ \A n \in 0..N : kept[n] = IF n = 0 THEN <<>>
                                    ELSE IF n \in S THEN Append(kept[n - 1], seq[n]) ELSE kept[n - 1]
    BY <1>5 DEF IsKept
  <2>2. 0 \in 0..N /\ \A n \in 1..N : n \in 0..N /\ n # 0 BY <1>1
  <2>3. QED BY <2>1, <2>2
<1>7. \A n \in 0..N : kept[n] \in Seq(A)
  <2> DEFINE T == {n \in 0..N : kept[n] \in Seq(A)}
  <2> HIDE DEF N, next
  <2>1. 0 \in T
    <3>1. 0 \in 0..N /\ <<>> \in Seq(A) BY <1>1
    <3>2. kept[0] \in Seq(A) BY <1>6, <3>1
    <3>3. QED BY <3>1, <3>2
  <2>2. ASSUME NEW n \in 1..N, n - 1 \in T PROVE n \in T BY <1>1, <1>6, <2>2
  <2>3. 0..N \subseteq T
    <3> HIDE DEF T
    <3>1. QED BY <1>1, <2>1, <2>2, UpTo
  <2>4. QED BY <2>3
<1>8. kept \in [0..N -> Seq(A)] BY <1>5, <1>7 DEF IsKept
<1>9. KeptAt(kept, seq, S, A) BY <1>2, <1>6, <1>8 DEF KeptAt
<1>10. QED BY <1>9

\* What Kept returns: what is at the places of S, in their order.
KeepsAt(h, m, seq, S) ==
  Lists(h, m, S \cap (1..Len(seq))) /\ Kept(seq, S) = [k \in 1..m |-> seq[h[k]]]
LEMMA KeptIs ==
  ASSUME NEW A, NEW seq \in Seq(A), NEW S
  PROVE  \E m \in Nat : \E h : KeepsAt(h, m, seq, S)
<1> DEFINE N == Len(seq)
           Till(n) == S \cap (1..n)
<1>1. PICK g : KeptAt(g, seq, S, A) BY KeptUnfolds
<1>2. /\ N \in Nat /\ g[0] = <<>> /\ Kept(seq, S) = g[N]
      /\ \A n \in 1..N : g[n] = IF n \in S THEN Append(g[n - 1], seq[n]) ELSE g[n - 1]
      /\ \A n \in 1..N : seq[n] \in A
  BY <1>1 DEF KeptAt
<1> DEFINE Good(n) == \E m \in Nat : \E h : Lists(h, m, Till(n)) /\ g[n] = [k \in 1..m |-> seq[h[k]]]
           T == {n \in 0..N : Good(n)}
<1> HIDE DEF N
<1>3. 0 \in T
  <2> DEFINE h == [k \in 1..0 |-> 1]
  <2>1. Till(0) = {} /\ 1..0 = {}
    OBVIOUS
  <2>2. Lists(h, 0, Till(0)) BY <2>1 DEF Lists
  <2>3. g[0] = [k \in 1..0 |-> seq[h[k]]] BY <1>2
  <2> HIDE DEF h, Till
  <2>4. 0 \in 0..N /\ 0 \in Nat BY <1>2
  <2>5. Good(0) BY <2>2, <2>3, <2>4
  <2> HIDE DEF Good
  <2>6. QED BY <2>4, <2>5
<1>4. ASSUME NEW n \in 1..N, n - 1 \in T PROVE n \in T
  <2>a. PICK m \in Nat : \E h : Lists(h, m, Till(n - 1)) /\ g[n - 1] = [k \in 1..m |-> seq[h[k]]]
    BY <1>4
  <2>1. PICK h : Lists(h, m, Till(n - 1)) /\ g[n - 1] = [k \in 1..m |-> seq[h[k]]] BY <2>a
  <2>2. n \in Nat /\ n - 1 \in Nat /\ n \in 0..N BY <1>2
  <2>3. CASE n \notin S
    <3>1. Till(n) = Till(n - 1) BY <2>2, <2>3
    <3>2. g[n] = g[n - 1] BY <1>2, <2>3
    <3> HIDE DEF Till
    <3>3. Lists(h, m, Till(n)) /\ g[n] = [k \in 1..m |-> seq[h[k]]] BY <2>1, <3>1, <3>2
    <3>4. Good(n) BY <3>3
    <3> HIDE DEF Good
    <3>5. QED BY <2>2, <3>4
  <2>4. CASE n \in S
    <3> DEFINE i == [k \in 1..(m + 1) |-> IF k = m + 1 THEN n ELSE h[k]]
    <3>1. Till(n) = Till(n - 1) \cup {n} /\ \A x \in Till(n - 1) : x \in Nat /\ x < n BY <2>2, <2>4
    <3>2. h \in [1..m -> Till(n - 1)] BY <2>1 DEF Lists
    <3>3. /\ \A k \in 1..m : i[k] = h[k] /\ h[k] \in Till(n - 1)
          /\ i[m + 1] = n /\ i \in [1..(m + 1) -> Till(n)]
      BY <3>1, <3>2
    <3>4. Lists(i, m + 1, Till(n))
      <4>1. ASSUME NEW x \in 1..(m + 1), NEW y \in 1..(m + 1), x < y PROVE i[x] < i[y]
        <5>1. x \in 1..m BY <4>1
        <5>2. CASE y = m + 1 BY <3>1, <3>3, <5>1, <5>2
        <5>3. CASE y # m + 1
          <6>1. y \in 1..m BY <5>3
          <6> HIDE DEF i, Till
          <6>2. h[x] < h[y] BY <2>1, <4>1, <5>1, <6>1 DEF Lists
          <6>3. QED BY <3>3, <5>1, <6>1, <6>2
        <5>4. QED BY <5>2, <5>3
      <4>2. ASSUME NEW x \in Till(n) PROVE \E k \in 1..(m + 1) : i[k] = x
        <5> HIDE DEF i, Till
        <5>1. CASE x = n BY <3>3, <5>1
        <5>2. CASE x # n
          <6>1. PICK k \in 1..m : h[k] = x BY <2>1, <3>1, <5>2 DEF Lists
          <6>2. k \in 1..(m + 1)
            OBVIOUS
          <6>3. QED BY <3>3, <6>1, <6>2
        <5>3. QED BY <5>1, <5>2
      <4> HIDE DEF i, Till
      <4>3. QED BY <3>3, <4>1, <4>2 DEF Lists
    <3>5. g[n] = [k \in 1..(m + 1) |-> seq[i[k]]]
      <4> HIDE DEF i, Till
      <4>1. g[n] = Append(g[n - 1], seq[n]) BY <1>2, <2>4
      <4>2. g[n - 1] \in Seq(A) BY <1>1, <2>2 DEF KeptAt, N
      <4>3. Len(g[n - 1]) = m BY <2>1, <4>2
      <4>4. DOMAIN g[n] = 1..(m + 1) BY <4>1, <4>2, <4>3
      <4>5. ASSUME NEW k \in 1..(m + 1) PROVE g[n][k] = seq[i[k]]
        <5>1. CASE k = m + 1 BY <3>3, <4>1, <4>2, <4>3, <5>1
        <5>2. CASE k # m + 1
          <6>1. k \in 1..m BY <5>2
          <6>2. g[n][k] = g[n - 1][k] BY <4>1, <4>2, <4>3, <6>1
          <6>3. QED BY <2>1, <3>3, <6>1, <6>2
        <5>3. QED BY <5>1, <5>2
      <4>6. g[n] \in Seq(A) BY <1>1, <2>2 DEF KeptAt, N
      <4>7. QED BY <4>4, <4>5, <4>6
    <3> HIDE DEF i, Till
    <3>6. m + 1 \in Nat
      OBVIOUS
    <3>7. QED BY <2>2, <3>4, <3>5, <3>6
  <2>5. QED BY <2>3, <2>4
<1>5. N \in T
  <2> HIDE DEF T
  <2>1. 0..N \subseteq T BY <1>2, <1>3, <1>4, UpTo
  <2>2. QED BY <1>2, <2>1
<1>6. Good(N) BY <1>5
<1>7. PICK m \in Nat : \E h : Lists(h, m, Till(N)) /\ g[N] = [k \in 1..m |-> seq[h[k]]] BY <1>6
<1>8. PICK h : Lists(h, m, Till(N)) /\ g[N] = [k \in 1..m |-> seq[h[k]]] BY <1>7
<1>9. KeepsAt(h, m, seq, S) BY <1>2, <1>8 DEF KeepsAt, N
<1>10. QED BY <1>9

-----------------------------------------------------------------------------
(* Sets in an order.                                                       *)

\* R is a strict total order of S.
Orders(R, S) ==
  /\ \A x \in S : <<x, x>> \notin R
  /\ \A x, y, z \in S : <<x, y>> \in R /\ <<y, z>> \in R => <<x, z>> \in R
  /\ \A x, y \in S : x = y \/ <<x, y>> \in R \/ <<y, x>> \in R
Arranges(a, S, R) ==
  /\ a \in [1..Cardinality(S) -> S]
  /\ \A i, j \in 1..Cardinality(S) : i < j => <<a[i], a[j]>> \in R
  /\ \A x \in S : \E i \in 1..Cardinality(S) : a[i] = x

\* The following member is the one with as many before it.
LEMMA Ranks ==
  ASSUME NEW S, IsFiniteSet(S), NEW R, Orders(R, S)
  PROVE  LET rank(x) == Cardinality({y \in S : <<y, x>> \in R})
         IN /\ \A x, y \in S : <<x, y>> \in R <=> rank(x) < rank(y)
            /\ \A k \in 1..Cardinality(S) : \E x \in S : rank(x) = k - 1
            /\ \A x \in S : rank(x) \in Nat /\ rank(x) < Cardinality(S)
<1> DEFINE before(x) == {y \in S : <<y, x>> \in R}
           rank(x) == Cardinality(before(x))
           n == Cardinality(S)
<1>1. n \in Nat /\ \A T \in SUBSET S : IsFiniteSet(T) /\ Cardinality(T) \in Nat /\ Cardinality(T) <= n
  BY FS_CardinalityType, FS_Subset
<1>2. \A x \in S : before(x) \in SUBSET S /\ IsFiniteSet(before(x)) /\ rank(x) \in Nat BY <1>1
<1>3. ASSUME NEW x \in S PROVE rank(x) < n
  <2>1. before(x) \in SUBSET (S \ {x}) BY DEF Orders
  <2>2. IsFiniteSet(S \ {x}) /\ Cardinality(S \ {x}) = n - 1 BY FS_RemoveElement
  <2> HIDE DEF before
  <2>3. Cardinality(before(x)) <= n - 1 BY <2>1, <2>2, FS_Subset
  <2>4. QED BY <1>1, <1>2, <2>3
<1>4. ASSUME NEW x \in S, NEW y \in S, <<x, y>> \in R PROVE rank(x) < rank(y)
  <2>1. before(x) \subseteq before(y) /\ x \in before(y) /\ x \notin before(x) BY <1>4 DEF Orders
  <2>2. before(x) \in SUBSET before(y) /\ before(x) # before(y) BY <2>1
  <2> HIDE DEF before
  <2>3. Cardinality(before(x)) <= Cardinality(before(y)) /\ Cardinality(before(x)) # Cardinality(before(y))
    BY <1>2, <2>2, FS_Subset
  <2>4. QED BY <1>2, <2>3
<1>5. ASSUME NEW x \in S, NEW y \in S PROVE <<x, y>> \in R <=> rank(x) < rank(y)
  <2>1. x = y \/ <<x, y>> \in R \/ <<y, x>> \in R BY DEF Orders
  <2>2. x = y => <<x, y>> \notin R BY DEF Orders
  <2>3. rank(x) \in Nat /\ rank(y) \in Nat BY <1>2
  <2>4. (<<x, y>> \in R => rank(x) < rank(y)) /\ (<<y, x>> \in R => rank(y) < rank(x)) BY <1>4
  <2> HIDE DEF rank
  <2>5. QED BY <2>1, <2>2, <2>3, <2>4
<1>6. ASSUME NEW k \in 1..n PROVE \E x \in S : rank(x) = k - 1
  <2> DEFINE f == [x \in S |-> rank(x)]
  <2>1. f \in [S -> 0..(n - 1)]
    <3>1. n \in Nat /\ \A x \in S : rank(x) \in Nat /\ rank(x) < n BY <1>1, <1>2, <1>3
    <3> HIDE DEF rank, n
    <3>2. \A x \in S : rank(x) \in 0..(n - 1) BY <3>1
    <3>3. QED BY <3>2
  <2>2. \A x, y \in S : f[x] = f[y] => x = y
    <3>1. ASSUME NEW x \in S, NEW y \in S, f[x] = f[y] PROVE x = y
      <4>1. x = y \/ <<x, y>> \in R \/ <<y, x>> \in R BY DEF Orders
      <4>2. rank(x) \in Nat /\ rank(x) = rank(y) BY <1>2, <3>1
      <4>3. (<<x, y>> \in R => rank(x) < rank(y)) /\ (<<y, x>> \in R => rank(y) < rank(x)) BY <1>4
      <4> HIDE DEF rank
      <4>4. QED BY <4>1, <4>2, <4>3
    <3>2. QED BY <3>1
  <2>3. f \in Injection(S, 0..(n - 1))
    <3> HIDE DEF f
    <3>1. QED BY <2>1, <2>2 DEF Injection, IsInjective
  <2>4. IsFiniteSet(0..(n - 1)) /\ Cardinality(0..(n - 1)) = n
    <3>1. n \in Nat BY <1>1
    <3> HIDE DEF n
    <3>2. 0 \in Int /\ n - 1 \in Int BY <3>1
    <3>3. IsFiniteSet(0..(n - 1)) /\ Cardinality(0..(n - 1)) = IF 0 > n - 1 THEN 0 ELSE (n - 1) - 0 + 1
      BY <3>2, FS_Interval
    <3>4. QED BY <3>1, <3>3
  <2>5. f \in Surjection(S, 0..(n - 1))
    <3> HIDE DEF f
    <3>1. QED BY <2>3, <2>4, FS_Injection
  <2>6. k - 1 \in 0..(n - 1) BY <1>1
  <2>7. \E x \in S : f[x] = k - 1
    <3> HIDE DEF f
    <3>1. QED BY <2>5, <2>6 DEF Surjection
  <2>8. QED BY <2>7
<1>7. QED BY <1>2, <1>3, <1>5, <1>6

LEMMA ArrangedIs ==
  ASSUME NEW S, IsFiniteSet(S), NEW R, Orders(R, S)
  PROVE  Arranges(Arranged(S, R), S, R)
<1> DEFINE rank(x) == Cardinality({y \in S : <<y, x>> \in R})
           N == Cardinality(S)
           following(k) == CHOOSE x \in S : rank(x) = k - 1
           IsPlaced(g) == g = [n \in 0..N |-> IF n = 0 THEN <<>> ELSE Append(g[n - 1], following(n))]
           placed == CHOOSE g : IsPlaced(g)
           a == [k \in 1..N |-> following(k)]
<1>1. N \in Nat BY FS_CardinalityType
<1>2. /\ \A x, y \in S : <<x, y>> \in R <=> rank(x) < rank(y)
      /\ \A k \in 1..N : \E x \in S : rank(x) = k - 1
      /\ \A x \in S : rank(x) \in Nat /\ rank(x) < N
  BY Ranks
<1>3. Arranged(S, R) = placed[N] BY DEF Arranged
<1> HIDE DEF N, rank
<1>4. ASSUME NEW k \in 1..N PROVE following(k) \in S /\ rank(following(k)) = k - 1 BY <1>2
<1> HIDE DEF following
<1>5. ASSUME NEW n \in 1..N
      PROVE  [k \in 1..n |-> following(k)] = Append([k \in 1..(n - 1) |-> following(k)], following(n))
  <2> DEFINE s == [k \in 1..(n - 1) |-> following(k)]
             t == [k \in 1..n |-> following(k)]
  <2>1. n \in Nat /\ n - 1 \in Nat /\ \A k \in 1..n : k \in 1..N BY <1>1
  <2>2. s \in Seq(S) /\ Len(s) = n - 1 /\ t \in Seq(S) /\ Len(t) = n /\ following(n) \in S
    BY <1>4, <2>1
  <2>3. Append(s, following(n)) \in Seq(S) /\ Len(Append(s, following(n))) = n BY <2>1, <2>2
  <2>4. ASSUME NEW k \in 1..n PROVE t[k] = Append(s, following(n))[k]
    <3>1. CASE k = n BY <2>1, <2>2, <3>1
    <3>2. CASE k # n BY <2>1, <2>2, <3>2
    <3>3. QED BY <3>1, <3>2
  <2> HIDE DEF s, t
  <2>5. t = Append(s, following(n)) BY <2>2, <2>3, <2>4, SeqEqual
  <2>6. QED BY <2>5 DEF s, t
<1>6. IsPlaced([n \in 0..N |-> [k \in 1..n |-> following(k)]])
  <2> DEFINE g == [n \in 0..N |-> [k \in 1..n |-> following(k)]]
  <2>1. ASSUME NEW n \in 0..N
        PROVE  g[n] = IF n = 0 THEN <<>> ELSE Append(g[n - 1], following(n))
    <3>1. CASE n = 0 BY <3>1
    <3>2. CASE n # 0
      <4>1. n \in 1..N /\ n - 1 \in 0..N BY <1>1, <3>2
      <4>2. QED BY <1>5, <3>2, <4>1
    <3>3. QED BY <3>1, <3>2
  <2>2. g = [n \in 0..N |-> IF n = 0 THEN <<>> ELSE Append(g[n - 1], following(n))]
    <3>1. g = [n \in 0..N |-> g[n]]
      OBVIOUS
    <3> HIDE DEF g
    <3>2. QED BY <2>1, <3>1
  <2>3. QED BY <2>2
<1>7. IsPlaced(placed)
  <2> HIDE DEF IsPlaced
  <2>1. QED BY <1>6
<1> HIDE DEF placed
<1>8. placed[N] = a
  <2> DEFINE T == {n \in 0..N : placed[n] = [k \in 1..n |-> following(k)]}
  <2>1. /\ placed[0] = <<>>
        /\ \A n \in 1..N : placed[n] = Append(placed[n - 1], following(n))
    <3>1. 0 \in 0..N /\ \A n \in 1..N : n \in 0..N /\ n # 0 BY <1>1
    <3>2. \A n \in 0..N : placed[n] = IF n = 0 THEN <<>> ELSE Append(placed[n - 1], following(n))
      BY <1>7
    <3>3. QED BY <3>1, <3>2
  <2>2. 0 \in T BY <1>1, <2>1
  <2>3. ASSUME NEW n \in 1..N, n - 1 \in T PROVE n \in T
    <3>1. placed[n - 1] = [k \in 1..(n - 1) |-> following(k)] /\ n \in 0..N BY <1>1, <2>3
    <3>2. placed[n] = Append([k \in 1..(n - 1) |-> following(k)], following(n)) BY <2>1, <3>1
    <3>3. placed[n] = [k \in 1..n |-> following(k)] BY <1>5, <3>2
    <3>4. QED BY <3>1, <3>3
  <2>4. 0..N \subseteq T
    <3> HIDE DEF T
    <3>1. QED BY <1>1, <2>2, <2>3, UpTo
  <2>5. N \in 0..N BY <1>1
  <2>6. QED BY <2>4, <2>5
<1>9. a \in [1..N -> S] /\ \A k \in 1..N : rank(a[k]) = k - 1 BY <1>4
<1>10. ASSUME NEW i \in 1..N, NEW j \in 1..N, i < j PROVE <<a[i], a[j]>> \in R
  <2>1. a[i] \in S /\ a[j] \in S /\ rank(a[i]) = i - 1 /\ rank(a[j]) = j - 1 BY <1>9
  <2> HIDE DEF a
  <2>2. rank(a[i]) < rank(a[j]) BY <1>10, <2>1
  <2>3. QED BY <1>2, <2>1, <2>2
<1>11. ASSUME NEW x \in S PROVE \E i \in 1..N : a[i] = x
  <2>1. rank(x) \in Nat /\ rank(x) < N BY <1>2
  <2> DEFINE i == rank(x) + 1
  <2>2. i \in 1..N /\ i - 1 = rank(x) BY <1>1, <2>1
  <2>3. a[i] \in S /\ rank(a[i]) = rank(x) BY <1>9, <2>2
  <2>4. a[i] = x
    <3>1. ~ (rank(a[i]) < rank(x)) /\ ~ (rank(x) < rank(a[i])) BY <2>1, <2>3
    <3> HIDE DEF a, i
    <3>2. <<a[i], x>> \notin R /\ <<x, a[i]>> \notin R BY <1>2, <2>3, <3>1
    <3>3. QED BY <2>3, <3>2 DEF Orders
  <2>5. QED BY <2>2, <2>4
<1> HIDE DEF a
<1>12. Arranges(a, S, R) BY <1>9, <1>10, <1>11 DEF Arranges, N
<1>13. QED BY <1>3, <1>8, <1>12

-----------------------------------------------------------------------------
(* Choosing.                                                               *)

\* T are the places that are taken.
Takes(T, n, max, repeats) ==
  /\ T \subseteq 1..n
  /\ \A k \in 1..n : k \in T <=> /\ Cardinality(T \cap (1..(k - 1))) < max
                                 /\ \A j \in T \cap (1..(k - 1)) : <<j, k>> \notin repeats

LEMMA TakeBestIs ==
  ASSUME NEW V, NEW best \in Seq(V), NEW max, NEW repeats
  PROVE  \E T : Takes(T, Len(best), max, repeats) /\ TakeBest(best, max, repeats) = Kept(best, T)
<1> DEFINE n == Len(best)
           Ok(U, k) == Cardinality(U) < max /\ \A j \in U : <<j, k>> \notin repeats
           step(U, k) == IF Ok(U, k) THEN U \cup {k} ELSE U
           IsTaken(f) == f = [k \in DOMAIN best |->
                                LET before == {j \in 1..(k - 1) : f[j]}
                                IN Cardinality(before) < max /\ \A j \in before : <<j, k>> \notin repeats]
           taken == CHOOSE f : IsTaken(f)
<1>1. n \in Nat /\ DOMAIN best = 1..n
  OBVIOUS
<1>2. TakeBest(best, max, repeats) = Kept(best, {k \in DOMAIN best : taken[k]}) BY DEF TakeBest
<1> HIDE DEF n
<1>3. PICK g : g \in [0..n -> SUBSET (1..n)] /\ g[0] = {} /\ \A k \in 1..n : g[k] = step(g[k - 1], k)
  <2> DEFINE F == [x \in (1..n) \X SUBSET (1..n) |-> step(x[2], x[1])]
  <2>1. \A k \in 1..n, U \in SUBSET (1..n) : step(U, k) \in SUBSET (1..n)
    <3> HIDE DEF Ok
    <3>1. QED
      OBVIOUS
  <2> HIDE DEF step
  <2>2. F \in [(1..n) \X SUBSET (1..n) -> SUBSET (1..n)] /\ \A k \in 1..n, U \in SUBSET (1..n) : F[<<k, U>>] = step(U, k)
    BY <2>1
  <2> HIDE DEF F
  <2>3. HasCourse(n, SUBSET (1..n), {}, F) BY <1>1, <2>2, StepByStep
  <2>4. PICK g : g \in [0..n -> SUBSET (1..n)] /\ g[0] = {} /\ \A k \in 1..n : g[k] = F[<<k, g[k - 1]>>]
    BY <2>3 DEF HasCourse, Course
  <2>5. \A k \in 1..n : k - 1 \in 0..n BY <1>1
  <2>6. \A k \in 1..n : g[k] = step(g[k - 1], k) BY <2>2, <2>4, <2>5
  <2>7. QED BY <2>4, <2>6
<1> DEFINE T == {k \in 1..n : k \in g[k]}
<1>4. \A k \in 0..n : g[k] = T \cap (1..k)
  <2> DEFINE W == {k \in 0..n : g[k] = T \cap (1..k)}
  <2>1. 0 \in W BY <1>1, <1>3
  <2>2. ASSUME NEW k \in 1..n, k - 1 \in W PROVE k \in W
    <3>1. /\ g[k - 1] = T \cap (1..(k - 1)) /\ k \in Nat /\ k \in 0..n
          /\ 1..k = (1..(k - 1)) \cup {k} /\ k \notin 1..(k - 1)
      BY <1>1, <2>2
    <3>2. g[k] = g[k - 1] \/ g[k] = g[k - 1] \cup {k} BY <1>3
    <3>3. k \in T <=> k \in g[k]
      OBVIOUS
    <3> HIDE DEF T
    <3>4. g[k] = T \cap (1..k) BY <3>1, <3>2, <3>3
    <3>5. QED BY <3>1, <3>4
  <2>3. 0..n \subseteq W
    <3> HIDE DEF W
    <3>1. QED BY <1>1, <2>1, <2>2, UpTo
  <2>4. QED BY <2>3
<1>5. ASSUME NEW k \in 1..n PROVE k \in T <=> Ok(T \cap (1..(k - 1)), k)
  <2>1. k - 1 \in 0..n /\ k \notin 1..(k - 1) BY <1>1
  <2>2. g[k - 1] = T \cap (1..(k - 1)) BY <1>4, <2>1
  <2>3. k \in T <=> k \in g[k]
    OBVIOUS
  <2>4. g[k] = step(g[k - 1], k) BY <1>3
  <2> HIDE DEF T, Ok
  <2>5. QED BY <2>1, <2>2, <2>3, <2>4
<1>6. IsTaken([k \in DOMAIN best |-> k \in T])
  <2> DEFINE f == [k \in DOMAIN best |-> k \in T]
  <2>1. ASSUME NEW k \in 1..n
        PROVE  (k \in T) = LET before == {j \in 1..(k - 1) : f[j]}
                           IN Cardinality(before) < max /\ \A j \in before : <<j, k>> \notin repeats
    <3>1. \A j \in 1..(k - 1) : j \in DOMAIN best BY <1>1
    <3> DEFINE B == {j \in 1..(k - 1) : f[j]}
    <3>2. B = T \cap (1..(k - 1))
      <4> HIDE DEF T
      <4>1. QED BY <3>1
    <3>3. k \in T <=> Cardinality(B) < max /\ \A j \in B : <<j, k>> \notin repeats
      <4> HIDE DEF T, B
      <4>1. QED BY <1>5, <3>2
    <3> HIDE DEF T, f
    <3>4. QED BY <3>3
  <2> HIDE DEF T
  <2>2. QED BY <1>1, <2>1
<1> HIDE DEF IsTaken
<1>7. IsTaken(taken) BY <1>6
<1> HIDE DEF taken
<1> DEFINE P == {k \in DOMAIN best : taken[k]}
<1>8. \A k \in 1..n : taken[k] = LET before == {j \in 1..(k - 1) : taken[j]}
                                 IN Cardinality(before) < max /\ \A j \in before : <<j, k>> \notin repeats
  BY <1>1, <1>7 DEF IsTaken
<1>9. P \subseteq 1..n /\ \A k \in 1..n : k \in P <=> taken[k] BY <1>1
<1>10. ASSUME NEW k \in 1..n
       PROVE  k \in P <=> /\ Cardinality(P \cap (1..(k - 1))) < max
                          /\ \A j \in P \cap (1..(k - 1)) : <<j, k>> \notin repeats
  <2>1. \A j \in 1..(k - 1) : j \in 1..n BY <1>1
  <2>2. {j \in 1..(k - 1) : taken[j]} = P \cap (1..(k - 1))
    <3> HIDE DEF P
    <3>1. QED BY <1>9, <2>1
  <2> HIDE DEF P
  <2>3. QED BY <1>8, <1>9, <2>2
<1> HIDE DEF P
<1>11. Takes(P, n, max, repeats) BY <1>9, <1>10 DEF Takes
<1>12. QED BY <1>2, <1>11 DEF n, P

LEMMA RangeIsFinite == ASSUME NEW A, NEW s \in Seq(A) PROVE IsFiniteSet(Range(s))
<1>1. s \in Surjection(DOMAIN s, Range(s)) /\ DOMAIN s = 1..Len(s) /\ Len(s) \in Nat
  BY DEF Surjection, Range
<1> HIDE DEF Range
<1>2. IsFiniteSet(DOMAIN s) BY <1>1, FS_Interval
<1>3. QED BY <1>1, <1>2, FS_Surjection

\* Better orders articles that differ in their identity.
Ratable(A) ==
  /\ \A v \in A : v.score \in Int /\ v.at \in Int /\ v.id \in Int
  /\ \A v, w \in A : v.id = w.id => v = w
LEMMA BetterOrders ==
  ASSUME NEW A, Ratable(A)
  PROVE  Orders({p \in A \X A : Better(p[1], p[2])}, A)
<1> DEFINE R == {p \in A \X A : Better(p[1], p[2])}
<1>1. \A v, w \in A : <<v, w>> \in R <=> Better(v, w)
  OBVIOUS
<1> HIDE DEF R
<1>2. \A v \in A : ~ Better(v, v) BY DEF Better, Ratable
<1>3. \A u, v, w \in A : Better(u, v) /\ Better(v, w) => Better(u, w) BY DEF Better, Ratable
<1>4. \A v, w \in A : v = w \/ Better(v, w) \/ Better(w, v) BY DEF Better, Ratable
<1> HIDE DEF Better
<1>5. Orders(R, A) BY <1>1, <1>2, <1>3, <1>4 DEF Orders
<1>6. QED BY <1>5 DEF R

LEMMA RankedIs ==
  ASSUME NEW A, NEW s \in Seq(A), Ratable(Range(s))
  PROVE  LET best == Ranked(s)
             n == Cardinality(Range(s))
         IN /\ n \in Nat /\ best \in [1..n -> Range(s)]
            /\ \A i, j \in 1..n : i < j => Better(best[i], best[j])
            /\ \A v \in Range(s) : \E i \in 1..n : best[i] = v
<1> DEFINE all == Range(s)
           R == {p \in all \X all : Better(p[1], p[2])}
           best == Ranked(s)
           n == Cardinality(all)
<1>1. best = Arranged(all, R) BY DEF Ranked, Range
<1>2. IsFiniteSet(all) BY RangeIsFinite
<1>3. Orders(R, all)
  <2> HIDE DEF all
  <2>1. QED BY BetterOrders DEF all
<1>4. \A v, w \in all : <<v, w>> \in R <=> Better(v, w)
  OBVIOUS
<1> HIDE DEF R, all, best
<1>5. Arranges(best, all, R) BY <1>1, <1>2, <1>3, ArrangedIs
<1> HIDE DEF n
<1>6. /\ best \in [1..n -> all]
      /\ \A i, j \in 1..n : i < j => <<best[i], best[j]>> \in R
      /\ \A v \in all : \E i \in 1..n : best[i] = v
  BY <1>5 DEF Arranges, n
<1>7. n \in Nat BY <1>2, FS_CardinalityType DEF n
<1>8. \A i, j \in 1..n : i < j => Better(best[i], best[j])
  <2>1. \A i \in 1..n : best[i] \in all BY <1>6
  <2> HIDE DEF Better
  <2>2. QED BY <1>4, <1>6, <2>1
<1>9. QED BY <1>6, <1>7, <1>8 DEF best, n, all

\* What a list of numbers tells about how many there are.
LEMMA ListedAre ==
  ASSUME NEW h, NEW m \in Nat, NEW P, Lists(h, m, P), P \subseteq Nat
  PROVE  /\ IsFiniteSet(P) /\ Cardinality(P) = m
         /\ \A k \in 1..m : h[k] \in P
<1>1. h \in [1..m -> P] /\ \A x \in P : \E k \in 1..m : h[k] = x BY DEF Lists
<1>2. \A i, j \in 1..m : h[i] = h[j] => i = j
  <2>1. ASSUME NEW i \in 1..m, NEW j \in 1..m, h[i] = h[j], i # j PROVE FALSE
    <3>1. h[i] \in Nat /\ h[j] \in Nat BY <1>1
    <3>2. i < j \/ j < i BY <2>1
    <3>3. QED BY <2>1, <3>1, <3>2 DEF Lists
  <2>2. QED BY <2>1
<1>3. h \in Bijection(1..m, P) BY <1>1, <1>2 DEF Bijection, Injection, Surjection, IsInjective
<1>4. IsFiniteSet(1..m) /\ Cardinality(1..m) = m BY FS_Interval
<1>5. IsFiniteSet(P) /\ Cardinality(P) = Cardinality(1..m)
  BY <1>3, <1>4, FS_Bijection DEF ExistsBijection
<1>6. QED BY <1>1, <1>4, <1>5

\* What TakeBest returns: the best that do not repeat a better one, up to max.
LEMMA ChosenIsBest ==
  ASSUME NEW A, NEW s \in Seq(A), Ratable(Range(s)), NEW max \in Nat
  PROVE  LET chosen == Chosen(s, max)
             in == Range(chosen)
         IN /\ chosen \in Seq(Range(s)) /\ Len(chosen) = Cardinality(in)
            /\ Len(chosen) \in 0..max /\ (s # <<>> /\ max > 0 => Len(chosen) > 0)
            /\ \A v, w \in in : v # w => ~ SameStory(s, v, w)
            /\ \A v \in Range(s) \ in :
                 \/ \E w \in in : Better(w, v) /\ SameStory(s, v, w)
                 \/ Len(chosen) = max /\ \A w \in in : Better(w, v)
<1> DEFINE all == Range(s)
           best == Ranked(s)
           n == Cardinality(all)
           same(j, k) == SameStory(s, best[j], best[k])
           repeats == {p \in Pairs(best) : same(p[1], p[2])}
           chosen == Chosen(s, max)
           in == Range(chosen)
<1>1. /\ n \in Nat /\ best \in [1..n -> all]
      /\ \A i, j \in 1..n : i < j => Better(best[i], best[j])
      /\ \A v \in all : \E i \in 1..n : best[i] = v
  <2> HIDE DEF all, best
  <2>1. QED BY RankedIs DEF all, best
<1>2. \A v \in all : ~ Better(v, v) BY DEF Better, Ratable
<1>3. \A v, w : SameStory(s, v, w) <=> SameStory(s, w, v) BY DEF SameStory
<1>4. chosen = TakeBest(best, max, repeats) BY DEF Chosen
<1> HIDE DEF all, best, chosen
<1>5. best \in Seq(all) /\ Len(best) = n
  <2> HIDE DEF n
  <2>1. QED BY <1>1
<1> HIDE DEF n
<1>6. \A j, k \in 1..n : j < k => (<<j, k>> \in repeats <=> same(j, k))
  <2> HIDE DEF same
  <2>1. QED BY <1>5 DEF Pairs
<1> HIDE DEF repeats, Better, SameStory
<1>7. PICK T : Takes(T, n, max, repeats) /\ chosen = Kept(best, T) BY <1>4, <1>5, TakeBestIs
<1>8. T \subseteq 1..n /\ T \subseteq Nat /\ T \cap (1..Len(best)) = T
  <2>1. T \subseteq 1..n BY <1>7 DEF Takes
  <2>2. T \subseteq Nat BY <1>1, <2>1
  <2>3. T \cap (1..n) = T BY <2>1
  <2>4. QED BY <1>5, <2>1, <2>2, <2>3
<1>9. PICK m \in Nat : \E h : Lists(h, m, T) /\ chosen = [k \in 1..m |-> best[h[k]]]
  <2>1. PICK m \in Nat : \E h : KeepsAt(h, m, best, T) BY <1>5, KeptIs
  <2>2. PICK h : KeepsAt(h, m, best, T) BY <2>1
  <2>3. Lists(h, m, T) /\ chosen = [k \in 1..m |-> best[h[k]]] BY <1>7, <1>8, <2>2 DEF KeepsAt
  <2>4. QED BY <2>3
<1>10. PICK h : Lists(h, m, T) /\ chosen = [k \in 1..m |-> best[h[k]]] BY <1>9
<1>11. /\ IsFiniteSet(T) /\ Cardinality(T) = m /\ h \in [1..m -> T]
       /\ \A i, j \in 1..m : i < j => h[i] < h[j]
       /\ \A x \in T : \E k \in 1..m : h[k] = x
  BY <1>8, <1>10, ListedAre DEF Lists
<1>12. chosen \in [1..m -> all] /\ chosen \in Seq(all) /\ Len(chosen) = m
  <2>1. \A k \in 1..m : best[h[k]] \in all BY <1>1, <1>8, <1>11
  <2>2. chosen \in [1..m -> all] BY <1>10, <2>1
  <2>3. QED BY <2>2
<1>13. /\ \A v \in in : \E k \in T : v = best[k]
       /\ \A k \in T : best[k] \in in
  <2>1. in = {chosen[k] : k \in 1..m} BY <1>12 DEF Range
  <2> HIDE DEF in
  <2>2. QED BY <1>10, <1>11, <2>1
<1>14. Cardinality(in) = m
  <2>1. \A i, j \in 1..m : chosen[i] = chosen[j] => i = j
    <3>1. ASSUME NEW i \in 1..m, NEW j \in 1..m, i < j PROVE chosen[i] # chosen[j]
      <4>1. h[i] \in 1..n /\ h[j] \in 1..n /\ h[i] < h[j] BY <1>8, <1>11, <3>1
      <4>2. Better(chosen[i], chosen[j]) /\ chosen[i] \in all BY <1>1, <1>10, <1>12, <4>1
      <4>3. QED BY <1>2, <4>2
    <3>2. \A i, j \in 1..m : i < j \/ j < i \/ i = j BY <1>9
    <3>3. QED BY <3>1, <3>2
  <2>2. in = {chosen[k] : k \in 1..m} BY <1>12 DEF Range
  <2> HIDE DEF in
  <2>3. chosen \in Bijection(1..m, in)
    <3>1. chosen \in [1..m -> in] BY <1>12, <2>2
    <3>2. \A v \in in : \E k \in 1..m : chosen[k] = v BY <2>2
    <3>3. QED BY <2>1, <3>1, <3>2 DEF Bijection, Injection, Surjection, IsInjective
  <2>4. IsFiniteSet(1..m) /\ Cardinality(1..m) = m BY <1>9, FS_Interval
  <2>5. QED BY <2>3, <2>4, FS_Bijection DEF ExistsBijection
<1>15. m <= max
  <2>1. CASE m = 0 BY <2>1
  <2>2. CASE m # 0
    <3>1. m \in 1..m BY <1>9, <2>2
    <3> DEFINE k == h[m]
    <3>2. k \in T /\ k \in 1..n /\ k \in Nat BY <1>8, <1>11, <3>1
    <3>3. \A x \in T : x = k \/ x < k
      <4>1. ASSUME NEW x \in T PROVE x = k \/ x < k
        <5>1. PICK j \in 1..m : h[j] = x BY <1>11
        <5>2. j = m \/ j < m BY <1>9
        <5>3. QED BY <1>11, <3>1, <5>1, <5>2
      <4>2. QED BY <4>1
    <3> HIDE DEF k
    <3>4. T \cap (1..(k - 1)) = T \ {k} BY <1>8, <3>2, <3>3
    <3>5. Cardinality(T \ {k}) = m - 1 BY <1>11, <3>2, FS_RemoveElement
    <3>6. Cardinality(T \cap (1..(k - 1))) < max BY <1>7, <3>2 DEF Takes
    <3>7. m - 1 < max BY <3>4, <3>5, <3>6
    <3>8. QED BY <1>9, <3>7
  <2>3. QED BY <2>1, <2>2
<1>16. ASSUME s # <<>>, max > 0 PROVE m > 0
  <2>1. 1 \in 1..Len(s) /\ s[1] \in all BY <1>16 DEF all, Range
  <2>2. 1 \in 1..n BY <1>1, <2>1
  <2>3. T \cap (1..(1 - 1)) = {} BY <1>8
  <2>4. Cardinality({}) = 0 BY FS_EmptySet
  <2>5. 1 \in T BY <1>7, <1>16, <2>2, <2>3, <2>4 DEF Takes
  <2>6. QED BY <1>9, <1>11, <2>5
<1>17. ASSUME NEW v \in in, NEW w \in in, v # w PROVE ~ SameStory(s, v, w)
  <2>1. ASSUME NEW j \in T, NEW k \in T, j < k PROVE ~ same(j, k)
    <3>1. j \in 1..n /\ k \in 1..n /\ j \in T \cap (1..(k - 1)) BY <1>8, <2>1
    <3>2. <<j, k>> \notin repeats BY <1>7, <2>1, <3>1 DEF Takes
    <3> HIDE DEF same
    <3>3. QED BY <1>6, <2>1, <3>1, <3>2
  <2>2. PICK j \in T : v = best[j] BY <1>13
  <2>3. PICK k \in T : w = best[k] BY <1>13
  <2>4. j < k \/ k < j BY <1>8, <1>17, <2>2, <2>3
  <2>5. QED BY <1>3, <2>1, <2>2, <2>3, <2>4
<1>18. ASSUME NEW v \in all \ in
       PROVE  \/ \E w \in in : Better(w, v) /\ SameStory(s, v, w)
              \/ m = max /\ \A w \in in : Better(w, v)
  <2>1. PICK k \in 1..n : best[k] = v BY <1>1
  <2>2. k \notin T BY <1>13, <1>18, <2>1
  <2> DEFINE U == T \cap (1..(k - 1))
  <2>3. \A j \in U : j \in 1..n /\ j < k /\ j \in T /\ Better(best[j], v) BY <1>1, <1>8, <2>1
  <2>4. CASE \E j \in U : <<j, k>> \in repeats
    <3>1. PICK j \in U : <<j, k>> \in repeats BY <2>4
    <3>2. j \in 1..n /\ j < k /\ j \in T /\ Better(best[j], v) BY <2>3, <3>1
    <3>3. same(j, k)
      <4> HIDE DEF same
      <4>1. QED BY <1>6, <3>1, <3>2
    <3>4. best[j] \in in /\ SameStory(s, v, best[j]) BY <1>3, <1>13, <2>1, <3>2, <3>3
    <3>5. QED BY <3>2, <3>4
  <2>5. CASE ~ \E j \in U : <<j, k>> \in repeats
    <3>1. ~ (Cardinality(U) < max) BY <1>7, <2>2, <2>5 DEF Takes
    <3>2. U \in SUBSET T
      OBVIOUS
    <3> HIDE DEF U
    <3>3. /\ Cardinality(U) \in Nat /\ Cardinality(U) <= Cardinality(T)
          /\ Cardinality(U) = Cardinality(T) => U = T
      BY <1>11, <3>2, FS_Subset, FS_CardinalityType
    <3>4. U = T /\ m = max BY <1>9, <1>11, <1>15, <3>1, <3>3
    <3>5. \A w \in in : Better(w, v) BY <1>13, <2>3, <3>4
    <3>6. QED BY <3>4, <3>5
  <2>6. QED BY <2>4, <2>5
<1>19. Len(chosen) \in 0..max BY <1>9, <1>12, <1>15
<1> HIDE DEF in
<1>20. QED BY <1>12, <1>14, <1>16, <1>17, <1>18, <1>19 DEF chosen, in, all
-----------------------------------------------------------------------------
(* The invariant.                                                          *)

Types ==
  /\ site \in Sites
  /\ source \in [Sources -> [rows : 0..2, enabled : BOOLEAN]]
  /\ feed \in [Sources -> Nat] /\ \A n \in Sources : feed[n] \in DOMAIN site.feeds[n]
  /\ article \in Seq(Article)
  /\ episode \in Seq([planned : SUBSET DOMAIN article, added : SUBSET DOMAIN article])
  /\ call \in [Processes -> Call]
  /\ excused \subseteq DOMAIN article
  /\ spent \in [requests : 0..site.requestLimit, faults : 0..site.faultLimit]

\* A call has what its step needs.
Fits(c) ==
  /\ c.kind = "idle" => c.pc = "idle"
  /\ c.pc \in {"collect", "check", "source"} => c.kind = "import"
  /\ c.pc = "insert" => c.kind \in {"import", "enter", "post"}
  /\ c.kind = "import" => c.sources # <<>>
  /\ c.pc \in {"check", "source", "insert"} => c.items # <<>>
  /\ c.pc \in AnalysisPc => /\ c.kind \in {"plan", "summarize", "classify"}
                            /\ c.at \in 1..Len(c.list) /\ c.errors < c.at
  /\ c.pc \in PlanPc => c.kind = "plan" /\ c.list # <<>>
  /\ c.at \in 0..Len(c.list) /\ c.errors <= Len(c.list)

\* What it has loaded and chosen is among the first n articles.
Loads(c, n) ==
  /\ \A k \in DOMAIN c.list : c.list[k].id \in 1..n
  /\ \A k \in DOMAIN c.chosen : \E j \in DOMAIN c.list : c.list[j].id = c.chosen[k]

\* Past its check and with a URL that is taken, it knows that it came too late.
Informed(c) == c.pc \in {"source", "insert"} /\ UrlTaken(Head(c.items)) => c.late

\* Nothing that a plan has loaded gets selected, unless another plan loaded it, too.
Open(c) ==
  c.kind = "plan" => \A k \in DOMAIN c.list :
    c.list[k].id \notin excused => article[c.list[k].id].status # "selected"
\* What was selected when it was read remains selected.
Agrees(c) ==
  \A k \in DOMAIN c.list :
    c.list[k].id \notin excused /\ c.list[k].row.status = "selected"
    => article[c.list[k].id].status = "selected"

Sound(c, n) == c \in Call /\ Fits(c) /\ Loads(c, n)
Good(c) == Sound(c, Len(article)) /\ Informed(c) /\ Open(c) /\ Agrees(c)

Inv == /\ Types /\ OneRowPerUrl /\ PlannedOnce
       /\ \A p \in Processes : Good(call[p])

-----------------------------------------------------------------------------
(* Values.                                                                 *)

LEMMA TagsAreFew == IsFiniteSet(AllowedTags) /\ \A T \in SUBSET AllowedTags : Cardinality(T) \in Nat
<1>1. AllowedTags = (({"LLM"} \cup {"Security"}) \cup {"Cloud"}) \cup {"Hardware"}
  BY DEF AllowedTags
<1>2. IsFiniteSet(AllowedTags) BY <1>1, FS_Singleton, FS_Union
<1>3. QED BY <1>2, FS_Subset, FS_CardinalityType

LEMMA CanonicalType == ASSUME NEW terms PROVE Canonical(terms) \in SUBSET AllowedTags
  BY DEF Canonical

LEMMA Whole ==
  ASSUME NEW h \in Nat, h <= 10000, NEW l \in 0..100, NEW r \in Nat, h = 100 * l + r
  PROVE  l = 100 => r = 0
  OBVIOUS
LEMMA ScoreType ==
  ASSUME NEW at \in Nat, NEW label, NEW T \in SUBSET AllowedTags
  PROVE  ImportanceScore(at, label, Cardinality(T)) \in 0..100
<1> DEFINE c == Cardinality(T)
<1>1. c \in Nat BY TagsAreFew
<1> HIDE DEF c
<1>2. FreshnessScore(at) \in 0..100 BY DEF FreshnessScore
<1>3. CategoryScore(label) \in 0..100 BY DEF CategoryScore, FromLabel, Categories, CategoryBoost
<1>4. KeywordScore(c) \in 0..100
  <2>1. CASE c >= 10 BY <1>1, <2>1 DEF KeywordScore
  <2>2. CASE c \in 5..9 BY <1>1, <2>2 DEF KeywordScore
  <2>3. CASE c \in 1..4 BY <1>1, <2>3 DEF KeywordScore
  <2>4. CASE c = 0 BY <1>1, <2>4 DEF KeywordScore
  <2>5. QED BY <1>1, <2>1, <2>2, <2>3, <2>4
<1> DEFINE h == 50 * FreshnessScore(at) + 25 * CategoryScore(label) + 25 * KeywordScore(c)
<1>5. h \in 0..10000
  <2>1. PICK f \in 0..100 : f = FreshnessScore(at) BY <1>2
  <2>2. PICK g \in 0..100 : g = CategoryScore(label) BY <1>3
  <2>3. PICK k \in 0..100 : k = KeywordScore(c) BY <1>4
  <2>4. h = 50 * f + 25 * g + 25 * k BY <2>1, <2>2, <2>3
  <2> HIDE DEF h
  <2>5. QED BY <2>4
<1> HIDE DEF h
<1>6. Rounded(h) \in 0..100
  <2>1. /\ h \div 100 \in 0..100 /\ h % 100 \in 0..99
        /\ h = 100 * (h \div 100) + (h % 100)
    BY <1>5
  <2> DEFINE l == h \div 100
             r == h % 100
  <2>2. Rounded(h) = IF r > 50 \/ (r = 50 /\ l % 2 = 1) THEN l + 1 ELSE l BY DEF Rounded
  <2>3. l \in 0..100 /\ r \in 0..99 /\ h = 100 * l + r BY <2>1
  <2> HIDE DEF l, r
  <2>4. l = 100 => r = 0
    <3>1. h \in Nat /\ h <= 10000 /\ r \in Nat BY <1>5, <2>3
    <3>2. QED BY <2>3, <3>1, Whole
  <2>5. QED BY <2>2, <2>3, <2>4
<1>7. QED BY <1>6 DEF ImportanceScore, h, c

-----------------------------------------------------------------------------
(* Articles.                                                               *)

LEMMA ItemType ==
  ASSUME NEW i \in Items
  PROVE  /\ i.at \in Nat /\ FromLabel(i.label) \in Labels
         /\ Section(i) \in Labels \cup AllowedTags
<1>1. i.at \in Nat /\ i.section \in Labels /\ i.terms \in Seq(Labels \cup AllowedTags)
  BY EditorialAssumption
<1>2. FromLabel(i.label) \in Labels BY DEF FromLabel, Labels, Categories, CategoryBoost
<1>3. i.terms # <<>> => Head(i.terms) \in Labels \cup AllowedTags BY <1>1
<1>4. QED BY <1>1, <1>2, <1>3 DEF Section

LEMMA NewArticleType ==
  ASSUME NEW i \in Items, NEW origin \in Sources \cup {"manual"}, NEW late \in BOOLEAN
  PROVE  NewArticle(i, origin, late) \in Article
<1>1. Section(i) \in Labels \cup AllowedTags /\ SourceTags(i) \in SUBSET AllowedTags
  BY ItemType, CanonicalType DEF SourceTags
<1>2. QED BY <1>1 DEF NewArticle, Article, ArticleStatus

LEMMA NewArticleIs ==
  ASSUME NEW i, NEW origin, NEW late
  PROVE  LET a == NewArticle(i, origin, late)
         IN a.item = i /\ a.late = late /\ a.origin = origin /\ a.status = "collected"
  BY DEF NewArticle

-----------------------------------------------------------------------------
(* Calls.                                                                  *)

Analyses == {"plan", "summarize", "classify"}
\* What a call has loaded is in d, too, or all forgotten.
SameLoad(c, d) ==
  /\ d.list = c.list \/ d.list = <<>>
  /\ d.kind = c.kind \/ d.kind = "idle"

LEMMA Idleness ==
  ASSUME NEW n
  PROVE  /\ Sound(NoCall, n) /\ NoCall.pc = "idle" /\ NoCall.kind = "idle"
         /\ NoCall.list = <<>> /\ NoCall.chosen = <<>>
  BY DEF NoCall, Sound, Call, Fits, Loads, ImportPc, AnalysisPc, PlanPc

LEMMA NoLoad == ASSUME NEW c PROVE SameLoad(c, NoCall)
  BY DEF NoCall, SameLoad

\* A call that only changes its step, or fields that are not loaded from articles.
LEMMA CallParts ==
  ASSUME NEW c \in Call
  PROVE  /\ c.kind \in {"idle", "import", "plan", "summarize", "classify", "enter", "post"}
         /\ c.pc \in {"idle"} \cup ImportPc \cup AnalysisPc \cup PlanPc
         /\ c.sources \in Seq(Sources) /\ c.items \in Seq(Items)
         /\ c.late \in BOOLEAN /\ c.create \in BOOLEAN
         /\ c.list \in Seq([id : Nat, row : Article]) /\ Len(c.list) \in Nat
         /\ c.at \in Nat /\ c.chosen \in Seq(Nat) /\ c.errors \in Nat
  BY DEF Call

LEMMA Rest ==
  ASSUME NEW A, NEW s \in Seq(A), Len(s) > 1
  PROVE  Tail(s) \in Seq(A) /\ Tail(s) # <<>>
<1>1. s # <<>> /\ Len(s) \in Nat
  OBVIOUS
<1>2. Tail(s) \in Seq(A) /\ Len(Tail(s)) = Len(s) - 1 BY <1>1, HeadTailProperties
<1>3. Len(Tail(s)) # 0 BY <1>1, <1>2
<1>4. QED BY <1>2, <1>3, EmptySeq

LEMMA NextSourceFits ==
  ASSUME NEW n, NEW c, Sound(c, n), c.kind = "import"
  PROVE  LET d == NextSource(c)
         IN Sound(d, n) /\ SameLoad(c, d) /\ d.pc \in {"collect", "idle"}
<1>1. c \in Call /\ c.sources \in Seq(Sources) /\ Fits(c) /\ Loads(c, n) BY CallParts DEF Sound
<1>2. CASE Len(c.sources) > 1
  <2> DEFINE d == [c EXCEPT !.sources = Tail(@), !.items = <<>>, !.pc = "collect"]
  <2>1. NextSource(c) = d BY <1>2 DEF NextSource
  <2>2. Tail(c.sources) \in Seq(Sources) /\ Tail(c.sources) # <<>> /\ <<>> \in Seq(Items)
    BY <1>1, <1>2, Rest
  <2>3. d \in Call BY <1>1, <2>2 DEF Call, ImportPc
  <2>4. /\ d.kind = "import" /\ d.pc = "collect" /\ d.sources = Tail(c.sources)
        /\ d.list = c.list /\ d.chosen = c.chosen /\ d.at = c.at /\ d.errors = c.errors
    BY <1>1 DEF Call
  <2> HIDE DEF d
  <2>5. Fits(d) BY <1>1, <2>2, <2>4 DEF Fits, AnalysisPc, PlanPc
  <2>6. Loads(d, n) BY <1>1, <2>4 DEF Loads
  <2>7. QED BY <2>1, <2>3, <2>4, <2>5, <2>6 DEF Sound, SameLoad
<1>3. CASE ~ (Len(c.sources) > 1) BY <1>3, Idleness, NoLoad DEF NextSource
<1>4. QED BY <1>2, <1>3

LEMMA NextItemFits ==
  ASSUME NEW n, NEW c, Sound(c, n), c.kind = "import"
  PROVE  LET d == NextItem(c)
         IN Sound(d, n) /\ SameLoad(c, d) /\ d.pc \in {"collect", "idle", "check"}
<1>1. c \in Call /\ c.items \in Seq(Items) /\ Fits(c) /\ Loads(c, n) BY CallParts DEF Sound
<1>2. CASE Len(c.items) > 1
  <2> DEFINE d == [c EXCEPT !.items = Tail(@), !.pc = "check", !.late = FALSE, !.create = FALSE]
  <2>1. NextItem(c) = d BY <1>2 DEF NextItem
  <2>2. Tail(c.items) \in Seq(Items) /\ Tail(c.items) # <<>> BY <1>1, <1>2, Rest
  <2>3. d \in Call BY <1>1, <2>2 DEF Call, ImportPc
  <2>4. /\ d.kind = "import" /\ d.pc = "check" /\ d.sources = c.sources /\ d.items = Tail(c.items)
        /\ d.list = c.list /\ d.chosen = c.chosen /\ d.at = c.at /\ d.errors = c.errors
    BY <1>1 DEF Call
  <2> HIDE DEF d
  <2>5. Fits(d) BY <1>1, <2>2, <2>4 DEF Fits, AnalysisPc, PlanPc
  <2>6. Loads(d, n) BY <1>1, <2>4 DEF Loads
  <2>7. QED BY <2>1, <2>3, <2>4, <2>5, <2>6 DEF Sound, SameLoad
<1>3. CASE ~ (Len(c.items) > 1) BY <1>3, NextSourceFits DEF NextItem
<1>4. QED BY <1>2, <1>3

LEMMA AdvanceFits ==
  ASSUME NEW n, NEW c \in Call, c.kind \in Analyses, c.at \in 1..Len(c.list),
         c.errors <= c.at, Loads(c, n)
  PROVE  LET d == Advance(c)
         IN Sound(d, n) /\ SameLoad(c, d) /\ d.pc \in {"summarize", "classify", "choose", "idle"}
<1>1. /\ Len(c.list) \in Nat /\ c.at \in Nat /\ c.errors \in Nat BY CallParts
<1>2. CASE c.at < Len(c.list)
  <2> DEFINE d == [c EXCEPT !.at = @ + 1, !.pc = FirstStep(c.kind)]
  <2>1. Advance(c) = d BY <1>2 DEF Advance
  <2>2. FirstStep(c.kind) \in {"summarize", "classify"} BY DEF FirstStep
  <2>3. c.at + 1 \in Nat BY <1>1
  <2>4. d \in Call BY <2>2, <2>3 DEF Call, AnalysisPc
  <2>5. /\ d.kind = c.kind /\ d.pc = FirstStep(c.kind) /\ d.at = c.at + 1
        /\ d.list = c.list /\ d.chosen = c.chosen /\ d.errors = c.errors
    BY DEF Call
  <2> HIDE DEF d
  <2>6. Fits(d) BY <1>1, <1>2, <2>2, <2>5 DEF Fits, AnalysisPc, PlanPc, Analyses
  <2>7. Loads(d, n) BY <2>5 DEF Loads
  <2>8. QED BY <2>1, <2>2, <2>4, <2>5, <2>6, <2>7 DEF Sound, SameLoad
<1>3. CASE ~ (c.at < Len(c.list)) /\ c.kind = "plan"
  <2> DEFINE d == [c EXCEPT !.pc = "choose"]
  <2>1. Advance(c) = d BY <1>3 DEF Advance
  <2>2. d \in Call BY DEF Call, PlanPc
  <2>3. /\ d.kind = "plan" /\ d.pc = "choose" /\ d.at = c.at
        /\ d.list = c.list /\ d.chosen = c.chosen /\ d.errors = c.errors
    BY <1>3 DEF Call
  <2> HIDE DEF d
  <2>4. c.list # <<>> BY <1>1
  <2>5. Fits(d) BY <1>1, <2>3, <2>4 DEF Fits, AnalysisPc, PlanPc
  <2>6. Loads(d, n) BY <2>3 DEF Loads
  <2>7. QED BY <1>3, <2>1, <2>2, <2>3, <2>5, <2>6 DEF Sound, SameLoad
<1>4. CASE ~ (c.at < Len(c.list)) /\ c.kind # "plan" BY <1>4, Idleness, NoLoad DEF Advance
<1>5. QED BY <1>2, <1>3, <1>4

\* The step of a plan.
LEMMA StepFits ==
  ASSUME NEW n, NEW c, Sound(c, n), c.pc \in AnalysisPc, NEW pc \in AnalysisPc
  PROVE  LET d == [c EXCEPT !.pc = pc]
         IN Sound(d, n) /\ SameLoad(c, d) /\ d.pc = pc
<1> DEFINE d == [c EXCEPT !.pc = pc]
<1>1. c \in Call /\ Fits(c) /\ Loads(c, n) BY DEF Sound
<1>2. d \in Call BY <1>1 DEF Call
<1>3. /\ d.kind = c.kind /\ d.pc = pc /\ d.at = c.at
      /\ d.list = c.list /\ d.chosen = c.chosen /\ d.errors = c.errors
  BY <1>1 DEF Call
<1> HIDE DEF d
<1>4. Fits(d) BY <1>1, <1>3 DEF Fits, AnalysisPc, PlanPc
<1>5. Loads(d, n) BY <1>1, <1>3 DEF Loads
<1>6. Sound(d, n) /\ SameLoad(c, d) /\ d.pc = pc BY <1>2, <1>3, <1>4, <1>5 DEF Sound, SameLoad
<1>7. QED BY <1>6 DEF d

LEMMA AfterFits ==
  ASSUME NEW n, NEW c, Sound(c, n), c.pc \in AnalysisPc, NEW pc \in AnalysisPc
  PROVE  LET d == After(c, pc)
         IN Sound(d, n) /\ SameLoad(c, d) /\ d.pc \in AnalysisPc \cup {"choose", "idle"}
<1>1. /\ c \in Call /\ Loads(c, n) /\ c.kind \in Analyses
      /\ c.at \in 1..Len(c.list) /\ c.errors <= c.at
  BY CallParts DEF Sound, Fits, Analyses
<1>2. CASE c.kind = "plan" BY <1>2, StepFits DEF After
<1>3. CASE c.kind # "plan" BY <1>1, <1>3, AdvanceFits DEF After, AnalysisPc
<1>4. QED BY <1>2, <1>3

\* One article more went wrong.
LEMMA FailedFits ==
  ASSUME NEW n, NEW c, Sound(c, n), c.pc \in AnalysisPc, NEW f \in BOOLEAN
  PROVE  LET d == Advance([c EXCEPT !.errors = @ + 1, !.failed = f])
         IN Sound(d, n) /\ SameLoad(c, d) /\ d.pc \in AnalysisPc \cup {"choose", "idle"}
<1> DEFINE e == [c EXCEPT !.errors = @ + 1, !.failed = f]
<1>1. /\ c \in Call /\ Loads(c, n) /\ c.kind \in Analyses
      /\ c.at \in 1..Len(c.list) /\ c.errors < c.at /\ c.at \in Nat /\ c.errors \in Nat
  BY CallParts DEF Sound, Fits, Analyses
<1>2. e \in Call
  <2>1. c.errors + 1 \in Nat BY <1>1
  <2>2. QED BY <1>1, <2>1 DEF Call
<1>3. /\ e.kind = c.kind /\ e.at = c.at
      /\ e.list = c.list /\ e.chosen = c.chosen /\ e.errors = c.errors + 1
  BY <1>1 DEF Call
<1> HIDE DEF e
<1>4. Loads(e, n) BY <1>1, <1>3 DEF Loads
<1>5. e.errors <= e.at BY <1>1, <1>3
<1>6. LET d == Advance(e)
      IN Sound(d, n) /\ SameLoad(e, d) /\ d.pc \in {"summarize", "classify", "choose", "idle"}
  BY <1>1, <1>2, <1>3, <1>4, <1>5, AdvanceFits
<1>7. LET d == Advance(e)
      IN Sound(d, n) /\ SameLoad(c, d) /\ d.pc \in AnalysisPc \cup {"choose", "idle"}
  BY <1>3, <1>6 DEF SameLoad, AnalysisPc
<1>8. QED BY <1>7 DEF e

\* Another row for the article at hand.
LEMMA CopyFits ==
  ASSUME NEW n, NEW c, Sound(c, n), c.pc \in AnalysisPc, NEW row \in Article
  PROVE  LET d == WithCopy(c, row)
         IN /\ Sound(d, n) /\ d.pc = c.pc /\ d.kind = c.kind
            /\ c.at \in DOMAIN c.list /\ DOMAIN d.list = DOMAIN c.list
            /\ \A k \in DOMAIN c.list :
                 /\ d.list[k].id = c.list[k].id
                 /\ d.list[k].row = IF k = c.at THEN row ELSE c.list[k].row
<1> DEFINE l == [c.list EXCEPT ![c.at].row = row]
           d == [c EXCEPT !.list = l]
<1>1. c \in Call /\ Fits(c) /\ Loads(c, n) /\ c.list \in Seq([id : Nat, row : Article])
  BY CallParts DEF Sound
<1>2. c.at \in 1..Len(c.list) /\ c.at \in DOMAIN c.list BY <1>1 DEF Fits
<1>3. WithCopy(c, row) = d BY <1>1 DEF WithCopy, Call
<1>4. /\ l \in Seq([id : Nat, row : Article]) /\ Len(l) = Len(c.list) /\ DOMAIN l = DOMAIN c.list
      /\ \A k \in DOMAIN c.list :
           l[k].id = c.list[k].id /\ l[k].row = IF k = c.at THEN row ELSE c.list[k].row
  <2> DEFINE E == [id : Nat, row : Article]
             r == [c.list[c.at] EXCEPT !.row = row]
  <2>1. c.list[c.at] \in E
    <3>1. c.list \in Seq(E) BY <1>1
    <3> HIDE DEF E
    <3>2. QED BY <1>2, <3>1
  <2>2. r \in E /\ r.id = c.list[c.at].id /\ r.row = row BY <2>1
  <2>3. l = [c.list EXCEPT ![c.at] = r]
    OBVIOUS
  <2> HIDE DEF l, r, E
  <2>4. c.list \in Seq(E) BY <1>1 DEF E
  <2>5. l \in Seq(E) /\ Len(l) = Len(c.list) /\ DOMAIN l = DOMAIN c.list BY <1>2, <2>2, <2>3, <2>4
  <2>6. \A k \in DOMAIN c.list : l[k] = IF k = c.at THEN r ELSE c.list[k] BY <2>3, <2>4
  <2>7. QED BY <2>2, <2>5, <2>6 DEF E
<1> HIDE DEF l
<1>5. d \in Call BY <1>1, <1>4 DEF Call
<1>6. /\ d.kind = c.kind /\ d.pc = c.pc /\ d.at = c.at /\ d.sources = c.sources /\ d.items = c.items
      /\ d.list = l /\ d.chosen = c.chosen /\ d.errors = c.errors
  BY <1>1 DEF Call
<1> HIDE DEF d
<1>7. Fits(d) BY <1>1, <1>2, <1>4, <1>6 DEF Fits, PlanPc, AnalysisPc
<1>8. Loads(d, n) BY <1>1, <1>4, <1>6 DEF Loads
<1>9. QED BY <1>2, <1>3, <1>4, <1>5, <1>6, <1>7, <1>8 DEF Sound

-----------------------------------------------------------------------------
(* What a job starts with.                                                 *)

LEMMA NewerOrders ==
  ASSUME article \in Seq(Article), NEW ids \in SUBSET DOMAIN article
  PROVE  Orders({p \in ids \X ids : Newer(p[1], p[2])}, ids)
<1> DEFINE R == {p \in ids \X ids : Newer(p[1], p[2])}
<1>1. \A a \in ids : a \in Nat /\ article[a].item.at \in Nat
  <2>1. ASSUME NEW a \in ids PROVE a \in Nat /\ article[a].item.at \in Nat
    <3>1. a \in Nat /\ article[a] \in Article
      OBVIOUS
    <3>2. article[a].item \in Items BY <3>1 DEF Article
    <3>3. QED BY <3>1, <3>2, ItemType
  <2>2. QED BY <2>1
<1>2. \A a, b \in ids : <<a, b>> \in R <=> Newer(a, b)
  OBVIOUS
<1> HIDE DEF R
<1>3. \A a \in ids : ~ Newer(a, a) BY <1>1 DEF Newer
<1>4. \A a, b, c \in ids : Newer(a, b) /\ Newer(b, c) => Newer(a, c) BY <1>1 DEF Newer
<1>5. \A a, b \in ids : a = b \/ Newer(a, b) \/ Newer(b, a) BY <1>1 DEF Newer
<1> HIDE DEF Newer
<1>6. Orders(R, ids) BY <1>2, <1>3, <1>4, <1>5 DEF Orders
<1>7. QED BY <1>6 DEF R

LEMMA NewestIs ==
  ASSUME article \in Seq(Article), NEW ids \in SUBSET DOMAIN article
  PROVE  /\ Newest(ids) \in Seq(ids) /\ (Newest(ids) # <<>> <=> ids # {})
         /\ Range(Newest(ids)) = ids
<1> DEFINE R == {p \in ids \X ids : Newer(p[1], p[2])}
           n == Cardinality(ids)
<1>1. IsFiniteSet(ids) BY FS_Interval, FS_Subset
<1>2. Orders(R, ids)
  <2> HIDE DEF R
  <2>1. QED BY NewerOrders DEF R
<1>3. Newest(ids) = Arranged(ids, R) BY DEF Newest
<1> HIDE DEF R
<1>4. Arranges(Newest(ids), ids, R) BY <1>1, <1>2, <1>3, ArrangedIs
<1>5. n \in Nat BY <1>1, FS_CardinalityType
<1>6. /\ Newest(ids) \in [1..n -> ids]
      /\ \A x \in ids : \E i \in 1..n : Newest(ids)[i] = x
  BY <1>4 DEF Arranges
<1> HIDE DEF n
<1>7. Newest(ids) \in Seq(ids) /\ DOMAIN Newest(ids) = 1..n BY <1>5, <1>6
<1>8. Range(Newest(ids)) = ids BY <1>6, <1>7 DEF Range
<1>9. Newest(ids) # <<>> <=> ids # {}
  <2>1. Len(Newest(ids)) = n BY <1>5, <1>7
  <2>2. Newest(ids) = <<>> <=> n = 0 BY <1>7, <2>1, EmptySeq
  <2>3. n = 0 <=> ids = {} BY <1>5, <1>6
  <2>4. QED BY <2>2, <2>3
<1>10. QED BY <1>7, <1>8, <1>9

LEMMA LoadedIs ==
  ASSUME article \in Seq(Article), NEW ids \in SUBSET DOMAIN article, ids # {}
  PROVE  LET list == Loaded(ids)
         IN /\ list \in Seq([id : Nat, row : Article]) /\ list # <<>> /\ Len(list) \in Nat \ {0}
            /\ \A k \in DOMAIN list : list[k].id \in ids /\ list[k].row = article[list[k].id]
<1> DEFINE order == Newest(ids)
           list == [k \in DOMAIN order |-> [id |-> order[k], row |-> article[order[k]]]]
<1>1. order \in Seq(ids) /\ order # <<>> BY NewestIs
<1>2. Loaded(ids) = list BY DEF Loaded
<1> HIDE DEF order
<1>3. DOMAIN order = 1..Len(order) /\ Len(order) \in Nat \ {0} BY <1>1
<1>4. \A k \in DOMAIN order : order[k] \in ids /\ order[k] \in Nat /\ article[order[k]] \in Article
  BY <1>1
<1>5. \A k \in DOMAIN order : list[k] \in [id : Nat, row : Article]
                              /\ list[k].id = order[k] /\ list[k].row = article[order[k]]
  BY <1>4
<1> DEFINE n == Len(order)
           E == [id : Nat, row : Article]
<1>6. n \in Nat \ {0} /\ list \in [1..n -> E] BY <1>3, <1>4
<1>7. list \in Seq([id : Nat, row : Article]) /\ Len(list) = Len(order) /\ DOMAIN list = DOMAIN order
  <2> HIDE DEF list, n, E
  <2>1. list \in Seq(E) /\ Len(list) = n /\ DOMAIN list = 1..n BY <1>6
  <2>2. QED BY <1>3, <2>1 DEF n, E
<1> HIDE DEF list, n
<1>8. QED BY <1>2, <1>3, <1>4, <1>5, <1>7

LEMMA AnalysisFits ==
  ASSUME article \in Seq(Article), NEW ids \in SUBSET DOMAIN article, ids # {},
         NEW kind \in Analyses
  PROVE  LET c == AnalysisOf(kind, ids)
         IN /\ Sound(c, Len(article)) /\ c.kind = kind /\ c.pc \in {"summarize", "classify"}
            /\ c.list = Loaded(ids)
<1> DEFINE c == AnalysisOf(kind, ids)
<1>1. /\ Loaded(ids) \in Seq([id : Nat, row : Article]) /\ Loaded(ids) # <<>>
      /\ Len(Loaded(ids)) \in Nat \ {0}
      /\ \A k \in DOMAIN Loaded(ids) : Loaded(ids)[k].id \in 1..Len(article)
  <2>1. ids \subseteq 1..Len(article)
    OBVIOUS
  <2>2. QED BY <2>1, LoadedIs
<1>2. FirstStep(kind) \in {"summarize", "classify"} BY DEF FirstStep
<1>3. c \in Call BY <1>1, <1>2, EmptySeq DEF AnalysisOf, NoCall, Call, AnalysisPc, Analyses
<1>4. /\ c.kind = kind /\ c.pc = FirstStep(kind) /\ c.at = 1 /\ c.list = Loaded(ids)
      /\ c.chosen = <<>> /\ c.errors = 0
  BY DEF AnalysisOf, NoCall
<1> HIDE DEF c
<1>5. Fits(c) BY <1>1, <1>2, <1>4 DEF Fits, AnalysisPc, PlanPc, Analyses
<1>6. Loads(c, Len(article)) BY <1>1, <1>4 DEF Loads
<1>7. QED BY <1>2, <1>3, <1>4, <1>5, <1>6 DEF Sound, c

LEMMA NamesInOrder ==
  ASSUME NEW names \in SUBSET Sources, names # {}
  PROVE  SetToSeq(names) \in Seq(Sources) /\ SetToSeq(names) # <<>>
<1> DEFINE n == Cardinality(names)
<1>1. IsFiniteSet(names) /\ n \in Nat BY EditorialAssumption, FS_Subset, FS_CardinalityType
<1>2. n # 0 BY <1>1, FS_EmptySet
<1>3. PICK f : f \in Bijection(1..n, names)
  BY <1>1, FS_NatBijection, FS_CountingElements DEF ExistsBijection
<1>4. f \in [1..n -> names] /\ IsInjective(f) BY <1>3 DEF Bijection, Injection, IsInjective
<1>5. SetToSeq(names) \in [1..n -> names] BY <1>4 DEF SetToSeq
<1>6. SetToSeq(names) \in [1..n -> Sources] BY <1>5
<1> HIDE DEF n
<1>7. SetToSeq(names) \in Seq(Sources) /\ Len(SetToSeq(names)) = n BY <1>1, <1>6
<1>8. QED BY <1>1, <1>2, <1>7

LEMMA ImportFits ==
  ASSUME NEW names \in SUBSET Sources, names # {}, NEW n
  PROVE  LET c == ImportOf(names)
         IN Sound(c, n) /\ c.kind = "import" /\ c.pc = "collect" /\ c.list = <<>>
<1> DEFINE c == ImportOf(names)
<1>1. SetToSeq(names) \in Seq(Sources) /\ SetToSeq(names) # <<>> BY NamesInOrder
<1> HIDE DEF SetToSeq
<1>2. c \in Call BY <1>1, EmptySeq DEF ImportOf, NoCall, Call, ImportPc
<1>3. /\ c.kind = "import" /\ c.pc = "collect" /\ c.sources = SetToSeq(names) /\ c.list = <<>>
      /\ c.at = 0 /\ c.chosen = <<>> /\ c.errors = 0
  BY DEF ImportOf, NoCall
<1> HIDE DEF c
<1>4. Fits(c) /\ Loads(c, n) BY <1>1, <1>3 DEF Fits, Loads, AnalysisPc, PlanPc
<1>5. QED BY <1>2, <1>3, <1>4 DEF Sound, c

-----------------------------------------------------------------------------
(* What a source offers.                                                   *)

LEMMA KeptType == ASSUME NEW A, NEW seq \in Seq(A), NEW S PROVE Kept(seq, S) \in Seq(A)
<1>1. PICK g : KeptAt(g, seq, S, A) BY KeptUnfolds
<1>2. Len(seq) \in 0..Len(seq)
  OBVIOUS
<1>3. QED BY <1>1, <1>2 DEF KeptAt

LEMMA FewType ==
  ASSUME NEW A, NEW seq \in Seq(A), NEW limit \in Nat PROVE FirstFew(seq, limit) \in Seq(A)
<1>1. CASE limit = 0 \/ limit >= Len(seq) BY <1>1 DEF FirstFew
<1>2. CASE ~ (limit = 0 \/ limit >= Len(seq))
  <2>1. SubSeq(seq, 1, limit) \in Seq(A) BY <1>2
  <2>2. QED BY <1>2, <2>1 DEF FirstFew
<1>3. QED BY <1>1, <1>2

LEMMA WindowType ==
  ASSUME site \in Sites, NEW n \in Sources, feed[n] \in DOMAIN site.feeds[n]
  PROVE  Window(n) \in Seq(Items)
<1> DEFINE entries == site.feeds[n][feed[n]]
<1>1. /\ site.provider[n] \in {"rss", "gmail", "html"} /\ site.limit[n] \in Nat
      /\ site.feeds[n] \in Seq(Seq(Items))
  BY EditorialAssumption
<1>2. entries \in Seq(Items) BY <1>1
<1> HIDE DEF entries
<1>3. RssItems(entries, site.limit[n]) \in Seq(Items) BY <1>1, <1>2, KeptType, FewType DEF RssItems
<1>4. GmailItems(entries, site.limit[n]) \in Seq(Items)
  BY <1>1, <1>2, KeptType, FewType DEF GmailItems
<1>5. <<>> \in Seq(Items)
  OBVIOUS
<1>6. CASE site.provider[n] = "rss" BY <1>3, <1>6 DEF Window, entries
<1>7. CASE site.provider[n] = "gmail" BY <1>4, <1>7 DEF Window, entries
<1>8. CASE site.provider[n] = "html" BY <1>5, <1>8 DEF Window
<1>9. QED BY <1>1, <1>6, <1>7, <1>8

-----------------------------------------------------------------------------
(* What keeps the invariant.                                               *)

\* A call that has loaded nothing new and inserts nothing.
LEMMA StaysGood ==
  ASSUME NEW c, Good(c), NEW d, Sound(d, Len(article)), SameLoad(c, d),
         d.pc \notin {"source", "insert"}
  PROVE  Good(d)
<1>1. Informed(d) BY DEF Informed
<1>2. Open(d) /\ Agrees(d)
  <2>1. CASE d.list = c.list BY <2>1 DEF Open, Agrees, SameLoad, Good
  <2>2. CASE d.list = <<>> BY <2>2 DEF Open, Agrees
  <2>3. QED BY <2>1, <2>2 DEF SameLoad
<1>3. QED BY <1>1, <1>2 DEF Good

LEMMA NothingLoaded ==
  ASSUME NEW d, Sound(d, Len(article)), Informed(d), d.list = <<>>
  PROVE  Good(d)
  BY DEF Open, Agrees, Good

LEMMA IdleIsGood == Good(NoCall)
<1>1. Informed(NoCall) BY Idleness DEF Informed
<1>2. QED BY <1>1, Idleness, NothingLoaded

\* The articles remain, and what is selected, but for the excused.
SameArticles ==
  /\ article' \in Seq(Article) /\ DOMAIN article' = DOMAIN article
  /\ \A a \in DOMAIN article :
       /\ article'[a].item = article[a].item /\ article'[a].late = article[a].late
       /\ a \notin excused' => (article'[a].status = "selected" <=> article[a].status = "selected")
  /\ excused \subseteq excused' /\ excused' \subseteq DOMAIN article
SameSurroundings ==
  /\ site' = site
  /\ source' \in [Sources -> [rows : 0..2, enabled : BOOLEAN]]
  /\ feed' \in [Sources -> Nat] /\ \A n \in Sources : feed'[n] \in DOMAIN site.feeds[n]
  /\ spent' \in [requests : 0..site.requestLimit, faults : 0..site.faultLimit]

\* As good as before, with what the step has made of the articles.
LEMMA GoodRemains ==
  ASSUME Types, SameArticles, NEW c, Good(c)
  PROVE  Good(c)'
<1>1. Len(article') = Len(article) /\ DOMAIN article = 1..Len(article) BY DEF SameArticles, Types
<1>2. Sound(c, Len(article))' BY <1>1 DEF Good, Sound, Fits, Loads
<1>3. Informed(c)' BY DEF Informed, Good, UrlTaken, SameArticles
<1>4. \A k \in DOMAIN c.list :
        /\ c.list[k].id \in DOMAIN article
        /\ c.list[k].id \notin excused' => c.list[k].id \notin excused
  BY <1>1 DEF Good, Sound, Loads, SameArticles
<1>5. Open(c)' BY <1>4 DEF Open, Good, SameArticles
<1>6. Agrees(c)' BY <1>4 DEF Agrees, Good, SameArticles
<1>7. QED BY <1>2, <1>3, <1>5, <1>6 DEF Good

\* Steps that store no article and plan no episode.
LEMMA SmallStep ==
  ASSUME Inv, SameArticles, SameSurroundings,
         call' \in [Processes -> Call], \A q \in Processes : Good(call'[q]),
         episode' \in Seq([planned : SUBSET DOMAIN article, added : SUBSET DOMAIN article]),
         DOMAIN episode' = DOMAIN episode,
         \A e \in DOMAIN episode : episode'[e].planned = episode[e].planned
  PROVE  Inv'
<1>1. Types' BY DEF SameArticles, SameSurroundings, Types, Inv
<1>2. OneRowPerUrl' BY DEF OneRowPerUrl, SameArticles, Inv
<1>3. PlannedOnce'
  <2>1. SUFFICES ASSUME NEW a \in DOMAIN article, a \notin excused'
                 PROVE  Cardinality({e \in DOMAIN episode' : a \in episode'[e].planned})
                          = IF article'[a].status = "selected" THEN 1 ELSE 0
    BY DEF PlannedOnce, SameArticles
  <2>2. {e \in DOMAIN episode' : a \in episode'[e].planned} = {e \in DOMAIN episode : a \in episode[e].planned}
    OBVIOUS
  <2>3. a \notin excused /\ (article'[a].status = "selected" <=> article[a].status = "selected")
    BY <2>1 DEF SameArticles
  <2>4. Cardinality({e \in DOMAIN episode : a \in episode[e].planned})
          = IF article[a].status = "selected" THEN 1 ELSE 0
    BY <2>3 DEF Inv, PlannedOnce
  <2>5. QED BY <2>2, <2>3, <2>4
<1>4. \A q \in Processes : Good(call[q])'
  <2>1. Types BY DEF Inv
  <2>2. ASSUME NEW c, c = call', NEW q \in Processes PROVE Good(c[q])' BY <2>1, <2>2, GoodRemains
  <2>3. QED BY <2>2
<1>5. QED BY <1>1, <1>2, <1>3, <1>4 DEF Inv

LEMMA GotoIs ==
  ASSUME Inv, NEW p \in Processes, NEW d, Good(d), Goto(p, d)
  PROVE  call' \in [Processes -> Call] /\ \A q \in Processes : Good(call'[q])
<1>1. d \in Call /\ call \in [Processes -> Call] BY DEF Good, Sound, Inv, Types
<1>2. call' = [call EXCEPT ![p] = d] BY DEF Goto
<1>3. call' \in [Processes -> Call] BY <1>1, <1>2
<1>4. \A q \in Processes : call'[q] = IF q = p THEN d ELSE call[q] BY <1>1, <1>2
<1>5. QED BY <1>3, <1>4 DEF Inv

\* Asking and failing cost.
LEMMA Spending ==
  ASSUME Types, NEW op, Asked(op) \/ Fault(op) \/ UNCHANGED spent
  PROVE  spent' \in [requests : 0..site.requestLimit, faults : 0..site.faultLimit]
<1>1. /\ spent \in [requests : 0..site.requestLimit, faults : 0..site.faultLimit]
      /\ site.requestLimit \in Nat /\ site.faultLimit \in Nat
  BY EditorialAssumption DEF Types
<1>2. ASSUME spent.requests < site.requestLimit, Spend("requests")
      PROVE  spent' \in [requests : 0..site.requestLimit, faults : 0..site.faultLimit]
  <2>1. spent.requests + 1 \in 0..site.requestLimit BY <1>1, <1>2
  <2>2. QED BY <1>1, <1>2, <2>1 DEF Spend
<1>3. ASSUME spent.faults < site.faultLimit, Spend("faults")
      PROVE  spent' \in [requests : 0..site.requestLimit, faults : 0..site.faultLimit]
  <2>1. spent.faults + 1 \in 0..site.faultLimit BY <1>1, <1>3
  <2>2. QED BY <1>1, <1>3, <2>1 DEF Spend
<1>4. CASE UNCHANGED spent BY <1>1, <1>4
<1>5. CASE Asked(op) BY <1>2, <1>4, <1>5 DEF Asked
<1>6. CASE Fault(op) BY <1>3, <1>6 DEF Fault
<1>7. QED BY <1>4, <1>5, <1>6

Rows == <<site, source, feed, article, episode, excused>>
LEMMA OnlyCall ==
  ASSUME Inv, NEW p \in Processes, NEW d, Good(d), Goto(p, d), UNCHANGED Rows,
         NEW op, Asked(op) \/ Fault(op) \/ UNCHANGED spent
  PROVE  Inv'
<1>1. Types BY DEF Inv
<1>2. SameArticles BY <1>1 DEF SameArticles, Types, Rows
<1>3. SameSurroundings BY <1>1, Spending DEF SameSurroundings, Types, Rows
<1>4. call' \in [Processes -> Call] /\ \A q \in Processes : Good(call'[q]) BY GotoIs
<1>5. /\ episode' \in Seq([planned : SUBSET DOMAIN article, added : SUBSET DOMAIN article])
      /\ episode' = episode
  BY <1>1 DEF Rows, Types
<1>6. QED BY <1>2, <1>3, <1>4, <1>5, SmallStep

-----------------------------------------------------------------------------
(* Import.                                                                 *)

LEMMA WorkersWork == Workers \subseteq Processes /\ Operators \subseteq Processes
  BY DEF Processes

LEMMA StartImportKeeps ==
  ASSUME Inv, NEW p \in Workers, NEW names \in SUBSET Sources, StartImport(p, names)
  PROVE  Inv'
<1>1. names # {} /\ Goto(p, ImportOf(names)) /\ Asked("import") /\ UNCHANGED Rows
  BY DEF StartImport, Rows
<1>2. /\ Sound(ImportOf(names), Len(article)) /\ ImportOf(names).pc = "collect"
      /\ ImportOf(names).list = <<>>
  BY <1>1, ImportFits
<1>3. Good(ImportOf(names)) BY <1>2, NothingLoaded DEF Informed
<1>4. QED BY <1>1, <1>3, OnlyCall, WorkersWork

\* What the parts of the invariant say of one process.
LEMMA CallIs ==
  ASSUME Inv, NEW p \in Processes
  PROVE  Good(call[p]) /\ Sound(call[p], Len(article)) /\ call[p] \in Call /\ Fits(call[p])
  BY DEF Inv, Good, Sound

LEMMA CollectKeeps ==
  ASSUME Inv, NEW p \in Processes, Collect(p) PROVE Inv'
<1> DEFINE c == call[p]
           items == Window(Head(c.sources))
           d == [c EXCEPT !.items = items, !.pc = "check", !.late = FALSE, !.create = FALSE]
           e == NextSource(c)
<1>1. /\ c.pc = "collect" /\ c.kind = "import" /\ Good(c) /\ Sound(c, Len(article))
      /\ c \in Call /\ Fits(c)
  BY CallIs DEF Collect, At, Fits
<1>2. Good(e) BY <1>1, NextSourceFits, StaysGood
<1>3. items \in Seq(Items)
  <2>1. c.sources \in Seq(Sources) /\ c.sources # <<>> BY <1>1, CallParts DEF Fits
  <2>2. Head(c.sources) \in Sources BY <2>1
  <2>3. site \in Sites /\ \A n \in Sources : feed[n] \in DOMAIN site.feeds[n] BY DEF Inv, Types
  <2>4. QED BY <2>2, <2>3, WindowType
<1>4. ASSUME items # <<>> PROVE Good(d)
  <2> HIDE DEF items, c
  <2>1. d \in Call BY <1>1, <1>3 DEF Call, ImportPc
  <2>2. /\ d.kind = "import" /\ d.pc = "check" /\ d.sources = c.sources /\ d.items = items
        /\ d.list = c.list /\ d.chosen = c.chosen /\ d.at = c.at /\ d.errors = c.errors
    BY <1>1 DEF Call
  <2> HIDE DEF d
  <2>3. Fits(d) BY <1>1, <1>4, <2>2 DEF Fits, AnalysisPc, PlanPc
  <2>4. Loads(d, Len(article)) BY <1>1, <2>2 DEF Sound, Loads
  <2>5. QED BY <1>1, <2>1, <2>2, <2>3, <2>4, StaysGood DEF Sound, SameLoad
<1>5. UNCHANGED Rows BY DEF Collect, Rows
<1>6. \/ Goto(p, IF items = <<>> THEN e ELSE d) /\ UNCHANGED spent
      \/ Fault("feed") /\ Goto(p, e)
  BY DEF Collect
<1> HIDE DEF items, d, e
<1>7. \/ Goto(p, d) /\ items # <<>> /\ UNCHANGED spent
      \/ Goto(p, e) /\ (Fault("feed") \/ UNCHANGED spent)
  BY <1>6
<1>8. QED BY <1>2, <1>4, <1>5, <1>7, OnlyCall

LEMMA CheckKeeps ==
  ASSUME Inv, NEW p \in Processes, Check(p) PROVE Inv'
<1> DEFINE c == call[p]
           d == [c EXCEPT !.pc = "source"]
           e == NextItem(c)
<1>1. /\ c.pc = "check" /\ c.kind = "import" /\ Good(c) /\ Sound(c, Len(article))
      /\ c \in Call /\ Fits(c)
  BY CallIs DEF Check, At, Fits
<1>2. Good(e) BY <1>1, NextItemFits, StaysGood
<1>3. ASSUME ~ UrlTaken(Head(c.items)) PROVE Good(d)
  <2> HIDE DEF c
  <2>1. d \in Call BY <1>1 DEF Call, ImportPc
  <2>2. /\ d.kind = "import" /\ d.pc = "source" /\ d.sources = c.sources /\ d.items = c.items
        /\ d.list = c.list /\ d.chosen = c.chosen /\ d.at = c.at /\ d.errors = c.errors
    BY <1>1 DEF Call
  <2> HIDE DEF d
  <2>3. Fits(d) BY <1>1, <2>2 DEF Fits, AnalysisPc, PlanPc
  <2>4. Loads(d, Len(article)) BY <1>1, <2>2 DEF Sound, Loads
  <2>5. Informed(d) BY <1>3, <2>2 DEF Informed
  <2>6. Open(d) /\ Agrees(d) BY <1>1, <2>2 DEF Open, Agrees, Good
  <2>7. QED BY <2>1, <2>3, <2>4, <2>5, <2>6 DEF Sound, Good
<1>4. UNCHANGED Rows /\ UNCHANGED spent BY DEF Check, Rows
<1>5. (Goto(p, d) /\ ~ UrlTaken(Head(c.items))) \/ Goto(p, e) BY DEF Check, IsDuplicate, Item
<1> HIDE DEF d, e
<1>6. QED BY <1>2, <1>3, <1>4, <1>5, OnlyCall

LEMMA FindSourceKeeps ==
  ASSUME Inv, NEW p \in Processes, FindSource(p) PROVE Inv'
<1> DEFINE c == call[p]
           new == source[Head(c.sources)].rows = 0
           d == [c EXCEPT !.pc = "insert", !.create = new]
           e == NextItem(c)
<1>1. /\ c.pc = "source" /\ c.kind = "import" /\ Good(c) /\ Sound(c, Len(article))
      /\ c \in Call /\ Fits(c)
  BY CallIs DEF FindSource, At, Fits
<1>2. Good(e) BY <1>1, NextItemFits, StaysGood
<1>3. Good(d)
  <2>1. new \in BOOLEAN
    OBVIOUS
  <2> HIDE DEF c, new
  <2>2. d \in Call BY <1>1, <2>1 DEF Call, ImportPc
  <2>3. /\ d.kind = "import" /\ d.pc = "insert" /\ d.sources = c.sources /\ d.items = c.items
        /\ d.list = c.list /\ d.chosen = c.chosen /\ d.at = c.at /\ d.errors = c.errors
        /\ d.late = c.late
    BY <1>1 DEF Call
  <2> HIDE DEF d
  <2>4. Fits(d) BY <1>1, <2>3 DEF Fits, AnalysisPc, PlanPc
  <2>5. Loads(d, Len(article)) BY <1>1, <2>3 DEF Sound, Loads
  <2>6. Informed(d) BY <1>1, <2>3 DEF Informed, Good
  <2>7. Open(d) /\ Agrees(d) BY <1>1, <2>3 DEF Open, Agrees, Good
  <2>8. QED BY <2>2, <2>4, <2>5, <2>6, <2>7 DEF Sound, Good
<1>4. UNCHANGED Rows /\ UNCHANGED spent BY DEF FindSource, Rows
<1>5. Goto(p, d) \/ Goto(p, e) BY DEF FindSource
<1> HIDE DEF d, e
<1>6. QED BY <1>2, <1>3, <1>4, <1>5, OnlyCall

LEMMA SubmitKeeps ==
  ASSUME Inv, NEW p \in Operators, NEW i \in site.byHand, NEW kind \in {"enter", "post"},
         Submit(p, i, kind)
  PROVE  Inv'
<1> DEFINE taken == UrlTaken(i)
           d == [NoCall EXCEPT !.kind = kind, !.pc = "insert", !.items = <<i>>, !.late = taken]
<1>1. i \in Items BY EditorialAssumption DEF Inv, Types
<1>2. taken \in BOOLEAN BY DEF UrlTaken
<1>3. Goto(p, d) /\ Asked(kind) /\ UNCHANGED Rows BY DEF Submit, Rows
<1>4. /\ d.kind = kind /\ d.pc = "insert" /\ d.items = <<i>> /\ d.late = taken
      /\ d.list = <<>> /\ d.chosen = <<>> /\ d.at = 0 /\ d.errors = 0
  BY DEF NoCall
<1>5. Head(d.items) = i /\ d.items # <<>> BY <1>4
<1>6. Informed(d) BY <1>4, <1>5 DEF Informed
<1> HIDE DEF taken
<1>7. d \in Call
  <2>1. <<i>> \in Seq(Items) /\ NoCall \in Call BY <1>1, Idleness DEF Sound
  <2>2. QED BY <1>2, <2>1 DEF Call, ImportPc
<1> HIDE DEF d
<1>8. Fits(d) /\ Loads(d, Len(article)) BY <1>4, <1>5 DEF Fits, Loads, AnalysisPc, PlanPc
<1>9. Good(d) BY <1>4, <1>6, <1>7, <1>8, NothingLoaded DEF Sound
<1>10. QED BY <1>3, <1>9, OnlyCall, WorkersWork

-----------------------------------------------------------------------------
(* Analysis.                                                               *)

LEMMA StartAnalysisKeeps ==
  ASSUME Inv, NEW p \in Workers, NEW ids \in SUBSET DOMAIN article, NEW kind \in Analyses,
         kind = "plan" => \A a \in ids : article[a].status # "selected",
         StartAnalysis(p, kind, ids)
  PROVE  Inv'
<1> DEFINE c == AnalysisOf(kind, ids)
<1>1. ids # {} /\ Goto(p, c) /\ Asked(kind) /\ UNCHANGED Rows BY DEF StartAnalysis, Rows
<1>2. article \in Seq(Article) BY DEF Inv, Types
<1> HIDE DEF c
<1>3. /\ Sound(c, Len(article)) /\ c.kind = kind /\ c.pc \in {"summarize", "classify"}
      /\ \A k \in DOMAIN c.list : c.list[k].id \in ids /\ c.list[k].row = article[c.list[k].id]
  <2>1. /\ Sound(c, Len(article)) /\ c.kind = kind /\ c.pc \in {"summarize", "classify"}
        /\ c.list = Loaded(ids)
    BY <1>1, <1>2, AnalysisFits DEF c
  <2>2. \A k \in DOMAIN Loaded(ids) :
          Loaded(ids)[k].id \in ids /\ Loaded(ids)[k].row = article[Loaded(ids)[k].id]
    BY <1>1, <1>2, LoadedIs
  <2>3. QED BY <2>1, <2>2
<1>4. Good(c) BY <1>3 DEF Good, Informed, Open, Agrees
<1>5. QED BY <1>1, <1>4, OnlyCall, WorkersWork

LEMMA PlanKeeps == ASSUME Inv, NEW p \in Workers, Plan(p) PROVE Inv'
<1>1. Todays \in SUBSET DOMAIN article /\ \A a \in Todays : article[a].status # "selected"
  BY DEF Todays, Eligible
<1>2. QED BY <1>1, StartAnalysisKeeps DEF Plan, Analyses

LEMMA AnalysesKeep ==
  ASSUME Inv, NEW p \in Workers, NEW a \in DOMAIN article,
         \/ SummarizeTodays(p) \/ ClassifyTodays(p) \/ SummarizeOne(p, a) \/ ClassifyOne(p, a)
  PROVE  Inv'
<1>1. Todays \in SUBSET DOMAIN article /\ {a} \in SUBSET DOMAIN article BY DEF Todays
<1>2. QED BY <1>1, StartAnalysisKeeps DEF SummarizeTodays, ClassifyTodays, SummarizeOne,
    ClassifyOne, Analyses

\* A row that keeps its identity and, unless it is excused, whether it is selected.
LEMMA RowKept ==
  ASSUME Types, NEW a \in DOMAIN article, NEW row \in Article,
         article' = [article EXCEPT ![a] = row],
         row.item = article[a].item, row.late = article[a].late,
         excused \subseteq excused', excused' \subseteq DOMAIN article,
         a \notin excused' => (row.status = "selected" <=> article[a].status = "selected")
  PROVE  SameArticles
<1>1. article \in Seq(Article) BY DEF Types
<1>2. article' \in Seq(Article) /\ DOMAIN article' = DOMAIN article BY <1>1
<1>3. \A b \in DOMAIN article : article'[b] = IF b = a THEN row ELSE article[b] BY <1>1
<1>4. QED BY <1>2, <1>3 DEF SameArticles

LEMMA RowStep ==
  ASSUME Inv, SameArticles, NEW p \in Processes, NEW d, Good(d), Goto(p, d),
         UNCHANGED <<site, source, feed, episode>>,
         NEW op, Asked(op) \/ Fault(op) \/ UNCHANGED spent
  PROVE  Inv'
<1>1. Types BY DEF Inv
<1>2. SameSurroundings BY <1>1, Spending DEF SameSurroundings, Types
<1>3. call' \in [Processes -> Call] /\ \A q \in Processes : Good(call'[q]) BY GotoIs
<1>4. /\ episode' \in Seq([planned : SUBSET DOMAIN article, added : SUBSET DOMAIN article])
      /\ episode' = episode
  BY <1>1 DEF Types
<1>5. QED BY <1>2, <1>3, <1>4, SmallStep

\* The copy at hand.
LEMMA CopyIs ==
  ASSUME Inv, NEW p \in Processes, call[p].pc \in AnalysisPc
  PROVE  /\ Good(call[p]) /\ Sound(call[p], Len(article))
         /\ call[p].at \in DOMAIN call[p].list /\ Copy(p) = call[p].list[call[p].at]
         /\ Copy(p).id \in DOMAIN article /\ Copy(p).row \in Article
         /\ article[Copy(p).id] \in Article /\ Types
<1> DEFINE c == call[p]
<1>1. Good(c) /\ Sound(c, Len(article)) /\ c \in Call /\ Fits(c) /\ Loads(c, Len(article))
  BY CallIs DEF Sound
<1>2. c.list \in Seq([id : Nat, row : Article]) /\ c.at \in 1..Len(c.list)
  BY <1>1, CallParts DEF Fits
<1>3. c.at \in DOMAIN c.list /\ c.list[c.at] \in [id : Nat, row : Article]
  <2> DEFINE E == [id : Nat, row : Article]
             list == c.list
  <2>1. list \in Seq(E) BY <1>2
  <2> HIDE DEF E, list
  <2>2. \A k \in 1..Len(list) : k \in DOMAIN list /\ list[k] \in E BY <2>1
  <2>3. QED BY <1>2, <2>2 DEF E, list
<1>4. article \in Seq(Article) /\ Types BY DEF Inv, Types
<1>5. c.list[c.at].id \in 1..Len(article) BY <1>1, <1>3 DEF Loads
<1>6. DOMAIN article = 1..Len(article) BY <1>4
<1> HIDE DEF c
<1>7. Copy(p) = c.list[c.at] BY DEF Copy, c
<1>8. QED BY <1>1, <1>3, <1>4, <1>5, <1>6, <1>7 DEF c

LEMMA SkipKeeps ==
  ASSUME Inv, NEW p \in Processes, call[p].pc \in AnalysisPc, NEW pc \in AnalysisPc,
         Skip(p, pc), UNCHANGED <<site, source, feed, episode>>
  PROVE  Inv'
<1>1. Good(call[p]) /\ Sound(call[p], Len(article)) BY CallIs
<1>2. Good(After(call[p], pc))
  <2>1. /\ Sound(After(call[p], pc), Len(article)) /\ SameLoad(call[p], After(call[p], pc))
        /\ After(call[p], pc).pc \in AnalysisPc \cup {"choose", "idle"}
    BY <1>1, AfterFits
  <2>2. After(call[p], pc).pc \notin {"source", "insert"} BY <2>1 DEF AnalysisPc
  <2>3. QED BY <1>1, <2>1, <2>2, StaysGood
<1>3. Goto(p, After(call[p], pc)) /\ UNCHANGED Rows /\ UNCHANGED spent BY DEF Skip, Rows
<1>4. QED BY <1>2, <1>3, OnlyCall

LEMMA FailedIsGood ==
  ASSUME NEW c, Good(c), c.pc \in AnalysisPc, NEW f \in BOOLEAN
  PROVE  Good(Advance([c EXCEPT !.errors = @ + 1, !.failed = f]))
<1> DEFINE d == Advance([c EXCEPT !.errors = @ + 1, !.failed = f])
<1>1. Sound(c, Len(article)) BY DEF Good
<1>2. Sound(d, Len(article)) /\ SameLoad(c, d) /\ d.pc \in AnalysisPc \cup {"choose", "idle"}
  BY <1>1, FailedFits
<1> HIDE DEF d
<1>3. d.pc \notin {"source", "insert"} BY <1>2 DEF AnalysisPc
<1>4. Good(d) BY <1>2, <1>3, StaysGood
<1>5. QED BY <1>4 DEF d

LEMMA ModelFailsKeeps ==
  ASSUME Inv, NEW p \in Processes, call[p].pc \in AnalysisPc, ModelFails(p),
         UNCHANGED <<site, source, feed, episode>>
  PROVE  Inv'
<1> DEFINE d == Advance([call[p] EXCEPT !.errors = @ + 1, !.failed = TRUE])
<1>1. Good(call[p]) BY CallIs
<1>2. Good(d) BY <1>1, FailedIsGood
<1>3. Fault("llm") /\ UNCHANGED Rows /\ (Goto(p, d) \/ Goto(p, NoCall)) BY DEF ModelFails, Rows
<1> HIDE DEF d
<1>4. QED BY <1>2, <1>3, IdleIsGood, OnlyCall

LEMMA SummarizeKeeps ==
  ASSUME Inv, NEW p \in Processes, Summarize(p) PROVE Inv'
<1> DEFINE c == call[p]
           a == Copy(p).id
           row == [Copy(p).row EXCEPT !.summarised = TRUE,
                                      !.status = IF @ = "collected" THEN "processed" ELSE @]
           d == After(WithCopy(c, row), "classify")
<1>1. c.pc \in AnalysisPc /\ UNCHANGED <<site, source, feed, episode>>
  BY DEF Summarize, At, AnalysisPc
<1>2. CASE Copy(p).row.summarised /\ Skip(p, "classify") BY <1>1, <1>2, SkipKeeps DEF AnalysisPc
<1>3. CASE ~ Copy(p).row.summarised /\ ModelFails(p) BY <1>1, <1>3, ModelFailsKeeps
<1>4. CASE /\ article' = [article EXCEPT ![a].summarised = TRUE, ![a].status = row.status]
           /\ excused' = IF article[a].status = "selected" /\ row.status # "selected"
                         THEN excused \cup {a} ELSE excused
           /\ Goto(p, d) /\ UNCHANGED spent
  <2>1. /\ Good(c) /\ Sound(c, Len(article)) /\ c.at \in DOMAIN c.list
        /\ Copy(p) = c.list[c.at] /\ a \in DOMAIN article
        /\ Copy(p).row \in Article /\ article[a] \in Article /\ Types
    BY <1>1, CopyIs
  <2>2. /\ row \in Article /\ row.status \in ArticleStatus
        /\ row.status = "selected" <=> Copy(p).row.status = "selected"
    BY <2>1 DEF Article, ArticleStatus
  <2> HIDE DEF row
  <2> DEFINE e == WithCopy(c, row)
  <2>3. /\ Sound(e, Len(article)) /\ e.pc = c.pc /\ e.kind = c.kind /\ DOMAIN e.list = DOMAIN c.list
        /\ \A k \in DOMAIN c.list :
             /\ e.list[k].id = c.list[k].id
             /\ e.list[k].row = IF k = c.at THEN row ELSE c.list[k].row
    BY <1>1, <2>1, <2>2, CopyFits
  <2> HIDE DEF e, c
  <2>4. Good(e)
    <3>1. Informed(e) BY <1>1, <2>3 DEF Informed, AnalysisPc
    <3>2. Open(e) BY <2>1, <2>3 DEF Open, Good
    <3>3. Agrees(e) BY <2>1, <2>2, <2>3 DEF Agrees, Good
    <3>4. QED BY <2>3, <3>1, <3>2, <3>3 DEF Good
  <2>5. Good(d)
    <3>1. /\ Sound(d, Len(article)) /\ SameLoad(e, d)
          /\ d.pc \in AnalysisPc \cup {"choose", "idle"}
      BY <1>1, <2>3, AfterFits DEF e, AnalysisPc
    <3> HIDE DEF d
    <3>2. d.pc \notin {"source", "insert"} BY <3>1 DEF AnalysisPc
    <3>3. QED BY <2>4, <3>1, <3>2, StaysGood
  <2>6. SameArticles
    <3> DEFINE new == [article[a] EXCEPT !.summarised = TRUE, !.status = row.status]
    <3>1. article \in Seq(Article) /\ excused \subseteq DOMAIN article BY <2>1 DEF Types
    <3>2. article' = [article EXCEPT ![a] = new] BY <1>4, <2>1, <3>1
    <3>3. new \in Article /\ new.item = article[a].item /\ new.late = article[a].late
          /\ new.status = row.status
      BY <2>1, <2>2 DEF Article
    <3>4. excused \subseteq excused' /\ excused' \subseteq DOMAIN article BY <1>4, <2>1, <3>1
    <3>5. a \notin excused' => (row.status = "selected" <=> article[a].status = "selected")
      <4>1. a \notin excused /\ Copy(p).row.status = "selected" => article[a].status = "selected"
        BY <2>1 DEF Good, Agrees
      <4>2. a \notin excused' => ~ (article[a].status = "selected" /\ row.status # "selected")
        BY <1>4
      <4>3. QED BY <2>2, <3>4, <4>1, <4>2
    <3> HIDE DEF new
    <3>6. QED BY <2>1, <3>2, <3>3, <3>4, <3>5, RowKept
  <2>7. QED BY <1>1, <1>4, <2>5, <2>6, RowStep
<1>5. QED BY <1>2, <1>3, <1>4 DEF Summarize

\* A row with other contents, but the same identity and status.
SameRow(r, s) == r.item = s.item /\ r.late = s.late /\ r.status = s.status
LEMMA RowRemains ==
  ASSUME Types, NEW a \in DOMAIN article, NEW row \in Article, SameRow(row, article[a]),
         article' = [article EXCEPT ![a] = row], UNCHANGED excused
  PROVE  SameArticles
  BY RowKept DEF SameRow, Types

LEMMA ClassifyKeeps ==
  ASSUME Inv, NEW p \in Processes, Classify(p) PROVE Inv'
<1> DEFINE c == call[p]
           a == Copy(p).id
           Classified(row) == [row EXCEPT !.classified = TRUE, !.category = FromLabel(row.item.label)]
           copied == Classified(Copy(p).row)
           d == After(WithCopy(c, copied), "extract")
<1>1. c.pc \in AnalysisPc /\ UNCHANGED <<site, source, feed, episode>>
  BY DEF Classify, At, AnalysisPc
<1>2. CASE Copy(p).row.classified /\ Skip(p, "extract") BY <1>1, <1>2, SkipKeeps DEF AnalysisPc
<1>3. CASE ~ Copy(p).row.classified /\ ModelFails(p) BY <1>1, <1>3, ModelFailsKeeps
<1>4. CASE /\ article' = [article EXCEPT ![a] = Classified(@)]
           /\ Goto(p, d) /\ UNCHANGED <<excused, spent>>
  <2>1. /\ Good(c) /\ Sound(c, Len(article)) /\ c.at \in DOMAIN c.list
        /\ Copy(p) = c.list[c.at] /\ a \in DOMAIN article
        /\ Copy(p).row \in Article /\ article[a] \in Article /\ Types
    BY <1>1, CopyIs
  <2>2. ASSUME NEW r \in Article PROVE Classified(r) \in Article /\ SameRow(Classified(r), r)
    <3>1. FromLabel(r.item.label) \in Labels BY ItemType DEF Article
    <3>2. QED BY <3>1 DEF Article, SameRow
  <2>3. copied \in Article /\ copied.status = Copy(p).row.status BY <2>1, <2>2 DEF SameRow
  <2> HIDE DEF copied
  <2> DEFINE e == WithCopy(c, copied)
  <2>4. /\ Sound(e, Len(article)) /\ e.pc = c.pc /\ e.kind = c.kind /\ DOMAIN e.list = DOMAIN c.list
        /\ \A k \in DOMAIN c.list :
             /\ e.list[k].id = c.list[k].id
             /\ e.list[k].row = IF k = c.at THEN copied ELSE c.list[k].row
    BY <1>1, <2>1, <2>3, CopyFits
  <2> HIDE DEF e, c
  <2>5. Good(e)
    <3>1. Informed(e) BY <1>1, <2>4 DEF Informed, AnalysisPc
    <3>2. Open(e) BY <2>1, <2>4 DEF Open, Good
    <3>3. Agrees(e) BY <2>1, <2>3, <2>4 DEF Agrees, Good
    <3>4. QED BY <2>4, <3>1, <3>2, <3>3 DEF Good
  <2>6. Good(d)
    <3>1. /\ Sound(d, Len(article)) /\ SameLoad(e, d)
          /\ d.pc \in AnalysisPc \cup {"choose", "idle"}
      BY <1>1, <2>4, AfterFits DEF e, AnalysisPc
    <3> HIDE DEF d
    <3>2. d.pc \notin {"source", "insert"} BY <3>1 DEF AnalysisPc
    <3>3. QED BY <2>5, <3>1, <3>2, StaysGood
  <2>7. SameArticles
    <3>1. article' = [article EXCEPT ![a] = Classified(article[a])] BY <1>4
    <3>2. Classified(article[a]) \in Article /\ SameRow(Classified(article[a]), article[a])
      BY <2>1, <2>2
    <3> HIDE DEF Classified
    <3>3. QED BY <1>4, <2>1, <3>1, <3>2, RowRemains
  <2>8. QED BY <1>1, <1>4, <2>6, <2>7, RowStep
<1>5. QED BY <1>2, <1>3, <1>4 DEF Classify

LEMMA StepIsGood ==
  ASSUME NEW c, Good(c), c.pc \in AnalysisPc, NEW pc \in AnalysisPc
  PROVE  Good([c EXCEPT !.pc = pc])
<1> DEFINE d == [c EXCEPT !.pc = pc]
<1>1. Sound(d, Len(article)) /\ SameLoad(c, d) /\ d.pc = pc BY StepFits DEF Good
<1> HIDE DEF d
<1>2. d.pc \notin {"source", "insert"} BY <1>1 DEF AnalysisPc
<1>3. Good(d) BY <1>1, <1>2, StaysGood
<1>4. QED BY <1>3 DEF d

LEMMA ExtractKeeps ==
  ASSUME Inv, NEW p \in Processes, Extract(p) PROVE Inv'
<1> DEFINE a == Copy(p).id
           d == [call[p] EXCEPT !.pc = "tag"]
<1>1. call[p].pc \in AnalysisPc /\ UNCHANGED <<site, source, feed, episode>>
  BY DEF Extract, At, AnalysisPc
<1>2. CASE Copy(p).row.keyworded /\ Skip(p, "score") BY <1>1, <1>2, SkipKeeps DEF AnalysisPc
<1>3. CASE ~ Copy(p).row.keyworded /\ ModelFails(p) BY <1>1, <1>3, ModelFailsKeeps
<1>4. CASE article' = [article EXCEPT ![a].tags = {}] /\ Goto(p, d) /\ UNCHANGED <<excused, spent>>
  <2>1. Good(call[p]) /\ a \in DOMAIN article /\ article[a] \in Article /\ Types BY <1>1, CopyIs
  <2>2. Good(d) BY <1>1, <2>1, StepIsGood DEF AnalysisPc
  <2> DEFINE new == [article[a] EXCEPT !.tags = {}]
  <2>3. article' = [article EXCEPT ![a] = new] BY <1>4, <2>1 DEF Types
  <2>4. new \in Article /\ SameRow(new, article[a]) BY <2>1 DEF Article, SameRow
  <2> HIDE DEF new, d
  <2>5. SameArticles BY <1>4, <2>1, <2>3, <2>4, RowRemains
  <2>6. QED BY <1>1, <1>4, <2>2, <2>5, RowStep
<1>5. QED BY <1>2, <1>3, <1>4 DEF Extract

LEMMA TagKeeps ==
  ASSUME Inv, NEW p \in Processes, Tag(p) PROVE Inv'
<1> DEFINE a == Copy(p).id
           d == [call[p] EXCEPT !.pc = "score"]
           new == [article[a] EXCEPT !.tags = KeywordTags(article[a].item), !.keyworded = TRUE]
<1>1. call[p].pc \in AnalysisPc /\ UNCHANGED <<site, source, feed, episode, excused, spent>>
  BY DEF Tag, At, AnalysisPc
<1>2. Good(call[p]) /\ a \in DOMAIN article /\ article[a] \in Article /\ Types BY <1>1, CopyIs
<1>3. Good(d) /\ Goto(p, d) BY <1>1, <1>2, StepIsGood DEF AnalysisPc, Tag
<1>4. article' = [article EXCEPT ![a] = new] BY <1>2 DEF Types, Tag
<1>5. KeywordTags(article[a].item) \in SUBSET AllowedTags BY CanonicalType DEF KeywordTags
<1>6. new \in Article /\ SameRow(new, article[a]) BY <1>2, <1>5 DEF Article, SameRow
<1> HIDE DEF new, d
<1>7. SameArticles BY <1>1, <1>2, <1>4, <1>6, RowRemains
<1>8. QED BY <1>1, <1>3, <1>7, RowStep

\* A new score leaves the row what it is.
LEMMA ScoredRow ==
  ASSUME Types, NEW a \in DOMAIN article, NEW label, NEW T \in SUBSET AllowedTags,
         article' = [article EXCEPT ![a].score =
           ImportanceScore(article[a].item.at, label, Cardinality(T))],
         UNCHANGED excused
  PROVE  SameArticles
<1> DEFINE score == ImportanceScore(article[a].item.at, label, Cardinality(T))
           new == [article[a] EXCEPT !.score = score]
<1>1. article[a] \in Article BY DEF Types
<1>2. article[a].item.at \in Nat BY <1>1, ItemType DEF Article
<1>3. score \in 0..100 BY <1>2, ScoreType
<1> HIDE DEF score
<1>4. article' = [article EXCEPT ![a] = new] BY DEF Types, score
<1>5. new \in Article /\ SameRow(new, article[a]) BY <1>1, <1>3 DEF Article, SameRow
<1> HIDE DEF new
<1>6. QED BY <1>4, <1>5, RowRemains

LEMMA ScoreKeeps ==
  ASSUME Inv, NEW p \in Processes, Score(p) PROVE Inv'
<1> DEFINE a == Copy(p).id
           d == Advance([call[p] EXCEPT !.errors = @ + 1])
<1>1. call[p].pc \in AnalysisPc /\ UNCHANGED <<site, source, feed, episode, excused, spent>>
  BY DEF Score, At, AnalysisPc
<1>2. /\ Good(call[p]) /\ a \in DOMAIN article /\ article[a] \in Article /\ Types
      /\ Copy(p).row \in Article
  BY <1>1, CopyIs
<1>3. Good(d) /\ Goto(p, d)
  <2>1. call[p] \in Call BY CallIs
  <2>2. [call[p] EXCEPT !.errors = @ + 1] = [call[p] EXCEPT !.errors = @ + 1, !.failed = call[p].failed]
    BY <2>1 DEF Call
  <2>3. call[p].failed \in BOOLEAN BY <2>1 DEF Call
  <2>4. Good(Advance([call[p] EXCEPT !.errors = @ + 1, !.failed = call[p].failed]))
    BY <1>1, <1>2, <2>3, FailedIsGood
  <2>5. QED BY <2>2, <2>4 DEF Score
<1>4. PICK tags \in {Copy(p).row.tags, article[a].tags} :
        article' = [article EXCEPT ![a].score =
          ImportanceScore(article[a].item.at, Copy(p).row.category, Cardinality(tags))]
  BY DEF Score
<1>5. tags \in SUBSET AllowedTags BY <1>2, <1>4 DEF Article
<1> HIDE DEF d
<1>6. SameArticles BY <1>1, <1>2, <1>4, <1>5, ScoredRow
<1>7. QED BY <1>1, <1>3, <1>6, RowStep

LEMMA DescribeKeeps ==
  ASSUME Inv, NEW p \in Processes, Describe(p) PROVE Inv'
<1> DEFINE c == call[p]
           d == [c EXCEPT !.pc = "create"]
<1>1. c.pc = "describe" /\ Good(c) /\ Sound(c, Len(article)) /\ c \in Call /\ Fits(c)
  BY CallIs DEF Describe, At
<1>2. Good(d)
  <2> HIDE DEF c
  <2>1. d \in Call BY <1>1 DEF Call, PlanPc
  <2>2. /\ d.kind = c.kind /\ d.pc = "create" /\ d.sources = c.sources /\ d.items = c.items
        /\ d.list = c.list /\ d.chosen = c.chosen /\ d.at = c.at /\ d.errors = c.errors
    BY <1>1 DEF Call
  <2> HIDE DEF d
  <2>3. Fits(d) BY <1>1, <2>2 DEF Fits, AnalysisPc, PlanPc
  <2>4. Loads(d, Len(article)) BY <1>1, <2>2 DEF Sound, Loads
  <2>5. QED BY <1>1, <2>1, <2>2, <2>3, <2>4, StaysGood DEF Sound, SameLoad
<1>3. UNCHANGED Rows BY DEF Describe, Rows
<1>4. (Goto(p, d) /\ UNCHANGED spent) \/ (Fault("llm") /\ Goto(p, NoCall)) BY DEF Describe, Leave
<1> HIDE DEF d
<1>5. QED BY <1>2, <1>3, <1>4, IdleIsGood, OnlyCall

LEMMA CrashKeeps ==
  ASSUME Inv, NEW p \in Processes, Crash(p) PROVE Inv'
<1>1. Fault("crash") /\ Goto(p, NoCall) /\ UNCHANGED Rows BY DEF Crash, Leave, Rows
<1>2. QED BY <1>1, IdleIsGood, OnlyCall

-----------------------------------------------------------------------------
(* People.                                                                 *)

\* Steps of nobody's call.
LEMMA NoCallStep ==
  ASSUME Inv, SameArticles, UNCHANGED <<site, call>>,
         source' \in [Sources -> [rows : 0..2, enabled : BOOLEAN]],
         feed' \in [Sources -> Nat], \A n \in Sources : feed'[n] \in DOMAIN site.feeds[n],
         UNCHANGED episode,
         NEW op, Asked(op)
  PROVE  Inv'
<1>1. Types BY DEF Inv
<1>2. SameSurroundings BY <1>1, Spending DEF SameSurroundings
<1>3. call' \in [Processes -> Call] /\ \A q \in Processes : Good(call'[q]) BY <1>1 DEF Inv, Types
<1>4. QED BY <1>1, <1>2, <1>3, SmallStep DEF Types

LEMMA NothingNew == ASSUME Types, UNCHANGED <<article, excused>> PROVE SameArticles
  BY DEF SameArticles, Types

LEMMA RescoreKeeps ==
  ASSUME Inv, NEW a \in DOMAIN article, Rescore(a) PROVE Inv'
<1>1. Types /\ article[a] \in Article BY DEF Inv, Types
<1>2. article[a].tags \in SUBSET AllowedTags BY <1>1 DEF Article
<1>3. SameArticles BY <1>1, <1>2, ScoredRow DEF Rescore
<1>4. QED BY <1>1, <1>3, NoCallStep DEF Rescore, Types

LEMMA AddToDraftKeeps ==
  ASSUME Inv, NEW e \in DOMAIN episode, NEW a \in DOMAIN article, AddToDraft(e, a) PROVE Inv'
<1> DEFINE E == [planned : SUBSET DOMAIN article, added : SUBSET DOMAIN article]
           new == [episode[e] EXCEPT !.added = @ \cup {a}]
<1>1. Types /\ episode \in Seq(E) BY DEF Inv, Types
<1>2. episode[e] \in E
  <2> HIDE DEF E
  <2>1. QED BY <1>1
<1>3. new \in E /\ new.planned = episode[e].planned BY <1>2
<1>4. episode' = [episode EXCEPT ![e] = new] BY <1>1 DEF AddToDraft
<1> HIDE DEF new, E
<1>5. /\ episode' \in Seq(E) /\ DOMAIN episode' = DOMAIN episode
      /\ \A x \in DOMAIN episode : episode'[x].planned = episode[x].planned
  BY <1>1, <1>3, <1>4
<1>6. SameArticles BY <1>1, NothingNew DEF AddToDraft
<1>7. SameSurroundings BY <1>1, Spending DEF SameSurroundings, AddToDraft, Types
<1>8. call' \in [Processes -> Call] /\ \A q \in Processes : Good(call'[q])
  BY <1>1 DEF Inv, Types, AddToDraft
<1>9. QED BY <1>5, <1>6, <1>7, <1>8, SmallStep DEF E

LEMMA FewRows ==
  ASSUME Types, NEW n \in Sources
  PROVE  /\ source[n] \in [rows : 0..2, enabled : BOOLEAN]
         /\ Min({2, source[n].rows + 1}) \in 0..2
<1>1. source[n] \in [rows : 0..2, enabled : BOOLEAN] /\ source[n].rows \in 0..2 BY DEF Types
<1>2. source[n].rows + 1 \in 1..3 BY <1>1
<1>3. \A r \in 1..3 : Min({2, r}) \in 0..2
  <2>1. ASSUME NEW r \in 1..3 PROVE Min({2, r}) \in 0..2
    <3>1. \E x \in {2, r} : \A y \in {2, r} : x <= y
      OBVIOUS
    <3>2. Min({2, r}) \in {2, r} /\ Min({2, r}) <= 2 BY <3>1 DEF Min
    <3>3. QED BY <3>2
  <2>2. QED BY <2>1
<1>4. QED BY <1>1, <1>2, <1>3

\* Other rows for a source.
LEMMA SourcesStep ==
  ASSUME Inv, SameArticles, UNCHANGED <<site, feed, call, episode>>,
         source' \in [Sources -> [rows : 0..2, enabled : BOOLEAN]], NEW op, Asked(op)
  PROVE  Inv'
  BY NoCallStep DEF Inv, Types

LEMMA SourceKeeps ==
  ASSUME Inv, NEW n \in Sources, ToggleSource(n) \/ DeleteSource(n) \/ CreateSource(n) PROVE Inv'
<1>1. Types /\ source \in [Sources -> [rows : 0..2, enabled : BOOLEAN]] BY DEF Inv, Types
<1>2. /\ source[n] \in [rows : 0..2, enabled : BOOLEAN]
      /\ Min({2, source[n].rows + 1}) \in 0..2
  BY <1>1, FewRows
<1>3. SameArticles /\ UNCHANGED <<site, feed, call, episode>>
  BY <1>1, NothingNew DEF ToggleSource, DeleteSource, CreateSource
<1>4. CASE ToggleSource(n)
  <2>1. (~ source[n].enabled) \in BOOLEAN
    OBVIOUS
  <2>2. source' \in [Sources -> [rows : 0..2, enabled : BOOLEAN]] /\ Asked("toggle")
    BY <1>1, <1>2, <1>4, <2>1 DEF ToggleSource
  <2>3. QED BY <1>3, <2>2, SourcesStep
<1>5. CASE DeleteSource(n)
  <2>1. source' \in [Sources -> [rows : 0..2, enabled : BOOLEAN]] /\ Asked("delete")
    BY <1>1, <1>2, <1>5 DEF DeleteSource
  <2>2. QED BY <1>3, <2>1, SourcesStep
<1>6. CASE CreateSource(n)
  <2>1. source' \in [Sources -> [rows : 0..2, enabled : BOOLEAN]] /\ Asked("create")
    BY <1>1, <1>2, <1>6 DEF CreateSource
  <2>2. QED BY <1>3, <2>1, SourcesStep
<1>7. QED BY <1>4, <1>5, <1>6

LEMMA RenameKeeps ==
  ASSUME Inv, NEW n \in Sources, NEW m \in Sources, RenameSource(n, m) PROVE Inv'
<1>1. /\ Types /\ source \in [Sources -> [rows : 0..2, enabled : BOOLEAN]]
      /\ article \in Seq(Article)
  BY DEF Inv, Types
<1>2. /\ source[n] \in [rows : 0..2, enabled : BOOLEAN]
      /\ Min({2, source[m].rows + 1}) \in 0..2
  BY <1>1, FewRows
<1>3. source' \in [Sources -> [rows : 0..2, enabled : BOOLEAN]] BY <1>1, <1>2 DEF RenameSource
<1> DEFINE new(a) == IF article[a].origin = n THEN [article[a] EXCEPT !.origin = m] ELSE article[a]
<1>4. ASSUME NEW a \in DOMAIN article PROVE new(a) \in Article /\ SameRow(new(a), article[a])
  <2>1. article[a] \in Article BY <1>1
  <2>2. QED BY <2>1 DEF Article, SameRow
<1>5. article' = [a \in DOMAIN article |-> new(a)] /\ UNCHANGED excused BY DEF RenameSource
<1>6. DOMAIN article = 1..Len(article) /\ Len(article) \in Nat BY <1>1
<1> HIDE DEF new
<1>7. article' \in [1..Len(article) -> Article] BY <1>4, <1>5, <1>6
<1>8. article' \in Seq(Article) /\ DOMAIN article' = DOMAIN article BY <1>6, <1>7
<1>9. SameArticles BY <1>1, <1>4, <1>5, <1>8 DEF SameArticles, SameRow, Types
<1>10. QED BY <1>3, <1>9, SourcesStep DEF RenameSource

LEMMA FeedKeeps == ASSUME Inv, NEW n \in Sources, FeedChanges(n) PROVE Inv'
<1>1. Types BY DEF Inv
<1>2. SameArticles /\ UNCHANGED <<site, source, call, episode>> /\ Asked("change")
  BY <1>1, NothingNew DEF FeedChanges
<1>3. source' \in [Sources -> [rows : 0..2, enabled : BOOLEAN]] BY <1>1, <1>2 DEF Types
<1>4. /\ feed \in [Sources -> Nat] /\ feed' = [feed EXCEPT ![n] = @ + 1]
      /\ feed[n] < Len(site.feeds[n])
  BY <1>1 DEF FeedChanges, Types
<1>5. feed' \in [Sources -> Nat] /\ \A m \in Sources : feed'[m] = IF m = n THEN feed[n] + 1 ELSE feed[m]
  BY <1>4
<1>6. \A m \in Sources : site.feeds[m] \in Seq(Seq(Items)) /\ feed[m] \in DOMAIN site.feeds[m]
  BY <1>1, EditorialAssumption DEF Types
<1>7. \A m \in Sources : feed'[m] \in DOMAIN site.feeds[m] BY <1>4, <1>5, <1>6
<1>8. QED BY <1>2, <1>3, <1>5, <1>7, NoCallStep

-----------------------------------------------------------------------------
(* New articles.                                                           *)

LEMMA LateIsGood ==
  ASSUME NEW c, Good(c)
  PROVE  /\ Good([c EXCEPT !.late = TRUE]) /\ [c EXCEPT !.late = TRUE].late = TRUE
         /\ [c EXCEPT !.late = TRUE].kind = c.kind
<1> DEFINE d == [c EXCEPT !.late = TRUE]
<1>1. c \in Call /\ Fits(c) /\ Loads(c, Len(article)) BY DEF Good, Sound
<1>2. d \in Call BY <1>1 DEF Call
<1>3. /\ d.kind = c.kind /\ d.pc = c.pc /\ d.sources = c.sources /\ d.items = c.items
      /\ d.list = c.list /\ d.chosen = c.chosen /\ d.at = c.at /\ d.errors = c.errors /\ d.late = TRUE
  BY <1>1 DEF Call
<1> HIDE DEF d
<1>4. Fits(d) /\ Loads(d, Len(article)) BY <1>1, <1>3 DEF Fits, Loads
<1>5. Informed(d) BY <1>3 DEF Informed
<1>6. Open(d) /\ Agrees(d) BY <1>3 DEF Good, Open, Agrees
<1>7. Good(d) /\ d.late = TRUE /\ d.kind = c.kind BY <1>2, <1>3, <1>4, <1>5, <1>6 DEF Good, Sound
<1>8. QED BY <1>7 DEF d

LEMMA OverlookedIs ==
  ASSUME Inv, NEW i, NEW q \in Processes
  PROVE  /\ Good(Overlooked(i)[q])
         /\ Overlooked(i)[q].kind = call[q].kind
         /\ Overlooked(i)[q].pc \in {"source", "insert"} /\ Head(Overlooked(i)[q].items).url = i.url
            => Overlooked(i)[q].late
<1> DEFINE c == call[q]
           d == [c EXCEPT !.late = TRUE]
<1>1. Good(c) BY DEF Inv
<1>2. Good(d) /\ d.late = TRUE /\ d.kind = c.kind BY <1>1, LateIsGood
<1>3. Overlooked(i)[q] = IF c.pc \in {"source", "insert"} /\ Head(c.items).url = i.url THEN d ELSE c
  BY DEF Overlooked, Item
<1> HIDE DEF d, c
<1>4. QED BY <1>1, <1>2, <1>3 DEF c

\* What was good is good with one more article, if it knows of its URL.
LEMMA OneMoreArticle ==
  ASSUME Types, NEW row \in Article, article' = Append(article, row), UNCHANGED excused,
         NEW c, Good(c),
         c.pc \in {"source", "insert"} /\ Head(c.items).url = row.item.url => c.late
  PROVE  Good(c)'
<1> DEFINE n == Len(article)
<1>1. /\ n \in Nat /\ DOMAIN article = 1..n /\ DOMAIN article' = 1..(n + 1) /\ Len(article') = n + 1
      /\ article'[n + 1] = row /\ \A a \in 1..n : article'[a] = article[a]
  BY DEF Types
<1> HIDE DEF n
<1>2. Sound(c, n) /\ \A k \in DOMAIN c.list : c.list[k].id \in 1..n BY DEF Good, Sound, Loads, n
<1>3. Loads(c, n + 1) BY <1>1, <1>2 DEF Sound, Loads
<1>4. Sound(c, Len(article))' BY <1>1, <1>2, <1>3 DEF Sound, Fits, Loads
<1>5. Informed(c)'
  <2>1. SUFFICES ASSUME c.pc \in {"source", "insert"}, NEW a \in DOMAIN article',
                        article'[a].item.url = Head(c.items).url
                 PROVE  c.late
    BY DEF Informed, UrlTaken
  <2>2. CASE a = n + 1 BY <1>1, <2>1, <2>2
  <2>3. CASE a # n + 1
    <3>1. a \in 1..n BY <1>1, <2>3
    <3>2. article[a].item.url = Head(c.items).url BY <1>1, <2>1, <3>1
    <3>3. QED BY <1>1, <2>1, <3>1, <3>2 DEF Good, Informed, UrlTaken
  <2>4. QED BY <2>2, <2>3
<1>6. Open(c)' /\ Agrees(c)' BY <1>1, <1>2 DEF Good, Open, Agrees
<1>7. QED BY <1>4, <1>5, <1>6 DEF Good

LEMMA EpisodesAre ==
  ASSUME Types
  PROVE  /\ DOMAIN episode = 1..Len(episode) /\ Len(episode) \in Nat
         /\ \A e \in DOMAIN episode : episode[e].planned \subseteq DOMAIN article
<1> DEFINE E == [planned : SUBSET DOMAIN article, added : SUBSET DOMAIN article]
<1>1. episode \in Seq(E) BY DEF Types
<1>2. \A x \in E : x.planned \subseteq DOMAIN article
  OBVIOUS
<1> HIDE DEF E
<1>3. QED BY <1>1, <1>2

LEMMA AppendStep ==
  ASSUME Inv, NEW p \in Processes, call[p].pc = "insert",
         NEW row \in Article, row.item = Head(call[p].items), row.late = call[p].late,
         row.status # "selected", article' = Append(article, row),
         NEW d, Good(d), d.pc \notin {"source", "insert"},
         call' = [Overlooked(row.item) EXCEPT ![p] = d],
         UNCHANGED <<site, feed, episode, excused, spent>>,
         source' \in [Sources -> [rows : 0..2, enabled : BOOLEAN]]
  PROVE  Inv'
<1> DEFINE n == Len(article)
<1>1. Types BY DEF Inv
<1>2. /\ n \in Nat /\ DOMAIN article = 1..n /\ DOMAIN article' = 1..(n + 1) /\ Len(article') = n + 1
      /\ article'[n + 1] = row /\ \A a \in 1..n : article'[a] = article[a]
      /\ article' \in Seq(Article)
  BY <1>1 DEF Types
<1> HIDE DEF n
<1>3. call' \in [Processes -> Call]
      /\ \A q \in Processes : call'[q] = IF q = p THEN d ELSE Overlooked(row.item)[q]
  <2>1. Overlooked(row.item) \in [Processes -> Call]
    <3>1. DOMAIN Overlooked(row.item) = Processes /\ Overlooked(row.item) = [q \in Processes |-> Overlooked(row.item)[q]]
      BY DEF Overlooked
    <3>2. \A q \in Processes : Overlooked(row.item)[q] \in Call BY OverlookedIs DEF Good, Sound
    <3>3. QED BY <3>1, <3>2
  <2>2. d \in Call BY DEF Good, Sound
  <2>3. QED BY <2>1, <2>2
<1>4. ASSUME NEW c, NEW q \in Processes, c = call'[q] PROVE Good(c)'
  <2>1. Good(c) /\ (c.pc \in {"source", "insert"} /\ Head(c.items).url = row.item.url => c.late)
    <3>1. CASE q = p BY <1>3, <1>4, <3>1
    <3>2. CASE q # p BY <1>3, <1>4, <3>2, OverlookedIs
    <3>3. QED BY <3>1, <3>2
  <2>2. QED BY <1>1, <2>1, OneMoreArticle
<1>5. \A q \in Processes : Good(call[q])'
  <2>1. ASSUME NEW c, c = call', NEW q \in Processes PROVE Good(c[q])' BY <1>4, <2>1
  <2>2. QED BY <2>1
<1>6. Types'
  <2>1. episode' \in Seq([planned : SUBSET DOMAIN article', added : SUBSET DOMAIN article'])
    <3> DEFINE E == [planned : SUBSET (1..n), added : SUBSET (1..n)]
               F == [planned : SUBSET (1..(n + 1)), added : SUBSET (1..(n + 1))]
    <3>1. E \subseteq F BY <1>2
    <3>2. episode \in Seq(E) BY <1>1, <1>2 DEF Types
    <3> HIDE DEF E, F
    <3>3. episode \in Seq(F) BY <3>1, <3>2
    <3>4. QED BY <1>2, <3>3 DEF F
  <2>2. excused' \subseteq DOMAIN article' BY <1>1, <1>2 DEF Types
  <2>3. QED BY <1>1, <1>2, <1>3, <2>1, <2>2 DEF Types
<1>7. OneRowPerUrl'
  <2>1. SUFFICES ASSUME NEW a \in 1..(n + 1), NEW b \in 1..(n + 1), a < b,
                        article'[a].item.url = article'[b].item.url
                 PROVE  article'[b].late
    BY <1>2 DEF OneRowPerUrl
  <2>2. a \in 1..n BY <1>2, <2>1
  <2>3. CASE b = n + 1
    <3>1. UrlTaken(Head(call[p].items)) BY <1>2, <2>1, <2>2, <2>3 DEF UrlTaken
    <3>2. Informed(call[p]) BY DEF Inv, Good
    <3>3. QED BY <1>2, <2>3, <3>1, <3>2 DEF Informed
  <2>4. CASE b # n + 1
    <3>1. b \in 1..n BY <1>2, <2>4
    <3>2. QED BY <1>2, <2>1, <2>2, <3>1 DEF Inv, OneRowPerUrl
  <2>5. QED BY <2>3, <2>4
<1>8. PlannedOnce'
  <2>1. SUFFICES ASSUME NEW a \in 1..(n + 1), a \notin excused
                 PROVE  Cardinality({e \in DOMAIN episode : a \in episode[e].planned})
                          = IF article'[a].status = "selected" THEN 1 ELSE 0
    BY <1>2 DEF PlannedOnce
  <2>2. CASE a = n + 1
    <3>1. \A e \in DOMAIN episode : episode[e].planned \subseteq 1..n BY <1>1, <1>2, EpisodesAre
    <3>2. {e \in DOMAIN episode : a \in episode[e].planned} = {} BY <1>2, <2>2, <3>1
    <3>3. QED BY <1>2, <2>2, <3>2, FS_EmptySet
  <2>3. CASE a # n + 1
    <3>1. a \in 1..n BY <1>2, <2>3
    <3>2. QED BY <1>2, <2>1, <3>1 DEF Inv, PlannedOnce
  <2>4. QED BY <2>2, <2>3
<1>9. QED BY <1>5, <1>6, <1>7, <1>8 DEF Inv

LEMMA InsertKeeps ==
  ASSUME Inv, NEW p \in Processes, Insert(p) PROVE Inv'
<1> DEFINE c == call[p]
           n == Head(c.sources)
           i == Item(p)
           e == NextItem(c)
           o == Overlooked(i)[p]
           d == NextItem(o)
           row == NewArticle(i, n, c.late)
<1>1. /\ c.pc = "insert" /\ c.kind = "import" /\ Good(c) /\ Sound(c, Len(article))
      /\ c \in Call /\ Fits(c) /\ Types
  BY CallIs DEF Insert, At, Inv
<1>2. Good(e) BY <1>1, NextItemFits, StaysGood
<1>3. Good(o) /\ o.kind = "import" BY <1>1, OverlookedIs
<1>4. Good(d) /\ d.pc \notin {"source", "insert"}
  <2>1. Sound(o, Len(article)) BY <1>3 DEF Good
  <2> HIDE DEF o
  <2>2. Sound(d, Len(article)) /\ SameLoad(o, d) /\ d.pc \in {"collect", "idle", "check"}
    BY <1>3, <2>1, NextItemFits
  <2>3. QED BY <1>3, <2>2, StaysGood
<1>5. n \in Sources /\ i \in Items /\ c.late \in BOOLEAN
  <2>1. /\ c.sources \in Seq(Sources) /\ c.sources # <<>>
        /\ c.items \in Seq(Items) /\ c.items # <<>> /\ c.late \in BOOLEAN
    BY <1>1, CallParts DEF Fits
  <2> HIDE DEF c
  <2>2. Head(c.sources) \in Sources /\ Head(c.items) \in Items BY <2>1
  <2>3. QED BY <2>1, <2>2 DEF Item, c
<1>6. row \in Article /\ row.item = i /\ row.late = c.late /\ row.status # "selected"
  BY <1>5, NewArticleType, NewArticleIs
<1>7. CASE /\ Stores(p) /\ article' = Append(article, row)
           /\ source' = IF c.create
                        THEN [source EXCEPT ![n] = [rows |-> Min({2, @.rows + 1}), enabled |-> TRUE]]
                        ELSE source
           /\ call' = [Overlooked(i) EXCEPT ![p] = NextItem(@)]
           /\ UNCHANGED spent
  <2>1. source' \in [Sources -> [rows : 0..2, enabled : BOOLEAN]]
    <3>1. /\ source \in [Sources -> [rows : 0..2, enabled : BOOLEAN]]
          /\ Min({2, source[n].rows + 1}) \in 0..2
      BY <1>1, <1>5, FewRows DEF Types
    <3>2. QED BY <1>5, <1>7, <3>1
  <2>2. call' = [Overlooked(row.item) EXCEPT ![p] = d] BY <1>6, <1>7
  <2>3. UNCHANGED <<site, feed, episode, excused, spent>> BY <1>7 DEF Insert
  <2>4. row.item = Head(c.items) BY <1>6 DEF Item
  <2> HIDE DEF row, d
  <2>5. QED BY <1>1, <1>4, <1>6, <1>7, <2>1, <2>2, <2>3, <2>4, AppendStep
<1>8. CASE /\ IF Stores(p) THEN Fault("save") ELSE UNCHANGED spent
           /\ Goto(p, e) /\ UNCHANGED <<article, source>>
  <2>1. UNCHANGED Rows BY <1>8 DEF Insert, Rows
  <2>2. Fault("save") \/ UNCHANGED spent BY <1>8
  <2> HIDE DEF e
  <2>3. QED BY <1>2, <1>8, <2>1, <2>2, OnlyCall
<1>9. QED BY <1>7, <1>8 DEF Insert

LEMMA StoreEnteredKeeps ==
  ASSUME Inv, NEW p \in Processes, StoreEntered(p) PROVE Inv'
<1> DEFINE c == call[p]
           i == Item(p)
           base == NewArticle(i, "manual", c.late)
           status == IF c.kind = "post" THEN "pending" ELSE "collected"
           row == [base EXCEPT !.status = status, !.category = "", !.tags = {}]
<1>1. /\ c.pc = "insert" /\ c \in Call /\ Fits(c) /\ Types BY CallIs DEF StoreEntered, At, Inv
<1>2. i \in Items /\ c.late \in BOOLEAN
  <2>1. c.items \in Seq(Items) /\ c.items # <<>> /\ c.late \in BOOLEAN BY <1>1, CallParts DEF Fits
  <2> HIDE DEF c
  <2>2. Head(c.items) \in Items BY <2>1
  <2>3. QED BY <2>1, <2>2 DEF Item, c
<1>3. base \in Article /\ base.item = i /\ base.late = c.late BY <1>2, NewArticleType, NewArticleIs
<1>4. row \in Article /\ row.item = i /\ row.late = c.late /\ row.status # "selected"
  <2> HIDE DEF base
  <2>1. QED BY <1>3 DEF Article, ArticleStatus, Labels
<1>5. CASE Leave(p) /\ UNCHANGED article
  <2>1. UNCHANGED Rows /\ UNCHANGED spent /\ Goto(p, NoCall) BY <1>5 DEF StoreEntered, Rows, Leave
  <2>2. QED BY <2>1, IdleIsGood, OnlyCall
<1>6. CASE article' = Append(article, row) /\ call' = [Overlooked(i) EXCEPT ![p] = NoCall]
  <2>1. /\ UNCHANGED <<site, feed, episode, excused, spent>>
        /\ source' \in [Sources -> [rows : 0..2, enabled : BOOLEAN]]
    BY <1>1 DEF StoreEntered, Types
  <2>2. call' = [Overlooked(row.item) EXCEPT ![p] = NoCall] /\ row.item = Head(c.items)
    BY <1>4, <1>6 DEF Item
  <2>3. NoCall.pc \notin {"source", "insert"} BY Idleness
  <2> HIDE DEF row
  <2>4. QED BY <1>1, <1>4, <1>6, <2>1, <2>2, <2>3, IdleIsGood, AppendStep
<1>7. QED BY <1>5, <1>6 DEF StoreEntered

-----------------------------------------------------------------------------
(* Planning.                                                               *)

\* How Choose sees an article.
ViewOf(a) ==
  [id |-> a, title |-> article[a].item.title, words |-> article[a].item.words,
   tags |-> article[a].tags, at |-> article[a].item.at,
   score |-> IF article[a].score = NoScore THEN 0 ELSE article[a].score]
LoadedIds(c) == {c.list[k].id : k \in DOMAIN c.list}

LEMMA ViewsAre ==
  ASSUME Inv, NEW p \in Processes
  PROVE  LET views == Views(p)
             ids == LoadedIds(call[p])
             V == {ViewOf(a) : a \in ids}
         IN /\ views \in Seq(V) /\ (ids # {} => views # <<>>) /\ Range(views) = V /\ Ratable(V)
            /\ \A a \in ids : ViewOf(a).id = a
            /\ ids \subseteq Nat
<1> DEFINE views == Views(p)
           ids == LoadedIds(call[p])
           V == {ViewOf(a) : a \in ids}
           order == Newest(ids)
<1>1. article \in Seq(Article) BY DEF Inv, Types
<1>2. ids \in SUBSET DOMAIN article
  <2>1. Loads(call[p], Len(article)) /\ DOMAIN article = 1..Len(article) BY <1>1, CallIs DEF Sound
  <2>2. QED BY <2>1 DEF Loads, LoadedIds
<1>3. ids = {call[p].list[k].id : k \in DOMAIN call[p].list} BY DEF LoadedIds
<1> HIDE DEF ids
<1>4. order \in Seq(ids) /\ (order # <<>> <=> ids # {}) /\ Range(order) = ids
  BY <1>1, <1>2, NewestIs
<1>5. views = [k \in DOMAIN order |-> ViewOf(order[k])] BY <1>3 DEF Views, ViewOf
<1> HIDE DEF order, views
<1>6. /\ DOMAIN order = 1..Len(order) /\ Len(order) \in Nat
      /\ \A k \in 1..Len(order) : order[k] \in ids
  BY <1>4
<1>7. views \in [1..Len(order) -> V]
  <2> HIDE DEF ViewOf
  <2>1. QED BY <1>5, <1>6
<1>8. views \in Seq(V) /\ Len(views) = Len(order)
  <2> HIDE DEF V
  <2>1. QED BY <1>6, <1>7
<1>9. ids # {} => views # <<>>
  <2>1. order = <<>> <=> Len(order) = 0 BY <1>4, EmptySeq
  <2>2. views = <<>> => Len(views) = 0 BY <1>8, EmptySeq
  <2>3. QED BY <1>4, <1>8, <2>1, <2>2
<1>10. Range(views) = V
  <2>1. \A v \in V : \E k \in 1..Len(order) : views[k] = v
    <3>1. ASSUME NEW a \in ids PROVE \E k \in 1..Len(order) : views[k] = ViewOf(a)
      <4>1. PICK k \in DOMAIN order : order[k] = a BY <1>4 DEF Range
      <4>2. QED BY <1>5, <1>6, <4>1
    <3>2. QED BY <3>1
  <2>2. DOMAIN views = 1..Len(order) /\ \A k \in 1..Len(order) : views[k] \in V BY <1>7
  <2> HIDE DEF V
  <2>3. QED BY <2>1, <2>2 DEF Range
<1>11. \A a \in ids : ViewOf(a).id = a BY DEF ViewOf
<1>12. Ratable(V)
  <2>1. ASSUME NEW a \in ids
        PROVE  ViewOf(a).score \in Int /\ ViewOf(a).at \in Int /\ ViewOf(a).id \in Int
    <3>1. article[a] \in Article /\ a \in Nat BY <1>1, <1>2
    <3>2. article[a].item.at \in Nat BY <3>1, ItemType DEF Article
    <3>3. article[a].score \in {NoScore} \cup 0..100 /\ NoScore \in Int BY <3>1 DEF Article, NoScore
    <3>4. QED BY <3>1, <3>2, <3>3 DEF ViewOf
  <2>2. \A v \in V : v.score \in Int /\ v.at \in Int /\ v.id \in Int
    <3> HIDE DEF ViewOf
    <3>1. QED BY <2>1
  <2>3. \A v, w \in V : v.id = w.id => v = w
    <3> HIDE DEF ViewOf
    <3>1. QED BY <1>11
  <2> HIDE DEF V
  <2>4. QED BY <2>2, <2>3 DEF Ratable
<1>13. ids \subseteq Nat BY <1>1, <1>2
<1>14. QED BY <1>8, <1>9, <1>10, <1>11, <1>12, <1>13 DEF views, ids

\* What a plan has chosen.
ChosenIds(p) == [k \in DOMAIN Chosen(Views(p), MaxArticles) |-> Chosen(Views(p), MaxArticles)[k].id]
LEMMA ChosenIdsAre ==
  ASSUME Inv, NEW p \in Processes
  PROVE  LET views == Views(p)
             chosen == Chosen(views, MaxArticles)
             ids == ChosenIds(p)
         IN /\ ids \in Seq(Nat) /\ Len(ids) = Len(chosen)
            /\ \A k \in DOMAIN ids : ids[k] \in LoadedIds(call[p])
            /\ Range(chosen) = {v \in Range(views) : \E k \in DOMAIN ids : ids[k] = v.id}
            /\ chosen \in Seq(Range(views))
<1> DEFINE views == Views(p)
           all == LoadedIds(call[p])
           V == {ViewOf(a) : a \in all}
           chosen == Chosen(views, MaxArticles)
           ids == ChosenIds(p)
<1>1. /\ views \in Seq(V) /\ Range(views) = V /\ Ratable(V)
      /\ \A a \in all : ViewOf(a).id = a
      /\ all \subseteq Nat
  BY ViewsAre
<1>2. \A v \in V : v.id \in all /\ v.id \in Nat BY <1>1
<1>3. ids = [k \in DOMAIN chosen |-> chosen[k].id] BY DEF ChosenIds
<1> HIDE DEF ids, V, all
<1>4. chosen \in Seq(V) BY <1>1, EditorialAssumption, ChosenIsBest
<1> HIDE DEF chosen
<1>5. /\ DOMAIN chosen = 1..Len(chosen) /\ Len(chosen) \in Nat
      /\ \A k \in 1..Len(chosen) : chosen[k] \in V /\ chosen[k].id \in all /\ chosen[k].id \in Nat
  BY <1>2, <1>4
<1>6. ids \in [1..Len(chosen) -> Nat] /\ \A k \in 1..Len(chosen) : ids[k] = chosen[k].id
  BY <1>3, <1>5
<1>7. ids \in Seq(Nat) /\ Len(ids) = Len(chosen) /\ DOMAIN ids = 1..Len(chosen) BY <1>5, <1>6
<1>8. Range(chosen) = {v \in V : \E k \in DOMAIN ids : ids[k] = v.id}
  <2>1. \A v \in Range(chosen) : v \in V /\ \E k \in DOMAIN ids : ids[k] = v.id
    BY <1>5, <1>6, <1>7 DEF Range
  <2>2. ASSUME NEW v \in V, NEW k \in DOMAIN ids, ids[k] = v.id PROVE v \in Range(chosen)
    <3>1. chosen[k] \in V /\ chosen[k].id = v.id BY <1>5, <1>6, <1>7, <2>2
    <3>2. chosen[k] = v BY <1>1, <3>1 DEF Ratable
    <3>3. QED BY <1>5, <1>7, <3>2 DEF Range
  <2>3. QED BY <2>1, <2>2
<1>9. QED BY <1>1, <1>4, <1>5, <1>6, <1>7, <1>8 DEF chosen, ids, all

ChosenCall(p) == [call[p] EXCEPT !.pc = "describe", !.chosen = ChosenIds(p)]
LEMMA ChooseIs ==
  ASSUME Inv, NEW p \in Processes, Choose(p)
  PROVE  /\ call[p].pc = "choose" /\ Goto(p, ChosenCall(p)) /\ UNCHANGED Rows /\ UNCHANGED spent
         /\ ChosenCall(p).pc = "describe" /\ ChosenCall(p).chosen = ChosenIds(p)
<1>1. call[p].pc = "choose" /\ UNCHANGED Rows /\ UNCHANGED spent BY DEF Choose, At, Rows
<1>2. Goto(p, ChosenCall(p)) BY DEF Choose, ChosenCall, ChosenIds
<1>3. call[p] \in Call BY CallIs
<1>4. ChosenCall(p).pc = "describe" /\ ChosenCall(p).chosen = ChosenIds(p)
  BY <1>3 DEF ChosenCall, Call
<1>5. QED BY <1>1, <1>2, <1>4

LEMMA ChooseKeeps ==
  ASSUME Inv, NEW p \in Processes, Choose(p) PROVE Inv'
<1> DEFINE c == call[p]
           d == ChosenCall(p)
<1>1. /\ c.pc = "choose" /\ Goto(p, d) /\ UNCHANGED Rows /\ UNCHANGED spent BY ChooseIs
<1>2. /\ Good(c) /\ Sound(c, Len(article)) /\ c \in Call /\ Fits(c) BY CallIs
<1>3. ChosenIds(p) \in Seq(Nat) /\ \A k \in DOMAIN ChosenIds(p) : ChosenIds(p)[k] \in LoadedIds(c)
  BY ChosenIdsAre
<1>4. d = [c EXCEPT !.pc = "describe", !.chosen = ChosenIds(p)] BY DEF ChosenCall
<1> HIDE DEF c, d
<1>5. d \in Call BY <1>2, <1>3, <1>4 DEF Call, PlanPc
<1>6. /\ d.kind = c.kind /\ d.pc = "describe" /\ d.sources = c.sources /\ d.items = c.items
      /\ d.list = c.list /\ d.chosen = ChosenIds(p) /\ d.at = c.at /\ d.errors = c.errors
  BY <1>2, <1>4 DEF Call
<1>7. Fits(d) BY <1>1, <1>2, <1>6 DEF Fits, AnalysisPc, PlanPc
<1>8. Loads(d, Len(article)) BY <1>2, <1>3, <1>6 DEF Sound, Loads, LoadedIds
<1>9. Good(d) BY <1>2, <1>5, <1>6, <1>7, <1>8, StaysGood DEF Sound, SameLoad
<1>10. QED BY <1>1, <1>9, OnlyCall

LEMMA CreateEpisodeKeeps ==
  ASSUME Inv, NEW p \in Processes, CreateEpisode(p) PROVE Inv'
<1> DEFINE c == call[p]
           planned == {c.chosen[k] : k \in DOMAIN c.chosen}
           others == {q \in Processes \ {p} : call[q].kind = "plan"}
           met == planned \cap UNION {InList(q) : q \in others}
           N == Len(episode)
           new == [planned |-> planned, added |-> {}]
<1>1. /\ c.pc = "create" /\ c.kind = "plan" /\ Good(c) /\ Loads(c, Len(article)) /\ Types
  BY CallIs DEF CreateEpisode, At, Fits, PlanPc, Sound, Inv
<1>2. article \in Seq(Article) /\ DOMAIN article = 1..Len(article) /\ Len(article) \in Nat
  BY <1>1 DEF Types
<1>3. planned \subseteq LoadedIds(c) /\ LoadedIds(c) \subseteq DOMAIN article
  BY <1>1, <1>2 DEF Loads, LoadedIds
<1>4. /\ episode' = Append(episode, new)
      /\ article' = [a \in DOMAIN article |->
                       IF a \in planned THEN [article[a] EXCEPT !.status = "selected"] ELSE article[a]]
      /\ excused' = excused \cup met
      /\ Goto(p, NoCall) /\ UNCHANGED <<site, source, feed, spent>>
  BY DEF CreateEpisode, Leave
<1> HIDE DEF planned, met
<1>5. /\ article' \in [1..Len(article) -> Article]
      /\ \A a \in DOMAIN article :
           /\ article'[a].item = article[a].item /\ article'[a].late = article[a].late
           /\ article'[a].status = IF a \in planned THEN "selected" ELSE article[a].status
  <2>1. ASSUME NEW a \in DOMAIN article
        PROVE  LET r == [article[a] EXCEPT !.status = "selected"]
               IN /\ r \in Article /\ r.item = article[a].item /\ r.late = article[a].late
                  /\ r.status = "selected" /\ article[a] \in Article
    <3>1. article[a] \in Article BY <1>2
    <3>2. QED BY <3>1 DEF Article, ArticleStatus
  <2>2. QED BY <1>2, <1>4, <2>1
<1>6. article' \in Seq(Article) /\ DOMAIN article' = DOMAIN article /\ Len(article') = Len(article)
  BY <1>2, <1>5
<1>7. met \subseteq planned BY DEF met
<1>8. /\ N \in Nat /\ DOMAIN episode = 1..N /\ DOMAIN episode' = 1..(N + 1)
      /\ episode'[N + 1] = new /\ \A e \in 1..N : episode'[e] = episode[e]
      /\ \A e \in 1..N : episode[e].planned \subseteq DOMAIN article
      /\ episode' \in Seq([planned : SUBSET DOMAIN article, added : SUBSET DOMAIN article])
  <2> DEFINE E == [planned : SUBSET DOMAIN article, added : SUBSET DOMAIN article]
  <2>1. episode \in Seq(E) BY <1>1 DEF Types
  <2>2. new \in E BY <1>3
  <2> HIDE DEF E, new
  <2>3. /\ N \in Nat /\ DOMAIN episode = 1..N /\ DOMAIN episode' = 1..(N + 1)
        /\ episode'[N + 1] = new /\ \A e \in 1..N : episode'[e] = episode[e]
        /\ episode' \in Seq(E)
    BY <1>4, <2>1, <2>2
  <2>4. QED BY <1>1, <2>3, EpisodesAre DEF E
<1>9. \A q \in Processes : call'[q] = IF q = p THEN NoCall ELSE call[q]
  BY <1>1, <1>4 DEF Goto, Types
<1>10. Types'
  <2>1. call' \in [Processes -> Call] BY <1>4, IdleIsGood, GotoIs
  <2>2. excused' \subseteq DOMAIN article' BY <1>1, <1>3, <1>4, <1>6, <1>7 DEF Types
  <2> HIDE DEF new
  <2>3. QED BY <1>1, <1>4, <1>6, <1>8, <2>1, <2>2 DEF Types
<1>11. OneRowPerUrl' BY <1>5, <1>6 DEF OneRowPerUrl, Inv
<1>12. ASSUME NEW a \in planned, a \notin excused PROVE article[a].status # "selected"
  BY <1>1, <1>3, <1>12 DEF Good, Open, LoadedIds
<1>13. PlannedOnce'
  <2>1. SUFFICES ASSUME NEW a \in DOMAIN article, a \notin excused'
                 PROVE  Cardinality({e \in 1..(N + 1) : a \in episode'[e].planned})
                          = IF article'[a].status = "selected" THEN 1 ELSE 0
    BY <1>6, <1>8 DEF PlannedOnce
  <2> DEFINE before == {e \in 1..N : a \in episode[e].planned}
             after == {e \in 1..(N + 1) : a \in episode'[e].planned}
  <2>2. a \notin excused /\ Cardinality(before) = IF article[a].status = "selected" THEN 1 ELSE 0
    BY <1>4, <1>8, <2>1 DEF Inv, PlannedOnce
  <2>3. \A e \in 1..(N + 1) : e = N + 1 \/ e \in 1..N BY <1>8
  <2>4. new.planned = planned
    OBVIOUS
  <2> HIDE DEF new
  <2>5. CASE a \in planned
    <3>1. Cardinality(before) = 0 /\ IsFiniteSet(before)
      <4>1. IsFiniteSet(1..N) /\ before \in SUBSET (1..N) BY <1>8, FS_Interval
      <4> HIDE DEF before
      <4>2. QED BY <1>12, <2>2, <2>5, <4>1, FS_Subset
    <3>2. before = {}
      <4> HIDE DEF before
      <4>1. QED BY <3>1, FS_EmptySet
    <3>3. \A e \in 1..N : a \notin episode'[e].planned BY <1>8, <3>2
    <3>4. after = {N + 1} BY <1>8, <2>3, <2>4, <2>5, <3>3
    <3>5. Cardinality({N + 1}) = 1 BY FS_Singleton
    <3> HIDE DEF after
    <3>6. Cardinality(after) = 1 BY <3>4, <3>5
    <3>7. article'[a].status = "selected" BY <1>5, <2>5
    <3>8. QED BY <3>6, <3>7 DEF after
  <2>6. CASE a \notin planned
    <3>1. after = before BY <1>8, <2>3, <2>4, <2>6
    <3>2. article'[a].status = article[a].status BY <1>5, <2>6
    <3> HIDE DEF after, before
    <3>3. Cardinality(after) = IF article'[a].status = "selected" THEN 1 ELSE 0 BY <2>2, <3>1, <3>2
    <3>4. QED BY <3>3 DEF after
  <2>7. QED BY <2>5, <2>6
<1>14. ASSUME NEW q \in Processes, NEW b, b = call'[q] PROVE Good(b)'
  <2>1. CASE q = p
    <3>1. b = NoCall BY <1>9, <1>14, <2>1
    <3>2. Sound(NoCall, Len(article')) /\ NoCall.pc = "idle" /\ NoCall.list = <<>> BY Idleness
    <3> HIDE DEF NoCall
    <3>3. Informed(b)' /\ Open(b)' /\ Agrees(b)' BY <3>1, <3>2 DEF Informed, Open, Agrees
    <3>4. Sound(b, Len(article))' BY <3>1, <3>2 DEF Sound, Fits, Loads
    <3>5. QED BY <3>3, <3>4 DEF Good
  <2>2. CASE q # p
    <3>1. b = call[q] /\ Good(b) BY <1>9, <1>14, <2>2 DEF Inv
    <3>2. \A k \in DOMAIN b.list : b.list[k].id \in DOMAIN article
      BY <1>2, <3>1 DEF Good, Sound, Loads
    <3>3. Sound(b, Len(article))' BY <1>6, <3>1 DEF Good, Sound, Fits, Loads
    <3>4. Informed(b)' BY <1>5, <1>6, <3>1 DEF Good, Informed, UrlTaken
    <3>5. Open(b)'
      <4>1. SUFFICES ASSUME b.kind = "plan", NEW k \in DOMAIN b.list, b.list[k].id \notin excused'
                     PROVE  article'[b.list[k].id].status # "selected"
        BY DEF Open
      <4>2. b.list[k].id \in InList(q) /\ q \in others BY <2>2, <3>1, <4>1 DEF InList
      <4>3. b.list[k].id \notin planned BY <1>4, <4>1, <4>2 DEF met
      <4>4. article[b.list[k].id].status # "selected" BY <1>4, <3>1, <4>1 DEF Good, Open
      <4>5. QED BY <1>5, <3>2, <4>3, <4>4
    <3>6. Agrees(b)' BY <1>4, <1>5, <3>1, <3>2 DEF Good, Agrees
    <3>7. QED BY <3>3, <3>4, <3>5, <3>6 DEF Good
  <2>3. QED BY <2>1, <2>2
<1>15. \A q \in Processes : Good(call[q])'
  <2>1. ASSUME NEW b, b = call', NEW q \in Processes PROVE Good(b[q])' BY <1>14, <2>1
  <2>2. QED BY <2>1
<1>16. QED BY <1>10, <1>11, <1>13, <1>15 DEF Inv

-----------------------------------------------------------------------------
(* The theorems.                                                           *)

LEMMA InitHolds == Init => Inv
<1> SUFFICES ASSUME Init PROVE Inv
  OBVIOUS
<1> DEFINE stored == site.stored
           late(k) == \E j \in 1..(k - 1) : stored[j].url = stored[k].url
           row(k) == NewArticle(stored[k], "manual", late(k))
<1>1. /\ site \in Sites /\ stored \in Seq(Items)
      /\ \A n \in Sources : site.feeds[n] \in Seq(Seq(Items)) /\ site.feeds[n] # <<>>
      /\ site.requestLimit \in Nat /\ site.faultLimit \in Nat
  BY EditorialAssumption DEF Init
<1>2. article = [k \in DOMAIN stored |-> row(k)] BY DEF Init
<1> HIDE DEF stored
<1>3. /\ DOMAIN stored = 1..Len(stored) /\ Len(stored) \in Nat
      /\ \A k \in 1..Len(stored) : stored[k] \in Items
  BY <1>1
<1>4. \A k \in 1..Len(stored) : /\ row(k) \in Article /\ row(k).item = stored[k]
                                /\ row(k).late = late(k) /\ row(k).status = "collected"
  <2>1. ASSUME NEW k \in 1..Len(stored), NEW l \in BOOLEAN, l = late(k)
        PROVE  /\ row(k) \in Article /\ row(k).item = stored[k]
               /\ row(k).late = l /\ row(k).status = "collected"
    <3> HIDE DEF late
    <3>1. QED BY <1>3, <2>1, NewArticleType, NewArticleIs
  <2>2. \A k \in 1..Len(stored) : late(k) \in BOOLEAN
    OBVIOUS
  <2> HIDE DEF row, late
  <2>3. QED BY <2>1, <2>2
<1> HIDE DEF row
<1>5. /\ article \in Seq(Article) /\ DOMAIN article = 1..Len(stored)
      /\ \A k \in 1..Len(stored) : article[k] = row(k)
  <2>1. article \in [1..Len(stored) -> Article] BY <1>2, <1>3, <1>4
  <2>2. QED BY <1>2, <1>3, <2>1
<1>6. \A p \in Processes : call[p] = NoCall BY DEF Init
<1>7. Types
  <2>1. feed \in [Sources -> Nat] /\ \A n \in Sources : feed[n] \in DOMAIN site.feeds[n]
    <3>1. \A n \in Sources : 1 \in DOMAIN site.feeds[n] BY <1>1
    <3>2. QED BY <3>1 DEF Init
  <2>2. source \in [Sources -> [rows : 0..2, enabled : BOOLEAN]] BY DEF Init
  <2>3. call \in [Processes -> Call]
    <3>1. NoCall \in Call BY Idleness DEF Sound
    <3>2. QED BY <3>1 DEF Init
  <2>4. spent \in [requests : 0..site.requestLimit, faults : 0..site.faultLimit] BY <1>1 DEF Init
  <2>5. episode \in Seq([planned : SUBSET DOMAIN article, added : SUBSET DOMAIN article])
    BY DEF Init
  <2>6. excused \subseteq DOMAIN article BY DEF Init
  <2>7. QED BY <1>1, <1>5, <2>1, <2>2, <2>3, <2>4, <2>5, <2>6 DEF Types
<1>8. OneRowPerUrl
  <2>1. SUFFICES ASSUME NEW a \in 1..Len(stored), NEW b \in 1..Len(stored), a < b,
                        article[a].item.url = article[b].item.url
                 PROVE  article[b].late
    BY <1>5 DEF OneRowPerUrl
  <2>2. stored[a].url = stored[b].url BY <1>4, <1>5, <2>1
  <2>3. a \in 1..(b - 1) BY <1>3, <2>1
  <2>4. late(b) BY <2>2, <2>3
  <2>5. article[b].late = late(b) BY <1>4, <1>5
  <2> HIDE DEF late
  <2>6. QED BY <2>4, <2>5
<1>9. PlannedOnce
  <2>1. episode = <<>> /\ DOMAIN episode = {} BY DEF Init
  <2>2. ASSUME NEW a \in DOMAIN article
        PROVE  Cardinality({e \in DOMAIN episode : a \in episode[e].planned})
                 = IF article[a].status = "selected" THEN 1 ELSE 0
    <3>1. {e \in DOMAIN episode : a \in episode[e].planned} = {} BY <2>1
    <3>2. article[a].status = "collected" BY <1>4, <1>5
    <3>3. QED BY <3>1, <3>2, FS_EmptySet
  <2>3. QED BY <2>2 DEF PlannedOnce
<1>10. QED BY <1>6, <1>7, <1>8, <1>9, IdleIsGood DEF Inv

LEMMA WorkKeeps == ASSUME Inv, NEW p \in Processes, Work(p) PROVE Inv'
  BY CollectKeeps, CheckKeeps, FindSourceKeeps, InsertKeeps, SummarizeKeeps, ClassifyKeeps,
     ExtractKeeps, TagKeeps, ScoreKeeps, ChooseKeeps, DescribeKeeps, CreateEpisodeKeeps,
     StoreEnteredKeeps DEF Work

\* Nothing happens.
LEMMA StutterKeeps == ASSUME Inv, UNCHANGED vars PROVE Inv'
<1>1. Types' BY DEF Inv, Types, vars
<1>2. OneRowPerUrl' /\ PlannedOnce' BY DEF Inv, OneRowPerUrl, PlannedOnce, vars
<1>3. \A p \in Processes : Good(call[p])'
  BY DEF Inv, Good, Sound, Loads, Fits, Informed, UrlTaken, Open, Agrees, vars
<1>4. QED BY <1>1, <1>2, <1>3 DEF Inv

LEMMA StepKeeps == Inv /\ [Next]_vars => Inv'
<1> SUFFICES ASSUME Inv, [Next]_vars PROVE Inv'
  OBVIOUS
<1>1. CASE UNCHANGED vars BY <1>1, StutterKeeps
<1>2. CASE DailyImport
  <2>1. PICK p \in Workers : StartImport(p, Enabled) BY <1>2 DEF DailyImport, ImportScheduled
  <2>2. Enabled \in SUBSET Sources BY DEF Enabled
  <2>3. QED BY <2>1, <2>2, StartImportKeeps
<1>3. ASSUME NEW p \in Workers, NEW n \in Sources, ImportRequested(p, n) PROVE Inv'
  <2>1. StartImport(p, {n}) /\ {n} \in SUBSET Sources BY <1>3 DEF ImportRequested
  <2>2. QED BY <2>1, StartImportKeeps
<1>4. ASSUME NEW p \in Workers, Plan(p) PROVE Inv' BY <1>4, PlanKeeps
<1>5. ASSUME NEW p \in Workers, SummarizeTodays(p) \/ ClassifyTodays(p) PROVE Inv'
  <2>1. Todays \in SUBSET DOMAIN article BY DEF Todays
  <2>2. QED BY <1>5, <2>1, StartAnalysisKeeps DEF SummarizeTodays, ClassifyTodays, Analyses
<1>6. ASSUME NEW p \in Workers, NEW a \in DOMAIN article, SummarizeOne(p, a) \/ ClassifyOne(p, a)
      PROVE  Inv'
  BY <1>6, AnalysesKeep
<1>7. ASSUME NEW p \in Operators, NEW i \in site.byHand, Enter(p, i) \/ Post(p, i) PROVE Inv'
  BY <1>7, SubmitKeeps DEF Enter, Post
<1>8. ASSUME NEW p \in Processes, Work(p) \/ Crash(p) PROVE Inv' BY <1>8, WorkKeeps, CrashKeeps
<1>9. ASSUME NEW a \in DOMAIN article, Rescore(a) PROVE Inv' BY <1>9, RescoreKeeps
<1>10. ASSUME NEW a \in DOMAIN article, NEW e \in DOMAIN episode, AddToDraft(e, a) PROVE Inv'
  BY <1>10, AddToDraftKeeps
<1>11. ASSUME NEW n \in Sources,
              ToggleSource(n) \/ DeleteSource(n) \/ CreateSource(n) \/ FeedChanges(n)
       PROVE  Inv'
  BY <1>11, SourceKeeps, FeedKeeps
<1>12. ASSUME NEW n \in Sources, NEW m \in Sources, RenameSource(n, m) PROVE Inv'
  BY <1>12, RenameKeeps
<1>13. CASE Quiet BY <1>13, StutterKeeps DEF Quiet
<1>14. QED BY <1>1, <1>2, <1>3, <1>4, <1>5, <1>6, <1>7, <1>8, <1>9, <1>10, <1>11, <1>12, <1>13 DEF
    Next

LEMMA Invariance == FairSpec => []Inv
  BY InitHolds, StepKeeps, PTL DEF FairSpec

\* Rows and calls keep their types and no two rows have one URL unless nobody
\* could see it: whatever imports, people and analyses do to each other, for
\* every number of workers, feeds and articles.
THEOREM RowsStayDistinct == FairSpec => []RowsAreDistinct
<1>1. Inv => RowsAreDistinct
  <2> SUFFICES ASSUME Inv PROVE RowsAreDistinct
    OBVIOUS
  <2>1. \A p \in Processes : Fits(call[p]) BY DEF Inv, Good, Sound
  <2>2. TypeOK BY <2>1 DEF Inv, Types, TypeOK, Fits
  <2>3. QED BY <2>2 DEF Inv, RowsAreDistinct
<1>2. QED BY <1>1, Invariance, PTL

\* An article is selected if and only if exactly one episode was planned with
\* it, but for those that several plans or a late summary worked on at once.
THEOREM PlansAreExclusive == FairSpec => []PlannedOnce
<1>1. Inv => PlannedOnce BY DEF Inv
<1>2. QED BY <1>1, Invariance, PTL

-----------------------------------------------------------------------------
(* The choice.                                                             *)

\* What is chosen when p chooses.
IsBest(p) ==
  LET views == Views(p)
      ids == call'[p].chosen
      in == {v \in Range(views) : \E k \in DOMAIN ids : ids[k] = v.id}
  IN /\ Len(ids) = Cardinality(in) /\ Len(ids) \in 1..MaxArticles
     /\ \A v, w \in in : v # w => ~ SameStory(views, v, w)
     /\ \A v \in Range(views) \ in :
          \/ \E w \in in : Better(w, v) /\ SameStory(views, v, w)
          \/ Len(ids) = MaxArticles /\ \A w \in in : Better(w, v)

LEMMA ChoiceIsBest == ASSUME Inv, NEW p \in Processes, Choose(p) PROVE IsBest(p)
<1> DEFINE views == Views(p)
           chosen == Chosen(views, MaxArticles)
           ids == call'[p].chosen
           in == {v \in Range(views) : \E k \in DOMAIN ids : ids[k] = v.id}
           all == LoadedIds(call[p])
           V == {ViewOf(a) : a \in all}
<1>1. call[p] \in Call /\ Fits(call[p]) /\ call[p].pc = "choose" /\ call \in [Processes -> Call]
  BY CallIs, ChooseIs DEF Inv, Types
<1>2. ids = ChosenIds(p) BY <1>1, ChooseIs DEF Goto
<1>3. /\ Len(ids) = Len(chosen)
      /\ Range(chosen) = {v \in Range(views) : \E k \in DOMAIN ids : ids[k] = v.id}
  BY <1>2, ChosenIdsAre
<1>4. all # {}
  <2> DEFINE list == call[p].list
  <2>1. list # <<>> /\ list \in Seq([id : Nat, row : Article]) BY <1>1, CallParts DEF Fits, PlanPc
  <2>2. all = {list[k].id : k \in DOMAIN list} BY DEF LoadedIds
  <2> HIDE DEF list, all
  <2>3. 1 \in DOMAIN list BY <2>1
  <2>4. QED BY <2>2, <2>3
<1> HIDE DEF ids, all
<1>5. views \in Seq(V) /\ views # <<>> /\ Range(views) = V /\ Ratable(V) BY <1>4, ViewsAre DEF all
<1>6. MaxArticles \in Nat /\ MaxArticles > 0 BY EditorialAssumption
<1> HIDE DEF V, views
<1>7. /\ Len(chosen) = Cardinality(Range(chosen))
      /\ Len(chosen) \in 0..MaxArticles /\ Len(chosen) > 0
      /\ \A v, w \in Range(chosen) : v # w => ~ SameStory(views, v, w)
      /\ \A v \in Range(views) \ Range(chosen) :
           \/ \E w \in Range(chosen) : Better(w, v) /\ SameStory(views, v, w)
           \/ Len(chosen) = MaxArticles /\ \A w \in Range(chosen) : Better(w, v)
  BY <1>5, <1>6, ChosenIsBest
<1>8. in = Range(chosen) BY <1>3
<1> HIDE DEF in, chosen
<1>9. Len(ids) \in 1..MaxArticles
  <2>1. PICK n \in 0..MaxArticles : n = Len(chosen) BY <1>7
  <2>2. n > 0 /\ Len(ids) = n BY <1>3, <1>7, <2>1
  <2>3. QED BY <1>6, <2>1, <2>2
<1>10. QED BY <1>3, <1>7, <1>8, <1>9 DEF IsBest, views, ids, in

\* Others leave a call at its step.
LEMMA ElsewhereSame ==
  ASSUME Inv, NEW q \in Processes, NEW d, Goto(q, d), NEW p \in Processes, p # q
  PROVE  call'[p] = call[p]
  BY DEF Goto, Inv, Types

LEMMA OnlyChooseChooses ==
  ASSUME Inv, Next, NEW p \in Processes, call[p].pc = "choose", call'[p].pc = "describe"
  PROVE  Choose(p)
<1>1. ASSUME NEW q \in Processes, NEW d, Goto(q, d) PROVE q = p BY <1>1, ElsewhereSame
<1>2. ASSUME NEW q \in Workers, NEW names, StartImport(q, names) PROVE FALSE
  BY <1>1, <1>2, WorkersWork DEF StartImport, Idle
<1>3. ASSUME NEW q \in Workers, NEW kind, NEW ids, StartAnalysis(q, kind, ids) PROVE FALSE
  BY <1>1, <1>3, WorkersWork DEF StartAnalysis, Idle
<1>4. ASSUME NEW q \in Operators, NEW i, NEW kind, Submit(q, i, kind) PROVE FALSE
  BY <1>1, <1>4, WorkersWork DEF Submit, Idle
<1>5. UNCHANGED call => FALSE
  OBVIOUS
<1>6. ASSUME NEW q \in Processes, NEW i, NEW d, call' = [Overlooked(i) EXCEPT ![q] = d] PROVE q = p
  <2>1. SUFFICES ASSUME q # p PROVE FALSE
    OBVIOUS
  <2>2. call'[p] = Overlooked(i)[p] BY <1>6, <2>1 DEF Overlooked
  <2>3. Overlooked(i)[p] = call[p] BY DEF Overlooked
  <2>4. QED BY <2>2, <2>3
<1>7. ASSUME NEW q \in Processes, Work(q) PROVE Choose(p)
  <2>1. CASE Choose(q) BY <1>1, <2>1, ChooseIs
  <2>2. CASE Collect(q) \/ Check(q) \/ FindSource(q)
    BY <1>1, <2>2 DEF Collect, Check, FindSource, At
  <2>3. CASE Insert(q) BY <1>1, <1>6, <2>3 DEF Insert, At
  <2>4. CASE StoreEntered(q) BY <1>1, <1>6, <2>4 DEF StoreEntered, Leave, At
  <2>5. CASE Summarize(q) \/ Classify(q) \/ Extract(q)
    BY <1>1, <2>5 DEF Summarize, Classify, Extract, Skip, ModelFails, At
  <2>6. CASE Tag(q) \/ Score(q) BY <1>1, <2>6 DEF Tag, Score, At
  <2>7. CASE Describe(q) \/ CreateEpisode(q) BY <1>1, <2>7 DEF Describe, CreateEpisode, Leave, At
  <2>8. QED BY <1>7, <2>1, <2>2, <2>3, <2>4, <2>5, <2>6, <2>7 DEF Work
<1>8. ASSUME NEW q \in Processes, Crash(q) PROVE FALSE
  <2>1. q = p /\ call' = [call EXCEPT ![q] = NoCall] BY <1>1, <1>8 DEF Crash, Leave, Goto
  <2>2. call'[p] = NoCall BY <2>1 DEF Inv, Types
  <2>3. QED BY <2>2, Idleness
<1>9. QED BY <1>2, <1>3, <1>4, <1>5, <1>7, <1>8 DEF Next, DailyImport, ImportScheduled,
    ImportRequested, Plan, SummarizeTodays, ClassifyTodays, SummarizeOne, ClassifyOne, Enter, Post,
    Rescore, AddToDraft, ToggleSource, DeleteSource, CreateSource, FeedChanges, RenameSource, Quiet,
    vars

\* Every plan chooses the best articles: at least one and at most MaxArticles, no
\* two of one story, and none is left out but for a better one, for every number
\* of articles and whatever the scores and clusters are.
THEOREM PlansChooseTheBest == FairSpec => SelectionIsBest
<1> DEFINE Best == \A p \in Workers : At(p, "choose") /\ call'[p].pc = "describe" => IsBest(p)
<1>1. Inv /\ [Next]_vars => [Best]_vars
  <2> SUFFICES ASSUME Inv, Next, NEW p \in Workers, At(p, "choose"), call'[p].pc = "describe"
               PROVE  IsBest(p)
    OBVIOUS
  <2>1. p \in Processes /\ call[p].pc = "choose" BY WorkersWork DEF At
  <2>2. QED BY <2>1, OnlyChooseChooses, ChoiceIsBest
<1>2. QED BY <1>1, Invariance, PTL DEF FairSpec, SelectionIsBest, IsBest

=============================================================================
