------------------------- MODULE ListenerShelfProofs -------------------------
(***************************************************************************)
(* Proofs about EpisodeAudio and ListenerShelf: what the audio rows, the   *)
(* daily job and the listeners' shelf promise holds for any number of      *)
(* episodes, lines, articles, workers and publishers.                      *)
(*                                                                         *)
(* The invariant says how far each job and each batch has come, and, for a *)
(* job that has been alone on its episode, what it has left in the files.  *)
(* A step of a job lets rows and files grow (Grows) and touches nothing of *)
(* other episodes (Aside); that is enough for the other jobs and for the   *)
(* batches, so that each action is looked at by itself.                    *)
(***************************************************************************)
EXTENDS ListenerShelf, FiniteSetTheorems, SequenceTheorems, WellFoundedInduction, TLAPS

(* Recursion up to a number.                                               *)

\* What holds of 0 and of every number after one it holds of, it holds of all.
LEMMA UpTo ==
  ASSUME NEW N \in Nat, NEW T, 0 \in T, \A n \in 1..N : n - 1 \in T => n \in T
  PROVE  0..N \subseteq T
<1> DEFINE R == {p \in Nat \X Nat : p[1] < p[2]}
           U == {n \in 0..N : n \notin T}
<1>1. IsWellFoundedOn(R, Nat) BY NatLessThanWellFounded DEF OpToRel
<1>2. U = {}
  <2>1. SUFFICES ASSUME U # {} PROVE FALSE
    OBVIOUS
  <2>2. U \subseteq Nat
    OBVIOUS
  <2>3. PICK x \in U : \A y \in U : ~ (<<y, x>> \in R)
    <3> HIDE DEF R, U
    <3>1. QED BY <1>1, <2>1, <2>2, WFMin, Zenon
  <2>4. x \in 1..N /\ x \notin T BY <2>3
  <2>5. x - 1 \notin U
    <3>1. x - 1 \in Nat /\ x \in Nat /\ x - 1 < x BY <2>4
    <3>2. <<x - 1, x>> \in R BY <3>1
    <3>3. QED BY <2>3, <3>2
  <2>6. QED BY <2>3, <2>4, <2>5
<1>3. QED BY <1>2

\* A function can be defined from each value to the next.
Course(g, N, a, F) == g[0] = a /\ \A n \in 1..N : g[n] = F[<<n, g[n - 1]>>]
HasCourse(N, S, a, F) == \E g \in [0..N -> S] : Course(g, N, a, F)
LEMMA StepByStep ==
  ASSUME NEW N \in Nat, NEW S, NEW a \in S, NEW F \in [(1..N) \X S -> S]
  PROVE  HasCourse(N, S, a, F)
<1> USE DEF HasCourse, Course
<1> DEFINE Good(m, g) == g[0] = a /\ \A n \in 1..m : g[n] = F[<<n, g[n - 1]>>]
           T == {m \in 0..N : \E g \in [0..m -> S] : Good(m, g)}
<1>1. 0 \in T
  <2> DEFINE g == [n \in 0..0 |-> a]
  <2>1. g \in [0..0 -> S] /\ g[0] = a /\ 1..0 = {}
    OBVIOUS
  <2> HIDE DEF g
  <2>2. Good(0, g) BY <2>1
  <2> HIDE DEF Good
  <2>3. QED BY <2>1, <2>2
<1>2. ASSUME NEW m \in 1..N, m - 1 \in T PROVE m \in T
  <2>1. PICK g \in [0..(m - 1) -> S] : Good(m - 1, g) BY <1>2
  <2> DEFINE h == [n \in 0..m |-> IF n = m THEN F[<<m, g[m - 1]>>] ELSE g[n]]
  <2>2. h \in [0..m -> S] BY <2>1
  <2>3. Good(m, h)
    <3>1. h[0] = a BY <2>1
    <3>2. ASSUME NEW n \in 1..m PROVE h[n] = F[<<n, h[n - 1]>>]
      <4>1. CASE n = m
        <5>1. n \in 0..m /\ n - 1 \in 0..m /\ n - 1 # m BY <4>1
        <5>2. QED BY <4>1, <5>1
      <4>2. CASE n # m
        <5>1. n \in 1..(m - 1) /\ n - 1 \in 0..m /\ n - 1 # m BY <4>2
        <5>2. QED BY <2>1, <5>1, <4>2
      <4>3. QED BY <4>1, <4>2
    <3>3. QED BY <3>1, <3>2
  <2>4. m \in 0..N
    OBVIOUS
  <2> HIDE DEF Good, h
  <2>5. QED BY <2>2, <2>3, <2>4
<1>3. 0..N \subseteq T
  <2> HIDE DEF T
  <2>1. QED BY <1>1, <1>2, UpTo
<1>4. QED
  <2> HIDE DEF Good
  <2>1. N \in T BY <1>3
  <2>2. \E g \in [0..N -> S] : Good(N, g) BY <2>1
  <2>3. QED BY <2>2 DEF Good

-----------------------------------------------------------------------------
(* Parts of sequences.                                                     *)

\* h lists the numbers of P in increasing order.
Lists(h, m, P) ==
  /\ h \in [1..m -> P]
  /\ \A i, j \in 1..m : i < j => h[i] < h[j]
  /\ \A x \in P : \E k \in 1..m : h[k] = x

\* One place after the other.
KeptAt(g, seq, S, A) ==
  /\ g \in [0..Len(seq) -> Seq(A)] /\ g[0] = <<>>
  /\ \A n \in 1..Len(seq) : g[n] = IF n \in S THEN Append(g[n - 1], seq[n]) ELSE g[n - 1]
  /\ Kept(seq, S) = g[Len(seq)]
LEMMA KeptUnfolds ==
  ASSUME NEW A, NEW seq \in Seq(A), NEW S
  PROVE  \E g : KeptAt(g, seq, S, A)
<1> DEFINE N == Len(seq)
           next(s, n) == IF n \in S THEN Append(s, seq[n]) ELSE s
           IsKept(g) == g = [n \in 0..N |-> IF n = 0 THEN <<>>
                                            ELSE IF n \in S THEN Append(g[n - 1], seq[n]) ELSE g[n - 1]]
           kept == CHOOSE g : IsKept(g)
<1>1. N \in Nat /\ <<>> \in Seq(A) /\ \A n \in 1..N : \A s \in Seq(A) : next(s, n) \in Seq(A)
  OBVIOUS
<1>2. Kept(seq, S) = kept[N] BY DEF Kept
<1>3. PICK g \in [0..N -> Seq(A)] : g[0] = <<>> /\ \A n \in 1..N : g[n] = next(g[n - 1], n)
  <2> DEFINE F == [x \in (1..N) \X Seq(A) |-> next(x[2], x[1])]
  <2> HIDE DEF N, next
  <2>1. F \in [(1..N) \X Seq(A) -> Seq(A)] /\ \A n \in 1..N, s \in Seq(A) : F[<<n, s>>] = next(s, n)
    BY <1>1
  <2> HIDE DEF F
  <2>2. HasCourse(N, Seq(A), <<>>, F) BY <1>1, <2>1, StepByStep
  <2>3. PICK g \in [0..N -> Seq(A)] : g[0] = <<>> /\ \A n \in 1..N : g[n] = F[<<n, g[n - 1]>>]
    BY <2>2 DEF HasCourse, Course
  <2>4. \A n \in 1..N : g[n] = next(g[n - 1], n)
    <3>1. \A n \in 1..N : n - 1 \in 0..N BY <1>1
    <3>2. QED BY <2>1, <2>3, <3>1
  <2>5. QED BY <2>3, <2>4
<1>4. IsKept(g)
  <2> HIDE DEF N
  <2>1. ASSUME NEW n \in 0..N
        PROVE  g[n] = IF n = 0 THEN <<>> ELSE IF n \in S THEN Append(g[n - 1], seq[n]) ELSE g[n - 1]
    <3>1. CASE n = 0 BY <1>3, <3>1
    <3>2. CASE n # 0
      <4>1. n \in 1..N BY <1>1, <3>2
      <4>2. QED BY <1>3, <4>1, <3>2
    <3>3. QED BY <3>1, <3>2
  <2>2. QED BY <1>3, <2>1
<1> HIDE DEF IsKept
<1>5. IsKept(kept) BY <1>4
<1> HIDE DEF kept
<1>6. /\ kept[0] = <<>>
      /\ \A n \in 1..N : kept[n] = next(kept[n - 1], n)
      /\ DOMAIN kept = 0..N
  <2> HIDE DEF N
  <2>1. /\ DOMAIN kept = 0..N
        /\ \A n \in 0..N : kept[n] = IF n = 0 THEN <<>>
                                    ELSE IF n \in S THEN Append(kept[n - 1], seq[n]) ELSE kept[n - 1]
    BY <1>5 DEF IsKept
  <2>2. 0 \in 0..N /\ \A n \in 1..N : n \in 0..N /\ n # 0 BY <1>1
  <2>3. QED BY <2>1, <2>2
<1>7. \A n \in 0..N : kept[n] \in Seq(A)
  <2> DEFINE T == {n \in 0..N : kept[n] \in Seq(A)}
  <2> HIDE DEF N, next
  <2>1. 0 \in T
    <3>1. 0 \in 0..N /\ <<>> \in Seq(A) BY <1>1
    <3>2. kept[0] \in Seq(A) BY <1>6, <3>1
    <3>3. QED BY <3>1, <3>2
  <2>2. ASSUME NEW n \in 1..N, n - 1 \in T PROVE n \in T BY <1>1, <1>6, <2>2
  <2>3. 0..N \subseteq T
    <3> HIDE DEF T
    <3>1. QED BY <1>1, <2>1, <2>2, UpTo
  <2>4. QED BY <2>3
<1>8. kept \in [0..N -> Seq(A)] BY <1>5, <1>7 DEF IsKept
<1>9. KeptAt(kept, seq, S, A) BY <1>2, <1>6, <1>8 DEF KeptAt
<1>10. QED BY <1>9

\* What Kept returns: what is at the places of S, in their order.
KeepsAt(h, m, seq, S) ==
  Lists(h, m, S \cap (1..Len(seq))) /\ Kept(seq, S) = [k \in 1..m |-> seq[h[k]]]
LEMMA KeptIs ==
  ASSUME NEW A, NEW seq \in Seq(A), NEW S
  PROVE  \E m \in Nat : \E h : KeepsAt(h, m, seq, S)
<1> DEFINE N == Len(seq)
           Till(n) == S \cap (1..n)
<1>1. PICK g : KeptAt(g, seq, S, A) BY KeptUnfolds
<1>2. /\ N \in Nat /\ g[0] = <<>> /\ Kept(seq, S) = g[N]
      /\ \A n \in 1..N : g[n] = IF n \in S THEN Append(g[n - 1], seq[n]) ELSE g[n - 1]
      /\ \A n \in 1..N : seq[n] \in A
  BY <1>1 DEF KeptAt
<1> DEFINE Good(n) == \E m \in Nat : \E h : Lists(h, m, Till(n)) /\ g[n] = [k \in 1..m |-> seq[h[k]]]
           T == {n \in 0..N : Good(n)}
<1> HIDE DEF N
<1>3. 0 \in T
  <2> DEFINE h == [k \in 1..0 |-> 1]
  <2>1. Till(0) = {} /\ 1..0 = {}
    OBVIOUS
  <2>2. Lists(h, 0, Till(0)) BY <2>1 DEF Lists
  <2>3. g[0] = [k \in 1..0 |-> seq[h[k]]] BY <1>2
  <2> HIDE DEF h, Till
  <2>4. 0 \in 0..N /\ 0 \in Nat BY <1>2
  <2>5. Good(0) BY <2>2, <2>3, <2>4
  <2> HIDE DEF Good
  <2>6. QED BY <2>4, <2>5
<1>4. ASSUME NEW n \in 1..N, n - 1 \in T PROVE n \in T
  <2>a. PICK m \in Nat : \E h : Lists(h, m, Till(n - 1)) /\ g[n - 1] = [k \in 1..m |-> seq[h[k]]]
    BY <1>4
  <2>1. PICK h : Lists(h, m, Till(n - 1)) /\ g[n - 1] = [k \in 1..m |-> seq[h[k]]] BY <2>a
  <2>2. n \in Nat /\ n - 1 \in Nat /\ n \in 0..N BY <1>2
  <2>3. CASE n \notin S
    <3>1. Till(n) = Till(n - 1) BY <2>2, <2>3
    <3>2. g[n] = g[n - 1] BY <1>2, <2>3
    <3> HIDE DEF Till
    <3>3. Lists(h, m, Till(n)) /\ g[n] = [k \in 1..m |-> seq[h[k]]] BY <2>1, <3>1, <3>2
    <3>4. Good(n) BY <3>3
    <3> HIDE DEF Good
    <3>5. QED BY <2>2, <3>4
  <2>4. CASE n \in S
    <3> DEFINE i == [k \in 1..(m + 1) |-> IF k = m + 1 THEN n ELSE h[k]]
    <3>1. Till(n) = Till(n - 1) \cup {n} /\ \A x \in Till(n - 1) : x \in Nat /\ x < n BY <2>2, <2>4
    <3>2. h \in [1..m -> Till(n - 1)] BY <2>1 DEF Lists
    <3>3. /\ \A k \in 1..m : i[k] = h[k] /\ h[k] \in Till(n - 1)
          /\ i[m + 1] = n /\ i \in [1..(m + 1) -> Till(n)]
      BY <3>1, <3>2
    <3>4. Lists(i, m + 1, Till(n))
      <4>1. ASSUME NEW x \in 1..(m + 1), NEW y \in 1..(m + 1), x < y PROVE i[x] < i[y]
        <5>1. x \in 1..m BY <4>1
        <5>2. CASE y = m + 1 BY <3>1, <3>3, <5>1, <5>2
        <5>3. CASE y # m + 1
          <6>1. y \in 1..m BY <5>3
          <6> HIDE DEF i, Till
          <6>2. h[x] < h[y] BY <2>1, <4>1, <5>1, <6>1 DEF Lists
          <6>3. QED BY <3>3, <5>1, <6>1, <6>2
        <5>4. QED BY <5>2, <5>3
      <4>2. ASSUME NEW x \in Till(n) PROVE \E k \in 1..(m + 1) : i[k] = x
        <5> HIDE DEF i, Till
        <5>1. CASE x = n BY <3>3, <5>1
        <5>2. CASE x # n
          <6>1. PICK k \in 1..m : h[k] = x BY <2>1, <3>1, <5>2 DEF Lists
          <6>2. k \in 1..(m + 1)
            OBVIOUS
          <6>3. QED BY <3>3, <6>1, <6>2
        <5>3. QED BY <5>1, <5>2
      <4> HIDE DEF i, Till
      <4>3. QED BY <3>3, <4>1, <4>2 DEF Lists
    <3>5. g[n] = [k \in 1..(m + 1) |-> seq[i[k]]]
      <4> HIDE DEF i, Till
      <4>1. g[n] = Append(g[n - 1], seq[n]) BY <1>2, <2>4
      <4>2. g[n - 1] \in Seq(A) BY <1>1, <2>2 DEF KeptAt, N
      <4>3. Len(g[n - 1]) = m BY <2>1, <4>2
      <4>4. DOMAIN g[n] = 1..(m + 1) BY <4>1, <4>2, <4>3
      <4>5. ASSUME NEW k \in 1..(m + 1) PROVE g[n][k] = seq[i[k]]
        <5>1. CASE k = m + 1 BY <3>3, <4>1, <4>2, <4>3, <5>1
        <5>2. CASE k # m + 1
          <6>1. k \in 1..m BY <5>2
          <6>2. g[n][k] = g[n - 1][k] BY <4>1, <4>2, <4>3, <6>1
          <6>3. QED BY <2>1, <3>3, <6>1, <6>2
        <5>3. QED BY <5>1, <5>2
      <4>6. g[n] \in Seq(A) BY <1>1, <2>2 DEF KeptAt, N
      <4>7. QED BY <4>4, <4>5, <4>6
    <3> HIDE DEF i, Till
    <3>6. m + 1 \in Nat
      OBVIOUS
    <3>7. QED BY <2>2, <3>4, <3>5, <3>6
  <2>5. QED BY <2>3, <2>4
<1>5. N \in T
  <2> HIDE DEF T
  <2>1. 0..N \subseteq T BY <1>2, <1>3, <1>4, UpTo
  <2>2. QED BY <1>2, <2>1
<1>6. Good(N) BY <1>5
<1>7. PICK m \in Nat : \E h : Lists(h, m, Till(N)) /\ g[N] = [k \in 1..m |-> seq[h[k]]] BY <1>6
<1>8. PICK h : Lists(h, m, Till(N)) /\ g[N] = [k \in 1..m |-> seq[h[k]]] BY <1>7
<1>9. KeepsAt(h, m, seq, S) BY <1>2, <1>8 DEF KeepsAt, N
<1>10. QED BY <1>9

-----------------------------------------------------------------------------
(* Sets in an order.                                                       *)

\* R is a strict total order of S.
Orders(R, S) ==
  /\ \A x \in S : <<x, x>> \notin R
  /\ \A x, y, z \in S : <<x, y>> \in R /\ <<y, z>> \in R => <<x, z>> \in R
  /\ \A x, y \in S : x = y \/ <<x, y>> \in R \/ <<y, x>> \in R
Arranges(a, S, R) ==
  /\ a \in [1..Cardinality(S) -> S]
  /\ \A i, j \in 1..Cardinality(S) : i < j => <<a[i], a[j]>> \in R
  /\ \A x \in S : \E i \in 1..Cardinality(S) : a[i] = x

\* The following member is the one with as many before it.
LEMMA Ranks ==
  ASSUME NEW S, IsFiniteSet(S), NEW R, Orders(R, S)
  PROVE  LET rank(x) == Cardinality({y \in S : <<y, x>> \in R})
         IN /\ \A x, y \in S : <<x, y>> \in R <=> rank(x) < rank(y)
            /\ \A k \in 1..Cardinality(S) : \E x \in S : rank(x) = k - 1
            /\ \A x \in S : rank(x) \in Nat /\ rank(x) < Cardinality(S)
<1> DEFINE before(x) == {y \in S : <<y, x>> \in R}
           rank(x) == Cardinality(before(x))
           n == Cardinality(S)
<1>1. n \in Nat /\ \A T \in SUBSET S : IsFiniteSet(T) /\ Cardinality(T) \in Nat /\ Cardinality(T) <= n
  BY FS_CardinalityType, FS_Subset
<1>2. \A x \in S : before(x) \in SUBSET S /\ IsFiniteSet(before(x)) /\ rank(x) \in Nat BY <1>1
<1>3. ASSUME NEW x \in S PROVE rank(x) < n
  <2>1. before(x) \in SUBSET (S \ {x}) BY DEF Orders
  <2>2. IsFiniteSet(S \ {x}) /\ Cardinality(S \ {x}) = n - 1 BY FS_RemoveElement
  <2> HIDE DEF before
  <2>3. Cardinality(before(x)) <= n - 1 BY <2>1, <2>2, FS_Subset
  <2>4. QED BY <1>1, <1>2, <2>3
<1>4. ASSUME NEW x \in S, NEW y \in S, <<x, y>> \in R PROVE rank(x) < rank(y)
  <2>1. before(x) \subseteq before(y) /\ x \in before(y) /\ x \notin before(x) BY <1>4 DEF Orders
  <2>2. before(x) \in SUBSET before(y) /\ before(x) # before(y) BY <2>1
  <2> HIDE DEF before
  <2>3. Cardinality(before(x)) <= Cardinality(before(y)) /\ Cardinality(before(x)) # Cardinality(before(y))
    BY <1>2, <2>2, FS_Subset
  <2>4. QED BY <1>2, <2>3
<1>5. ASSUME NEW x \in S, NEW y \in S PROVE <<x, y>> \in R <=> rank(x) < rank(y)
  <2>1. x = y \/ <<x, y>> \in R \/ <<y, x>> \in R BY DEF Orders
  <2>2. x = y => <<x, y>> \notin R BY DEF Orders
  <2>3. rank(x) \in Nat /\ rank(y) \in Nat BY <1>2
  <2>4. (<<x, y>> \in R => rank(x) < rank(y)) /\ (<<y, x>> \in R => rank(y) < rank(x)) BY <1>4
  <2> HIDE DEF rank
  <2>5. QED BY <2>1, <2>2, <2>3, <2>4
<1>6. ASSUME NEW k \in 1..n PROVE \E x \in S : rank(x) = k - 1
  <2> DEFINE f == [x \in S |-> rank(x)]
  <2>1. f \in [S -> 0..(n - 1)]
    <3>1. n \in Nat /\ \A x \in S : rank(x) \in Nat /\ rank(x) < n BY <1>1, <1>2, <1>3
    <3> HIDE DEF rank, n
    <3>2. \A x \in S : rank(x) \in 0..(n - 1) BY <3>1
    <3>3. QED BY <3>2
  <2>2. \A x, y \in S : f[x] = f[y] => x = y
    <3>1. ASSUME NEW x \in S, NEW y \in S, f[x] = f[y] PROVE x = y
      <4>1. x = y \/ <<x, y>> \in R \/ <<y, x>> \in R BY DEF Orders
      <4>2. rank(x) \in Nat /\ rank(x) = rank(y) BY <1>2, <3>1
      <4>3. (<<x, y>> \in R => rank(x) < rank(y)) /\ (<<y, x>> \in R => rank(y) < rank(x)) BY <1>4
      <4> HIDE DEF rank
      <4>4. QED BY <4>1, <4>2, <4>3
    <3>2. QED BY <3>1
  <2>3. f \in Injection(S, 0..(n - 1))
    <3> HIDE DEF f
    <3>1. QED BY <2>1, <2>2 DEF Injection, IsInjective
  <2>4. IsFiniteSet(0..(n - 1)) /\ Cardinality(0..(n - 1)) = n
    <3>1. n \in Nat BY <1>1
    <3> HIDE DEF n
    <3>2. 0 \in Int /\ n - 1 \in Int BY <3>1
    <3>3. IsFiniteSet(0..(n - 1)) /\ Cardinality(0..(n - 1)) = IF 0 > n - 1 THEN 0 ELSE (n - 1) - 0 + 1
      BY <3>2, FS_Interval
    <3>4. QED BY <3>1, <3>3
  <2>5. f \in Surjection(S, 0..(n - 1))
    <3> HIDE DEF f
    <3>1. QED BY <2>3, <2>4, FS_Injection
  <2>6. k - 1 \in 0..(n - 1) BY <1>1
  <2>7. \E x \in S : f[x] = k - 1
    <3> HIDE DEF f
    <3>1. QED BY <2>5, <2>6 DEF Surjection
  <2>8. QED BY <2>7
<1>7. QED BY <1>2, <1>3, <1>5, <1>6

LEMMA ArrangedIs ==
  ASSUME NEW S, IsFiniteSet(S), NEW R, Orders(R, S)
  PROVE  Arranges(Arranged(S, R), S, R)
<1> DEFINE rank(x) == Cardinality({y \in S : <<y, x>> \in R})
           N == Cardinality(S)
           following(k) == CHOOSE x \in S : rank(x) = k - 1
           IsPlaced(g) == g = [n \in 0..N |-> IF n = 0 THEN <<>> ELSE Append(g[n - 1], following(n))]
           placed == CHOOSE g : IsPlaced(g)
           a == [k \in 1..N |-> following(k)]
<1>1. N \in Nat BY FS_CardinalityType
<1>2. /\ \A x, y \in S : <<x, y>> \in R <=> rank(x) < rank(y)
      /\ \A k \in 1..N : \E x \in S : rank(x) = k - 1
      /\ \A x \in S : rank(x) \in Nat /\ rank(x) < N
  BY Ranks
<1>3. Arranged(S, R) = placed[N] BY DEF Arranged
<1> HIDE DEF N, rank
<1>4. ASSUME NEW k \in 1..N PROVE following(k) \in S /\ rank(following(k)) = k - 1 BY <1>2
<1> HIDE DEF following
<1>5. ASSUME NEW n \in 1..N
      PROVE  [k \in 1..n |-> following(k)] = Append([k \in 1..(n - 1) |-> following(k)], following(n))
  <2> DEFINE s == [k \in 1..(n - 1) |-> following(k)]
             t == [k \in 1..n |-> following(k)]
  <2>1. n \in Nat /\ n - 1 \in Nat /\ \A k \in 1..n : k \in 1..N BY <1>1
  <2>2. s \in Seq(S) /\ Len(s) = n - 1 /\ t \in Seq(S) /\ Len(t) = n /\ following(n) \in S
    BY <1>4, <2>1
  <2>3. Append(s, following(n)) \in Seq(S) /\ Len(Append(s, following(n))) = n BY <2>1, <2>2
  <2>4. ASSUME NEW k \in 1..n PROVE t[k] = Append(s, following(n))[k]
    <3>1. CASE k = n BY <2>1, <2>2, <3>1
    <3>2. CASE k # n BY <2>1, <2>2, <3>2
    <3>3. QED BY <3>1, <3>2
  <2> HIDE DEF s, t
  <2>5. t = Append(s, following(n)) BY <2>2, <2>3, <2>4, SeqEqual
  <2>6. QED BY <2>5 DEF s, t
<1>6. IsPlaced([n \in 0..N |-> [k \in 1..n |-> following(k)]])
  <2> DEFINE g == [n \in 0..N |-> [k \in 1..n |-> following(k)]]
  <2>1. ASSUME NEW n \in 0..N
        PROVE  g[n] = IF n = 0 THEN <<>> ELSE Append(g[n - 1], following(n))
    <3>1. CASE n = 0 BY <3>1
    <3>2. CASE n # 0
      <4>1. n \in 1..N /\ n - 1 \in 0..N BY <1>1, <3>2
      <4>2. QED BY <1>5, <3>2, <4>1
    <3>3. QED BY <3>1, <3>2
  <2>2. g = [n \in 0..N |-> IF n = 0 THEN <<>> ELSE Append(g[n - 1], following(n))]
    <3>1. g = [n \in 0..N |-> g[n]]
      OBVIOUS
    <3> HIDE DEF g
    <3>2. QED BY <2>1, <3>1
  <2>3. QED BY <2>2
<1>7. IsPlaced(placed)
  <2> HIDE DEF IsPlaced
  <2>1. QED BY <1>6
<1> HIDE DEF placed
<1>8. placed[N] = a
  <2> DEFINE T == {n \in 0..N : placed[n] = [k \in 1..n |-> following(k)]}
  <2>1. /\ placed[0] = <<>>
        /\ \A n \in 1..N : placed[n] = Append(placed[n - 1], following(n))
    <3>1. 0 \in 0..N /\ \A n \in 1..N : n \in 0..N /\ n # 0 BY <1>1
    <3>2. \A n \in 0..N : placed[n] = IF n = 0 THEN <<>> ELSE Append(placed[n - 1], following(n))
      BY <1>7
    <3>3. QED BY <3>1, <3>2
  <2>2. 0 \in T BY <1>1, <2>1
  <2>3. ASSUME NEW n \in 1..N, n - 1 \in T PROVE n \in T
    <3>1. placed[n - 1] = [k \in 1..(n - 1) |-> following(k)] /\ n \in 0..N BY <1>1, <2>3
    <3>2. placed[n] = Append([k \in 1..(n - 1) |-> following(k)], following(n)) BY <2>1, <3>1
    <3>3. placed[n] = [k \in 1..n |-> following(k)] BY <1>5, <3>2
    <3>4. QED BY <3>1, <3>3
  <2>4. 0..N \subseteq T
    <3> HIDE DEF T
    <3>1. QED BY <1>1, <2>2, <2>3, UpTo
  <2>5. N \in 0..N BY <1>1
  <2>6. QED BY <2>4, <2>5
<1>9. a \in [1..N -> S] /\ \A k \in 1..N : rank(a[k]) = k - 1 BY <1>4
<1>10. ASSUME NEW i \in 1..N, NEW j \in 1..N, i < j PROVE <<a[i], a[j]>> \in R
  <2>1. a[i] \in S /\ a[j] \in S /\ rank(a[i]) = i - 1 /\ rank(a[j]) = j - 1 BY <1>9
  <2> HIDE DEF a
  <2>2. rank(a[i]) < rank(a[j]) BY <1>10, <2>1
  <2>3. QED BY <1>2, <2>1, <2>2
<1>11. ASSUME NEW x \in S PROVE \E i \in 1..N : a[i] = x
  <2>1. rank(x) \in Nat /\ rank(x) < N BY <1>2
  <2> DEFINE i == rank(x) + 1
  <2>2. i \in 1..N /\ i - 1 = rank(x) BY <1>1, <2>1
  <2>3. a[i] \in S /\ rank(a[i]) = rank(x) BY <1>9, <2>2
  <2>4. a[i] = x
    <3>1. ~ (rank(a[i]) < rank(x)) /\ ~ (rank(x) < rank(a[i])) BY <2>1, <2>3
    <3> HIDE DEF a, i
    <3>2. <<a[i], x>> \notin R /\ <<x, a[i]>> \notin R BY <1>2, <2>3, <3>1
    <3>3. QED BY <2>3, <3>2 DEF Orders
  <2>5. QED BY <2>2, <2>4
<1> HIDE DEF a
<1>12. Arranges(a, S, R) BY <1>9, <1>10, <1>11 DEF Arranges, N
<1>13. QED BY <1>3, <1>8, <1>12

LEMMA KeptType == ASSUME NEW A, NEW seq \in Seq(A), NEW S PROVE Kept(seq, S) \in Seq(A)
<1>1. PICK g : KeptAt(g, seq, S, A) BY KeptUnfolds
<1>2. Len(seq) \in 0..Len(seq)
  OBVIOUS
<1>3. QED BY <1>1, <1>2 DEF KeptAt

-----------------------------------------------------------------------------
(* Sequences that are put together.                                        *)

FlatAt(g, seqs, A) ==
  /\ g \in [0..Len(seqs) -> Seq(A)] /\ g[0] = <<>>
  /\ \A n \in 1..Len(seqs) : g[n] = g[n - 1] \o seqs[n]
  /\ FlattenSeq(seqs) = g[Len(seqs)]
LEMMA FlatUnfolds ==
  ASSUME NEW A, NEW seqs \in Seq(Seq(A))
  PROVE  \E g : FlatAt(g, seqs, A)
<1> DEFINE N == Len(seqs)
           IsFlat(f) == f = [i \in 1..N |-> IF i = 1 THEN seqs[i] ELSE f[i - 1] \o seqs[i]]
           flat == CHOOSE f : IsFlat(f)
<1>1. N \in Nat /\ <<>> \in Seq(A) /\ \A n \in 1..N : seqs[n] \in Seq(A)
  OBVIOUS
<1>2. PICK g \in [0..N -> Seq(A)] : g[0] = <<>> /\ \A n \in 1..N : g[n] = g[n - 1] \o seqs[n]
  <2> DEFINE F == [x \in (1..N) \X Seq(A) |-> x[2] \o seqs[x[1]]]
  <2> HIDE DEF N
  <2>1. F \in [(1..N) \X Seq(A) -> Seq(A)] /\ \A n \in 1..N, s \in Seq(A) : F[<<n, s>>] = s \o seqs[n]
    <3>1. \A n \in 1..N, s \in Seq(A) : s \o seqs[n] \in Seq(A) BY <1>1
    <3>2. QED BY <3>1
  <2> HIDE DEF F
  <2>2. HasCourse(N, Seq(A), <<>>, F) BY <1>1, <2>1, StepByStep
  <2>3. PICK g \in [0..N -> Seq(A)] : g[0] = <<>> /\ \A n \in 1..N : g[n] = F[<<n, g[n - 1]>>]
    BY <2>2 DEF HasCourse, Course
  <2>4. \A n \in 1..N : n - 1 \in 0..N BY <1>1
  <2>5. \A n \in 1..N : g[n] = g[n - 1] \o seqs[n] BY <2>1, <2>3, <2>4
  <2>6. QED BY <2>3, <2>5
<1>3. FlattenSeq(seqs) = IF N = 0 THEN seqs ELSE flat[N] BY DEF FlattenSeq
<1>4. CASE N = 0
  <2>1. seqs = <<>> BY <1>4, EmptySeq
  <2>2. FlatAt(g, seqs, A) BY <1>2, <1>3, <1>4, <2>1 DEF FlatAt
  <2>3. QED BY <2>2
<1>5. CASE N # 0
  <2> HIDE DEF N
  <2> DEFINE h == [i \in 1..N |-> g[i]]
  <2>1. g[1] = seqs[1]
    <3>1. 1 \in 1..N /\ 1 - 1 = 0 BY <1>1, <1>5
    <3>2. g[1] = <<>> \o seqs[1] /\ seqs[1] \in Seq(A) BY <1>1, <1>2, <3>1
    <3>3. QED BY <3>2
  <2>2. IsFlat(h)
    <3>1. ASSUME NEW i \in 1..N
          PROVE  h[i] = IF i = 1 THEN seqs[i] ELSE h[i - 1] \o seqs[i]
      <4>1. CASE i = 1 BY <2>1, <4>1
      <4>2. CASE i # 1
        <5>1. i - 1 \in 1..N BY <1>1, <4>2
        <5>2. QED BY <1>2, <4>2, <5>1
      <4>3. QED BY <4>1, <4>2
    <3>2. h = [i \in 1..N |-> h[i]]
      OBVIOUS
    <3> HIDE DEF h
    <3>3. QED BY <3>1, <3>2
  <2> HIDE DEF h, IsFlat
  <2>3. IsFlat(flat) BY <2>2
  <2> HIDE DEF flat
  <2>4. \A n \in 1..N : flat[n] = IF n = 1 THEN seqs[n] ELSE flat[n - 1] \o seqs[n]
    BY <2>3 DEF IsFlat
  <2> DEFINE T == {n \in 0..N : n = 0 \/ flat[n] = g[n]}
  <2>5. 0 \in T BY <1>1
  <2>6. ASSUME NEW n \in 1..N, n - 1 \in T PROVE n \in T
    <3>1. n \in 0..N BY <1>1
    <3>2. CASE n = 1
      <4>1. flat[1] = seqs[1] BY <2>4, <3>2
      <4>2. QED BY <2>1, <3>1, <3>2, <4>1
    <3>3. CASE n # 1
      <4>1. flat[n - 1] = g[n - 1] BY <1>1, <2>6, <3>3
      <4>2. flat[n] = flat[n - 1] \o seqs[n] /\ g[n] = g[n - 1] \o seqs[n] BY <1>2, <2>4, <3>3
      <4>3. QED BY <3>1, <4>1, <4>2
    <3>4. QED BY <3>2, <3>3
  <2>7. N \in T
    <3> HIDE DEF T
    <3>1. 0..N \subseteq T BY <1>1, <2>5, <2>6, UpTo
    <3>2. QED BY <1>1, <3>1
  <2>8. FlattenSeq(seqs) = g[N] BY <1>3, <1>5, <2>7
  <2>9. FlatAt(g, seqs, A) BY <1>2, <2>8 DEF FlatAt, N
  <2>10. QED BY <2>9
<1>6. QED BY <1>4, <1>5

\* What is heard of sequences put together.
LEMMA FlatHas ==
  ASSUME NEW A, NEW seqs \in Seq(Seq(A))
  PROVE  /\ FlattenSeq(seqs) \in Seq(A)
         /\ \A i \in DOMAIN FlattenSeq(seqs) :
              \E n \in DOMAIN seqs : \E k \in DOMAIN seqs[n] : FlattenSeq(seqs)[i] = seqs[n][k]
         /\ (\A n \in DOMAIN seqs : Len(seqs[n]) = 1) => Len(FlattenSeq(seqs)) = Len(seqs)
<1> DEFINE N == Len(seqs)
<1>1. PICK g : FlatAt(g, seqs, A) BY FlatUnfolds
<1>3. N \in Nat /\ DOMAIN seqs = 1..N /\ \A n \in 1..N : seqs[n] \in Seq(A)
  OBVIOUS
<1>2. /\ N \in Nat /\ g[0] = <<>> /\ FlattenSeq(seqs) = g[N] /\ g \in [0..N -> Seq(A)]
      /\ \A n \in 1..N : g[n] = g[n - 1] \o seqs[n]
      /\ \A n \in 1..N : seqs[n] \in Seq(A)
  BY <1>1, <1>3 DEF FlatAt
<1> HIDE DEF N
<1> DEFINE Within(n) == \A i \in DOMAIN g[n] : \E m \in 1..N : \E k \in DOMAIN seqs[m] : g[n][i] = seqs[m][k]
           Single(n) == (\A m \in 1..N : Len(seqs[m]) = 1) => Len(g[n]) = n
           T == {n \in 0..N : Within(n) /\ Single(n)}
<1>4. 0 \in T BY <1>2
<1>5. ASSUME NEW n \in 1..N, n - 1 \in T PROVE n \in T
  <2>1. n \in 0..N /\ n - 1 \in 0..N /\ n \in Nat BY <1>2
  <2>2. PICK s \in Seq(A) : s = g[n - 1] BY <1>2, <2>1
  <2>3. PICK t \in Seq(A) : t = seqs[n] BY <1>2
  <2>4. g[n] = s \o t BY <1>2, <2>2, <2>3
  <2>5. Within(n)
    <3> SUFFICES ASSUME NEW i \in DOMAIN g[n]
                 PROVE  \E m \in 1..N : \E k \in DOMAIN seqs[m] : g[n][i] = seqs[m][k]
      OBVIOUS
    <3>1. i \in 1..(Len(s) + Len(t)) BY <2>4
    <3>2. CASE i \in 1..Len(s)
      <4>1. g[n][i] = s[i] /\ i \in DOMAIN s BY <2>4, <3>2
      <4>2. Within(n - 1) BY <1>5
      <4>3. QED BY <2>2, <4>1, <4>2
    <3>3. CASE i \notin 1..Len(s)
      <4>1. g[n][i] = t[i - Len(s)] /\ i - Len(s) \in DOMAIN t BY <2>4, <3>1, <3>3
      <4>2. QED BY <2>3, <4>1
    <3>4. QED BY <3>2, <3>3
  <2>6. Single(n)
    <3>1. SUFFICES ASSUME \A m \in 1..N : Len(seqs[m]) = 1 PROVE Len(g[n]) = n
      OBVIOUS
    <3>2. Len(s) = n - 1 /\ Len(t) = 1 BY <1>5, <2>2, <2>3, <3>1
    <3>3. Len(s \o t) = Len(s) + Len(t)
      OBVIOUS
    <3>4. (n - 1) + 1 = n BY <2>1
    <3>5. QED BY <2>4, <3>2, <3>3, <3>4
  <2> HIDE DEF Within, Single
  <2>7. QED BY <2>1, <2>5, <2>6
<1>6. N \in T
  <2> HIDE DEF T
  <2>1. 0..N \subseteq T BY <1>2, <1>4, <1>5, UpTo
  <2>2. QED BY <1>2, <2>1
<1>7. Within(N) /\ Single(N) BY <1>6
<1>8. g[N] \in Seq(A) BY <1>2
<1>9. \A i \in DOMAIN g[N] : \E n \in DOMAIN seqs : \E k \in DOMAIN seqs[n] : g[N][i] = seqs[n][k]
  BY <1>3, <1>7
<1>10. (\A n \in DOMAIN seqs : Len(seqs[n]) = 1) => Len(g[N]) = Len(seqs) BY <1>3, <1>7 DEF N
<1>11. FlattenSeq(seqs) = g[N] BY <1>2
<1> HIDE DEF Within, Single
<1>12. QED BY <1>8, <1>9, <1>10, <1>11, Zenon

\* Where each of them begins.
Begins(at, seqs, flat) ==
  /\ at \in [1..Len(seqs) -> DOMAIN flat]
  /\ \A i, j \in 1..Len(seqs) : i < j => at[i] < at[j]
  /\ \A i \in 1..Len(seqs) : flat[at[i]] = seqs[i][1]
LEMMA FlatBegins ==
  ASSUME NEW A, NEW seqs \in Seq(Seq(A)), \A n \in DOMAIN seqs : seqs[n] # <<>>
  PROVE  \E at : Begins(at, seqs, FlattenSeq(seqs))
<1> DEFINE N == Len(seqs)
<1>1. PICK g : FlatAt(g, seqs, A) BY FlatUnfolds
<1>a. N \in Nat /\ \A n \in 1..N : seqs[n] \in Seq(A) /\ seqs[n] # <<>>
  OBVIOUS
<1>2. /\ N \in Nat /\ g[0] = <<>> /\ FlattenSeq(seqs) = g[N] /\ g \in [0..N -> Seq(A)]
      /\ \A n \in 1..N : g[n] = g[n - 1] \o seqs[n]
      /\ \A n \in 1..N : seqs[n] \in Seq(A) /\ seqs[n] # <<>>
  BY <1>1, <1>a DEF FlatAt
<1> HIDE DEF N
<1> DEFINE Good0(at, n) == /\ at \in [1..n -> DOMAIN g[n]]
                           /\ \A i, j \in 1..n : i < j => at[i] < at[j]
                           /\ \A i \in 1..n : g[n][at[i]] = seqs[i][1]
           T == {n \in 0..N : \E at : Good0(at, n)}
<1>3. 0 \in T
  <2> DEFINE at == [i \in 1..0 |-> 1]
  <2>1. 1..0 = {} /\ at \in [1..0 -> DOMAIN g[0]]
    OBVIOUS
  <2> HIDE DEF at
  <2>2. Good0(at, 0) BY <2>1
  <2> HIDE DEF Good0
  <2>3. QED BY <1>2, <2>2
<1>4. ASSUME NEW n \in 1..N, n - 1 \in T PROVE n \in T
  <2>1. n \in 0..N /\ n - 1 \in 0..N /\ n \in Nat /\ n - 1 \in Nat BY <1>2
  <2>2. PICK s \in Seq(A) : s = g[n - 1] BY <1>2, <2>1
  <2>3. PICK t \in Seq(A) : t = seqs[n] /\ t # <<>> BY <1>2
  <2>4. g[n] = s \o t BY <1>2, <2>2, <2>3
  <2>5. PICK at : Good0(at, n - 1) BY <1>4
  <2> DEFINE b == [i \in 1..n |-> IF i = n THEN Len(s) + 1 ELSE at[i]]
  <2>6. /\ at \in [1..(n - 1) -> 1..Len(s)] /\ \A i, j \in 1..(n - 1) : i < j => at[i] < at[j]
        /\ \A i \in 1..(n - 1) : s[at[i]] = seqs[i][1]
    BY <2>2, <2>5
  <2>7. Len(s) \in Nat /\ Len(t) \in Nat /\ Len(t) >= 1 /\ DOMAIN g[n] = 1..(Len(s) + Len(t))
    <3>1. Len(t) # 0 BY <2>3, EmptySeq
    <3>2. QED BY <2>4, <3>1
  <2>8. \A i \in 1..n : i # n => i \in 1..(n - 1) BY <2>1
  <2>9. b \in [1..n -> DOMAIN g[n]]
    <3>1. ASSUME NEW i \in 1..n PROVE b[i] \in 1..(Len(s) + Len(t))
      <4>1. CASE i = n BY <2>7, <4>1
      <4>2. CASE i # n BY <2>6, <2>7, <2>8, <4>2
      <4>3. QED BY <4>1, <4>2
    <3>2. b = [i \in 1..n |-> b[i]]
      OBVIOUS
    <3> HIDE DEF b
    <3>3. QED BY <2>7, <3>1, <3>2
  <2>10. ASSUME NEW i \in 1..n, NEW j \in 1..n, i < j PROVE b[i] < b[j]
    <3>1. i \in 1..(n - 1) BY <2>1, <2>10
    <3>2. CASE j = n BY <2>6, <2>7, <2>8, <3>1, <3>2
    <3>3. CASE j # n BY <2>6, <2>8, <2>10, <3>1, <3>3
    <3>4. QED BY <3>2, <3>3
  <2>11. ASSUME NEW i \in 1..n PROVE g[n][b[i]] = seqs[i][1]
    <3>1. CASE i = n
      <4>1. b[i] = Len(s) + 1 /\ (s \o t)[Len(s) + 1] = t[1] BY <2>7, <3>1
      <4>2. QED BY <2>3, <2>4, <3>1, <4>1
    <3>2. CASE i # n
      <4>1. i \in 1..(n - 1) /\ at[i] \in 1..Len(s) /\ b[i] = at[i] BY <2>6, <2>8, <3>2
      <4>2. (s \o t)[at[i]] = s[at[i]] BY <4>1
      <4>3. QED BY <2>4, <2>6, <4>1, <4>2
    <3>3. QED BY <3>1, <3>2
  <2> HIDE DEF b
  <2>12. Good0(b, n) BY <2>9, <2>10, <2>11
  <2> HIDE DEF Good0
  <2>13. QED BY <2>1, <2>12
<1>5. N \in T
  <2> HIDE DEF T
  <2>1. 0..N \subseteq T BY <1>2, <1>3, <1>4, UpTo
  <2>2. QED BY <1>2, <2>1
<1>6. PICK at : Good0(at, N) BY <1>5
<1>7. Begins(at, seqs, FlattenSeq(seqs)) BY <1>2, <1>6 DEF Begins, N
<1>8. QED BY <1>7

-----------------------------------------------------------------------------
(* The invariant.                                                          *)

\* The chapters that a script asks for, and the file of a line or chapter.
Plan(s) == Chapters([n \in DOMAIN Lines(s) |-> SegmentRow(s, n)])
LineFile(e, n) == <<e, <<"segment", n>>>>
ChapterFile(e, n) == <<e, <<"chapter", n>>>>
MostChapters == Cardinality(Articles)

\* A row is the take of a line, a final MP3 or a chapter, and has its file.  A
\* chapter of an episode with one script has its place there.
Real(r) ==
  /\ r \in AudioAsset
  /\ \/ /\ r.script \in Scripts /\ r.pos \in DOMAIN Lines(r.script)
        /\ r = SegmentRow(r.script, r.pos)
     \/ r = FinalRow(r.episode)
     \/ /\ r.article \in Articles /\ r.pos \in 1..MostChapters
        /\ r = ChapterRow(r.episode, r.pos, r.article)
  /\ disk[File(r)] # <<>>
OnlyScript(s, e) == s \in Scripts /\ EpisodeOf(s) = e /\ OneVersion(e)
Planned(r) ==
  r.kind = "chapter" =>
    \A s \in Scripts : OnlyScript(s, r.episode) =>
      r.pos \in DOMAIN Plan(s) /\ r.article = Plan(s)[r.pos]
InTable(r) == \E i \in DOMAIN rows : rows[i] = r

\* Lines are spoken in order.
Stands(r) ==
  /\ Real(r) /\ Planned(r)
  /\ r.kind = "segment" => \A m \in 1..(r.pos - 1) : InTable(SegmentRow(r.script, m))
RowsStand == \A i \in DOMAIN rows : Stands(rows[i])

\* What is heard in the file of a line, and in that of a chapter.
Speaks(e, n, heard) ==
  \A i \in DOMAIN heard :
    \E s \in Scripts : EpisodeOf(s) = e /\ n \in DOMAIN Lines(s) /\ heard[i] = <<s, n>>
TellsOf(e, n, heard) ==
  \A s \in Scripts : OnlyScript(s, e) =>
    \A i \in DOMAIN heard :
      heard[i] # Noise => /\ n \in DOMAIN Plan(s) /\ heard[i][1] = s
                          /\ ArticleOf(s, heard[i][2]) = Plan(s)[n]
FilesTell ==
  \A e \in Episodes :
    /\ \A n \in 1..MaxLines : Speaks(e, n, disk[LineFile(e, n)])
    /\ \A n \in 1..MostChapters : /\ TellsOf(e, n, disk[ChapterFile(e, n)])
                                  /\ TellsOf(e, n, bucket[ChapterFile(e, n)])

\* What a job has loaded: takes of the episode in the order of their lines, and
\* with each one those of the lines before.
Listing(t, e) ==
  /\ t # <<>>
  /\ \A k \in DOMAIN t : t[k].kind = "segment" /\ t[k].episode = e /\ InTable(t[k])
  /\ \A j, k \in DOMAIN t : j < k => t[j].pos <= t[k].pos
  /\ \A k \in DOMAIN t : \A m \in 1..(t[k].pos - 1) :
       \E j \in DOMAIN t : t[j] = SegmentRow(t[k].script, m)

MixPc == {"stitch", "chapters", "chapter", "commit"}
MadePc == {"chapters", "chapter", "commit"}
Delivers(c) == c.pc \in {"load"} \cup MixPc /\ c.op = "scheduled"
Scripted(c) == c.pc \in {"health", "speak", "save"} \/ Delivers(c)

\* How far a job has come, whatever other jobs do.
Speech(c) ==
  /\ Scripted(c) => c.script \in Scripts /\ c.episode = EpisodeOf(c.script)
  /\ c.pc = "speak" => c.next \in 1..(Len(Lines(c.script)) + 1)
  /\ c.pc = "save" => /\ c.next \in DOMAIN Lines(c.script)
                      /\ disk[LineFile(c.episode, c.next)] # <<>>
  /\ c.pc \in {"speak", "save"} =>
       \A m \in 1..(c.next - 1) : InTable(SegmentRow(c.script, m))
  /\ Delivers(c) => \A m \in DOMAIN Lines(c.script) : InTable(SegmentRow(c.script, m))
Mix(c) ==
  /\ c.pc \in MixPc => Listing(c.takes, c.episode)
  /\ c.pc \notin MadePc => c.made = <<>>
  /\ c.pc = "chapters" => Len(c.made) = 1
  /\ c.pc = "chapter" => c.next \in DOMAIN Chapters(c.takes) /\ Len(c.made) = c.next
  /\ c.pc = "commit" => c.next = Len(Chapters(c.takes)) + 1 /\ Len(c.made) = c.next
  /\ c.pc \in MadePc => /\ c.made[1] = FinalRow(c.episode)
                        /\ \A i \in DOMAIN c.made : /\ c.made[i].episode = c.episode
                                                    /\ c.made[i].kind # "segment"
                                                    /\ Real(c.made[i]) /\ Planned(c.made[i])
  /\ c.pc \in {"chapter", "commit"} =>
       \A n \in 1..(c.next - 1) :
         c.made[n + 1] = ChapterRow(c.episode, n, Chapters(c.takes)[n])

\* How far it has come when nobody else has worked on the episode.
AboutIn(s, a) == Kept(Lines(s), {n \in DOMAIN Lines(s) : ArticleOf(s, n) = a})
OnceEach(c) == Cardinality(RowsOf("segment", c.episode)) = Len(Lines(c.script))
Full(t, e) ==
  /\ Len(t) = Cardinality(RowsOf("segment", e))
  /\ \A i \in RowsOf("segment", e) : \E k \in DOMAIN t : t[k] = rows[i]
Own(c) ==
  /\ c.pc \in {"speak", "save"} =>
       \A m \in 1..(c.next - 1) : disk[LineFile(c.episode, m)] = <<<<c.script, m>>>>
  /\ c.pc = "save" => disk[LineFile(c.episode, c.next)] = <<<<c.script, c.next>>>>
  /\ Delivers(c) =>
       /\ \A m \in DOMAIN Lines(c.script) : disk[LineFile(c.episode, m)] = <<<<c.script, m>>>>
       /\ c.pc \in MixPc => Full(c.takes, c.episode)
       /\ c.pc \in MadePc =>
            LET final == disk[File(FinalRow(c.episode))]
            IN HeardIn(Lines(c.script), final) /\ (OnceEach(c) => final = Lines(c.script))
       /\ c.pc \in {"chapter", "commit"} /\ OnceEach(c) =>
            \A n \in 1..(c.next - 1) :
              disk[ChapterFile(c.episode, n)] = AboutIn(c.script, Chapters(c.takes)[n])

Good(c) == Speech(c) /\ Mix(c) /\ (c.alone => Own(c))

\* Of two jobs on the same episode none has been alone.
Exclusive ==
  \A w, x \in Workers :
    w # x /\ AtWork(w) /\ AtWork(x) /\ call[w].episode = call[x].episode => ~ call[w].alone
JobsStand == (\A w \in Workers : Good(call[w])) /\ Exclusive

\* The shelf, and what a batch has uploaded.
Uploaded(ids, n) == \A i \in 1..n : bucket[File(rows[ids[i]])] # <<>>
BatchFits(b) ==
  /\ \A e \in b.todo : HasFinal(e)
  /\ b.pc = "upload" => HasFinal(b.episode)
  /\ b.pc = "upsert" => bucket[File(FinalRow(b.episode))] # <<>>
  /\ b.pc \in {"chapter", "insert"} =>
       /\ \A i \in DOMAIN b.assets : b.assets[i] \in RowsOf("chapter", b.episode)
       /\ b.pc = "chapter" => b.next \in DOMAIN b.assets /\ Uploaded(b.assets, b.next - 1)
       /\ b.pc = "insert" => Uploaded(b.assets, Len(b.assets))
ShelfStands ==
  /\ \A e \in listed : bucket[File(FinalRow(e))] # <<>>
  /\ \A e \in Episodes : \A c \in chapters[e] :
       c.asset \in RowsOf("chapter", e) /\ bucket[ObjectPath(c)] # <<>>
  /\ \A p \in Publishers : BatchFits(batch[p])

Types ==
  /\ site \in Sites
  /\ ready \subseteq Scripts
  /\ status \in [Episodes -> EpisodeStatus]
  /\ rows \in Seq(AudioAsset)
  /\ disk \in [Files -> Seq((Scripts \cup {0}) \X (0..MaxLines))]
  /\ call \in [Workers -> Call]
  /\ faults \in Nat
  /\ requests \in Nat
  /\ listed \subseteq Episodes
  /\ chapters \in [Episodes -> SUBSET ShelfChapter]
  /\ bucket \in [Files -> Seq((Scripts \cup {0}) \X (0..MaxLines))]
  /\ batch \in [Publishers -> Batch]

Inv == Types /\ RowsStand /\ FilesTell /\ JobsStand /\ ShelfStands

-----------------------------------------------------------------------------
(* Numbers in their order.                                                 *)

LEMMA Least ==
  ASSUME NEW S \in SUBSET Nat, S # {} PROVE \E x \in S : \A y \in S : x <= y
<1> DEFINE R == {p \in Nat \X Nat : p[1] < p[2]}
<1>1. IsWellFoundedOn(R, Nat) BY NatLessThanWellFounded DEF OpToRel
<1>2. PICK x \in S : \A y \in S : ~ (<<y, x>> \in R)
  <2> HIDE DEF R
  <2>1. QED BY <1>1, WFMin, Zenon
<1>3. ASSUME NEW y \in S PROVE x <= y
  <2>1. x \in Nat /\ y \in Nat /\ ~ (<<y, x>> \in R) BY <1>2
  <2>2. QED BY <2>1
<1>4. QED BY <1>3

\* A list of the first numbers of a set begins like the list of all of them.
Increasing(f, m) == \A i, j \in 1..m : i < j => f[i] < f[j]
Closed(f, m, P) == \A i \in 1..m : \A x \in P : x < f[i] => \E j \in 1..m : f[j] = x
LEMMA SameLists ==
  ASSUME NEW P \in SUBSET Nat, NEW q \in Nat, NEW g, Lists(g, q, P),
         NEW m \in Nat, NEW f \in [1..m -> P], Increasing(f, m),
         Closed(f, m, P)
  PROVE  m <= q /\ \A i \in 1..m : f[i] = g[i]
<1>1. /\ g \in [1..q -> P] /\ \A i, j \in 1..q : i < j => g[i] < g[j]
      /\ \A x \in P : \E k \in 1..q : g[k] = x
  BY DEF Lists
<1>2. /\ \A i, j \in 1..m : i < j => f[i] < f[j]
      /\ \A i \in 1..m : \A x \in P : x < f[i] => \E j \in 1..m : f[j] = x
  BY DEF Increasing, Closed
<1> DEFINE T == {n \in 0..m : \A i \in 1..n : i <= q /\ f[i] = g[i]}
<1>3. 0 \in T
  OBVIOUS
<1>4. ASSUME NEW n \in 1..m, n - 1 \in T PROVE n \in T
  <2>1. f[n] \in P /\ f[n] \in Nat
    OBVIOUS
  <2>2. PICK k \in 1..q : g[k] = f[n] BY <1>1, <2>1
  <2>3. \A i \in 1..(n - 1) : i <= q /\ f[i] = g[i] BY <1>4
  <2>4. ~ (k < n)
    <3>1. SUFFICES ASSUME k < n PROVE FALSE
      OBVIOUS
    <3>2. k \in 1..(n - 1) /\ k \in 1..m BY <3>1
    <3>3. f[k] = f[n] /\ f[k] < f[n] BY <1>2, <2>2, <2>3, <3>1, <3>2
    <3>4. QED BY <2>1, <3>3
  <2>5. ~ (n < k)
    <3>1. SUFFICES ASSUME n < k PROVE FALSE
      OBVIOUS
    <3>2. n \in 1..q BY <3>1
    <3>3. g[n] < f[n] /\ g[n] \in P /\ g[n] \in Nat BY <1>1, <2>2, <3>1, <3>2
    <3>4. PICK j \in 1..m : f[j] = g[n] BY <1>2, <3>3
    <3>5. j < n
      <4>1. f[j] < f[n] BY <3>3, <3>4
      <4>2. n < j => f[n] < f[j] BY <1>2
      <4>3. QED BY <2>1, <3>3, <3>4, <4>1, <4>2
    <3>6. j \in 1..(n - 1) /\ j \in 1..q BY <3>2, <3>5
    <3>7. g[j] = g[n] /\ g[j] < g[n] BY <1>1, <2>3, <3>2, <3>4, <3>5, <3>6
    <3>8. QED BY <3>3, <3>7
  <2>6. k = n BY <2>4, <2>5
  <2>7. \A i \in 1..n : i = n \/ i \in 1..(n - 1)
    OBVIOUS
  <2>8. n <= q /\ f[n] = g[n] BY <2>2, <2>6
  <2>9. QED BY <2>3, <2>7, <2>8
<1>5. m \in T
  <2> HIDE DEF T
  <2>1. 0..m \subseteq T BY <1>3, <1>4, UpTo
  <2>2. QED BY <2>1
<1>6. \A i \in 1..m : i <= q /\ f[i] = g[i] BY <1>5
<1>7. m <= q
  <2>1. CASE m = 0 BY <2>1
  <2>2. CASE m # 0 BY <1>6, <2>2
  <2>3. QED BY <2>1, <2>2
<1>8. QED BY <1>6, <1>7

\* An increasing list of as many numbers as there are is all of them.
LEMMA AllNumbers ==
  ASSUME NEW m \in Nat, NEW f \in [1..m -> 1..m], Increasing(f, m)
  PROVE  \A i \in 1..m : f[i] = i
<1> DEFINE P == 1..m
           g == [i \in 1..m |-> i]
<1>1. Lists(g, m, P) BY DEF Lists
<1>2. \A i, j \in 1..m : i < j => f[i] < f[j] BY DEF Increasing
<1>3. IsFiniteSet(P) /\ Cardinality(P) = m BY FS_Interval
<1>4. f \in Injection(P, P)
  <2>1. ASSUME NEW i \in P, NEW j \in P, f[i] = f[j] PROVE i = j
    <3>1. f[i] \in Int /\ i \in Int /\ j \in Int
      OBVIOUS
    <3>2. ~ (i < j) /\ ~ (j < i) BY <1>2, <2>1, <3>1
    <3>3. QED BY <3>1, <3>2
  <2>2. QED BY <2>1 DEF Injection, IsInjective
<1>5. f \in Surjection(P, P)
  <2> HIDE DEF P
  <2>1. QED BY <1>3, <1>4, FS_Injection
<1>6. \A x \in P : \E j \in 1..m : f[j] = x BY <1>5 DEF Surjection
<1> HIDE DEF g
<1>7. P \in SUBSET Nat /\ f \in [1..m -> P]
  OBVIOUS
<1> HIDE DEF P
<1>8. Closed(f, m, P) BY <1>6 DEF Closed
<1>10. \A i \in 1..m : f[i] = g[i] BY <1>1, <1>7, <1>8, SameLists
<1>9. QED BY <1>10 DEF g

-----------------------------------------------------------------------------
(* Chapters, and what is heard in them.                                    *)

\* The places at which a list comes to an article for the first time.
First(t) ==
  {k \in 1..Len(t) : t[k].article # NoArticle /\ \A j \in 1..(k - 1) : t[j].article # t[k].article}
ChaptersBy(h, m, t) ==
  Lists(h, m, First(t)) /\ Chapters(t) = [n \in 1..m |-> t[h[n]].article]
LEMMA ChaptersAre ==
  ASSUME NEW t \in Seq(AudioAsset)
  PROVE  \E m \in Nat : \E h : ChaptersBy(h, m, t)
<1> DEFINE a == [k \in DOMAIN t |-> t[k].article]
           S == {k \in DOMAIN a : a[k] # NoArticle /\ \A j \in 1..(k - 1) : a[j] # a[k]}
           A == Articles \cup {NoArticle}
<1>0. DOMAIN t = 1..Len(t) /\ Len(t) \in Nat /\ \A k \in 1..Len(t) : t[k] \in AudioAsset
  OBVIOUS
<1>1. DOMAIN t = 1..Len(t) /\ Len(t) \in Nat /\ \A k \in 1..Len(t) : t[k].article \in A
  BY <1>0 DEF AudioAsset
<1>2. a \in Seq(A) /\ Len(a) = Len(t) /\ DOMAIN a = 1..Len(t) BY <1>1
<1>3. Chapters(t) = Kept(a, S) BY DEF Chapters
<1>4. S \cap (1..Len(a)) = First(t)
  <2>1. \A k \in 1..Len(t) : a[k] = t[k].article BY <1>1
  <2>2. \A k \in 1..Len(t) : \A j \in 1..(k - 1) : j \in 1..Len(t) BY <1>1
  <2> HIDE DEF a
  <2>3. QED BY <1>2, <2>1, <2>2 DEF First
<1> HIDE DEF a, S, A
<1>5. PICK m \in Nat : \E h : KeepsAt(h, m, a, S) BY <1>2, KeptIs
<1>6. PICK h : KeepsAt(h, m, a, S) BY <1>5
<1>7. Lists(h, m, First(t)) /\ Kept(a, S) = [k \in 1..m |-> a[h[k]]] BY <1>4, <1>6 DEF KeepsAt
<1>8. \A k \in 1..m : a[h[k]] = t[h[k]].article
  <2>1. \A k \in 1..m : h[k] \in First(t) BY <1>7 DEF Lists
  <2>2. First(t) \subseteq DOMAIN t BY <1>1 DEF First
  <2>3. QED BY <2>1, <2>2 DEF a
<1>9. Chapters(t) = [k \in 1..m |-> t[h[k]].article] BY <1>3, <1>7, <1>8
<1>10. ChaptersBy(h, m, t) BY <1>7, <1>9 DEF ChaptersBy
<1>11. QED BY <1>10

LEMMA FirstOf ==
  ASSUME NEW t \in Seq(AudioAsset), NEW k \in DOMAIN t, t[k].article # NoArticle
  PROVE  \E j \in First(t) : j <= k /\ t[j].article = t[k].article
<1> DEFINE S == {j \in 1..Len(t) : t[j].article = t[k].article}
<1>1. DOMAIN t = 1..Len(t) /\ Len(t) \in Nat
  OBVIOUS
<1>2. S \in SUBSET Nat /\ k \in S BY <1>1
<1>3. PICK j \in S : \A y \in S : j <= y
  <2> HIDE DEF S
  <2>1. S # {} BY <1>2
  <2>2. QED BY <1>2, <2>1, Least
<1>4. j \in First(t)
  <2>1. ASSUME NEW y \in 1..(j - 1) PROVE t[y].article # t[j].article
    <3>1. y \in 1..Len(t) /\ ~ (j <= y) BY <1>1, <1>3
    <3>2. QED BY <1>3, <3>1
  <2>2. QED BY <1>3, <2>1 DEF First
<1>5. QED BY <1>2, <1>3, <1>4

\* Every article that is heard has one chapter.
LEMMA ChaptersHave ==
  ASSUME NEW t \in Seq(AudioAsset)
  PROVE  /\ Chapters(t) \in Seq(Articles)
         /\ \A n \in DOMAIN Chapters(t) : \E k \in DOMAIN t : t[k].article = Chapters(t)[n]
         /\ \A k \in DOMAIN t : t[k].article # NoArticle =>
              \E n \in DOMAIN Chapters(t) : Chapters(t)[n] = t[k].article
         /\ \A i, j \in DOMAIN Chapters(t) : Chapters(t)[i] = Chapters(t)[j] => i = j
         /\ Len(Chapters(t)) \in 0..MostChapters
<1>1. PICK m \in Nat : \E h : ChaptersBy(h, m, t) BY ChaptersAre
<1>2. PICK h : ChaptersBy(h, m, t) BY <1>1
<1>3. /\ h \in [1..m -> First(t)] /\ \A i, j \in 1..m : i < j => h[i] < h[j]
      /\ \A x \in First(t) : \E k \in 1..m : h[k] = x
      /\ Chapters(t) = [n \in 1..m |-> t[h[n]].article]
  BY <1>2 DEF ChaptersBy, Lists
<1>0. DOMAIN t = 1..Len(t) /\ Len(t) \in Nat /\ \A k \in 1..Len(t) : t[k] \in AudioAsset
  OBVIOUS
<1>4. DOMAIN t = 1..Len(t) /\ Len(t) \in Nat /\ \A k \in 1..Len(t) : t[k].article \in Articles \cup {NoArticle}
  BY <1>0 DEF AudioAsset
<1>5. \A k \in First(t) : k \in 1..Len(t) /\ t[k].article # NoArticle BY DEF First
<1>6. \A n \in 1..m : h[n] \in 1..Len(t) /\ t[h[n]].article \in Articles BY <1>3, <1>4, <1>5
<1>7. PICK c : c = Chapters(t)
  OBVIOUS
<1>8. c \in [1..m -> Articles] /\ \A n \in 1..m : c[n] = t[h[n]].article BY <1>3, <1>6, <1>7
<1>9. c \in Seq(Articles) /\ DOMAIN c = 1..m /\ Len(c) = m BY <1>8
<1>10. \A n \in 1..m : \E k \in DOMAIN t : t[k].article = c[n] BY <1>4, <1>6, <1>8
<1>11. ASSUME NEW k \in DOMAIN t, t[k].article # NoArticle
       PROVE  \E n \in 1..m : c[n] = t[k].article
  <2>1. PICK j \in First(t) : t[j].article = t[k].article BY <1>11, FirstOf
  <2>2. PICK n \in 1..m : h[n] = j BY <1>3
  <2>3. QED BY <1>8, <2>1, <2>2
<1>12. ASSUME NEW i \in 1..m, NEW j \in 1..m, c[i] = c[j] PROVE i = j
  <2>1. ASSUME NEW x \in 1..m, NEW y \in 1..m, x < y PROVE c[x] # c[y]
    <3>1. h[x] \in 1..(h[y] - 1) BY <1>3, <1>6, <2>1
    <3>2. h[y] \in First(t) BY <1>3
    <3>3. t[h[x]].article # t[h[y]].article BY <3>1, <3>2 DEF First
    <3>4. QED BY <1>8, <3>3
  <2>2. ~ (i < j) /\ ~ (j < i) BY <1>12, <2>1
  <2>3. QED BY <2>2
<1>13. m <= MostChapters /\ MostChapters \in Nat
  <2>1. IsFiniteSet(Articles) /\ MostChapters \in Nat
    BY AudioAssumption, FS_CardinalityType DEF MostChapters
  <2>2. IsFiniteSet(1..m) /\ Cardinality(1..m) = m BY FS_Interval
  <2>3. c \in Injection(1..m, Articles) BY <1>8, <1>12 DEF Injection, IsInjective
  <2>4. Cardinality(1..m) <= MostChapters BY <2>1, <2>2, <2>3, FS_Injection DEF MostChapters
  <2>5. QED BY <2>1, <2>2, <2>4
<1>14. QED BY <1>7, <1>9, <1>10, <1>11, <1>12, <1>13

\* What is heard about an article.
LEMMA AboutHas ==
  ASSUME NEW t \in Seq(AudioAsset), NEW a
  PROVE  /\ About(t, a) \in Seq(AudioAsset)
         /\ \A i \in DOMAIN About(t, a) :
              \E k \in DOMAIN t : About(t, a)[i] = t[k] /\ t[k].article = a
         /\ (\E k \in DOMAIN t : t[k].article = a) => About(t, a) # <<>>
<1> DEFINE S == {k \in DOMAIN t : t[k].article = a}
<1>1. About(t, a) = Kept(t, S) BY DEF About
<1>2. PICK m \in Nat : \E h : KeepsAt(h, m, t, S) BY KeptIs
<1>3. PICK h : KeepsAt(h, m, t, S) BY <1>2
<1>4. S \cap (1..Len(t)) = S
  OBVIOUS
<1>5. /\ h \in [1..m -> S] /\ \A x \in S : \E k \in 1..m : h[k] = x
      /\ About(t, a) = [k \in 1..m |-> t[h[k]]]
  BY <1>1, <1>3, <1>4 DEF KeepsAt, Lists
<1>6. \A k \in 1..m : h[k] \in DOMAIN t /\ t[h[k]].article = a BY <1>5
<1>7. About(t, a) \in Seq(AudioAsset) BY <1>1, KeptType
<1>8. ASSUME NEW k \in DOMAIN t, t[k].article = a PROVE About(t, a) # <<>>
  <2>1. k \in S BY <1>8
  <2> HIDE DEF S
  <2>2. 1..m # {} BY <1>5, <2>1
  <2>3. DOMAIN About(t, a) = 1..m BY <1>5
  <2>4. QED BY <2>2, <2>3
<1>9. QED BY <1>5, <1>6, <1>7, <1>8

-----------------------------------------------------------------------------
(* Rows in order.                                                          *)

Ordered(ids, S) ==
  /\ ids \in [1..Cardinality(S) -> S]
  /\ \A x \in S : \E i \in 1..Cardinality(S) : ids[i] = x
  /\ \A i, j \in 1..Cardinality(S) : i < j => rows[ids[i]].pos <= rows[ids[j]].pos
LEMMA OrderedIs ==
  ASSUME rows \in Seq(AudioAsset), NEW kind, NEW e, NEW ids \in InOrder(kind, e)
  PROVE  /\ Ordered(ids, RowsOf(kind, e)) /\ IsFiniteSet(RowsOf(kind, e))
         /\ Cardinality(RowsOf(kind, e)) \in Nat
         /\ ids \in Seq(Nat)
<1> DEFINE S == RowsOf(kind, e)
           R1 == {p \in S \X S : OldestFirst(p[1], p[2])}
           R2 == {p \in S \X S : NewestFirst(p[1], p[2])}
<1>1. ids = Arranged(S, R1) \/ ids = Arranged(S, R2) BY DEF InOrder
<1>2. S \subseteq 1..Len(rows) /\ Len(rows) \in Nat /\ \A x \in 1..Len(rows) : rows[x] \in AudioAsset
  BY DEF RowsOf
<1>3. IsFiniteSet(S) /\ Cardinality(S) \in Nat
  <2> HIDE DEF S
  <2>1. 1 \in Int /\ Len(rows) \in Int BY <1>2
  <2>2. IsFiniteSet(1..Len(rows)) BY <2>1, FS_Interval
  <2>3. IsFiniteSet(S) BY <1>2, <2>2, FS_Subset
  <2>4. QED BY <2>3, FS_CardinalityType
<1>4. \A x \in S : x \in Nat /\ rows[x].pos \in Nat BY <1>2 DEF AudioAsset
<1>5. /\ \A x, y \in S : <<x, y>> \in R1 <=> OldestFirst(x, y)
      /\ \A x, y \in S : <<x, y>> \in R2 <=> NewestFirst(x, y)
  OBVIOUS
<1> HIDE DEF S, R1, R2
<1>6. Orders(R1, S) /\ Orders(R2, S)
  <2>1. Orders(R1, S) BY <1>4, <1>5 DEF Orders, OldestFirst
  <2>2. Orders(R2, S) BY <1>4, <1>5 DEF Orders, NewestFirst
  <2>3. QED BY <2>1, <2>2
<1>7. Arranges(Arranged(S, R1), S, R1) /\ Arranges(Arranged(S, R2), S, R2) BY <1>3, <1>6, ArrangedIs
<1>8. Arranges(ids, S, R1) \/ Arranges(ids, S, R2) BY <1>1, <1>7
<1>9. /\ ids \in [1..Cardinality(S) -> S]
      /\ \A x \in S : \E i \in 1..Cardinality(S) : ids[i] = x
  BY <1>8 DEF Arranges
<1>10. ASSUME NEW i \in 1..Cardinality(S), NEW j \in 1..Cardinality(S), i < j
       PROVE  rows[ids[i]].pos <= rows[ids[j]].pos
  <2>1. ids[i] \in S /\ ids[j] \in S BY <1>9
  <2>2. <<ids[i], ids[j]>> \in R1 \/ <<ids[i], ids[j]>> \in R2 BY <1>8, <1>10 DEF Arranges
  <2>3. OldestFirst(ids[i], ids[j]) \/ NewestFirst(ids[i], ids[j]) BY <1>5, <2>1, <2>2
  <2>4. QED BY <1>4, <2>1, <2>3 DEF OldestFirst, NewestFirst
<1>11. Ordered(ids, S) BY <1>9, <1>10 DEF Ordered
<1>12. ids \in Seq(Nat) BY <1>3, <1>4, <1>9
<1>13. QED BY <1>3, <1>11, <1>12 DEF S

LEMMA TakesAre ==
  ASSUME rows \in Seq(AudioAsset), NEW e, NEW t \in OrdersOfTakes(e)
  PROVE  /\ t \in Seq(AudioAsset)
         /\ \A k \in DOMAIN t : t[k].kind = "segment" /\ t[k].episode = e /\ InTable(t[k])
         /\ \A j, k \in DOMAIN t : j < k => t[j].pos <= t[k].pos
         /\ Full(t, e)
<1> DEFINE S == RowsOf("segment", e)
<1>1. PICK ids \in InOrder("segment", e) : t = [k \in DOMAIN ids |-> rows[ids[k]]]
  BY DEF OrdersOfTakes
<1>2. Ordered(ids, S) /\ Cardinality(S) \in Nat BY OrderedIs
<1>3. PICK m \in Nat : m = Cardinality(S) BY <1>2
<1>4. /\ ids \in [1..m -> S] /\ \A x \in S : \E i \in 1..m : ids[i] = x
      /\ \A i, j \in 1..m : i < j => rows[ids[i]].pos <= rows[ids[j]].pos
  BY <1>2, <1>3 DEF Ordered
<1>5. \A x \in S : x \in DOMAIN rows /\ rows[x] \in AudioAsset /\ rows[x].kind = "segment" /\ rows[x].episode = e
  BY DEF RowsOf
<1> HIDE DEF S
<1>6. t \in [1..m -> AudioAsset] /\ \A k \in 1..m : t[k] = rows[ids[k]] /\ ids[k] \in S
  BY <1>1, <1>4, <1>5
<1>7. t \in Seq(AudioAsset) /\ DOMAIN t = 1..m /\ Len(t) = m BY <1>6
<1>8. \A k \in 1..m : t[k].kind = "segment" /\ t[k].episode = e /\ InTable(t[k])
  BY <1>5, <1>6 DEF InTable
<1>9. \A i \in S : \E k \in 1..m : t[k] = rows[i] BY <1>4, <1>6
<1>10. Full(t, e) BY <1>3, <1>7, <1>9 DEF Full, S
<1>11. QED BY <1>4, <1>6, <1>7, <1>8, <1>10

-----------------------------------------------------------------------------
(* Scripts, rows and files.                                                *)

LEMMA SiteHas ==
  ASSUME site \in Sites
  PROVE  /\ MaxLines \in Nat /\ Scripts \subseteq Nat \ {0} /\ Episodes \subseteq Nat
         /\ \A s \in Scripts :
              /\ EpisodeOf(s) \in Episodes
              /\ Len(Lines(s)) \in 1..MaxLines /\ DOMAIN Lines(s) = 1..Len(Lines(s))
              /\ Lines(s) \in Seq(Scripts \X (0..MaxLines))
              /\ \A n \in DOMAIN Lines(s) : /\ n \in 1..MaxLines /\ Lines(s)[n] = <<s, n>>
                                            /\ ArticleOf(s, n) \in Articles \cup {NoArticle}
<1>1. /\ site.scripts \in Seq([episode : Episodes, lines : Seq(Articles \cup {NoArticle})])
      /\ \A n \in DOMAIN site.scripts : Len(site.scripts[n].lines) \in 1..MaxLines
      /\ MaxLines \in Nat /\ NumEpisodes \in Nat
  BY AudioAssumption
<1>2. Scripts = 1..Len(site.scripts) /\ Len(site.scripts) \in Nat BY <1>1 DEF Scripts
<1>3. \A s \in Scripts : site.scripts[s] \in [episode : Episodes, lines : Seq(Articles \cup {NoArticle})]
  <2> DEFINE R == [episode : Episodes, lines : Seq(Articles \cup {NoArticle})]
  <2>1. site.scripts \in Seq(R) BY <1>1
  <2> HIDE DEF R
  <2>2. \A s \in 1..Len(site.scripts) : site.scripts[s] \in R BY <2>1
  <2>3. QED BY <1>2, <2>2 DEF R
<1>4. ASSUME NEW s \in Scripts
      PROVE  /\ EpisodeOf(s) \in Episodes
             /\ Len(Lines(s)) \in 1..MaxLines /\ DOMAIN Lines(s) = 1..Len(Lines(s))
             /\ Lines(s) \in Seq(Scripts \X (0..MaxLines))
             /\ \A n \in DOMAIN Lines(s) : /\ n \in 1..MaxLines /\ Lines(s)[n] = <<s, n>>
                                           /\ ArticleOf(s, n) \in Articles \cup {NoArticle}
  <2>1. EpisodeOf(s) \in Episodes /\ site.scripts[s].lines \in Seq(Articles \cup {NoArticle})
    BY <1>3 DEF EpisodeOf
  <2>2. PICK l \in Seq(Articles \cup {NoArticle}) : l = site.scripts[s].lines BY <2>1
  <2>3. PICK m \in 1..MaxLines : m = Len(l) BY <1>1, <2>2 DEF Scripts
  <2>4. DOMAIN l = 1..m /\ \A n \in 1..m : l[n] \in Articles \cup {NoArticle} BY <2>2, <2>3
  <2>5. Lines(s) = [n \in 1..m |-> <<s, n>>] BY <2>2, <2>4 DEF Lines
  <2>6. \A n \in 1..m : n \in 1..MaxLines /\ n \in 0..MaxLines BY <1>1, <2>3
  <2>7. Lines(s) \in Seq(Scripts \X (0..MaxLines)) /\ Len(Lines(s)) = m /\ DOMAIN Lines(s) = 1..m
    BY <2>5, <2>6, <2>3
  <2>8. \A n \in 1..m : ArticleOf(s, n) = l[n] BY <2>2 DEF ArticleOf
  <2>9. \A n \in 1..m : Lines(s)[n] = <<s, n>> BY <2>5
  <2>10. QED BY <2>1, <2>3, <2>4, <2>6, <2>7, <2>8, <2>9
<1>5. Scripts \subseteq Nat \ {0} /\ Episodes \subseteq Nat BY <1>2 DEF Episodes
<1>6. QED BY <1>1, <1>4, <1>5

LEMMA RowsAre ==
  ASSUME site \in Sites
  PROVE  /\ \A s \in Scripts : \A n \in DOMAIN Lines(s) : SegmentRow(s, n) \in AudioAsset
         /\ \A e \in Episodes : FinalRow(e) \in AudioAsset
         /\ \A e \in Episodes, n \in Nat, a \in Articles : ChapterRow(e, n, a) \in AudioAsset
<1>1. /\ MaxLines \in Nat /\ Scripts \subseteq Nat
      /\ \A s \in Scripts : \A n \in DOMAIN Lines(s) :
           EpisodeOf(s) \in Episodes /\ n \in Nat /\ ArticleOf(s, n) \in Articles \cup {NoArticle}
  BY SiteHas
<1>2. QED BY <1>1 DEF SegmentRow, FinalRow, ChapterRow, AudioAsset, AudioKind

FinalFile(e) == <<e, <<"final", 0>>>>
LEMMA FilesAre ==
  ASSUME site \in Sites
  PROVE  /\ \A e \in Episodes : FinalFile(e) \in Files /\ File(FinalRow(e)) = FinalFile(e)
         /\ \A e \in Episodes, n \in 1..MaxLines : LineFile(e, n) \in Files
         /\ \A e \in Episodes, n \in 1..MostChapters : ChapterFile(e, n) \in Files
         /\ \A s, n : File(SegmentRow(s, n)) = LineFile(EpisodeOf(s), n)
         /\ \A e, n, a : File(ChapterRow(e, n, a)) = ChapterFile(e, n)
<1>1. /\ \A e : File(FinalRow(e)) = FinalFile(e)
      /\ \A s, n : File(SegmentRow(s, n)) = LineFile(EpisodeOf(s), n)
      /\ \A e, n, a : File(ChapterRow(e, n, a)) = ChapterFile(e, n)
  BY DEF File, FinalRow, SegmentRow, ChapterRow, FinalFile, LineFile, ChapterFile
<1>2. /\ \A e \in Episodes : FinalFile(e) \in Files
      /\ \A e \in Episodes, n \in 1..MaxLines : LineFile(e, n) \in Files
      /\ \A e \in Episodes, n \in 1..MostChapters : ChapterFile(e, n) \in Files
  BY DEF Files, FinalFile, LineFile, ChapterFile, MostChapters
<1>3. QED BY <1>1, <1>2

\* The script of an episode that has no other.
LEMMA OnlyOne ==
  ASSUME site \in Sites, NEW e, NEW s, OnlyScript(s, e), NEW r \in Scripts, EpisodeOf(r) = e
  PROVE  r = s
<1> DEFINE S == {x \in Scripts : EpisodeOf(x) = e}
<1>1. Cardinality(S) = 1 /\ s \in S /\ r \in S BY DEF OnlyScript, OneVersion
<1> HIDE DEF S
<1>2. IsFiniteSet(S)
  <2>1. site.scripts \in Seq([episode : Episodes, lines : Seq(Articles \cup {NoArticle})])
    BY AudioAssumption
  <2>2. Len(site.scripts) \in Int /\ 1 \in Int /\ S \subseteq 1..Len(site.scripts)
    BY <2>1 DEF Scripts, S
  <2>3. IsFiniteSet(1..Len(site.scripts)) BY <2>2, FS_Interval
  <2>4. QED BY <2>2, <2>3, FS_Subset
<1>3. PICK x : S = {x} BY <1>1, <1>2, FS_Singleton
<1>4. QED BY <1>1, <1>3

\* A take in the table.
IsTake(r) ==
  /\ r \in AudioAsset /\ r.script \in Scripts /\ r.pos \in DOMAIN Lines(r.script)
  /\ r = SegmentRow(r.script, r.pos)
  /\ r.episode = EpisodeOf(r.script) /\ r.article = ArticleOf(r.script, r.pos)
  /\ r.pos \in 1..MaxLines /\ File(r) = LineFile(r.episode, r.pos)
LEMMA TakeIs ==
  ASSUME site \in Sites, RowsStand, NEW r, InTable(r), r.kind = "segment"
  PROVE  /\ IsTake(r) /\ disk[LineFile(r.episode, r.pos)] # <<>>
         /\ \A m \in 1..(r.pos - 1) : InTable(SegmentRow(r.script, m))
<1>1. Real(r) /\ \A m \in 1..(r.pos - 1) : InTable(SegmentRow(r.script, m))
  BY DEF RowsStand, Stands, InTable
<1>2. \A e, n, a : FinalRow(e).kind = "final" /\ ChapterRow(e, n, a).kind = "chapter"
  BY DEF FinalRow, ChapterRow
<1>3. /\ r \in AudioAsset /\ r.script \in Scripts /\ r.pos \in DOMAIN Lines(r.script)
      /\ r = SegmentRow(r.script, r.pos) /\ disk[File(r)] # <<>>
  BY <1>1, <1>2 DEF Real
<1>4. r.episode = EpisodeOf(r.script) /\ r.article = ArticleOf(r.script, r.pos)
  BY <1>3 DEF SegmentRow
<1>5. File(r) = LineFile(r.episode, r.pos) BY <1>3, <1>4, FilesAre
<1>6. r.pos \in 1..MaxLines BY <1>3, SiteHas
<1>7. QED BY <1>1, <1>3, <1>4, <1>5, <1>6 DEF IsTake

\* The types, where nothing else matters.
Heard == (Scripts \cup {0}) \X (0..MaxLines)

\* What is heard of takes.
SpeaksOf(e, t, heard) ==
  \A i \in DOMAIN heard :
    \E k \in DOMAIN t : \E s \in Scripts :
      EpisodeOf(s) = e /\ t[k].pos \in DOMAIN Lines(s) /\ heard[i] = <<s, t[k].pos>>
Takes(t, e) ==
  /\ t \in Seq(AudioAsset)
  /\ \A k \in DOMAIN t : t[k].kind = "segment" /\ t[k].episode = e /\ InTable(t[k])
FilesSpeak ==
  /\ disk \in [Files -> Seq(Heard)]
  /\ \A e \in Episodes : \A n \in 1..MaxLines : Speaks(e, n, disk[LineFile(e, n)])
LEMMA SoundHas ==
  ASSUME site \in Sites, RowsStand, FilesSpeak, NEW e \in Episodes, NEW t, Takes(t, e)
  PROVE  /\ Sound(t) \in Seq(Heard) /\ SpeaksOf(e, t, Sound(t))
         /\ t # <<>> => Sound(t) # <<>>
<1> DEFINE seqs == [i \in DOMAIN t |-> disk[File(t[i])]]
<1>1. DOMAIN t = 1..Len(t) /\ Len(t) \in Nat BY DEF Takes
<1>2. \A k \in DOMAIN t : IsTake(t[k]) /\ t[k].episode = e /\ disk[LineFile(e, t[k].pos)] # <<>>
  BY TakeIs DEF Takes
<1>3. \A k \in DOMAIN t : t[k].pos \in 1..MaxLines /\ File(t[k]) = LineFile(e, t[k].pos) /\ File(t[k]) \in Files
  BY <1>2, FilesAre DEF IsTake
<1> DEFINE H == Heard
<1> HIDE DEF H
<1>4. \A k \in DOMAIN t : disk[File(t[k])] \in Seq(H) /\ disk[File(t[k])] # <<>>
  BY <1>2, <1>3 DEF FilesSpeak, H
<1>5. seqs \in Seq(Seq(H)) /\ DOMAIN seqs = DOMAIN t BY <1>1, <1>4
<1>6. \A k \in DOMAIN t : seqs[k] = disk[LineFile(e, t[k].pos)] /\ seqs[k] # <<>> BY <1>3, <1>4
<1>7. Sound(t) = FlattenSeq(seqs) BY DEF Sound
<1> HIDE DEF seqs
<1>8. PICK heard : heard = Sound(t)
  OBVIOUS
<1>9. /\ heard \in Seq(H)
      /\ \A i \in DOMAIN heard : \E n \in DOMAIN seqs : \E k \in DOMAIN seqs[n] : heard[i] = seqs[n][k]
  BY <1>5, <1>7, <1>8, FlatHas
<1>10. SpeaksOf(e, t, heard)
  <2> SUFFICES ASSUME NEW i \in DOMAIN heard
               PROVE  \E k \in DOMAIN t : \E s \in Scripts :
                        EpisodeOf(s) = e /\ t[k].pos \in DOMAIN Lines(s) /\ heard[i] = <<s, t[k].pos>>
    BY DEF SpeaksOf
  <2>1. PICK n \in DOMAIN t : \E k \in DOMAIN seqs[n] : heard[i] = seqs[n][k] BY <1>5, <1>9
  <2>2. Speaks(e, t[n].pos, seqs[n]) BY <1>3, <1>6 DEF FilesSpeak
  <2>3. \E s \in Scripts : EpisodeOf(s) = e /\ t[n].pos \in DOMAIN Lines(s) /\ heard[i] = <<s, t[n].pos>>
    BY <2>1, <2>2 DEF Speaks
  <2>4. QED BY <2>3
<1>11. ASSUME t # <<>> PROVE heard # <<>>
  <2>1. PICK at : Begins(at, seqs, heard) BY <1>5, <1>6, <1>7, <1>8, FlatBegins
  <2>2. 1 \in DOMAIN t
    <3>1. t \in Seq(AudioAsset) BY DEF Takes
    <3>2. Len(t) # 0 BY <1>11, <3>1, EmptySeq
    <3>3. QED BY <1>1, <3>2
  <2>3. 1 \in 1..Len(seqs) BY <1>5, <2>2
  <2>4. at[1] \in DOMAIN heard BY <2>1, <2>3 DEF Begins
  <2>5. QED BY <2>4
<1>12. QED BY <1>8, <1>9, <1>10, <1>11 DEF H

-----------------------------------------------------------------------------
(* The chapters of a script.                                               *)

Reading(s) == [n \in DOMAIN Lines(s) |-> SegmentRow(s, n)]
LEMMA ReadingIs ==
  ASSUME site \in Sites, NEW s \in Scripts
  PROVE  /\ Reading(s) \in Seq(AudioAsset) /\ Len(Reading(s)) = Len(Lines(s))
         /\ DOMAIN Reading(s) = DOMAIN Lines(s)
         /\ \A n \in DOMAIN Lines(s) : /\ Reading(s)[n] = SegmentRow(s, n)
                                       /\ Reading(s)[n].article = ArticleOf(s, n)
         /\ Plan(s) = Chapters(Reading(s)) /\ Plan(s) \in Seq(Articles)
         /\ Len(Plan(s)) \in 0..MostChapters
<1>1. PICK m \in Nat : DOMAIN Lines(s) = 1..m /\ Len(Lines(s)) = m BY SiteHas
<1>2. \A n \in 1..m : SegmentRow(s, n) \in AudioAsset /\ SegmentRow(s, n).article = ArticleOf(s, n)
  BY <1>1, RowsAre DEF SegmentRow
<1>3. Reading(s) = [n \in 1..m |-> SegmentRow(s, n)] BY <1>1 DEF Reading
<1>4. Reading(s) \in Seq(AudioAsset) /\ Len(Reading(s)) = m /\ DOMAIN Reading(s) = 1..m
  BY <1>2, <1>3
<1>5. \A n \in 1..m : Reading(s)[n] = SegmentRow(s, n) BY <1>3
<1>6. Plan(s) = Chapters(Reading(s)) BY DEF Plan, Reading
<1>7. Plan(s) \in Seq(Articles) /\ Len(Plan(s)) \in 0..MostChapters BY <1>4, <1>6, ChaptersHave
<1>8. QED BY <1>1, <1>2, <1>4, <1>5, <1>6, <1>7

\* The takes of an episode with one script are of that script.
LEMMA OneScript ==
  ASSUME site \in Sites, RowsStand, NEW e \in Episodes, NEW t \in Seq(AudioAsset), Listing(t, e),
         NEW s, OnlyScript(s, e)
  PROVE  \A k \in DOMAIN t : /\ t[k].pos \in DOMAIN Lines(s) /\ t[k] = SegmentRow(s, t[k].pos)
                             /\ t[k].article = ArticleOf(s, t[k].pos) /\ t[k].script = s
<1> TAKE k \in DOMAIN t
<1>1. IsTake(t[k]) /\ t[k].episode = e BY TakeIs DEF Listing
<1>2. t[k].script = s BY <1>1, OnlyOne DEF IsTake
<1>3. QED BY <1>1, <1>2 DEF IsTake

\* Whatever has been spoken of it, the chapters are the first ones of the plan.
LEMMA ChaptersFollow ==
  ASSUME site \in Sites, RowsStand, NEW e \in Episodes, NEW t \in Seq(AudioAsset), Listing(t, e),
         NEW s, OnlyScript(s, e)
  PROVE  \A n \in DOMAIN Chapters(t) : n \in DOMAIN Plan(s) /\ Chapters(t)[n] = Plan(s)[n]
<1> DEFINE p == Reading(s)
           P == First(p)
<1>0. s \in Scripts BY DEF OnlyScript
<1>1. /\ p \in Seq(AudioAsset) /\ DOMAIN p = 1..Len(p) /\ Len(p) \in Nat /\ DOMAIN p = DOMAIN Lines(s)
      /\ \A n \in DOMAIN p : p[n] = SegmentRow(s, n) /\ p[n].article = ArticleOf(s, n)
      /\ Plan(s) = Chapters(p)
  BY <1>0, ReadingIs
<1>2. /\ DOMAIN t = 1..Len(t) /\ Len(t) \in Nat
      /\ \A k \in DOMAIN t : /\ t[k].pos \in DOMAIN p /\ t[k] = SegmentRow(s, t[k].pos)
                             /\ t[k].article = p[t[k].pos].article /\ t[k].script = s
  BY <1>1, OneScript
<1> HIDE DEF p
<1>3. /\ \A j, k \in DOMAIN t : j < k => t[j].pos <= t[k].pos
      /\ \A k \in DOMAIN t : \A n \in 1..(t[k].pos - 1) : \E j \in DOMAIN t : t[j] = SegmentRow(s, n)
  BY <1>2 DEF Listing
<1>4. \A k \in DOMAIN t : \A n \in 1..(t[k].pos - 1) : \E j \in DOMAIN t : t[j].pos = n
  BY <1>3 DEF SegmentRow
<1>a. PICK m \in Nat : \E h : ChaptersBy(h, m, t) BY ChaptersAre
<1>b. PICK h : ChaptersBy(h, m, t) BY <1>a
<1>c. PICK q \in Nat : \E g : ChaptersBy(g, q, p) BY <1>1, ChaptersAre
<1>d. PICK g : ChaptersBy(g, q, p) BY <1>c
<1>5. /\ h \in [1..m -> First(t)] /\ \A i, j \in 1..m : i < j => h[i] < h[j]
      /\ \A x \in First(t) : \E k \in 1..m : h[k] = x
      /\ Chapters(t) = [n \in 1..m |-> t[h[n]].article]
  BY <1>b DEF ChaptersBy, Lists
<1>6. /\ Lists(g, q, P) /\ g \in [1..q -> P]
      /\ Chapters(p) = [n \in 1..q |-> p[g[n]].article]
  BY <1>d DEF ChaptersBy, Lists
<1>7. \A k \in First(t) : /\ k \in DOMAIN t /\ t[k].article # NoArticle
                          /\ \A j \in 1..(k - 1) : t[j].article # t[k].article
  BY <1>2 DEF First
<1>8. \A x : x \in P <=> /\ x \in DOMAIN p /\ p[x].article # NoArticle
                         /\ \A j \in 1..(x - 1) : p[j].article # p[x].article
  BY <1>1 DEF First
<1> HIDE DEF P
<1>9. \A n \in 1..m : h[n] \in First(t) /\ h[n] \in DOMAIN t BY <1>5, <1>7
<1> DEFINE f == [n \in 1..m |-> t[h[n]].pos]
<1>10. ASSUME NEW n \in 1..m PROVE f[n] \in P
  <2>1. t[h[n]].pos \in DOMAIN p /\ p[t[h[n]].pos].article = t[h[n]].article /\ t[h[n]].article # NoArticle
    BY <1>2, <1>7, <1>9
  <2>2. ASSUME NEW j \in 1..(t[h[n]].pos - 1) PROVE p[j].article # p[t[h[n]].pos].article
    <3>1. PICK i \in DOMAIN t : t[i].pos = j BY <1>4, <1>9
    <3>2. i \in 1..(h[n] - 1)
      <4>1. i \in Nat /\ h[n] \in Nat /\ i >= 1 /\ t[h[n]].pos \in Nat BY <1>1, <1>2, <1>9
      <4>2. ~ (h[n] <= i)
        <5>1. h[n] < i => t[h[n]].pos <= t[i].pos BY <1>3, <1>9
        <5>2. j < t[h[n]].pos /\ j \in Nat BY <4>1
        <5>3. QED BY <3>1, <4>1, <5>1, <5>2
      <4>3. QED BY <4>1, <4>2
    <3>3. t[i].article # t[h[n]].article BY <1>7, <1>9, <3>2
    <3>4. t[i].article = p[j].article BY <1>2, <3>1
    <3>5. QED BY <2>1, <3>3, <3>4
  <2>3. QED BY <1>8, <2>1, <2>2
<1>11. ASSUME NEW i \in 1..m, NEW j \in 1..m, i < j PROVE f[i] < f[j]
  <2>1. h[i] < h[j] /\ h[i] \in DOMAIN t /\ h[j] \in DOMAIN t /\ h[j] \in First(t)
    BY <1>5, <1>9, <1>11
  <2>2. t[h[i]].pos <= t[h[j]].pos BY <1>3, <2>1
  <2>3. h[i] \in 1..(h[j] - 1) BY <1>2, <2>1
  <2>4. t[h[i]].article # t[h[j]].article BY <1>7, <2>1, <2>3
  <2>5. t[h[i]].pos # t[h[j]].pos BY <1>2, <2>1, <2>4
  <2>6. t[h[i]].pos \in Nat /\ t[h[j]].pos \in Nat BY <1>1, <1>2, <2>1
  <2>7. QED BY <2>2, <2>5, <2>6
<1>12. ASSUME NEW i \in 1..m, NEW x \in P, x < f[i] PROVE \E j \in 1..m : f[j] = x
  <2>1. x \in DOMAIN p /\ x \in 1..(t[h[i]].pos - 1) /\ p[x].article # NoArticle
    <3>1. x \in DOMAIN p /\ p[x].article # NoArticle /\ t[h[i]].pos \in DOMAIN p BY <1>2, <1>8, <1>9
    <3>2. x < t[h[i]].pos BY <1>12
    <3>3. QED BY <1>1, <3>1, <3>2
  <2>2. PICK k \in DOMAIN t : t[k].pos = x BY <1>4, <1>9, <2>1
  <2>3. t[k].article = p[x].article BY <1>2, <2>2
  <2>4. PICK j \in First(t) : j <= k /\ t[j].article = t[k].article BY <2>1, <2>3, FirstOf
  <2>5. t[j].pos = x
    <3>1. j \in DOMAIN t /\ t[j].pos \in DOMAIN p /\ p[t[j].pos].article = p[x].article
      BY <1>2, <1>7, <2>3, <2>4
    <3>2. t[j].pos <= x
      <4>1. j \in Nat /\ k \in Nat /\ x \in Nat BY <1>1, <1>2, <2>1, <3>1
      <4>2. j = k \/ j < k BY <2>4, <4>1
      <4>3. j < k => t[j].pos <= t[k].pos BY <1>3, <3>1
      <4>4. QED BY <2>2, <4>1, <4>2, <4>3
    <3>3. t[j].pos \notin 1..(x - 1) BY <1>8, <3>1
    <3>4. QED BY <1>1, <2>1, <3>1, <3>2, <3>3
  <2>6. PICK n \in 1..m : h[n] = j BY <1>5, <2>4
  <2>7. QED BY <2>5, <2>6
<1>13. f \in [1..m -> P] BY <1>10
<1>14. Increasing(f, m) BY <1>11 DEF Increasing
<1>15. Closed(f, m, P) BY <1>12 DEF Closed
<1> HIDE DEF f
<1>16. P \in SUBSET Nat BY <1>1, <1>8
<1>17. m <= q /\ \A i \in 1..m : f[i] = g[i] BY <1>6, <1>13, <1>14, <1>15, <1>16, SameLists
<1>18. ASSUME NEW n \in 1..m PROVE n \in 1..q /\ Chapters(t)[n] = Plan(s)[n]
  <2>1. n \in 1..q /\ g[n] = t[h[n]].pos BY <1>17 DEF f
  <2>2. Chapters(t)[n] = t[h[n]].article /\ Plan(s)[n] = p[g[n]].article BY <1>1, <1>5, <1>6, <2>1
  <2>3. QED BY <1>2, <1>9, <2>1, <2>2
<1>19. DOMAIN Chapters(t) = 1..m /\ DOMAIN Plan(s) = 1..q BY <1>1, <1>5, <1>6
<1>20. QED BY <1>18, <1>19

\* What a chapter tells.
LEMMA AboutTells ==
  ASSUME site \in Sites, RowsStand, FilesSpeak, NEW e \in Episodes,
         NEW t \in Seq(AudioAsset), Listing(t, e), NEW n \in DOMAIN Chapters(t)
  PROVE  LET heard == Sound(About(t, Chapters(t)[n]))
         IN heard \in Seq(Heard) /\ heard # <<>> /\ TellsOf(e, n, heard)
<1> DEFINE a == Chapters(t)[n]
           u == About(t, a)
           heard == Sound(u)
<1>1. /\ u \in Seq(AudioAsset) /\ u # <<>>
      /\ \A i \in DOMAIN u : \E k \in DOMAIN t : u[i] = t[k] /\ t[k].article = a
  BY ChaptersHave, AboutHas
<1>2. Takes(u, e)
  <2>1. \A i \in DOMAIN u : u[i].kind = "segment" /\ u[i].episode = e /\ InTable(u[i])
    BY <1>1 DEF Listing
  <2> HIDE DEF u
  <2>2. QED BY <1>1, <2>1 DEF Takes
<1> HIDE DEF u
<1>3. heard \in Seq(Heard) /\ SpeaksOf(e, u, heard) /\ heard # <<>> BY <1>1, <1>2, SoundHas
<1> HIDE DEF heard
<1>4. ASSUME NEW s \in Scripts, OnlyScript(s, e), NEW i \in DOMAIN heard
      PROVE  n \in DOMAIN Plan(s) /\ heard[i][1] = s /\ ArticleOf(s, heard[i][2]) = Plan(s)[n]
  <2>1. n \in DOMAIN Plan(s) /\ a = Plan(s)[n] BY <1>4, ChaptersFollow
  <2>2. PICK k \in DOMAIN u : \E r \in Scripts : EpisodeOf(r) = e /\ heard[i] = <<r, u[k].pos>>
    BY <1>3 DEF SpeaksOf
  <2>3. heard[i] = <<s, u[k].pos>> BY <1>4, <2>2, OnlyOne
  <2>4. PICK j \in DOMAIN t : u[k] = t[j] /\ t[j].article = a BY <1>1
  <2>5. ArticleOf(s, t[j].pos) = a BY <1>4, <2>4, OneScript
  <2>6. QED BY <2>1, <2>3, <2>4, <2>5
<1>5. TellsOf(e, n, heard) BY <1>4 DEF TellsOf
<1>6. QED BY <1>3, <1>5 DEF heard, u

-----------------------------------------------------------------------------
(* A job that nobody disturbs.                                             *)

\* Its takes, in which every line of the script is found, and their files.
Undisturbed(s, t, e) ==
  /\ s \in Scripts /\ EpisodeOf(s) = e /\ e \in Episodes
  /\ t \in Seq(AudioAsset) /\ Listing(t, e) /\ Full(t, e)
  /\ \A m \in DOMAIN Lines(s) : InTable(SegmentRow(s, m))
  /\ \A m \in DOMAIN Lines(s) : disk[LineFile(e, m)] = <<<<s, m>>>>
LEMMA AllIsHeard ==
  ASSUME site \in Sites, rows \in Seq(AudioAsset), RowsStand, FilesSpeak, NEW s, NEW t, NEW e,
         Undisturbed(s, t, e)
  PROVE  HeardIn(Lines(s), Sound(t))
<1> DEFINE seqs == [i \in DOMAIN t |-> disk[File(t[i])]]
           heard == Sound(t)
<1>1. /\ s \in Scripts /\ EpisodeOf(s) = e /\ e \in Episodes
      /\ t \in Seq(AudioAsset) /\ DOMAIN t = 1..Len(t) /\ Len(t) \in Nat
      /\ \A j, k \in DOMAIN t : j < k => t[j].pos <= t[k].pos
  BY DEF Undisturbed, Listing
<1>2. PICK m \in Nat : DOMAIN Lines(s) = 1..m BY <1>1, SiteHas
<1>3. \A n \in 1..m : Lines(s)[n] = <<s, n>> /\ n \in 1..MaxLines BY <1>1, <1>2, SiteHas
<1>4. \A n \in 1..m : \E k \in DOMAIN t : t[k] = SegmentRow(s, n)
  <2> TAKE n \in 1..m
  <2>1. PICK i \in DOMAIN rows : rows[i] = SegmentRow(s, n) BY <1>2 DEF Undisturbed, InTable
  <2>2. SegmentRow(s, n).kind = "segment" /\ SegmentRow(s, n).episode = e BY <1>1 DEF SegmentRow
  <2>3. i \in RowsOf("segment", e) BY <2>1, <2>2 DEF RowsOf
  <2>4. QED BY <2>1, <2>3 DEF Undisturbed, Full
<1> DEFINE place == [n \in 1..m |-> CHOOSE k \in DOMAIN t : t[k] = SegmentRow(s, n)]
<1>5. \A n \in 1..m : place[n] \in DOMAIN t /\ t[place[n]] = SegmentRow(s, n) BY <1>4
<1> HIDE DEF place
<1>6. \A n \in 1..m : t[place[n]].pos = n
  <2>1. \A n : SegmentRow(s, n).pos = n BY DEF SegmentRow
  <2>2. QED BY <1>5, <2>1
<1>7. ASSUME NEW i \in 1..m, NEW j \in 1..m, i < j PROVE place[i] < place[j]
  <2>1. place[i] \in Nat /\ place[j] \in Nat /\ place[i] \in DOMAIN t /\ place[j] \in DOMAIN t
    BY <1>1, <1>5
  <2>2. t[place[i]].pos = i /\ t[place[j]].pos = j BY <1>6
  <2>3. place[j] < place[i] => t[place[j]].pos <= t[place[i]].pos BY <1>1, <2>1
  <2>4. QED BY <1>7, <2>1, <2>2, <2>3
<1>8. \A k \in DOMAIN t : IsTake(t[k]) /\ t[k].episode = e /\ disk[LineFile(e, t[k].pos)] # <<>>
  BY TakeIs DEF Undisturbed, Listing
<1>9. \A k \in DOMAIN t : t[k].pos \in 1..MaxLines /\ File(t[k]) = LineFile(e, t[k].pos) /\ File(t[k]) \in Files
  BY <1>1, <1>8, FilesAre DEF IsTake
<1> DEFINE H == Heard
<1> HIDE DEF H
<1>10. \A k \in DOMAIN t : disk[File(t[k])] \in Seq(H) /\ disk[File(t[k])] # <<>>
  BY <1>8, <1>9 DEF FilesSpeak, H
<1>11. seqs \in Seq(Seq(H)) /\ DOMAIN seqs = DOMAIN t /\ Len(seqs) = Len(t) BY <1>1, <1>10
<1>12. \A k \in DOMAIN t : seqs[k] = disk[LineFile(e, t[k].pos)] /\ seqs[k] # <<>> BY <1>9, <1>10
<1>13. heard = FlattenSeq(seqs) BY DEF Sound
<1> HIDE DEF seqs, heard
<1>14. PICK at : Begins(at, seqs, heard) BY <1>11, <1>12, <1>13, FlatBegins
<1>15. /\ \A i \in DOMAIN t : at[i] \in DOMAIN heard /\ heard[at[i]] = seqs[i][1]
       /\ \A i, j \in DOMAIN t : i < j => at[i] < at[j]
  BY <1>1, <1>11, <1>14 DEF Begins
<1> DEFINE to == [n \in 1..m |-> at[place[n]]]
<1>16. ASSUME NEW n \in 1..m PROVE to[n] \in DOMAIN heard /\ heard[to[n]] = Lines(s)[n]
  <2>1. seqs[place[n]] = <<<<s, n>>>> BY <1>2, <1>5, <1>6, <1>12 DEF Undisturbed
  <2>2. heard[at[place[n]]] = <<s, n>> /\ at[place[n]] \in DOMAIN heard BY <1>5, <1>15, <2>1
  <2>3. QED BY <1>3, <2>2
<1>17. \A i, j \in 1..m : i < j => to[i] < to[j] BY <1>5, <1>7, <1>15
<1>18. to \in [1..m -> DOMAIN heard] BY <1>16
<1> HIDE DEF to
<1>19. HeardIn(Lines(s), heard) BY <1>2, <1>16, <1>17, <1>18 DEF HeardIn
<1>20. QED BY <1>19 DEF heard

\* If every line was taken once, the takes are the script.
LEMMA TakenOnce ==
  ASSUME site \in Sites, rows \in Seq(AudioAsset), RowsStand, NEW s, NEW t, NEW e,
         Undisturbed(s, t, e), Cardinality(RowsOf("segment", e)) = Len(Lines(s))
  PROVE  t = Reading(s)
<1> DEFINE S == RowsOf("segment", e)
<1>1. /\ s \in Scripts /\ EpisodeOf(s) = e
      /\ t \in Seq(AudioAsset) /\ DOMAIN t = 1..Len(t) /\ Len(t) \in Nat
      /\ \A j, k \in DOMAIN t : j < k => t[j].pos <= t[k].pos
      /\ \A k \in DOMAIN t : t[k].kind = "segment" /\ t[k].episode = e /\ InTable(t[k])
  BY DEF Undisturbed, Listing
<1>2. PICK m \in Nat : DOMAIN Lines(s) = 1..m /\ Len(Lines(s)) = m BY <1>1, SiteHas
<1>3. Len(t) = m /\ Cardinality(S) = m /\ DOMAIN t = 1..m BY <1>1, <1>2 DEF Undisturbed, Full
<1>4. IsFiniteSet(S) /\ IsFiniteSet(1..m) /\ Cardinality(1..m) = m
  <2>1. Len(rows) \in Int /\ S \subseteq 1..Len(rows) /\ 1 \in Int /\ m \in Int BY DEF RowsOf
  <2> HIDE DEF S
  <2>2. IsFiniteSet(1..Len(rows)) /\ IsFiniteSet(1..m) BY <2>1, FS_Interval
  <2>3. Cardinality(1..m) = IF 1 > m THEN 0 ELSE m - 1 + 1 BY <2>1, FS_Interval
  <2>4. IsFiniteSet(S) BY <2>1, <2>2, FS_Subset
  <2>5. Cardinality(1..m) = m BY <2>3
  <2>6. QED BY <2>2, <2>4, <2>5
<1>5. \A n \in 1..m : \E i \in S : rows[i] = SegmentRow(s, n)
  <2> TAKE n \in 1..m
  <2>1. PICK i \in DOMAIN rows : rows[i] = SegmentRow(s, n) BY <1>2 DEF Undisturbed, InTable
  <2>2. SegmentRow(s, n).kind = "segment" /\ SegmentRow(s, n).episode = e BY <1>1 DEF SegmentRow
  <2>3. QED BY <2>1, <2>2 DEF RowsOf
<1>6. \A i, j : SegmentRow(s, i) = SegmentRow(s, j) => i = j BY DEF SegmentRow
<1>7. \A k \in 1..m : \E i \in S : rows[i] = t[k] BY <1>1, <1>3 DEF InTable, RowsOf
<1>8. \A i \in S : \E k \in 1..m : t[k] = rows[i] BY <1>3 DEF Undisturbed, Full
<1> HIDE DEF S
<1> DEFINE of == [n \in 1..m |-> CHOOSE i \in S : rows[i] = SegmentRow(s, n)]
<1>9. \A n \in 1..m : of[n] \in S /\ rows[of[n]] = SegmentRow(s, n) BY <1>5
<1> HIDE DEF of
<1>10. of \in Injection(1..m, S)
  <2>1. of \in [1..m -> S] BY <1>9 DEF of
  <2>2. \A i, j \in 1..m : of[i] = of[j] => i = j BY <1>6, <1>9
  <2>3. QED BY <2>1, <2>2 DEF Injection, IsInjective
<1>11. of \in Surjection(1..m, S) BY <1>3, <1>4, <1>10, FS_Injection
<1>12. \A k \in 1..m : \E n \in 1..m : t[k] = SegmentRow(s, n)
  <2> TAKE k \in 1..m
  <2>1. PICK i \in S : rows[i] = t[k] BY <1>7
  <2>2. PICK n \in 1..m : of[n] = i BY <1>11 DEF Surjection
  <2>3. QED BY <1>9, <2>1, <2>2
<1>13. \A k \in 1..m : t[k].pos \in 1..m /\ t[k] = SegmentRow(s, t[k].pos)
  <2>1. \A n : SegmentRow(s, n).pos = n BY DEF SegmentRow
  <2>2. QED BY <1>12, <2>1
<1>14. \A n \in 1..m : \E k \in 1..m : t[k].pos = n
  <2> TAKE n \in 1..m
  <2>1. PICK k \in 1..m : t[k] = SegmentRow(s, n) BY <1>8, <1>9
  <2>2. QED BY <2>1 DEF SegmentRow
<1> DEFINE turn == [k \in 1..m |-> t[k].pos]
           X == 1..m
<1>15. turn \in [X -> X] /\ (\A n \in X : \E k \in X : turn[k] = n) /\ \A k \in X : turn[k] = t[k].pos
  BY <1>13, <1>14
<1>a. \A k \in 1..m : turn[k] = t[k].pos /\ turn[k] \in Nat BY <1>13
<1> HIDE DEF turn
<1>16. turn \in Surjection(X, X)
  <2> HIDE DEF X
  <2>1. QED BY <1>15 DEF Surjection
<1>17. turn \in Injection(X, X)
  <2>1. IsFiniteSet(X) /\ Cardinality(X) = m BY <1>4
  <2> HIDE DEF X
  <2>2. QED BY <1>16, <2>1, FS_Surjection
<1>18. ASSUME NEW i \in 1..m, NEW j \in 1..m, i < j PROVE turn[i] < turn[j]
  <2>1. turn[i] # turn[j] BY <1>17, <1>18 DEF Injection, IsInjective
  <2>2. t[i].pos <= t[j].pos BY <1>1, <1>3, <1>18
  <2>3. turn[i] \in Nat /\ turn[j] \in Nat /\ turn[i] = t[i].pos /\ turn[j] = t[j].pos BY <1>a
  <2>4. QED BY <2>1, <2>2, <2>3
<1>19. Increasing(turn, m) /\ turn \in [1..m -> 1..m] BY <1>15, <1>18 DEF Increasing
<1>20. \A k \in 1..m : turn[k] = k BY <1>19, AllNumbers
<1>21. \A k \in 1..m : t[k] = SegmentRow(s, k) BY <1>13, <1>15, <1>20
<1>22. /\ Reading(s) \in Seq(AudioAsset) /\ Len(Reading(s)) = m
       /\ \A k \in 1..m : Reading(s)[k] = SegmentRow(s, k)
  BY <1>1, <1>2, ReadingIs
<1> HIDE DEF S
<1>23. QED BY <1>1, <1>3, <1>21, <1>22, SeqEqual

\* What is heard of a script, and about an article of it, if nobody else has
\* written the files of its lines.
LEMMA ScriptIsHeard ==
  ASSUME site \in Sites, NEW s \in Scripts, NEW u \in Seq(AudioAsset), NEW m \in Nat,
         NEW at \in [1..m -> DOMAIN Lines(s)], Len(u) = m, \A k \in 1..m : u[k] = SegmentRow(s, at[k]),
         \A n \in DOMAIN Lines(s) : disk[LineFile(EpisodeOf(s), n)] = <<<<s, n>>>>
  PROVE  Sound(u) = [k \in 1..m |-> <<s, at[k]>>]
<1> DEFINE seqs == [i \in DOMAIN u |-> disk[File(u[i])]]
           W == Scripts \X (0..MaxLines)
<1>1. DOMAIN u = 1..m
  OBVIOUS
<1>2. \A k \in 1..m : File(u[k]) = LineFile(EpisodeOf(s), at[k]) BY FilesAre
<1>3. \A k \in 1..m : disk[File(u[k])] = <<<<s, at[k]>>>> /\ <<s, at[k]>> \in W
  <2>1. \A n \in DOMAIN Lines(s) : n \in 0..MaxLines BY SiteHas
  <2>2. QED BY <1>2, <2>1
<1> HIDE DEF W
<1>a. \A x \in W : <<x>> \in Seq(W) /\ <<x>>[1] = x /\ Len(<<x>>) = 1
  OBVIOUS
<1>4. \A k \in 1..m : seqs[k] = <<<<s, at[k]>>>> /\ seqs[k] \in Seq(W) /\ seqs[k][1] = <<s, at[k]>>
  BY <1>1, <1>3, <1>a
<1>5. seqs = [k \in 1..m |-> seqs[k]] BY <1>1
<1>6. Sound(u) = FlattenSeq(seqs) BY DEF Sound
<1> HIDE DEF seqs
<1>7. seqs \in Seq(Seq(W)) /\ Len(seqs) = m /\ DOMAIN seqs = 1..m BY <1>4, <1>5
<1>8. \A k \in 1..m : Len(seqs[k]) = 1 /\ seqs[k] # <<>>
  <2>1. \A k \in 1..m : Len(seqs[k]) = 1 BY <1>3, <1>4, <1>a
  <2>2. ASSUME NEW k \in 1..m, seqs[k] = <<>> PROVE FALSE
    <3>1. Len(seqs[k]) = 0 BY <2>2
    <3>2. Len(seqs[k]) = 1 BY <2>1
    <3>3. 0 # 1
      OBVIOUS
    <3>4. QED BY <3>1, <3>2, <3>3, Zenon
  <2>3. QED BY <2>1, <2>2
<1>9. PICK heard : heard = FlattenSeq(seqs)
  OBVIOUS
<1>10. heard \in Seq(W) /\ Len(heard) = m BY <1>7, <1>8, <1>9, FlatHas
<1>11. PICK to : Begins(to, seqs, heard) BY <1>7, <1>8, <1>9, FlatBegins
<1>12. to \in [1..m -> 1..m] /\ Increasing(to, m) BY <1>7, <1>10, <1>11 DEF Begins, Increasing
<1>13. \A k \in 1..m : to[k] = k BY <1>12, AllNumbers
<1>14. \A k \in 1..m : heard[k] = <<s, at[k]>> BY <1>4, <1>7, <1>11, <1>13 DEF Begins
<1>15. heard = [k \in 1..m |-> heard[k]] BY <1>10
<1>16. QED BY <1>6, <1>9, <1>14, <1>15

LEMMA ReadingIsHeard ==
  ASSUME site \in Sites, NEW s \in Scripts,
         \A n \in DOMAIN Lines(s) : disk[LineFile(EpisodeOf(s), n)] = <<<<s, n>>>>
  PROVE  /\ Sound(Reading(s)) = Lines(s)
         /\ \A a : Sound(About(Reading(s), a)) = AboutIn(s, a)
<1>1. PICK m \in Nat : DOMAIN Lines(s) = 1..m /\ Len(Lines(s)) = m BY SiteHas
<1>2. /\ Lines(s) \in Seq(Scripts \X (0..MaxLines)) /\ \A n \in 1..m : Lines(s)[n] = <<s, n>>
      /\ Reading(s) \in Seq(AudioAsset) /\ Len(Reading(s)) = m /\ DOMAIN Reading(s) = 1..m
      /\ \A n \in 1..m : Reading(s)[n] = SegmentRow(s, n) /\ Reading(s)[n].article = ArticleOf(s, n)
  BY <1>1, SiteHas, ReadingIs
<1>3. Sound(Reading(s)) = Lines(s)
  <2> DEFINE at == [k \in 1..m |-> k]
  <2>1. at \in [1..m -> DOMAIN Lines(s)] /\ \A k \in 1..m : at[k] = k BY <1>1
  <2>2. \A k \in 1..m : Reading(s)[k] = SegmentRow(s, at[k]) BY <1>2, <2>1
  <2> HIDE DEF at
  <2>3. Sound(Reading(s)) = [k \in 1..m |-> <<s, at[k]>>] BY <1>2, <2>1, <2>2, ScriptIsHeard
  <2>4. Lines(s) = [k \in 1..m |-> Lines(s)[k]] BY <1>1, <1>2
  <2>5. QED BY <1>2, <2>1, <2>3, <2>4
<1>4. ASSUME NEW a PROVE Sound(About(Reading(s), a)) = AboutIn(s, a)
  <2> DEFINE S == {n \in DOMAIN Lines(s) : ArticleOf(s, n) = a}
             u == About(Reading(s), a)
  <2>1. {k \in DOMAIN Reading(s) : Reading(s)[k].article = a} = S BY <1>1, <1>2
  <2>2. u = Kept(Reading(s), S) /\ AboutIn(s, a) = Kept(Lines(s), S) BY <2>1 DEF About, AboutIn
  <2>3. S \subseteq 1..m /\ S \in SUBSET Nat BY <1>1
  <2> HIDE DEF S, u
  <2>a. PICK l \in Nat : \E h : KeepsAt(h, l, Reading(s), S) BY <1>2, KeptIs
  <2>b. PICK h : KeepsAt(h, l, Reading(s), S) BY <2>a
  <2>c. PICK q \in Nat : \E g : KeepsAt(g, q, Lines(s), S) BY <1>2, KeptIs
  <2>d. PICK g : KeepsAt(g, q, Lines(s), S) BY <2>c
  <2>4. S \cap (1..m) = S BY <2>3
  <2>5. Lists(h, l, S) /\ u = [k \in 1..l |-> Reading(s)[h[k]]]
    BY <1>2, <2>2, <2>4, <2>b DEF KeepsAt
  <2>6. Lists(g, q, S) /\ AboutIn(s, a) = [k \in 1..q |-> Lines(s)[g[k]]]
    BY <1>1, <2>2, <2>4, <2>d DEF KeepsAt
  <2>7. /\ h \in [1..l -> S] /\ Increasing(h, l) /\ Closed(h, l, S)
        /\ g \in [1..q -> S] /\ Increasing(g, q) /\ Closed(g, q, S)
    BY <2>5, <2>6 DEF Lists, Increasing, Closed
  <2>8. l <= q /\ \A i \in 1..l : h[i] = g[i] BY <2>3, <2>6, <2>7, SameLists
  <2>9. q <= l BY <2>3, <2>5, <2>7, SameLists
  <2>10. l = q BY <2>8, <2>9
  <2>11. \A k \in 1..l : h[k] \in 1..m /\ u[k] = SegmentRow(s, h[k]) /\ Reading(s)[h[k]] \in AudioAsset
    <3>1. \A n \in 1..m : Reading(s)[n] \in AudioAsset BY <1>2
    <3>2. QED BY <1>2, <2>3, <2>5, <2>7, <3>1
  <2>12. u \in Seq(AudioAsset) /\ Len(u) = l BY <2>5, <2>11
  <2>13. h \in [1..l -> DOMAIN Lines(s)] BY <1>1, <2>7, <2>11
  <2>14. Sound(u) = [k \in 1..l |-> <<s, h[k]>>] BY <2>11, <2>12, <2>13, ScriptIsHeard
  <2>15. \A k \in 1..l : Lines(s)[g[k]] = <<s, h[k]>> BY <1>2, <2>8, <2>11
  <2>16. AboutIn(s, a) = [k \in 1..l |-> <<s, h[k]>>] BY <2>6, <2>10, <2>15
  <2>17. QED BY <2>14, <2>16 DEF u
<1>5. QED BY <1>3, <1>4

-----------------------------------------------------------------------------
(* What steps leave as it is.                                              *)

LEMMA SameSite ==
  ASSUME site' = site
  PROVE  /\ Scripts' = Scripts /\ Heard' = Heard
         /\ \A s : Lines(s)' = Lines(s) /\ EpisodeOf(s)' = EpisodeOf(s) /\ Plan(s)' = Plan(s)
         /\ \A s, n : SegmentRow(s, n)' = SegmentRow(s, n) /\ ArticleOf(s, n)' = ArticleOf(s, n)
         /\ \A s, a : AboutIn(s, a)' = AboutIn(s, a)
         /\ \A s, e : OnlyScript(s, e)' = OnlyScript(s, e)
         /\ \A r : Planned(r)' = Planned(r)
         /\ \A e, n, h : Speaks(e, n, h)' = Speaks(e, n, h) /\ TellsOf(e, n, h)' = TellsOf(e, n, h)
<1>1. Scripts' = Scripts /\ Heard' = Heard BY DEF Scripts, Heard
<1>2. \A s : Lines(s)' = Lines(s) /\ EpisodeOf(s)' = EpisodeOf(s) BY DEF Lines, EpisodeOf
<1>3. \A s, n : SegmentRow(s, n)' = SegmentRow(s, n) /\ ArticleOf(s, n)' = ArticleOf(s, n)
  BY DEF SegmentRow, EpisodeOf, ArticleOf
<1>4. \A s : Plan(s)' = Plan(s) BY <1>2, <1>3 DEF Plan
<1>5. \A s, a : AboutIn(s, a)' = AboutIn(s, a) BY <1>2, <1>3 DEF AboutIn
<1>6. \A s, e : OnlyScript(s, e)' = OnlyScript(s, e) BY <1>1, <1>2 DEF OnlyScript, OneVersion
<1>7. \A r : Planned(r)' = Planned(r) BY <1>1, <1>4, <1>6 DEF Planned
<1>8. \A e, n, h : Speaks(e, n, h)' = Speaks(e, n, h) BY <1>1, <1>2 DEF Speaks
<1>9. \A e, n, h : TellsOf(e, n, h)' = TellsOf(e, n, h) BY <1>1, <1>3, <1>4, <1>6 DEF TellsOf
<1>10. QED BY <1>1, <1>2, <1>3, <1>4, <1>5, <1>6, <1>7, <1>8, <1>9

\* Rows stay, and so do files, with perhaps another content.
MoreRows == /\ DOMAIN rows \subseteq DOMAIN rows'
            /\ \A i \in DOMAIN rows : rows'[i] = rows[i]
MoreFiles == /\ \A f \in Files : disk[f] # <<>> => disk'[f] # <<>>
             /\ \A f \in Files : bucket[f] # <<>> => bucket'[f] # <<>>
Grows == site' = site /\ MoreRows /\ MoreFiles

LEMMA RowsGrow ==
  ASSUME site \in Sites, RowsStand, Grows
  PROVE  /\ \A r : InTable(r) => InTable(r)'
         /\ \A r : Real(r) => Real(r)'
         /\ \A e : HasFinal(e) => HasFinal(e)'
         /\ \A kind, e : RowsOf(kind, e) \subseteq RowsOf(kind, e)'
<1>1. \A i \in DOMAIN rows : i \in DOMAIN rows' /\ rows'[i] = rows[i] BY DEF Grows, MoreRows
<1>2. \A r : InTable(r) => InTable(r)' BY <1>1 DEF InTable
<1>3. \A e : HasFinal(e) => HasFinal(e)' BY <1>1 DEF HasFinal
<1>4. \A kind, e : RowsOf(kind, e) \subseteq RowsOf(kind, e)' BY <1>1 DEF RowsOf
<1>5. ASSUME NEW r, Real(r) PROVE Real(r)'
  <2>1. File(r) \in Files
    <3>1. \A s \in Scripts : EpisodeOf(s) \in Episodes /\ \A n \in DOMAIN Lines(s) : n \in 1..MaxLines
      BY SiteHas
    <3>2. r.episode \in Episodes BY <1>5 DEF Real, AudioAsset
    <3>3. QED BY <1>5, <3>1, <3>2, FilesAre DEF Real
  <2>2. disk'[File(r)] # <<>> BY <1>5, <2>1 DEF Grows, MoreFiles, Real
  <2>3. site' = site BY DEF Grows
  <2>4. Scripts' = Scripts /\ (\A s : Lines(s)' = Lines(s)) /\ \A s, n : SegmentRow(s, n)' = SegmentRow(s, n)
    BY <2>3, SameSite
  <2>5. QED BY <1>5, <2>2, <2>4 DEF Real
<1>6. QED BY <1>2, <1>3, <1>4, <1>5

LEMMA JobsGrow ==
  ASSUME site \in Sites, RowsStand, Grows, NEW c \in Call
  PROVE  /\ Speech(c) => Speech(c)'
         /\ Mix(c) => Mix(c)'
<1>1. site' = site BY DEF Grows
<1>2. /\ Scripts' = Scripts
      /\ \A s : Lines(s)' = Lines(s) /\ EpisodeOf(s)' = EpisodeOf(s)
      /\ \A s, n : SegmentRow(s, n)' = SegmentRow(s, n)
      /\ \A r : Planned(r)' = Planned(r)
  BY <1>1, SameSite
<1>3. /\ \A r : InTable(r) => InTable(r)'
      /\ \A r : Real(r) => Real(r)'
  BY RowsGrow
<1>4. ASSUME Speech(c) PROVE Speech(c)'
  <2>1. c.pc = "save" => disk'[LineFile(c.episode, c.next)] # <<>>
    <3>1. SUFFICES ASSUME c.pc = "save" PROVE disk'[LineFile(c.episode, c.next)] # <<>>
      OBVIOUS
    <3>2. /\ c.script \in Scripts /\ c.episode = EpisodeOf(c.script) /\ c.next \in DOMAIN Lines(c.script)
          /\ disk[LineFile(c.episode, c.next)] # <<>>
      BY <1>4, <3>1 DEF Speech, Scripted
    <3>3. LineFile(c.episode, c.next) \in Files BY <3>2, SiteHas, FilesAre
    <3>4. QED BY <3>2, <3>3 DEF Grows, MoreFiles
  <2>2. QED BY <1>2, <1>3, <1>4, <2>1 DEF Speech
<1>5. ASSUME NEW t, NEW e, Listing(t, e) PROVE Listing(t, e)' BY <1>2, <1>3, <1>5 DEF Listing
<1>6. ASSUME Mix(c) PROVE Mix(c)' BY <1>2, <1>3, <1>5, <1>6 DEF Mix
<1>7. QED BY <1>4, <1>6

\* What the shelf shows of rows and files.
LEMMA ShelfRows ==
  ASSUME Types, RowsStand, Grows
  PROVE  /\ \A e \in Episodes : bucket[File(FinalRow(e))] # <<>> => bucket'[File(FinalRow(e))] # <<>>
         /\ \A e : \A i \in RowsOf("chapter", e) :
              /\ i \in RowsOf("chapter", e)' /\ rows'[i] = rows[i]
              /\ bucket[File(rows[i])] # <<>> => bucket'[File(rows'[i])] # <<>>
<1>1. /\ \A e : HasFinal(e) => HasFinal(e)'
      /\ \A kind, e : RowsOf(kind, e) \subseteq RowsOf(kind, e)'
      /\ \A r : Real(r) => Real(r)'
  BY RowsGrow DEF Types
<1>2. \A e \in Episodes : bucket[FinalFile(e)] # <<>> => bucket'[FinalFile(e)] # <<>>
  BY FilesAre DEF Grows, MoreFiles, Types
<1>3. \A e \in Episodes : File(FinalRow(e)) = FinalFile(e) BY FilesAre DEF Types
<1>4. ASSUME NEW e, NEW i \in RowsOf("chapter", e)
      PROVE  rows'[i] = rows[i] /\ (bucket[File(rows[i])] # <<>> => bucket'[File(rows'[i])] # <<>>)
  <2>1. i \in DOMAIN rows /\ rows[i].kind = "chapter" BY DEF RowsOf
  <2>2. rows[i] \in AudioAsset /\ rows[i].episode \in Episodes
    <3>1. Real(rows[i]) BY <2>1 DEF RowsStand, Stands
    <3>2. QED BY <3>1 DEF Real, AudioAsset
  <2>3. \E n \in 1..MostChapters : \E a : rows[i] = ChapterRow(rows[i].episode, n, a)
    BY <2>1 DEF RowsStand, Stands, Real, SegmentRow, FinalRow
  <2>4. File(rows[i]) \in Files BY <2>2, <2>3, FilesAre DEF Types
  <2>5. QED BY <2>1, <2>4 DEF Grows, MoreFiles, MoreRows
<1>5. QED BY <1>1, <1>2, <1>3, <1>4

LEMMA BatchGrows ==
  ASSUME Types, RowsStand, Grows, NEW b \in Batch, BatchFits(b)
  PROVE  BatchFits(b)'
<1>1. /\ \A e \in Episodes : bucket[File(FinalRow(e))] # <<>> => bucket'[File(FinalRow(e))] # <<>>
      /\ \A e : \A i \in RowsOf("chapter", e) :
           /\ i \in RowsOf("chapter", e)' /\ rows'[i] = rows[i]
           /\ bucket[File(rows[i])] # <<>> => bucket'[File(rows'[i])] # <<>>
      /\ \A e : HasFinal(e) => HasFinal(e)'
  BY ShelfRows, RowsGrow DEF Types
<1>2. b.episode \in Episodes /\ b.assets \in Seq(Nat) /\ b.next \in Nat /\ b.pc \in BatchPc
  BY DEF Batch
<1>3. ASSUME b.pc \in {"chapter", "insert"}
      PROVE  /\ \A i \in DOMAIN b.assets : b.assets[i] \in RowsOf("chapter", b.episode)'
             /\ \A n : n \in 0..Len(b.assets) /\ Uploaded(b.assets, n) => Uploaded(b.assets, n)'
  <2>1. \A i \in DOMAIN b.assets : b.assets[i] \in RowsOf("chapter", b.episode)
    BY <1>3 DEF BatchFits
  <2>2. DOMAIN b.assets = 1..Len(b.assets) /\ Len(b.assets) \in Nat BY <1>2
  <2>3. \A n : n \in 0..Len(b.assets) /\ Uploaded(b.assets, n) => Uploaded(b.assets, n)'
    BY <1>1, <2>1, <2>2 DEF Uploaded
  <2>4. QED BY <1>1, <2>1, <2>3
<1>4. Len(b.assets) \in 0..Len(b.assets) /\ (b.next \in DOMAIN b.assets => b.next - 1 \in 0..Len(b.assets))
  BY <1>2
<1>5. b.pc = "upsert" => bucket'[File(FinalRow(b.episode))] # <<>> BY <1>1, <1>2 DEF BatchFits
<1>6. QED BY <1>1, <1>3, <1>4, <1>5 DEF BatchFits

LEMMA ShelfGrows ==
  ASSUME Types, RowsStand, ShelfStands, Grows, UNCHANGED <<listed, chapters, batch>>
  PROVE  ShelfStands'
<1>1. /\ \A e \in Episodes : bucket[File(FinalRow(e))] # <<>> => bucket'[File(FinalRow(e))] # <<>>
      /\ \A e : \A i \in RowsOf("chapter", e) :
           /\ i \in RowsOf("chapter", e)' /\ rows'[i] = rows[i]
           /\ bucket[File(rows[i])] # <<>> => bucket'[File(rows'[i])] # <<>>
  BY ShelfRows
<1>5. \A e \in listed : bucket'[File(FinalRow(e))] # <<>>
  <2>1. \A e \in listed : e \in Episodes BY DEF Types
  <2>2. QED BY <1>1, <2>1 DEF ShelfStands
<1>6. ASSUME NEW e \in Episodes, NEW c \in chapters[e]
      PROVE  c.asset \in RowsOf("chapter", e)' /\ ObjectPath(c)' = ObjectPath(c) /\ bucket'[ObjectPath(c)'] # <<>>
  <2>1. c.asset \in RowsOf("chapter", e) /\ bucket[File(rows[c.asset])] # <<>>
    BY DEF ShelfStands, ObjectPath
  <2>2. rows'[c.asset] = rows[c.asset] /\ bucket'[File(rows'[c.asset])] # <<>> BY <1>1, <2>1
  <2>3. QED BY <1>1, <2>1, <2>2 DEF ObjectPath
<1>8. \A p \in Publishers : batch[p] \in Batch /\ BatchFits(batch[p]) BY DEF Types, ShelfStands
<1>9. \A e \in listed' : bucket'[File(FinalRow(e))] # <<>> BY <1>5
<1>10. \A e \in Episodes : \A c \in chapters'[e] :
         c.asset \in RowsOf("chapter", e)' /\ bucket'[ObjectPath(c)'] # <<>>
  BY <1>6
<1>11. \A p \in Publishers : BatchFits(batch[p])'
  <2> TAKE p \in Publishers
  <2>1. PICK b : b = batch[p]
    OBVIOUS
  <2>2. BatchFits(b)' BY <1>8, <2>1, BatchGrows
  <2>3. batch'[p] = b BY <2>1
  <2>4. QED BY <2>2, <2>3 DEF BatchFits
<1>12. QED BY <1>9, <1>10, <1>11 DEF ShelfStands

-----------------------------------------------------------------------------
(* One job after the other.                                                *)

\* Nothing has happened to the takes of an episode, or to its files.
Aside(e) ==
  /\ RowsOf("segment", e)' = RowsOf("segment", e)
  /\ \A i \in RowsOf("segment", e) : rows'[i] = rows[i]
  /\ \A n \in 1..MaxLines : disk'[LineFile(e, n)] = disk[LineFile(e, n)]
  /\ \A n \in 1..MostChapters : disk'[ChapterFile(e, n)] = disk[ChapterFile(e, n)]
  /\ disk'[FinalFile(e)] = disk[FinalFile(e)]
LEMMA AsideKeeps ==
  ASSUME site \in Sites, RowsStand, site' = site, NEW c \in Call, Speech(c), Mix(c), Own(c), Aside(c.episode)
  PROVE  Own(c)'
<1> DEFINE e == c.episode
           s == c.script
<1>1. /\ \A x : Lines(x)' = Lines(x)
      /\ \A x, a : AboutIn(x, a)' = AboutIn(x, a)
  BY SameSite
<1>2. e \in Episodes /\ File(FinalRow(e)) = FinalFile(e) BY FilesAre DEF Call
<1>3. /\ c.pc \in {"speak", "save"} \/ Delivers(c) =>
           s \in Scripts /\ \A n \in DOMAIN Lines(s) : disk'[LineFile(e, n)] = disk[LineFile(e, n)]
      /\ c.pc = "speak" => c.next \in 1..(Len(Lines(s)) + 1)
      /\ c.pc = "save" => c.next \in DOMAIN Lines(s)
  BY SiteHas DEF Speech, Scripted, Aside
<1>4. \A x \in Scripts : DOMAIN Lines(x) = 1..Len(Lines(x)) /\ Len(Lines(x)) \in Nat BY SiteHas
<1>5. ASSUME c.pc \in {"speak", "save"}
      PROVE  \A m \in 1..(c.next - 1) : disk'[LineFile(e, m)] = disk[LineFile(e, m)]
  <2>1. \A m \in 1..(c.next - 1) : m \in DOMAIN Lines(s) BY <1>3, <1>4, <1>5
  <2>2. QED BY <1>3, <1>5, <2>1
<1>6. Full(c.takes, e) => Full(c.takes, e)' BY DEF Full, Aside
<1>7. OnceEach(c)' <=> OnceEach(c) BY <1>1 DEF OnceEach, Aside
<1>8. ASSUME c.pc \in {"chapter", "commit"}
      PROVE  \A n \in 1..(c.next - 1) : disk'[ChapterFile(e, n)] = disk[ChapterFile(e, n)]
  <2>1. c.takes \in Seq(AudioAsset) /\ c.next \in Nat BY DEF Call
  <2>2. Len(Chapters(c.takes)) \in 0..MostChapters /\ Chapters(c.takes) \in Seq(Articles)
    BY <2>1, ChaptersHave
  <2>3. MostChapters \in Nat BY AudioAssumption, FS_CardinalityType DEF MostChapters
  <2>4. c.next - 1 <= Len(Chapters(c.takes)) BY <1>8, <2>1, <2>2 DEF Mix
  <2>5. \A n \in 1..(c.next - 1) : n \in 1..MostChapters BY <2>1, <2>2, <2>3, <2>4
  <2>6. QED BY <2>5 DEF Aside
<1>9. disk'[File(FinalRow(e))] = disk[File(FinalRow(e))] BY <1>2 DEF Aside
<1>10. c.pc = "save" => disk'[LineFile(e, c.next)] = disk[LineFile(e, c.next)] BY <1>3
<1>11. ASSUME c.pc \in {"speak", "save"}
       PROVE  \A m \in 1..(c.next - 1) : disk'[LineFile(e, m)] = <<<<s, m>>>>
  BY <1>5, <1>11 DEF Own
<1>12. c.pc = "save" => disk'[LineFile(e, c.next)] = <<<<s, c.next>>>> BY <1>10 DEF Own
<1>13. Delivers(c) => \A m \in DOMAIN Lines(s) : disk'[LineFile(e, m)] = <<<<s, m>>>>
  BY <1>3 DEF Own
<1>14. Delivers(c) /\ c.pc \in MixPc => Full(c.takes, e)' BY <1>6 DEF Own
<1>15. ASSUME Delivers(c), c.pc \in MadePc
       PROVE  LET final == disk'[File(FinalRow(e))]
              IN HeardIn(Lines(s), final) /\ (OnceEach(c)' => final = Lines(s))
  BY <1>7, <1>9, <1>15 DEF Own
<1>16. ASSUME Delivers(c), c.pc \in {"chapter", "commit"}, OnceEach(c)'
       PROVE  \A n \in 1..(c.next - 1) : disk'[ChapterFile(e, n)] = AboutIn(s, Chapters(c.takes)[n])
  BY <1>7, <1>8, <1>16 DEF Own
<1>17. QED BY <1>1, <1>11, <1>12, <1>13, <1>14, <1>15, <1>16 DEF Own

IsAtWork(c) == c.pc \notin {"idle", "again"}

LEMMA GoodOf ==
  ASSUME NEW w, NEW d, call'[w] = d, Good(d)'
  PROVE  Good(call[w])'
<1>1. Speech(d)' /\ Mix(d)' /\ (d.alone => Own(d)') BY DEF Good
<1>2. Speech(call[w])' BY <1>1 DEF Speech
<1>3. Mix(call[w])' BY <1>1 DEF Mix
<1>4. d.alone => Own(call[w])' BY <1>1 DEF Own
<1>5. QED BY <1>2, <1>3, <1>4 DEF Good

LEMMA GoodSame ==
  ASSUME UNCHANGED <<site, rows, disk>>, NEW c, Good(c)
  PROVE  Good(c)'
<1>1. /\ Scripts' = Scripts
      /\ \A s : Lines(s)' = Lines(s) /\ EpisodeOf(s)' = EpisodeOf(s)
      /\ \A s, n : SegmentRow(s, n)' = SegmentRow(s, n)
      /\ \A r : Planned(r)' = Planned(r)
      /\ \A s, a : AboutIn(s, a)' = AboutIn(s, a)
  BY SameSite
<1>2. /\ \A r : InTable(r)' = InTable(r)
      /\ \A kind, e : RowsOf(kind, e)' = RowsOf(kind, e)
  BY DEF InTable, RowsOf
<1>3. \A r : Real(r)' = Real(r) BY <1>1 DEF Real
<1>4. \A t, e : Listing(t, e)' = Listing(t, e) /\ Full(t, e)' = Full(t, e)
  BY <1>1, <1>2 DEF Listing, Full
<1>5. Speech(c)' BY <1>1, <1>2 DEF Good, Speech
<1>6. Mix(c)' BY <1>1, <1>3, <1>4 DEF Good, Mix
<1>7. OnceEach(c)' = OnceEach(c) BY <1>1, <1>2 DEF OnceEach
<1>8. c.alone => Own(c)' BY <1>1, <1>4, <1>7 DEF Good, Own
<1>9. QED BY <1>5, <1>6, <1>8 DEF Good

\* A job goes on: it may disturb those on its episode, that do not count as
\* undisturbed anyway.
LEMMA JobGoesOn ==
  ASSUME site \in Sites, call \in [Workers -> Call], RowsStand, JobsStand, Grows,
         NEW w \in Workers, NEW d \in Call, call' = [call EXCEPT ![w] = d], Good(d)',
         IsAtWork(d) => /\ AtWork(w) /\ d.episode = call[w].episode
                        /\ (d.alone => call[w].alone),
         \A e \in Episodes : (AtWork(w) => e # call[w].episode) => Aside(e)
  PROVE  JobsStand'
<1>1. call'[w] = d /\ \A x \in Workers \ {w} : call'[x] = call[x]
  OBVIOUS
<1>2. ASSUME NEW x \in Workers PROVE Good(call[x])'
  <2>1. CASE x = w BY <1>1, <2>1, GoodOf
  <2>2. CASE x # w
    <3>1. PICK c \in Call : c = call[x]
      OBVIOUS
    <3>2. Speech(c) /\ Mix(c) /\ (c.alone => Own(c)) BY <3>1 DEF JobsStand, Good
    <3>3. Speech(c)' /\ Mix(c)' BY <3>2, JobsGrow
    <3>4. ASSUME c.alone PROVE Own(c)'
      <4>1. CASE AtWork(x)
        <5>1. AtWork(w) => c.episode # call[w].episode
          BY <2>2, <3>1, <3>4, <4>1 DEF JobsStand, Exclusive
        <5>2. c.episode \in Episodes BY DEF Call
        <5>3. Aside(c.episode) BY <5>1, <5>2
        <5>4. site' = site BY DEF Grows
        <5>5. QED BY <3>2, <3>4, <5>3, <5>4, AsideKeeps
      <4>2. CASE ~ AtWork(x) BY <3>1, <4>2 DEF AtWork, Own, Delivers, MixPc
      <4>3. QED BY <4>1, <4>2
    <3>5. Good(c)' BY <3>3, <3>4 DEF Good
    <3>6. call'[x] = c BY <1>1, <2>2, <3>1
    <3>7. QED BY <3>5, <3>6, GoodOf
  <2>3. QED BY <2>1, <2>2
<1>3. Exclusive'
  <2>1. SUFFICES ASSUME NEW x \in Workers, NEW y \in Workers, x # y, AtWork(x)', AtWork(y)',
                        call'[x].episode = call'[y].episode
                 PROVE  ~ call'[x].alone
    BY DEF Exclusive
  <2>2. \A z \in Workers : z # w => (AtWork(z)' <=> AtWork(z)) BY <1>1 DEF AtWork
  <2>3. AtWork(w)' => IsAtWork(d) BY <1>1 DEF AtWork, IsAtWork
  <2>4. CASE x = w BY <1>1, <2>1, <2>2, <2>3, <2>4 DEF JobsStand, Exclusive
  <2>5. CASE y = w BY <1>1, <2>1, <2>2, <2>3, <2>5 DEF JobsStand, Exclusive
  <2>6. CASE x # w /\ y # w BY <1>1, <2>1, <2>2, <2>6 DEF JobsStand, Exclusive
  <2>7. QED BY <2>4, <2>5, <2>6
<1>4. QED BY <1>2, <1>3 DEF JobsStand

\* A job begins: it and the others on its episode are not alone.
Beside(c, b) == [c EXCEPT !.alone = b]
LEMMA BesideIs ==
  \A c \in Call, b \in BOOLEAN :
    /\ Beside(c, b) \in Call /\ Beside(c, b).alone = b
    /\ Beside(c, b).pc = c.pc /\ Beside(c, b).episode = c.episode
    /\ Beside(c, b).op = c.op /\ Beside(c, b).script = c.script
    /\ Beside(c, b).next = c.next /\ Beside(c, b).takes = c.takes
    /\ Beside(c, b).made = c.made
BY DEF Beside, Call
LEMMA JobBegins ==
  ASSUME site \in Sites, call \in [Workers -> Call], JobsStand, UNCHANGED <<site, rows, disk>>,
         NEW w \in Workers, ~ AtWork(w), NEW d \in Call, IsAtWork(d), Enter(w, d),
         \A b \in BOOLEAN : Good(Beside(d, b))
  PROVE  JobsStand' /\ call' \in [Workers -> Call]
<1> DEFINE met == {x \in Workers \ {w} : AtWork(x) /\ call[x].episode = d.episode}
<1>1. /\ DOMAIN call' = Workers /\ call'[w] = Beside(d, met = {})
      /\ \A x \in Workers \ {w} : call'[x] = IF x \in met THEN Beside(call[x], FALSE) ELSE call[x]
  BY DEF Enter, Beside
<1>2. (met = {}) \in BOOLEAN
  OBVIOUS
<1>3. \A c \in Call, b \in BOOLEAN :
         /\ Beside(c, b) \in Call /\ Beside(c, b).alone = b
         /\ Beside(c, b).pc = c.pc /\ Beside(c, b).episode = c.episode
         /\ Beside(c, b).op = c.op /\ Beside(c, b).script = c.script
         /\ Beside(c, b).next = c.next /\ Beside(c, b).takes = c.takes
         /\ Beside(c, b).made = c.made
  BY BesideIs
<1>4. \A x \in Workers : x \in met <=> x # w /\ AtWork(x) /\ call[x].episode = d.episode
  OBVIOUS
<1> HIDE DEF met
<1>5. \A x \in Workers : call'[x] \in Call
  <2> TAKE x \in Workers
  <2>1. CASE x = w BY <1>1, <1>2, <1>3, <2>1
  <2>2. CASE x # w BY <1>1, <1>3, <2>2
  <2>3. QED BY <2>1, <2>2
<1>6. call' \in [Workers -> Call] BY <1>1, <1>5 DEF Enter
<1>7. ASSUME NEW x \in Workers PROVE Good(call'[x])
  <2>1. CASE x = w BY <1>1, <1>2, <2>1
  <2>2. CASE x # w /\ x \in met
    <3>1. PICK c \in Call : c = call[x]
      OBVIOUS
    <3>2. PICK b \in Call : b = Beside(c, FALSE) BY <1>3
    <3>3. Speech(c) /\ Mix(c) BY <3>1 DEF JobsStand, Good
    <3>4. /\ b.pc = c.pc /\ b.op = c.op /\ b.script = c.script /\ b.episode = c.episode /\ b.next = c.next
          /\ b.takes = c.takes /\ b.made = c.made /\ ~ b.alone
      BY <1>3, <3>2
    <3>5. Speech(b) BY <3>3, <3>4 DEF Speech, Scripted, Delivers
    <3>6. Mix(b) BY <3>3, <3>4 DEF Mix
    <3>7. call'[x] = b BY <1>1, <2>2, <3>1, <3>2
    <3>8. QED BY <3>4, <3>5, <3>6, <3>7 DEF Good
  <2>3. CASE x # w /\ x \notin met BY <1>1, <2>3 DEF JobsStand
  <2>4. QED BY <2>1, <2>2, <2>3
<1>8. \A x \in Workers : Good(call[x])'
  <2> TAKE x \in Workers
  <2>1. PICK c : c = call'[x]
    OBVIOUS
  <2>2. Good(c) BY <1>7, <2>1
  <2>3. Good(c)' BY <2>2, GoodSame
  <2>4. QED BY <2>1, <2>3, GoodOf
<1>9. Exclusive'
  <2>1. SUFFICES ASSUME NEW x \in Workers, NEW y \in Workers, x # y, AtWork(x)', AtWork(y)',
                        call'[x].episode = call'[y].episode
                 PROVE  ~ call'[x].alone
    BY DEF Exclusive
  <2>2. \A z \in Workers : /\ call'[z].pc = IF z = w THEN d.pc ELSE call[z].pc
                           /\ call'[z].episode = IF z = w THEN d.episode ELSE call[z].episode
    <3> TAKE z \in Workers
    <3>1. CASE z = w BY <1>1, <1>2, <1>3, <3>1
    <3>2. CASE z # w
      <4>1. PICK c \in Call : c = call[z]
        OBVIOUS
      <4>2. call'[z] = c \/ call'[z] = Beside(c, FALSE) BY <1>1, <3>2, <4>1
      <4>3. call'[z].pc = c.pc /\ call'[z].episode = c.episode BY <1>3, <4>2
      <4>4. QED BY <3>2, <4>1, <4>3
    <3>3. QED BY <3>1, <3>2
  <2>3. \A z \in Workers : z # w => (AtWork(z)' <=> AtWork(z)) BY <2>2 DEF AtWork
  <2>4. \A z \in met : z \in Workers /\ z # w /\ ~ call'[z].alone
    <3>1. \A z \in met : z \in Workers /\ z # w BY DEF met
    <3>2. QED BY <1>1, <1>3, <3>1
  <2>5. CASE x = w
    <3>1. y \in met BY <1>4, <2>1, <2>2, <2>3, <2>5
    <3>2. (met = {}) = FALSE BY <3>1
    <3>3. QED BY <1>1, <1>2, <1>3, <2>5, <3>2
  <2>6. CASE y = w
    <3>1. x \in met BY <1>4, <2>1, <2>2, <2>3, <2>6
    <3>2. QED BY <2>4, <3>1
  <2>7. CASE x # w /\ y # w
    <3>1. CASE x \in met BY <2>4, <3>1
    <3>2. CASE x \notin met
      <4>1. call'[x] = call[x] /\ AtWork(x) /\ AtWork(y) /\ call[x].episode = call[y].episode
        BY <1>1, <2>1, <2>2, <2>3, <2>7, <3>2
      <4>2. QED BY <2>1, <4>1 DEF JobsStand, Exclusive
    <3>3. QED BY <3>1, <3>2
  <2>8. QED BY <2>5, <2>6, <2>7
<1>10. QED BY <1>6, <1>8, <1>9 DEF JobsStand

-----------------------------------------------------------------------------
(* Steps of jobs.                                                          *)

LEMMA Parts ==
  ASSUME Inv
  PROVE  /\ site \in Sites /\ rows \in Seq(AudioAsset) /\ disk \in [Files -> Seq(Heard)]
         /\ bucket \in [Files -> Seq(Heard)] /\ call \in [Workers -> Call]
         /\ RowsStand /\ FilesTell /\ FilesSpeak /\ JobsStand /\ ShelfStands /\ Types
BY DEF Inv, Types, FilesTell, FilesSpeak, Heard

LEMMA JobIs ==
  ASSUME Inv, NEW w \in Workers
  PROVE  call[w] \in Call /\ Good(call[w])
BY Parts DEF JobsStand

LEMMA NoCallIs == NoCall \in Call /\ ~ IsAtWork(NoCall) /\ Good(NoCall) /\ Good(NoCall)'
<1>1. 1 \in Episodes BY AudioAssumption DEF Episodes
<1>2. NoCall \in Call /\ NoCall.pc = "idle" /\ NoCall.made = <<>>
  BY <1>1 DEF NoCall, Call, CallPc, Op
<1>3. ASSUME NEW c, c.pc \in {"idle", "again"}, c.made = <<>> PROVE Good(c) /\ Good(c)'
  BY <1>3 DEF Good, Speech, Mix, Own, Scripted, Delivers, MixPc, MadePc
<1>4. QED BY <1>2, <1>3 DEF IsAtWork

\* What else is new after a step of a job.
Fresh ==
  /\ ready' \subseteq Scripts /\ status' \in [Episodes -> EpisodeStatus]
  /\ rows' \in Seq(AudioAsset) /\ disk' \in [Files -> Seq(Heard)]
  /\ faults' \in Nat /\ requests' \in Nat
LEMMA FreshTypes ==
  ASSUME Inv, UNCHANGED site, UNCHANGED shelfVars, Fresh, call' \in [Workers -> Call]
  PROVE  Types'
BY Parts, SameSite DEF Types, Fresh, shelfVars, Heard

Continues(w, d) ==
  IsAtWork(d) => /\ AtWork(w) /\ d.episode = call[w].episode
                 /\ (d.alone => call[w].alone)
LEMMA WorkerStep ==
  ASSUME Inv, NEW w \in Workers, NEW d \in Call, call' = [call EXCEPT ![w] = d], Good(d)',
         Continues(w, d), Grows, Fresh, UNCHANGED shelfVars, RowsStand', FilesTell',
         \A e \in Episodes : (AtWork(w) => e # call[w].episode) => Aside(e)
  PROVE  Inv'
<1>1. JobsStand' BY Parts, JobGoesOn DEF Continues
<1>2. call' \in [Workers -> Call] /\ site' = site BY Parts DEF Grows
<1>3. Types' BY <1>2, FreshTypes
<1>4. ShelfStands' BY Parts, ShelfGrows DEF shelfVars
<1>5. QED BY <1>1, <1>3, <1>4 DEF Inv

\* Steps that leave the rows and the files alone.
Still == UNCHANGED <<site, rows, disk, shelfVars>>
LEMMA StillStands ==
  ASSUME Inv, Still
  PROVE  /\ Grows /\ \A e \in Episodes : Aside(e)
         /\ RowsStand' /\ FilesTell' /\ ShelfStands'
<1>1. Grows BY DEF Still, Grows, MoreRows, MoreFiles, shelfVars
<1>2. \A kind, e : RowsOf(kind, e)' = RowsOf(kind, e) BY DEF Still, RowsOf
<1>3. \A e \in Episodes : Aside(e) BY <1>2 DEF Still, Aside
<1>4. /\ \A r : Real(r) => Real(r)'
      /\ \A r : InTable(r) => InTable(r)'
  BY <1>1, Parts, RowsGrow
<1>5. /\ \A r : Planned(r)' = Planned(r)
      /\ \A s, n : SegmentRow(s, n)' = SegmentRow(s, n)
      /\ \A e, n, h : Speaks(e, n, h)' = Speaks(e, n, h) /\ TellsOf(e, n, h)' = TellsOf(e, n, h)
  BY SameSite DEF Still
<1>6. RowsStand' BY <1>4, <1>5, Parts DEF RowsStand, Stands, Still
<1>7. FilesTell' BY <1>5, Parts DEF FilesTell, Still, shelfVars
<1>8. ShelfStands' BY <1>1, Parts, ShelfGrows DEF Still, shelfVars
<1>9. QED BY <1>1, <1>3, <1>6, <1>7, <1>8

LEMMA StillStep ==
  ASSUME Inv, Still, NEW w \in Workers, NEW d \in Call, call' = [call EXCEPT ![w] = d], Good(d),
         Continues(w, d), ready' \subseteq Scripts, status' \in [Episodes -> EpisodeStatus],
         faults' \in Nat, requests' \in Nat
  PROVE  Inv'
<1>1. Fresh BY Parts DEF Fresh, Still
<1>2. Good(d)' BY GoodSame DEF Still
<1>3. QED BY <1>1, <1>2, StillStands, WorkerStep DEF Still

LEMMA LeaveStep ==
  ASSUME Inv, Still, NEW w \in Workers, Leave(w), ready' \subseteq Scripts,
         status' \in [Episodes -> EpisodeStatus], faults' \in Nat, requests' \in Nat
  PROVE  Inv'
<1>1. call' = [call EXCEPT ![w] = NoCall] BY DEF Leave, Goto
<1>2. Continues(w, NoCall) BY NoCallIs DEF Continues
<1>3. QED BY <1>1, <1>2, NoCallIs, StillStep

LEMMA EnterStep ==
  ASSUME Inv, Still, NEW w \in Workers, ~ AtWork(w), NEW d \in Call, IsAtWork(d), Enter(w, d),
         \A b \in BOOLEAN : Good(Beside(d, b)),
         ready' \subseteq Scripts, status' \in [Episodes -> EpisodeStatus],
         faults' \in Nat, requests' \in Nat
  PROVE  Inv'
<1>1. Fresh BY Parts DEF Fresh, Still
<1>2. JobsStand' /\ call' \in [Workers -> Call] BY Parts, JobBegins DEF Still
<1>3. Types' BY <1>1, <1>2, FreshTypes DEF Still
<1>4. QED BY <1>2, <1>3, StillStands DEF Inv

Same == /\ ready \subseteq Scripts /\ status \in [Episodes -> EpisodeStatus]
        /\ faults \in Nat /\ requests \in Nat
LEMMA SameIs == ASSUME Inv PROVE Same
BY Parts DEF Types, Same

LEMMA BeginStep ==
  ASSUME Inv, NEW w \in Workers, ~ AtWork(w), NEW op \in Op, NEW s \in Scripts, Begin(w, op, s),
         requests' \in Nat, UNCHANGED shelfVars
  PROVE  Inv'
<1> DEFINE d == [NoCall EXCEPT !.pc = "health", !.op = op, !.script = s, !.episode = EpisodeOf(s)]
<1>1. EpisodeOf(s) \in Episodes /\ s \in Nat BY Parts, SiteHas
<1>2. /\ d \in Call /\ d.pc = "health" /\ d.op = op /\ d.script = s /\ d.episode = EpisodeOf(s)
      /\ d.made = <<>>
  BY <1>1, NoCallIs DEF NoCall, Call, CallPc
<1>3. Enter(w, d) BY DEF Begin
<1> HIDE DEF d
<1>4. ASSUME NEW b \in BOOLEAN PROVE Good(Beside(d, b))
  <2>1. PICK c : c = Beside(d, b)
    OBVIOUS
  <2>2. /\ c.pc = "health" /\ c.op = op /\ c.script = s /\ c.episode = EpisodeOf(s)
        /\ c.made = <<>>
    BY <1>2, <2>1, BesideIs
  <2>3. Good(c) BY <2>2 DEF Good, Speech, Mix, Own, Delivers, MixPc, MadePc
  <2>4. QED BY <2>1, <2>3
<1>5. Still /\ ready' \subseteq Scripts /\ status' \in [Episodes -> EpisodeStatus] /\ faults' \in Nat
  BY SameIs DEF Begin, Still, Same, EpisodeStatus
<1>6. IsAtWork(d) BY <1>2 DEF IsAtWork
<1>7. QED BY <1>2, <1>3, <1>4, <1>5, <1>6, EnterStep

LEMMA GenerateKeeps ==
  ASSUME Inv, NEW w \in Workers, Generate(w), UNCHANGED shelfVars PROVE Inv'
<1>1. PICK s \in ready : Begin(w, "generate", s) BY DEF Generate
<1>2. ~ AtWork(w) /\ requests' \in Nat /\ s \in Scripts /\ "generate" \in Op
  BY SameIs DEF Generate, AtWork, Same, Op
<1>3. QED BY <1>1, <1>2, BeginStep

\* The newest script is one of them.
LEMMA NewestIs ==
  ASSUME site \in Sites, NEW S \in SUBSET Scripts, S # {}
  PROVE  Newest(S) \in S
<1>1. PICK N \in Nat : Scripts = 1..N
  <2>1. site.scripts \in Seq([episode : Episodes, lines : Seq(Articles \cup {NoArticle})])
    BY AudioAssumption
  <2>2. QED BY <2>1 DEF Scripts
<1> DEFINE M == {N - s : s \in S}
<1>2. M \in SUBSET Nat /\ M # {}
  <2>1. \A s \in S : N - s \in Nat BY <1>1
  <2>2. QED BY <2>1
<1>3. PICK x \in M : \A y \in M : x <= y
  <2> HIDE DEF M
  <2>1. QED BY <1>2, Least
<1>4. PICK s \in S : x = N - s
  OBVIOUS
<1>5. \A t \in S : t <= s
  <2> TAKE t \in S
  <2>1. N - t \in M /\ N - s <= N - t BY <1>3, <1>4
  <2>2. QED BY <1>1, <2>1
<1>6. QED BY <1>5 DEF Newest

LEMMA ScheduledKeeps ==
  ASSUME Inv, NEW w \in Workers, Scheduled(w), UNCHANGED shelfVars PROVE Inv'
<1>1. Awaiting \in SUBSET Scripts BY SameIs DEF Awaiting, Same
<1>2. Newest(Awaiting) \in Scripts BY <1>1, Parts, NewestIs DEF Scheduled
<1>3. ~ AtWork(w) /\ requests' \in Nat /\ "scheduled" \in Op
  BY SameIs DEF Scheduled, AtWork, Same, Op
<1>4. QED BY <1>2, <1>3, BeginStep DEF Scheduled

LEMMA RerunKeeps ==
  ASSUME Inv, NEW w \in Workers, Rerun(w), UNCHANGED shelfVars PROVE Inv'
<1>1. ~ AtWork(w) /\ requests' \in Nat /\ Op = {"generate", "scheduled", "pipeline"}
  BY SameIs DEF Rerun, AtWork, Same, Op
<1>2. ASSUME NEW s \in ready, Begin(w, "generate", s) PROVE Inv'
  <2>1. s \in Scripts BY SameIs DEF Same
  <2>2. QED BY <1>1, <1>2, <2>1, BeginStep
<1>3. ASSUME Awaiting # {}, Begin(w, "scheduled", Newest(Awaiting)) PROVE Inv'
  <2>1. Awaiting \in SUBSET Scripts BY SameIs DEF Awaiting, Same
  <2>2. Newest(Awaiting) \in Scripts BY <1>3, <2>1, Parts, NewestIs
  <2>3. QED BY <1>1, <1>3, <2>2, BeginStep
<1>4. ASSUME Leave(w), UNCHANGED <<site, ready, status, rows, disk, faults>> PROVE Inv'
  <2>1. Still /\ ready' \subseteq Scripts /\ status' \in [Episodes -> EpisodeStatus] /\ faults' \in Nat
    BY <1>4, SameIs DEF Still, Same
  <2>2. QED BY <1>1, <1>4, <2>1, LeaveStep
<1>5. QED BY <1>2, <1>3, <1>4 DEF Rerun

LEMMA RunPipelineKeeps ==
  ASSUME Inv, NEW w \in Workers, RunPipeline(w), UNCHANGED shelfVars PROVE Inv'
<1>1. PICK e \in Episodes : Enter(w, [NoCall EXCEPT !.pc = "load", !.op = "pipeline", !.episode = e])
  BY DEF RunPipeline
<1> DEFINE d == [NoCall EXCEPT !.pc = "load", !.op = "pipeline", !.episode = e]
<1>2. d \in Call /\ d.pc = "load" /\ d.op = "pipeline" /\ d.episode = e /\ d.made = <<>>
  BY NoCallIs DEF NoCall, Call, CallPc, Op
<1>3. Enter(w, d) BY <1>1
<1> HIDE DEF d
<1>4. ASSUME NEW b \in BOOLEAN PROVE Good(Beside(d, b))
  <2>1. PICK c : c = Beside(d, b)
    OBVIOUS
  <2>2. c.pc = "load" /\ c.op = "pipeline" /\ c.episode = e /\ c.made = <<>> BY <1>2, <2>1, BesideIs
  <2>3. Good(c) BY <2>2 DEF Good, Speech, Mix, Own, Scripted, Delivers, MixPc, MadePc
  <2>4. QED BY <2>1, <2>3
<1>5. /\ Still /\ ready' \subseteq Scripts /\ status' \in [Episodes -> EpisodeStatus]
      /\ faults' \in Nat /\ requests' \in Nat
  BY SameIs DEF RunPipeline, Still, Same
<1>6. IsAtWork(d) /\ ~ AtWork(w) BY <1>2 DEF IsAtWork, AtWork, RunPipeline
<1>7. QED BY <1>2, <1>3, <1>4, <1>5, <1>6, EnterStep

LEMMA ScriptReadyKeeps ==
  ASSUME Inv, NEW s \in Scripts, ScriptReady(s), UNCHANGED shelfVars PROVE Inv'
<1>1. Still /\ UNCHANGED <<call, faults, requests>> BY DEF ScriptReady, Still
<1>2. ready' \subseteq Scripts /\ status' \in [Episodes -> EpisodeStatus]
  BY SameIs DEF ScriptReady, Same, EpisodeStatus
<1>3. Fresh BY <1>1, <1>2, SameIs, Parts DEF Fresh, Still, Same
<1>4. Types' BY <1>1, <1>3, Parts, FreshTypes DEF Still
<1>5. \A w \in Workers : Good(call[w])'
  <2> TAKE w \in Workers
  <2>1. PICK c : c = call[w]
    OBVIOUS
  <2>2. Good(c)' BY <1>1, <2>1, JobIs, GoodSame DEF Still
  <2>3. QED BY <1>1, <2>1, <2>2, GoodOf
<1>6. Exclusive' BY <1>1, Parts DEF JobsStand, Exclusive, AtWork
<1>7. QED BY <1>1, <1>4, <1>5, <1>6, StillStands DEF Inv, JobsStand

LEMMA HealthyKeeps ==
  ASSUME Inv, NEW w \in Workers, Healthy(w), UNCHANGED shelfVars PROVE Inv'
<1>1. PICK c \in Call : c = call[w] BY JobIs
<1>2. Good(c) BY <1>1, JobIs
<1> DEFINE d == [c EXCEPT !.pc = "speak", !.next = 1]
<1>3. /\ d \in Call /\ d.pc = "speak" /\ d.next = 1 /\ d.script = c.script /\ d.episode = c.episode
      /\ d.made = c.made /\ d.alone = c.alone /\ d.op = c.op
  BY DEF Call, CallPc
<1>4. c.pc = "health" /\ call' = [call EXCEPT ![w] = d] BY <1>1 DEF Healthy, Goto
<1> HIDE DEF d
<1>5. c.script \in Scripts /\ c.episode = EpisodeOf(c.script) /\ c.made = <<>>
  BY <1>2, <1>4 DEF Good, Speech, Mix, Scripted, MadePc
<1>6. Len(Lines(c.script)) \in Nat BY <1>5, Parts, SiteHas
<1>7. Good(d) BY <1>3, <1>5, <1>6 DEF Good, Speech, Mix, Own, Scripted, Delivers, MixPc, MadePc
<1>8. Continues(w, d) BY <1>1, <1>3, <1>4 DEF Continues, AtWork
<1>9. /\ Still /\ ready' \subseteq Scripts /\ status' \in [Episodes -> EpisodeStatus]
      /\ faults' \in Nat /\ requests' \in Nat
  BY SameIs DEF Healthy, Still, Same
<1>10. QED BY <1>3, <1>4, <1>7, <1>8, <1>9, StillStep

LEMMA UnavailableKeeps ==
  ASSUME Inv, NEW w \in Workers, Unavailable(w), UNCHANGED shelfVars PROVE Inv'
<1>1. /\ Still /\ ready' \subseteq Scripts /\ status' \in [Episodes -> EpisodeStatus]
      /\ faults' \in Nat /\ requests' \in Nat
  BY SameIs DEF Unavailable, Still, Same, Fault
<1>2. CASE Leave(w) BY <1>1, <1>2, LeaveStep
<1>3. CASE Goto(w, [call[w] EXCEPT !.pc = "again"])
  <2>1. PICK c \in Call : c = call[w] BY JobIs
  <2> DEFINE d == [c EXCEPT !.pc = "again"]
  <2>2. d \in Call /\ d.pc = "again" /\ d.made = c.made BY DEF Call, CallPc
  <2>3. c.pc = "health" /\ call' = [call EXCEPT ![w] = d] BY <1>3, <2>1 DEF Unavailable, Goto
  <2> HIDE DEF d
  <2>4. c.made = <<>> BY <2>1, <2>3, JobIs DEF Good, Mix, MadePc
  <2>5. Good(d) BY <2>2, <2>4 DEF Good, Speech, Mix, Own, Scripted, Delivers, MixPc, MadePc
  <2>6. Continues(w, d) BY <2>2 DEF Continues, IsAtWork
  <2>7. QED BY <1>1, <2>2, <2>3, <2>5, <2>6, StillStep
<1>4. QED BY <1>2, <1>3 DEF Unavailable

LEMMA SpeakFailsKeeps ==
  ASSUME Inv, NEW w \in Workers, SpeakFails(w), UNCHANGED shelfVars PROVE Inv'
<1>1. /\ Still /\ ready' \subseteq Scripts /\ status' \in [Episodes -> EpisodeStatus]
      /\ faults' \in Nat /\ requests' \in Nat
  BY SameIs DEF SpeakFails, Still, Same, Fault
<1>2. QED BY <1>1, LeaveStep DEF SpeakFails

LEMMA CrashKeeps ==
  ASSUME Inv, NEW w \in Workers, Crash(w), UNCHANGED shelfVars PROVE Inv'
<1>1. /\ Still /\ ready' \subseteq Scripts /\ status' \in [Episodes -> EpisodeStatus]
      /\ faults' \in Nat /\ requests' \in Nat
  BY SameIs DEF Crash, Still, Same, Fault
<1>2. QED BY <1>1, LeaveStep DEF Crash

LEMMA NothingToStitchKeeps ==
  ASSUME Inv, NEW w \in Workers, NothingToStitch(w), UNCHANGED shelfVars PROVE Inv'
<1>1. /\ Still /\ ready' \subseteq Scripts /\ status' \in [Episodes -> EpisodeStatus]
      /\ faults' \in Nat /\ requests' \in Nat
  BY SameIs DEF NothingToStitch, Fail, Still, Same, EpisodeStatus
<1>2. QED BY <1>1, LeaveStep DEF NothingToStitch, Fail

LEMMA EndSpeechKeeps ==
  ASSUME Inv, NEW w \in Workers, EndSpeech(w), UNCHANGED shelfVars PROVE Inv'
<1>1. /\ Still /\ ready' \subseteq Scripts /\ status' \in [Episodes -> EpisodeStatus]
      /\ faults' \in Nat /\ requests' \in Nat
  BY SameIs DEF EndSpeech, Still, Same, EpisodeStatus
<1>2. CASE call[w].op # "scheduled" BY <1>1, <1>2, LeaveStep DEF EndSpeech
<1>3. CASE call[w].op = "scheduled"
  <2>1. PICK c \in Call : c = call[w] BY JobIs
  <2> DEFINE d == [c EXCEPT !.pc = "load"]
  <2>2. /\ d \in Call /\ d.pc = "load" /\ d.made = c.made /\ d.script = c.script /\ d.episode = c.episode
        /\ d.alone = c.alone /\ d.op = c.op
    BY DEF Call, CallPc
  <2>3. c.pc = "speak" /\ call' = [call EXCEPT ![w] = d] /\ ~ (c.next <= Len(Lines(c.script)))
    BY <1>3, <2>1 DEF EndSpeech, Goto, LinesLeft
  <2> HIDE DEF d
  <2>4. Good(c) BY <2>1, JobIs
  <2>5. /\ c.script \in Scripts /\ c.episode = EpisodeOf(c.script) /\ c.made = <<>>
        /\ \A m \in 1..(c.next - 1) : InTable(SegmentRow(c.script, m))
        /\ c.alone => \A m \in 1..(c.next - 1) : disk[LineFile(c.episode, m)] = <<<<c.script, m>>>>
    BY <2>3, <2>4 DEF Good, Speech, Mix, Own, Scripted, MadePc
  <2>6. \A m \in DOMAIN Lines(c.script) : m \in 1..(c.next - 1)
    <3>1. DOMAIN Lines(c.script) = 1..Len(Lines(c.script)) /\ Len(Lines(c.script)) \in Nat /\ c.next \in Nat
      BY <2>5, Parts, SiteHas DEF Call
    <3>2. QED BY <2>3, <3>1
  <2>7. Speech(d) BY <2>2, <2>5, <2>6 DEF Speech, Scripted, Delivers
  <2>8. Mix(d) BY <2>2, <2>5 DEF Mix, MixPc, MadePc
  <2>9. d.alone => Own(d) BY <2>2, <2>5, <2>6 DEF Own, MixPc, MadePc
  <2>10. Good(d) BY <2>7, <2>8, <2>9 DEF Good
  <2>11. Continues(w, d) BY <2>1, <2>2, <2>3 DEF Continues, AtWork
  <2>12. QED BY <1>1, <2>2, <2>3, <2>10, <2>11, StillStep
<1>4. QED BY <1>2, <1>3

\* A step that writes one file of an episode, of a job on it.
WritesFile(f, heard) == disk' = [disk EXCEPT ![f] = heard]
Quiet == UNCHANGED <<site, rows, shelfVars>>
LEMMA WriteStep ==
  ASSUME Inv, Quiet, NEW w \in Workers, NEW d \in Call, call' = [call EXCEPT ![w] = d], Good(d)',
         Continues(w, d), AtWork(w), NEW f \in Files, f[1] = call[w].episode,
         NEW heard \in Seq(Heard), heard # <<>>, WritesFile(f, heard), FilesTell',
         ready' \subseteq Scripts, status' \in [Episodes -> EpisodeStatus],
         faults' \in Nat, requests' \in Nat
  PROVE  Inv'
<1>1. /\ disk' \in [Files -> Seq(Heard)] /\ disk'[f] = heard
      /\ \A x \in Files : x # f => disk'[x] = disk[x]
  BY Parts DEF WritesFile
<1>2. Grows BY <1>1 DEF Quiet, Grows, MoreRows, MoreFiles, shelfVars
<1>3. Fresh BY <1>1, Parts DEF Fresh, Quiet
<1>4. ASSUME NEW e \in Episodes, e # call[w].episode PROVE Aside(e)
  <2>1. /\ \A n \in 1..MaxLines : LineFile(e, n) \in Files /\ LineFile(e, n)[1] = e
        /\ \A n \in 1..MostChapters : ChapterFile(e, n) \in Files /\ ChapterFile(e, n)[1] = e
        /\ FinalFile(e) \in Files /\ FinalFile(e)[1] = e
    BY Parts, FilesAre DEF LineFile, ChapterFile, FinalFile
  <2>2. \A x \in Files : x[1] = e => disk'[x] = disk[x] BY <1>1, <1>4
  <2>3. RowsOf("segment", e)' = RowsOf("segment", e) /\ rows' = rows BY DEF Quiet, RowsOf
  <2>4. QED BY <2>1, <2>2, <2>3 DEF Aside
<1>5. RowsStand'
  <2>1. (\A r : Real(r) => Real(r)') /\ \A r : InTable(r) => InTable(r)' BY <1>2, Parts, RowsGrow
  <2>2. (\A r : Planned(r)' = Planned(r)) /\ \A s, n : SegmentRow(s, n)' = SegmentRow(s, n)
    BY SameSite DEF Quiet
  <2>3. QED BY <2>1, <2>2, Parts DEF RowsStand, Stands, Quiet
<1>6. QED BY <1>2, <1>3, <1>4, <1>5, WorkerStep DEF Quiet

LEMMA SpeakKeeps ==
  ASSUME Inv, NEW w \in Workers, Speak(w), UNCHANGED shelfVars PROVE Inv'
<1>1. PICK c \in Call : c = call[w] BY JobIs
<1>2. Good(c) BY <1>1, JobIs
<1> DEFINE s == c.script
           e == c.episode
           n == c.next
           f == LineFile(e, n)
           heard == <<<<s, n>>>>
           d == [c EXCEPT !.pc = "save"]
<1>3. /\ d \in Call /\ d.pc = "save" /\ d.made = c.made /\ d.script = s /\ d.episode = e
      /\ d.alone = c.alone /\ d.op = c.op /\ d.next = n
  BY DEF Call, CallPc
<1>4. c.pc = "speak" /\ call' = [call EXCEPT ![w] = d] /\ n <= Len(Lines(s))
  BY <1>1 DEF Speak, Goto, LinesLeft
<1> HIDE DEF d
<1>5. /\ s \in Scripts /\ e = EpisodeOf(s) /\ c.made = <<>> /\ n \in 1..(Len(Lines(s)) + 1)
      /\ \A m \in 1..(n - 1) : InTable(SegmentRow(s, m))
      /\ c.alone => \A m \in 1..(n - 1) : disk[LineFile(e, m)] = <<<<s, m>>>>
  BY <1>2, <1>4 DEF Good, Speech, Mix, Own, Scripted, MadePc
<1>6. /\ DOMAIN Lines(s) = 1..Len(Lines(s)) /\ Len(Lines(s)) \in 1..MaxLines /\ MaxLines \in Nat
      /\ e \in Episodes /\ \A m \in DOMAIN Lines(s) : m \in 1..MaxLines /\ Lines(s)[m] = <<s, m>>
  BY <1>5, Parts, SiteHas
<1>7. n \in DOMAIN Lines(s) /\ n \in 1..MaxLines /\ Lines(s)[n] = <<s, n>> BY <1>4, <1>5, <1>6
<1>8. f \in Files /\ f[1] = e /\ File(ThisLine(w)) = f
  BY <1>1, <1>5, <1>6, <1>7, Parts, FilesAre DEF LineFile, ThisLine
<1>9. heard \in Seq(Heard) /\ heard # <<>> /\ DOMAIN heard = {1} /\ heard[1] = <<s, n>>
  <2>0. s \in Scripts \cup {0} /\ n \in 0..MaxLines BY <1>5, <1>6, <1>7
  <2>1. PICK x \in Heard : x = <<s, n>> BY <2>0 DEF Heard
  <2>2. <<x>> \in Seq(Heard) /\ <<x>> # <<>> /\ DOMAIN <<x>> = {1} /\ <<x>>[1] = x
    OBVIOUS
  <2>3. QED BY <2>1, <2>2
<1> HIDE DEF f, heard
<1>10. WritesFile(f, heard) BY <1>1, <1>7, <1>8 DEF Speak, WritesFile, heard
<1>11. disk'[f] = heard /\ \A x \in Files : x # f => disk'[x] = disk[x]
  BY <1>8, <1>10, Parts DEF WritesFile
<1>12. site' = site /\ rows' = rows /\ bucket' = bucket BY DEF Speak, shelfVars
<1>13. \A m : m # n => LineFile(e, m) # f BY DEF LineFile, f
<1>14. \A m \in 1..MaxLines : m # n => disk'[LineFile(e, m)] = disk[LineFile(e, m)]
  BY <1>6, <1>11, <1>13, Parts, FilesAre
<1>15. Good(d)'
  <2>1. /\ Scripts' = Scripts /\ (\A x : Lines(x)' = Lines(x) /\ EpisodeOf(x)' = EpisodeOf(x))
        /\ \A x, y : SegmentRow(x, y)' = SegmentRow(x, y)
        /\ \A r : InTable(r)' = InTable(r)
    BY <1>12, SameSite DEF InTable
  <2>2. Speech(d)' BY <1>3, <1>5, <1>7, <1>9, <1>11, <2>1 DEF Speech, Scripted, Delivers, MixPc, f
  <2>3. Mix(d)' BY <1>3, <1>5 DEF Mix, MixPc, MadePc
  <2>4. \A m \in 1..(n - 1) : m \in 1..MaxLines /\ m # n BY <1>6, <1>7
  <2>5. d.alone => Own(d)' BY <1>3, <1>5, <1>11, <1>14, <2>4 DEF Own, Delivers, MixPc, f, heard
  <2>6. QED BY <2>2, <2>3, <2>5 DEF Good
<1>16. FilesTell'
  <2>1. \A x, m, h : Speaks(x, m, h)' = Speaks(x, m, h) /\ TellsOf(x, m, h)' = TellsOf(x, m, h)
    BY <1>12, SameSite
  <2>2. Speaks(e, n, heard) BY <1>5, <1>7, <1>9 DEF Speaks
  <2>3. ASSUME NEW x \in Episodes, NEW m \in 1..MaxLines PROVE Speaks(x, m, disk'[LineFile(x, m)])
    <3>1. CASE LineFile(x, m) = f
      <4>1. x = e /\ m = n BY <3>1 DEF LineFile, f
      <4>2. QED BY <1>11, <2>2, <3>1, <4>1
    <3>2. CASE LineFile(x, m) # f BY <1>11, <3>2, Parts, FilesAre DEF FilesTell
    <3>3. QED BY <3>1, <3>2
  <2>4. ASSUME NEW x \in Episodes, NEW m \in 1..MostChapters
        PROVE  TellsOf(x, m, disk'[ChapterFile(x, m)]) /\ TellsOf(x, m, bucket'[ChapterFile(x, m)])
    <3>1. ChapterFile(x, m) # f /\ ChapterFile(x, m) \in Files
      BY Parts, FilesAre DEF LineFile, ChapterFile, f
    <3>2. QED BY <1>11, <1>12, <3>1, Parts DEF FilesTell
  <2>5. QED BY <2>1, <2>3, <2>4 DEF FilesTell
<1>17. /\ Quiet /\ ready' \subseteq Scripts /\ status' \in [Episodes -> EpisodeStatus]
       /\ faults' \in Nat /\ requests' \in Nat
  BY SameIs DEF Speak, Quiet, Same
<1>18. Continues(w, d) /\ AtWork(w) /\ call[w].episode = e BY <1>1, <1>3, <1>4 DEF Continues, AtWork
<1>19. QED BY <1>3, <1>4, <1>8, <1>9, <1>10, <1>15, <1>16, <1>17, <1>18, WriteStep

\* A step that adds rows of an episode, of a job on it.
Adds(more) == rows' = rows \o more
Fits(r, e) == Stands(r) /\ r.episode = e
LEMMA AddedRows ==
  ASSUME Inv, UNCHANGED <<site, disk, shelfVars>>, NEW more \in Seq(AudioAsset), Adds(more),
         NEW e, \A i \in DOMAIN more : Fits(more[i], e)
  PROVE  /\ rows' \in Seq(AudioAsset) /\ Grows /\ RowsStand' /\ FilesTell'
         /\ \A i \in DOMAIN more : InTable(more[i])'
         /\ \A x \in Episodes : x # e => Aside(x)
<1>1. rows \in Seq(AudioAsset) /\ site \in Sites BY Parts
<1>2. rows' = rows \o more BY DEF Adds
<1>3. /\ rows' \in Seq(AudioAsset) /\ Len(rows) \in Nat /\ Len(more) \in Nat
      /\ DOMAIN rows = 1..Len(rows) /\ DOMAIN more = 1..Len(more)
      /\ DOMAIN rows' = 1..(Len(rows) + Len(more))
      /\ \A i \in 1..Len(rows) : rows'[i] = rows[i]
      /\ \A i \in 1..Len(more) : rows'[Len(rows) + i] = more[i]
  BY <1>1, <1>2
<1>4. \A i \in DOMAIN rows' : i \in DOMAIN rows \/ \E k \in DOMAIN more : i = Len(rows) + k
  <2> TAKE i \in DOMAIN rows'
  <2>1. i \in 1..(Len(rows) + Len(more)) BY <1>3
  <2>2. CASE i <= Len(rows) BY <1>3, <2>1, <2>2
  <2>3. CASE ~ (i <= Len(rows))
    <3>1. i - Len(rows) \in 1..Len(more) /\ i = Len(rows) + (i - Len(rows)) BY <1>3, <2>1, <2>3
    <3>2. QED BY <1>3, <3>1
  <2>4. QED BY <2>2, <2>3
<1>5. Grows BY <1>3 DEF Grows, MoreRows, MoreFiles, shelfVars
<1>6. (\A r : Real(r) => Real(r)') /\ \A r : InTable(r) => InTable(r)' BY <1>5, Parts, RowsGrow
<1>7. (\A r : Planned(r)' = Planned(r)) /\ \A s, n : SegmentRow(s, n)' = SegmentRow(s, n)
  BY SameSite
<1>8. ASSUME NEW i \in DOMAIN rows' PROVE Stands(rows[i])'
  <2>1. PICK r : r = rows'[i]
    OBVIOUS
  <2>2. Stands(r)
    <3>1. CASE i \in DOMAIN rows
      <4>1. r = rows[i] BY <1>3, <2>1, <3>1
      <4>2. QED BY <3>1, <4>1, Parts DEF RowsStand, Stands
    <3>2. CASE i \notin DOMAIN rows
      <4>1. PICK k \in DOMAIN more : i = Len(rows) + k BY <1>4, <3>2
      <4>2. r = more[k] BY <1>3, <2>1, <4>1
      <4>3. QED BY <4>2 DEF Fits
    <3>3. QED BY <3>1, <3>2
  <2>3. Stands(r)' BY <1>6, <1>7, <2>2 DEF Stands
  <2>4. QED BY <2>1, <2>3 DEF Stands
<1>9. RowsStand' BY <1>8 DEF RowsStand, Stands
<1>10. FilesTell'
  <2>1. \A x, n, h : Speaks(x, n, h)' = Speaks(x, n, h) /\ TellsOf(x, n, h)' = TellsOf(x, n, h)
    BY SameSite
  <2>2. QED BY <2>1, Parts DEF FilesTell, shelfVars
<1>11. ASSUME NEW i \in DOMAIN more PROVE InTable(more[i])'
  <2>1. PICK r : r = more[i]
    OBVIOUS
  <2>2. Len(rows) + i \in DOMAIN rows' /\ rows'[Len(rows) + i] = r BY <1>3, <2>1
  <2>3. InTable(r)' BY <2>2 DEF InTable
  <2>4. QED BY <2>1, <2>3
<1>12. ASSUME NEW x \in Episodes, x # e PROVE Aside(x)
  <2>1. \A k \in DOMAIN more : rows'[Len(rows) + k].episode = e BY <1>3 DEF Fits
  <2>2. \A i : i \in RowsOf("segment", x)' <=> i \in RowsOf("segment", x)
    <3>1. ASSUME NEW i \in DOMAIN rows', rows'[i].episode = x PROVE i \in DOMAIN rows
      BY <1>4, <1>12, <2>1, <3>1
    <3>2. QED BY <1>3, <3>1 DEF RowsOf
  <2>3. RowsOf("segment", x)' = RowsOf("segment", x) BY <2>2 DEF RowsOf
  <2>4. QED BY <1>3, <2>3 DEF Aside, RowsOf
<1>13. QED BY <1>3, <1>5, <1>9, <1>10, <1>11, <1>12

LEMMA SaveKeeps ==
  ASSUME Inv, NEW w \in Workers, Save(w), UNCHANGED shelfVars PROVE Inv'
<1>1. PICK c \in Call : c = call[w] BY JobIs
<1>2. Good(c) BY <1>1, JobIs
<1> DEFINE s == c.script
           e == c.episode
           n == c.next
           d == [c EXCEPT !.pc = "speak", !.next = n + 1]
<1>a. n \in Nat /\ n + 1 \in Nat BY DEF Call
<1>b. PICK r : r = SegmentRow(s, n)
  OBVIOUS
<1>3. /\ d \in Call /\ d.pc = "speak" /\ d.made = c.made /\ d.script = s /\ d.episode = e
      /\ d.alone = c.alone /\ d.op = c.op /\ d.next = n + 1 /\ n \in Nat
  BY <1>a DEF Call, CallPc
<1>4. c.pc = "save" /\ call' = [call EXCEPT ![w] = d] BY <1>1 DEF Save, Goto
<1> HIDE DEF d
<1>5. /\ s \in Scripts /\ e = EpisodeOf(s) /\ c.made = <<>> /\ n \in DOMAIN Lines(s)
      /\ disk[LineFile(e, n)] # <<>>
      /\ \A m \in 1..(n - 1) : InTable(SegmentRow(s, m))
      /\ c.alone => \A m \in 1..(n - 1) : disk[LineFile(e, m)] = <<<<s, m>>>>
      /\ c.alone => disk[LineFile(e, n)] = <<<<s, n>>>>
  BY <1>2, <1>4 DEF Good, Speech, Mix, Own, Scripted, MadePc
<1>6. DOMAIN Lines(s) = 1..Len(Lines(s)) /\ Len(Lines(s)) \in Nat BY <1>5, Parts, SiteHas
<1>7. /\ r \in AudioAsset /\ r.kind = "segment" /\ r.script = s /\ r.pos = n /\ r.episode = e
      /\ File(r) = LineFile(e, n)
  BY <1>b, <1>5, Parts, RowsAre, FilesAre DEF SegmentRow
<1>8. r = SegmentRow(s, n) BY <1>b
<1>9. Fits(r, e) BY <1>5, <1>7, <1>8 DEF Fits, Stands, Real, Planned
<1>c. PICK more : more = <<r>>
  OBVIOUS
<1>10. more \in Seq(AudioAsset) /\ DOMAIN more = {1} /\ more[1] = r BY <1>7, <1>c
<1>11. Adds(more)
  <2>1. rows' = Append(rows, r) BY <1>1, <1>8 DEF Save, ThisLine
  <2>2. QED BY <1>7, <1>c, <2>1, Parts DEF Adds
<1>12. UNCHANGED <<site, disk, shelfVars>> BY DEF Save
<1>13. /\ rows' \in Seq(AudioAsset) /\ Grows /\ RowsStand' /\ FilesTell'
       /\ InTable(r)'
       /\ \A x \in Episodes : x # e => Aside(x)
  <2>1. /\ rows' \in Seq(AudioAsset) /\ Grows /\ RowsStand' /\ FilesTell'
        /\ InTable(more[1])'
        /\ \A x \in Episodes : x # e => Aside(x)
    BY <1>9, <1>10, <1>11, <1>12, AddedRows
  <2>2. InTable(r)' BY <1>10, <2>1 DEF InTable
  <2>3. QED BY <2>1, <2>2
<1>14. Good(d)'
  <2>1. /\ Scripts' = Scripts /\ (\A x : Lines(x)' = Lines(x) /\ EpisodeOf(x)' = EpisodeOf(x))
        /\ \A x, y : SegmentRow(x, y)' = SegmentRow(x, y)
    BY <1>12, SameSite
  <2>2. \A x : InTable(x) => InTable(x)' BY <1>13, Parts, RowsGrow
  <2>3. ASSUME NEW m \in 1..(d.next - 1) PROVE InTable(SegmentRow(s, m))'
    <3>1. m = n \/ m \in 1..(n - 1) BY <1>3
    <3>2. CASE m = n BY <1>8, <1>13, <2>1, <3>2 DEF InTable
    <3>3. CASE m \in 1..(n - 1)
      <4>1. PICK x : x = SegmentRow(s, m)
        OBVIOUS
      <4>2. InTable(x)' BY <1>5, <2>2, <3>3, <4>1
      <4>3. QED BY <2>1, <4>1, <4>2 DEF InTable
    <3>4. QED BY <3>1, <3>2, <3>3
  <2>4. d.next \in 1..(Len(Lines(s)) + 1) BY <1>3, <1>5, <1>6
  <2>5. Speech(d)' BY <1>3, <1>5, <2>1, <2>3, <2>4 DEF Speech, Scripted, Delivers, MixPc
  <2>6. Mix(d)' BY <1>3, <1>5 DEF Mix, MixPc, MadePc
  <2>7. \A m \in 1..(d.next - 1) : m = n \/ m \in 1..(n - 1) BY <1>3
  <2>8. d.alone => Own(d)' BY <1>3, <1>5, <1>12, <2>7 DEF Own, Delivers, MixPc
  <2>9. QED BY <2>5, <2>6, <2>8 DEF Good
<1>15. Fresh BY <1>13, SameIs, Parts DEF Fresh, Same, Save
<1>16. Continues(w, d) BY <1>1, <1>3, <1>4 DEF Continues, AtWork
<1>17. \A x \in Episodes : (AtWork(w) => x # call[w].episode) => Aside(x)
  BY <1>1, <1>4, <1>13 DEF AtWork
<1>18. QED BY <1>3, <1>4, <1>12, <1>13, <1>14, <1>15, <1>16, <1>17, WorkerStep

LEMMA CommitKeeps ==
  ASSUME Inv, NEW w \in Workers, Commit(w), UNCHANGED shelfVars PROVE Inv'
<1>1. PICK c \in Call : c = call[w] BY JobIs
<1>2. c.pc = "commit" /\ Good(c) BY <1>1, JobIs DEF Commit
<1>3. /\ c.made \in Seq(AudioAsset)
      /\ \A i \in DOMAIN c.made : Fits(c.made[i], c.episode)
  BY <1>2 DEF Good, Mix, MadePc, Fits, Stands, Call
<1>4. Adds(c.made) /\ UNCHANGED <<site, disk, shelfVars>> BY <1>1 DEF Commit, Adds
<1>5. /\ rows' \in Seq(AudioAsset) /\ Grows /\ RowsStand' /\ FilesTell'
      /\ \A x \in Episodes : x # c.episode => Aside(x)
  BY <1>3, <1>4, AddedRows
<1>6. Fresh BY <1>5, SameIs, Parts DEF Fresh, Same, Commit, EpisodeStatus
<1>7. call' = [call EXCEPT ![w] = NoCall] /\ AtWork(w) BY <1>1, <1>2 DEF Commit, Leave, Goto, AtWork
<1>8. Continues(w, NoCall) BY NoCallIs DEF Continues
<1>9. QED BY <1>1, <1>4, <1>5, <1>6, <1>7, <1>8, NoCallIs, WorkerStep

-----------------------------------------------------------------------------
(* Steps of the pipeline.                                                  *)

LEMMA ListingIs ==
  ASSUME Inv, NEW e, NEW t \in OrdersOfTakes(e), t # <<>>
  PROVE  Listing(t, e) /\ Full(t, e) /\ t \in Seq(AudioAsset)
<1>1. /\ t \in Seq(AudioAsset)
      /\ \A k \in DOMAIN t : t[k].kind = "segment" /\ t[k].episode = e /\ InTable(t[k])
      /\ \A j, k \in DOMAIN t : j < k => t[j].pos <= t[k].pos
      /\ Full(t, e)
  BY Parts, TakesAre
<1>2. ASSUME NEW k \in DOMAIN t, NEW m \in 1..(t[k].pos - 1)
      PROVE  \E j \in DOMAIN t : t[j] = SegmentRow(t[k].script, m)
  <2>1. IsTake(t[k]) /\ InTable(SegmentRow(t[k].script, m)) /\ t[k].episode = e
    BY <1>1, Parts, TakeIs
  <2>2. PICK i \in DOMAIN rows : rows[i] = SegmentRow(t[k].script, m) BY <2>1 DEF InTable
  <2>3. rows[i].kind = "segment" /\ rows[i].episode = e
    <3>1. \A s, n : SegmentRow(s, n).kind = "segment" /\ SegmentRow(s, n).episode = EpisodeOf(s)
      BY DEF SegmentRow
    <3>2. EpisodeOf(t[k].script) = e BY <2>1 DEF IsTake
    <3>3. QED BY <2>2, <3>1, <3>2
  <2>4. QED BY <1>1, <2>2, <2>3 DEF RowsOf, Full
<1>3. QED BY <1>1, <1>2 DEF Listing

LEMMA LoadKeeps ==
  ASSUME Inv, NEW w \in Workers, Load(w), UNCHANGED shelfVars PROVE Inv'
<1>1. PICK c \in Call : c = call[w] BY JobIs
<1>2. Good(c) /\ c.pc = "load" BY <1>1, JobIs DEF Load
<1>3. PICK t \in OrdersOfTakes(c.episode) :
         t # <<>> /\ Goto(w, [call[w] EXCEPT !.pc = "stitch", !.takes = t])
  BY <1>1 DEF Load
<1>4. Listing(t, c.episode) /\ Full(t, c.episode) /\ t \in Seq(AudioAsset) BY <1>3, ListingIs
<1> DEFINE d == [c EXCEPT !.pc = "stitch", !.takes = t]
<1>5. /\ d \in Call /\ d.pc = "stitch" /\ d.made = c.made /\ d.script = c.script /\ d.episode = c.episode
      /\ d.alone = c.alone /\ d.op = c.op /\ d.takes = t
  BY <1>4 DEF Call, CallPc
<1>6. call' = [call EXCEPT ![w] = d] BY <1>1, <1>3 DEF Goto
<1> HIDE DEF d
<1>7. Good(d)
  <2>1. Speech(d) BY <1>2, <1>5 DEF Good, Speech, Scripted, Delivers, MixPc
  <2>2. Mix(d) BY <1>2, <1>4, <1>5 DEF Good, Mix, MixPc, MadePc
  <2>3. d.alone => Own(d) BY <1>2, <1>4, <1>5 DEF Good, Own, Delivers, MixPc, MadePc
  <2>4. QED BY <2>1, <2>2, <2>3 DEF Good
<1>8. Continues(w, d) BY <1>1, <1>2, <1>5 DEF Continues, AtWork
<1>9. /\ Still /\ ready' \subseteq Scripts /\ status' \in [Episodes -> EpisodeStatus]
      /\ faults' \in Nat /\ requests' \in Nat
  BY SameIs DEF Load, Still, Same
<1>10. QED BY <1>5, <1>6, <1>7, <1>8, <1>9, StillStep

LEMMA BuildChaptersKeeps ==
  ASSUME Inv, NEW w \in Workers, BuildChapters(w), UNCHANGED shelfVars PROVE Inv'
<1>1. PICK c \in Call : c = call[w] BY JobIs
<1>2. Good(c) /\ c.pc = "chapters" BY <1>1, JobIs DEF BuildChapters
<1>3. PICK t \in OrdersOfTakes(c.episode) :
         Goto(w, [call[w] EXCEPT !.pc = IF Chapters(t) = <<>> THEN "commit" ELSE "chapter",
                                 !.takes = t, !.next = 1])
  BY <1>1 DEF BuildChapters
<1>4. Listing(t, c.episode) /\ Full(t, c.episode) /\ t \in Seq(AudioAsset)
  <2>1. Full(t, c.episode) /\ t \in Seq(AudioAsset) BY Parts, TakesAre
  <2>2. Listing(c.takes, c.episode) /\ c.takes \in Seq(AudioAsset)
    BY <1>2 DEF Good, Mix, MixPc, Call
  <2>3. PICK i \in DOMAIN rows : rows[i].kind = "segment" /\ rows[i].episode = c.episode
    <3>1. 1 \in DOMAIN c.takes
      <4>1. Len(c.takes) # 0 /\ Len(c.takes) \in Nat BY <2>2, EmptySeq DEF Listing
      <4>2. QED BY <2>2, <4>1
    <3>2. QED BY <2>2, <3>1 DEF Listing, InTable
  <2>4. \E k \in DOMAIN t : t[k] = rows[i] BY <2>1, <2>3 DEF RowsOf, Full
  <2>5. t # <<>> BY <2>4
  <2>6. QED BY <2>1, <2>5, ListingIs
<1> DEFINE d == [c EXCEPT !.pc = IF Chapters(t) = <<>> THEN "commit" ELSE "chapter", !.takes = t, !.next = 1]
<1>5. /\ d \in Call /\ d.made = c.made /\ d.script = c.script /\ d.episode = c.episode
      /\ d.alone = c.alone /\ d.op = c.op /\ d.takes = t /\ d.next = 1
      /\ d.pc = IF Chapters(t) = <<>> THEN "commit" ELSE "chapter"
  BY <1>4 DEF Call, CallPc
<1>6. call' = [call EXCEPT ![w] = d] BY <1>1, <1>3 DEF Goto
<1> HIDE DEF d
<1>7. /\ d.pc = "commit" => Len(Chapters(t)) = 0
      /\ d.pc = "chapter" => 1 \in DOMAIN Chapters(t)
      /\ d.pc \in {"commit", "chapter"}
  <2>1. Chapters(t) \in Seq(Articles) BY <1>4, ChaptersHave
  <2>2. Chapters(t) = <<>> <=> Len(Chapters(t)) = 0 BY <2>1, EmptySeq
  <2>3. Len(Chapters(t)) \in Nat /\ DOMAIN Chapters(t) = 1..Len(Chapters(t)) BY <2>1
  <2>4. QED BY <1>5, <2>2, <2>3
<1>8. Good(d)
  <2>1. Speech(d) BY <1>2, <1>5, <1>7 DEF Good, Speech, Scripted, Delivers, MixPc
  <2>2. Mix(d)
    <3>1. /\ Len(c.made) = 1 /\ c.made[1] = FinalRow(c.episode)
          /\ \A i \in DOMAIN c.made : /\ c.made[i].episode = c.episode
                                      /\ c.made[i].kind # "segment"
                                      /\ Real(c.made[i]) /\ Planned(c.made[i])
      BY <1>2 DEF Good, Mix, MadePc
    <3>2. QED BY <1>4, <1>5, <1>7, <3>1 DEF Mix, MixPc, MadePc
  <2>3. d.alone => Own(d)
    <3>1. OnceEach(d) <=> OnceEach(c) BY <1>5 DEF OnceEach
    <3>2. QED BY <1>2, <1>4, <1>5, <1>7, <3>1 DEF Good, Own, Delivers, MixPc, MadePc
  <2>4. QED BY <2>1, <2>2, <2>3 DEF Good
<1>9. Continues(w, d) BY <1>1, <1>2, <1>5 DEF Continues, AtWork
<1>10. /\ Still /\ ready' \subseteq Scripts /\ status' \in [Episodes -> EpisodeStatus]
       /\ faults' \in Nat /\ requests' \in Nat
  BY SameIs DEF BuildChapters, Still, Same
<1>11. QED BY <1>5, <1>6, <1>8, <1>9, <1>10, StillStep

\* What a step that writes a file leaves.
LEMMA QuietSame ==
  ASSUME Quiet
  PROVE  /\ Scripts' = Scripts /\ bucket' = bucket
         /\ \A s : Lines(s)' = Lines(s) /\ EpisodeOf(s)' = EpisodeOf(s)
         /\ \A s, n : SegmentRow(s, n)' = SegmentRow(s, n)
         /\ \A s, a : AboutIn(s, a)' = AboutIn(s, a)
         /\ \A r : Planned(r)' = Planned(r) /\ InTable(r)' = InTable(r)
         /\ \A x, m, h : Speaks(x, m, h)' = Speaks(x, m, h) /\ TellsOf(x, m, h)' = TellsOf(x, m, h)
         /\ \A t, e : Listing(t, e)' = Listing(t, e) /\ Full(t, e)' = Full(t, e)
         /\ \A c : OnceEach(c)' = OnceEach(c)
<1>1. /\ Scripts' = Scripts /\ bucket' = bucket
      /\ \A s : Lines(s)' = Lines(s) /\ EpisodeOf(s)' = EpisodeOf(s)
      /\ \A s, n : SegmentRow(s, n)' = SegmentRow(s, n)
      /\ \A s, a : AboutIn(s, a)' = AboutIn(s, a)
      /\ \A r : Planned(r)' = Planned(r)
      /\ \A x, m, h : Speaks(x, m, h)' = Speaks(x, m, h) /\ TellsOf(x, m, h)' = TellsOf(x, m, h)
  BY SameSite DEF Quiet, shelfVars
<1>2. /\ \A r : InTable(r)' = InTable(r)
      /\ \A kind, e : RowsOf(kind, e)' = RowsOf(kind, e)
  BY DEF InTable, RowsOf, Quiet
<1>3. \A t, e : Listing(t, e)' = Listing(t, e) /\ Full(t, e)' = Full(t, e)
  BY <1>1, <1>2 DEF Listing, Full, Quiet
<1>4. \A c : OnceEach(c)' = OnceEach(c) BY <1>1, <1>2 DEF OnceEach
<1>5. QED BY <1>1, <1>2, <1>3, <1>4

\* Files that are not written.
LEMMA OtherFiles ==
  ASSUME Inv, Quiet, NEW f \in Files, NEW heard, WritesFile(f, heard)
  PROVE  /\ disk'[f] = heard
         /\ \A e \in Episodes, n \in 1..MaxLines :
              LineFile(e, n) # f => disk'[LineFile(e, n)] = disk[LineFile(e, n)]
         /\ \A e \in Episodes, n \in 1..MostChapters :
              ChapterFile(e, n) # f => disk'[ChapterFile(e, n)] = disk[ChapterFile(e, n)]
         /\ \A e \in Episodes : FinalFile(e) # f => disk'[FinalFile(e)] = disk[FinalFile(e)]
         /\ (\A e, n : LineFile(e, n) # f) /\ (\A e, n : ChapterFile(e, n) = f => TellsOf(e, n, heard)) => FilesTell'
<1>1. disk'[f] = heard /\ \A x \in Files : x # f => disk'[x] = disk[x] BY Parts DEF WritesFile
<1>2. /\ \A e \in Episodes, n \in 1..MaxLines :
              LineFile(e, n) # f => disk'[LineFile(e, n)] = disk[LineFile(e, n)]
      /\ \A e \in Episodes, n \in 1..MostChapters :
              ChapterFile(e, n) # f => disk'[ChapterFile(e, n)] = disk[ChapterFile(e, n)]
      /\ \A e \in Episodes : FinalFile(e) # f => disk'[FinalFile(e)] = disk[FinalFile(e)]
  BY <1>1, Parts, FilesAre
<1>3. ASSUME \A e, n : LineFile(e, n) # f, \A e, n : ChapterFile(e, n) = f => TellsOf(e, n, heard)
      PROVE  FilesTell'
  <2>1. /\ bucket' = bucket
        /\ \A x, m, h : Speaks(x, m, h)' = Speaks(x, m, h) /\ TellsOf(x, m, h)' = TellsOf(x, m, h)
    BY QuietSame
  <2>2. ASSUME NEW x \in Episodes, NEW m \in 1..MaxLines PROVE Speaks(x, m, disk'[LineFile(x, m)])
    BY <1>2, <1>3, Parts DEF FilesTell
  <2>3. ASSUME NEW x \in Episodes, NEW m \in 1..MostChapters
        PROVE  TellsOf(x, m, disk'[ChapterFile(x, m)]) /\ TellsOf(x, m, bucket'[ChapterFile(x, m)])
    <3>1. CASE ChapterFile(x, m) = f BY <1>1, <1>3, <2>1, <3>1, Parts DEF FilesTell
    <3>2. CASE ChapterFile(x, m) # f BY <1>2, <2>1, <3>2, Parts DEF FilesTell
    <3>3. QED BY <3>1, <3>2
  <2>4. QED BY <2>1, <2>2, <2>3 DEF FilesTell
<1>4. QED BY <1>1, <1>2, <1>3

\* What the daily job has when nobody else has worked on the episode.
LEMMA OwnTakes ==
  ASSUME Inv, NEW c \in Call, Speech(c), Mix(c), Own(c), Delivers(c), c.pc \in MixPc
  PROVE  /\ Undisturbed(c.script, c.takes, c.episode)
         /\ HeardIn(Lines(c.script), Sound(c.takes))
         /\ OnceEach(c) => /\ Sound(c.takes) = Lines(c.script)
                           /\ c.takes = Reading(c.script)
                           /\ \A a : Sound(About(c.takes, a)) = AboutIn(c.script, a)
<1>1. /\ c.script \in Scripts /\ EpisodeOf(c.script) = c.episode
      /\ \A m \in DOMAIN Lines(c.script) : InTable(SegmentRow(c.script, m))
  BY DEF Speech, Scripted
<1>2. c.takes \in Seq(AudioAsset) /\ c.episode \in Episodes BY DEF Call
<1>3. Listing(c.takes, c.episode) BY DEF Mix
<1>4. /\ Full(c.takes, c.episode)
      /\ \A m \in DOMAIN Lines(c.script) : disk[LineFile(c.episode, m)] = <<<<c.script, m>>>>
  BY DEF Own
<1>5. Undisturbed(c.script, c.takes, c.episode) BY <1>1, <1>2, <1>3, <1>4 DEF Undisturbed
<1>6. HeardIn(Lines(c.script), Sound(c.takes)) BY <1>5, Parts, AllIsHeard
<1>7. ASSUME OnceEach(c)
      PROVE  /\ Sound(c.takes) = Lines(c.script)
             /\ c.takes = Reading(c.script)
             /\ \A a : Sound(About(c.takes, a)) = AboutIn(c.script, a)
  <2>1. c.takes = Reading(c.script) BY <1>5, <1>7, Parts, TakenOnce DEF OnceEach
  <2>2. \A n \in DOMAIN Lines(c.script) : disk[LineFile(EpisodeOf(c.script), n)] = <<<<c.script, n>>>>
    BY <1>1, <1>4
  <2>3. QED BY <1>1, <2>1, <2>2, Parts, ReadingIsHeard
<1>8. QED BY <1>5, <1>6, <1>7

LEMMA StitchKeeps ==
  ASSUME Inv, NEW w \in Workers, Stitch(w), UNCHANGED shelfVars PROVE Inv'
<1>1. PICK c \in Call : c = call[w] BY JobIs
<1>2. c.pc = "stitch" /\ Speech(c) /\ Mix(c) /\ (c.alone => Own(c)) BY <1>1, JobIs DEF Stitch, Good
<1> DEFINE e == c.episode
           s == c.script
           f == FinalFile(e)
           final == FinalRow(e)
           d == [c EXCEPT !.pc = "chapters", !.made = <<final>>]
<1>3. e \in Episodes /\ c.takes \in Seq(AudioAsset) BY DEF Call
<1>4. /\ final \in AudioAsset /\ final.kind = "final" /\ final.episode = e /\ File(final) = f
      /\ f \in Files /\ f[1] = e
  BY <1>3, Parts, RowsAre, FilesAre DEF FinalRow, FinalFile
<1>5. Listing(c.takes, e) /\ c.takes # <<>> BY <1>2 DEF Mix, MixPc, Listing
<1>6. Takes(c.takes, e) BY <1>3, <1>5 DEF Takes, Listing
<1>7. PICK heard : heard = Sound(c.takes)
  OBVIOUS
<1>8. heard \in Seq(Heard) /\ heard # <<>> BY <1>3, <1>5, <1>6, <1>7, Parts, SoundHas
<1>9. PICK made : made = <<final>>
  OBVIOUS
<1>10. made \in Seq(AudioAsset) /\ Len(made) = 1 /\ DOMAIN made = {1} /\ made[1] = final
  <2>1. \A r \in AudioAsset : <<r>> \in Seq(AudioAsset) /\ Len(<<r>>) = 1 /\ DOMAIN <<r>> = {1} /\ <<r>>[1] = r
    OBVIOUS
  <2> HIDE DEF final
  <2>2. QED BY <1>4, <1>9, <2>1
<1>11. /\ d \in Call /\ d.pc = "chapters" /\ d.made = made /\ d.script = s /\ d.episode = e
       /\ d.alone = c.alone /\ d.op = c.op /\ d.takes = c.takes
  <2> HIDE DEF final
  <2>1. QED BY <1>9, <1>10 DEF Call, CallPc
<1>12. call' = [call EXCEPT ![w] = d] /\ WritesFile(f, heard)
  BY <1>1, <1>4, <1>7 DEF Stitch, Goto, WritesFile
<1> HIDE DEF d, f, final
<1>13. Quiet BY DEF Stitch, Quiet
<1>14. FinalFile(e) = f /\ (\A x, n : LineFile(x, n) # f) /\ \A x, n : ChapterFile(x, n) # f
  BY DEF LineFile, ChapterFile, FinalFile, f
<1>15. /\ disk'[f] = heard /\ FilesTell'
       /\ \A n \in 1..MaxLines : disk'[LineFile(e, n)] = disk[LineFile(e, n)]
  BY <1>3, <1>4, <1>12, <1>13, <1>14, OtherFiles
<1>16. Grows
  BY <1>4, <1>8, <1>12, <1>13, Parts DEF Quiet, Grows, MoreRows, MoreFiles, shelfVars, WritesFile
<1>17. Speech(c)' /\ Mix(c)' BY <1>2, <1>16, Parts, JobsGrow
<1>18. Speech(d)' BY <1>2, <1>11, <1>17 DEF Speech, Scripted, Delivers, MixPc
<1>19. Mix(d)'
  <2>1. Listing(c.takes, e)' BY <1>5, <1>13, QuietSame
  <2>2. Real(final)' BY <1>4, <1>8, <1>15 DEF Real, final
  <2>3. Planned(final)' BY <1>4 DEF Planned
  <2>4. QED BY <1>4, <1>10, <1>11, <2>1, <2>2, <2>3 DEF Mix, MixPc, MadePc, final
<1>20. ASSUME d.alone, Delivers(d) PROVE Own(d)'
  <2>1. Own(c) /\ Delivers(c) /\ c.pc \in MixPc BY <1>2, <1>11, <1>20 DEF Delivers, MixPc
  <2>2. /\ HeardIn(Lines(s), heard) /\ (OnceEach(c) => heard = Lines(s))
        /\ s \in Scripts /\ Full(c.takes, e)
        /\ \A m \in DOMAIN Lines(s) : disk[LineFile(e, m)] = <<<<s, m>>>>
    BY <1>2, <1>7, <2>1, OwnTakes DEF Undisturbed
  <2>3. \A m \in DOMAIN Lines(s) : m \in 1..MaxLines BY <2>2, Parts, SiteHas
  <2>4. OnceEach(d)' <=> OnceEach(c) BY <1>11, <1>13, QuietSame DEF OnceEach
  <2>5. Full(c.takes, e)' /\ \A x : Lines(x)' = Lines(x) BY <1>13, <2>2, QuietSame
  <2>6. \A m \in DOMAIN Lines(s) : disk'[LineFile(e, m)] = <<<<s, m>>>> BY <1>15, <2>2, <2>3
  <2>7. disk'[File(FinalRow(e))] = heard BY <1>4, <1>15 DEF final
  <2>8. QED BY <1>11, <2>2, <2>4, <2>5, <2>6, <2>7 DEF Own, Delivers, MixPc, MadePc
<1>21. Good(d)'
  <2>1. ~ Delivers(d) => Own(d)' BY <1>11 DEF Own, Delivers
  <2>2. QED BY <1>18, <1>19, <1>20, <2>1 DEF Good
<1>22. Continues(w, d) /\ AtWork(w) /\ call[w].episode = e
  BY <1>1, <1>2, <1>11 DEF Continues, AtWork
<1>23. /\ ready' \subseteq Scripts /\ status' \in [Episodes -> EpisodeStatus]
       /\ faults' \in Nat /\ requests' \in Nat
  BY SameIs DEF Stitch, Same
<1>24. QED BY <1>4, <1>8, <1>11, <1>12, <1>13, <1>15, <1>21, <1>22, <1>23, WriteStep

LEMMA StitchFailsKeeps ==
  ASSUME Inv, NEW w \in Workers, StitchFails(w), UNCHANGED shelfVars PROVE Inv'
<1>1. PICK c \in Call : c = call[w] BY JobIs
<1>2. /\ ready' \subseteq Scripts /\ status' \in [Episodes -> EpisodeStatus]
      /\ faults' \in Nat /\ requests' \in Nat /\ UNCHANGED <<site, rows, shelfVars>> /\ Leave(w)
      /\ c.pc \in {"stitch", "chapter"} /\ AtWork(w)
  <2>1. c.pc \in {"stitch", "chapter"} BY <1>1 DEF StitchFails
  <2>2. Fault("ffmpeg") /\ Fail(w) BY DEF StitchFails
  <2>3. ready' \subseteq Scripts /\ status' \in [Episodes -> EpisodeStatus]
    BY <2>2, SameIs DEF Fail, Same, EpisodeStatus
  <2>4. faults' \in Nat /\ requests' \in Nat /\ UNCHANGED <<site, rows, shelfVars>> /\ Leave(w)
    BY <2>2, SameIs DEF Fail, Fault, Same
  <2>5. AtWork(w) BY <1>1, <2>1 DEF AtWork
  <2>6. QED BY <2>1, <2>3, <2>4, <2>5
<1>3. Good(c) /\ c.episode \in Episodes BY <1>1, JobIs DEF Call
<1> DEFINE heard == <<Noise>>
<1>4. heard \in Seq(Heard) /\ heard # <<>> /\ \A e, n : TellsOf(e, n, heard)
  <2>1. MaxLines \in Nat /\ Noise \in Heard BY AudioAssumption DEF Noise, Heard
  <2>2. \A x \in Heard : <<x>> \in Seq(Heard) /\ <<x>> # <<>> /\ \A i \in DOMAIN <<x>> : <<x>>[i] = x
    OBVIOUS
  <2>3. QED BY <2>1, <2>2 DEF TellsOf
<1> HIDE DEF heard
<1>5. ASSUME NEW f \in Files, f[1] = c.episode, WritesFile(f, heard), \A e, n : LineFile(e, n) # f
      PROVE  Inv'
  <2>1. Quiet BY <1>2 DEF Quiet
  <2>2. FilesTell' BY <1>4, <1>5, <2>1, OtherFiles
  <2>3. call' = [call EXCEPT ![w] = NoCall] /\ Continues(w, NoCall)
    BY <1>2, NoCallIs DEF Leave, Goto, Continues
  <2>4. QED BY <1>1, <1>2, <1>4, <1>5, <2>1, <2>2, <2>3, NoCallIs, WriteStep
<1>6. CASE c.pc = "stitch" /\ disk' = [disk EXCEPT ![File(FinalRow(call[w].episode))] = <<Noise>>]
  <2>1. /\ FinalFile(c.episode) \in Files /\ File(FinalRow(c.episode)) = FinalFile(c.episode)
        /\ FinalFile(c.episode)[1] = c.episode /\ \A e, n : LineFile(e, n) # FinalFile(c.episode)
    BY <1>3, Parts, FilesAre DEF FinalFile, LineFile
  <2>2. WritesFile(FinalFile(c.episode), heard) BY <1>1, <1>6, <2>1 DEF WritesFile, heard
  <2>3. QED BY <1>5, <2>1, <2>2
<1>7. CASE c.pc = "chapter" /\ disk' = [disk EXCEPT ![File(ThisChapter(w))] = <<Noise>>]
  <2> DEFINE f == ChapterFile(c.episode, c.next)
  <2>1. c.next \in DOMAIN Chapters(c.takes) /\ c.takes \in Seq(AudioAsset)
    BY <1>3, <1>7 DEF Good, Mix, Call
  <2>2. Chapters(c.takes) \in Seq(Articles) /\ Len(Chapters(c.takes)) \in 0..MostChapters
    BY <2>1, ChaptersHave
  <2>3. MostChapters \in Nat BY AudioAssumption, FS_CardinalityType DEF MostChapters
  <2>4. c.next \in 1..MostChapters BY <2>1, <2>2, <2>3
  <2>5. /\ f \in Files /\ File(ThisChapter(w)) = f
        /\ f[1] = c.episode /\ \A e, n : LineFile(e, n) # f
    BY <1>1, <1>3, <2>4, Parts, FilesAre DEF ThisChapter, ChapterFile, LineFile
  <2> HIDE DEF f
  <2>6. WritesFile(f, heard) BY <1>7, <2>5 DEF WritesFile, heard
  <2>7. QED BY <1>5, <2>5, <2>6
<1>8. CASE UNCHANGED disk
  <2>1. Still BY <1>2, <1>8 DEF Still
  <2>2. QED BY <1>2, <2>1, LeaveStep
<1>9. QED BY <1>1, <1>6, <1>7, <1>8 DEF StitchFails

LEMMA BuildChapterKeeps ==
  ASSUME Inv, NEW w \in Workers, BuildChapter(w), UNCHANGED shelfVars PROVE Inv'
<1>1. PICK c \in Call : c = call[w] BY JobIs
<1>2. c.pc = "chapter" /\ Speech(c) /\ Mix(c) /\ (c.alone => Own(c))
  BY <1>1, JobIs DEF BuildChapter, Good
<1>3. /\ c.episode \in Episodes /\ c.takes \in Seq(AudioAsset) /\ c.made \in Seq(AudioAsset)
      /\ c.next \in Nat
  BY DEF Call
<1> DEFINE e == c.episode
           s == c.script
           n == c.next
           t == c.takes
           f == ChapterFile(e, n)
<1>4. /\ Listing(t, e) /\ n \in DOMAIN Chapters(t) /\ Len(c.made) = n
      /\ c.made[1] = FinalRow(e)
      /\ \A i \in DOMAIN c.made : /\ c.made[i].episode = e /\ c.made[i].kind # "segment"
                                  /\ Real(c.made[i]) /\ Planned(c.made[i])
      /\ \A m \in 1..(n - 1) : c.made[m + 1] = ChapterRow(e, m, Chapters(t)[m])
  BY <1>2 DEF Mix, MixPc, MadePc
<1>5. Chapters(t) \in Seq(Articles) /\ Len(Chapters(t)) \in 0..MostChapters /\ MostChapters \in Nat
  <2>1. MostChapters \in Nat BY AudioAssumption, FS_CardinalityType DEF MostChapters
  <2>2. QED BY <1>3, <2>1, ChaptersHave
<1>6. n \in 1..MostChapters /\ n \in 1..Len(Chapters(t)) /\ Len(Chapters(t)) \in Nat BY <1>4, <1>5
<1>7. PICK a \in Articles : a = Chapters(t)[n] BY <1>5, <1>6
<1>8. PICK chapter : chapter = ChapterRow(e, n, a)
  OBVIOUS
<1>9. /\ chapter \in AudioAsset /\ chapter.kind = "chapter" /\ chapter.episode = e /\ chapter.article = a
      /\ chapter.pos = n /\ File(chapter) = f
      /\ f \in Files /\ f[1] = e
  BY <1>3, <1>6, <1>8, Parts, RowsAre, FilesAre DEF ChapterRow, ChapterFile
<1>10. PICK heard : heard = Sound(About(t, a))
  OBVIOUS
<1>11. heard \in Seq(Heard) /\ heard # <<>> /\ TellsOf(e, n, heard)
  BY <1>3, <1>4, <1>7, <1>10, Parts, AboutTells
<1> DEFINE pc == IF n = Len(Chapters(t)) THEN "commit" ELSE "chapter"
<1>12. PICK made : made = Append(c.made, chapter)
  OBVIOUS
<1>13. /\ made \in Seq(AudioAsset) /\ Len(made) = n + 1 /\ DOMAIN made = 1..(n + 1)
       /\ made[n + 1] = chapter /\ \A i \in 1..n : made[i] = c.made[i] /\ i \in DOMAIN c.made
  BY <1>3, <1>4, <1>9, <1>12
<1> DEFINE d == [c EXCEPT !.pc = pc, !.next = n + 1, !.made = made]
<1>14. /\ d \in Call /\ d.pc = pc /\ d.made = made /\ d.script = s /\ d.episode = e
       /\ d.alone = c.alone /\ d.op = c.op /\ d.takes = t /\ d.next = n + 1
  <2>1. pc \in CallPc /\ n + 1 \in Nat BY <1>3 DEF CallPc
  <2> HIDE DEF pc
  <2>2. QED BY <1>3, <1>13, <2>1 DEF Call
<1>15. call' = [call EXCEPT ![w] = d] /\ WritesFile(f, heard) /\ Quiet
  <2>1. ThisChapter(w) = chapter BY <1>1, <1>7, <1>8 DEF ThisChapter
  <2>2. MakeChapter(w, chapter, chapter) BY <2>1 DEF BuildChapter
  <2>3. call' = [call EXCEPT ![w] = d] BY <1>1, <1>2, <1>12, <2>2 DEF MakeChapter, Goto
  <2>4. WritesFile(f, heard) BY <1>1, <1>9, <1>10, <2>2 DEF MakeChapter, WritesFile
  <2>5. Quiet BY <2>2 DEF MakeChapter, Quiet
  <2>6. QED BY <2>3, <2>4, <2>5
<1> HIDE DEF d, f
<1>16. /\ \A x, m : LineFile(x, m) # f
       /\ \A x, m : ChapterFile(x, m) = f => x = e /\ m = n
       /\ \A x : FinalFile(x) # f
  BY DEF LineFile, ChapterFile, FinalFile, f
<1>17. /\ disk'[f] = heard /\ FilesTell'
       /\ \A m \in 1..MaxLines : disk'[LineFile(e, m)] = disk[LineFile(e, m)]
       /\ \A m \in 1..MostChapters : m # n => disk'[ChapterFile(e, m)] = disk[ChapterFile(e, m)]
       /\ disk'[FinalFile(e)] = disk[FinalFile(e)]
  <2>1. \A x, m : ChapterFile(x, m) = f => TellsOf(x, m, heard) BY <1>11, <1>16
  <2>2. QED BY <1>3, <1>9, <1>15, <1>16, <2>1, OtherFiles
<1>18. Grows
  BY <1>9, <1>11, <1>15, Parts DEF Quiet, Grows, MoreRows, MoreFiles, shelfVars, WritesFile
<1>19. Speech(c)' /\ \A r : Real(r) => Real(r)' BY <1>2, <1>18, Parts, JobsGrow, RowsGrow
<1>20. pc \in {"chapter", "commit"}
  OBVIOUS
<1>21. Speech(d)' BY <1>2, <1>14, <1>19, <1>20 DEF Speech, Scripted, Delivers, MixPc
<1>23. Real(chapter)' BY <1>6, <1>8, <1>9, <1>11, <1>17 DEF Real
<1>24. Planned(chapter)'
  <2>1. ASSUME NEW x \in Scripts, OnlyScript(x, e) PROVE n \in DOMAIN Plan(x) /\ a = Plan(x)[n]
    BY <1>3, <1>4, <1>7, <2>1, Parts, ChaptersFollow
  <2>2. Planned(chapter) BY <1>9, <2>1 DEF Planned
  <2>3. QED BY <1>15, <2>2, QuietSame
<1>25. Mix(d)'
  <2>1. Listing(t, e)' BY <1>4, <1>15, QuietSame
  <2>2. ASSUME NEW i \in DOMAIN made
        PROVE  /\ made[i].episode = e /\ made[i].kind # "segment"
               /\ Real(made[i])' /\ Planned(made[i])'
    <3>1. PICK r : r = made[i]
      OBVIOUS
    <3>2. CASE i = n + 1
      <4>1. r = chapter BY <1>13, <3>1, <3>2
      <4>2. QED BY <1>9, <1>23, <1>24, <3>1, <4>1
    <3>3. CASE i # n + 1
      <4>1. i \in 1..n BY <1>3, <1>13, <3>3
      <4>2. r = c.made[i] /\ i \in DOMAIN c.made BY <1>13, <3>1, <4>1
      <4>3. r.episode = e /\ r.kind # "segment" /\ Real(r) /\ Planned(r) BY <1>4, <4>2
      <4>4. Real(r)' /\ Planned(r)' BY <1>15, <1>19, <4>3, QuietSame
      <4>5. QED BY <3>1, <4>3, <4>4
    <3>4. QED BY <3>2, <3>3
  <2>3. made[1] = FinalRow(e) BY <1>4, <1>6, <1>13
  <2>4. ASSUME NEW m \in 1..n PROVE made[m + 1] = ChapterRow(e, m, Chapters(t)[m])
    <3>1. CASE m = n BY <1>7, <1>8, <1>13, <3>1
    <3>2. CASE m # n
      <4>1. m \in 1..(n - 1) /\ m + 1 \in 1..n BY <1>3, <3>2
      <4>2. QED BY <1>4, <1>13, <4>1
    <3>3. QED BY <3>1, <3>2
  <2>5. pc = "chapter" => n + 1 \in DOMAIN Chapters(t) BY <1>5, <1>6
  <2>6. (n + 1) - 1 = n /\ n + 1 # 1 BY <1>3, <1>6
  <2>7. pc = "commit" => n = Len(Chapters(t))
    OBVIOUS
  <2> HIDE DEF pc
  <2>8. QED BY <1>13, <1>14, <1>20, <2>1, <2>2, <2>3, <2>4, <2>5, <2>6, <2>7 DEF Mix, MixPc, MadePc
<1>26. ASSUME d.alone, Delivers(d) PROVE Own(d)'
  <2>1. Own(c) /\ Delivers(c) /\ c.pc \in MixPc BY <1>2, <1>14, <1>26 DEF Delivers, MixPc
  <2>2. /\ s \in Scripts /\ Full(t, e)
        /\ \A m \in DOMAIN Lines(s) : disk[LineFile(e, m)] = <<<<s, m>>>>
        /\ OnceEach(c) => heard = AboutIn(s, a)
    BY <1>2, <1>10, <2>1, OwnTakes DEF Undisturbed
  <2>3. \A m \in DOMAIN Lines(s) : m \in 1..MaxLines BY <2>2, Parts, SiteHas
  <2>4. OnceEach(d)' <=> OnceEach(c) BY <1>14, <1>15, QuietSame DEF OnceEach
  <2>5. /\ Full(t, e)' /\ \A x : Lines(x)' = Lines(x)
        /\ \A x, y : AboutIn(x, y)' = AboutIn(x, y)
    BY <1>15, <2>2, QuietSame
  <2>6. \A m \in DOMAIN Lines(s) : disk'[LineFile(e, m)] = <<<<s, m>>>> BY <1>17, <2>2, <2>3
  <2>7. disk'[File(FinalRow(e))] = disk[File(FinalRow(e))] BY <1>3, <1>17, Parts, FilesAre
  <2>8. /\ HeardIn(Lines(s), disk[File(FinalRow(e))])
        /\ OnceEach(c) => disk[File(FinalRow(e))] = Lines(s)
        /\ OnceEach(c) => \A m \in 1..(n - 1) : disk[ChapterFile(e, m)] = AboutIn(s, Chapters(t)[m])
    BY <1>2, <2>1 DEF Own, MadePc
  <2>9. ASSUME OnceEach(c), NEW m \in 1..n
        PROVE  disk'[ChapterFile(e, m)] = AboutIn(s, Chapters(t)[m])
    <3>1. CASE m = n BY <1>7, <1>17, <2>2, <2>9, <3>1 DEF f
    <3>2. CASE m # n
      <4>1. m \in 1..(n - 1) /\ m \in 1..MostChapters BY <1>3, <1>5, <1>6, <3>2
      <4>2. QED BY <1>17, <2>8, <2>9, <3>2, <4>1
    <3>3. QED BY <3>1, <3>2
  <2>10. (n + 1) - 1 = n BY <1>3
  <2> HIDE DEF pc
  <2>11. QED BY <1>14, <1>20, <2>2, <2>4, <2>5, <2>6, <2>7, <2>8, <2>9, <2>10 DEF Own, Delivers,
      MixPc, MadePc
<1>27. Good(d)'
  <2>1. ~ Delivers(d) => Own(d)' BY <1>14, <1>20 DEF Own, Delivers
  <2>2. QED BY <1>21, <1>25, <1>26, <2>1 DEF Good
<1>28. Continues(w, d) /\ AtWork(w) /\ call[w].episode = e
  BY <1>1, <1>2, <1>14 DEF Continues, AtWork
<1>29. /\ ready' \subseteq Scripts /\ status' \in [Episodes -> EpisodeStatus]
       /\ faults' \in Nat /\ requests' \in Nat
  BY SameIs DEF BuildChapter, MakeChapter, Same
<1>30. QED BY <1>9, <1>11, <1>14, <1>15, <1>17, <1>27, <1>28, <1>29, WriteStep

-----------------------------------------------------------------------------
(* Steps of the batches.                                                   *)

Apart == UNCHANGED <<site, ready, status, rows, disk, call, requests>> /\ faults' \in Nat
LEMMA ApartSame ==
  ASSUME Inv, UNCHANGED audioVars PROVE Apart
BY SameIs DEF Apart, audioVars, Same

LEMMA ShelfStep ==
  ASSUME Inv, Apart, NEW p \in Publishers, NEW b \in Batch, Set(p, b), BatchFits(b)',
         MoreFiles, bucket' \in [Files -> Seq(Heard)], FilesTell',
         listed' \subseteq Episodes, chapters' \in [Episodes -> SUBSET ShelfChapter],
         \A e \in listed' : bucket'[File(FinalRow(e))] # <<>>,
         \A e \in Episodes : \A c \in chapters'[e] :
           c.asset \in RowsOf("chapter", e) /\ bucket'[File(rows[c.asset])] # <<>>
  PROVE  Inv'
<1>1. Grows BY DEF Apart, Grows, MoreRows
<1>2. batch \in [Publishers -> Batch] /\ batch' = [batch EXCEPT ![p] = b] BY Parts DEF Types, Set
<1>3. Types'
  <2>1. batch' \in [Publishers -> Batch] BY <1>2
  <2>2. Scripts' = Scripts /\ Heard' = Heard BY SameSite DEF Apart
  <2>3. QED BY <2>1, <2>2, Parts DEF Types, Apart, Heard
<1>4. RowsStand'
  <2>1. (\A r : Real(r) => Real(r)') /\ \A r : InTable(r) => InTable(r)' BY <1>1, Parts, RowsGrow
  <2>2. (\A r : Planned(r)' = Planned(r)) /\ \A s, n : SegmentRow(s, n)' = SegmentRow(s, n)
    BY SameSite DEF Apart
  <2>3. ASSUME NEW i \in DOMAIN rows' PROVE Stands(rows[i])'
    <3>1. PICK r : r = rows[i]
      OBVIOUS
    <3>2. Stands(r) BY <3>1, Parts DEF RowsStand, Apart
    <3>3. Stands(r)' BY <2>1, <2>2, <3>2 DEF Stands
    <3>4. QED BY <3>1, <3>3 DEF Stands, Apart
  <2>4. QED BY <2>3 DEF RowsStand, Stands
<1>5. JobsStand'
  <2>1. \A w \in Workers : Good(call[w])'
    <3> TAKE w \in Workers
    <3>1. PICK c : c = call[w]
      OBVIOUS
    <3>2. Good(c)' BY <3>1, JobIs, GoodSame DEF Apart
    <3>3. QED BY <3>1, <3>2, GoodOf DEF Apart
  <2>2. Exclusive' BY Parts DEF JobsStand, Exclusive, AtWork, Apart
  <2>3. QED BY <2>1, <2>2 DEF JobsStand
<1>6. ShelfStands'
  <2>1. ASSUME NEW q \in Publishers PROVE BatchFits(batch[q])'
    <3>1. CASE q = p
      <4>1. batch'[q] = b BY <1>2, <3>1
      <4>2. QED BY <4>1 DEF BatchFits
    <3>2. CASE q # p
      <4>1. PICK c : c = batch[q]
        OBVIOUS
      <4>2. c \in Batch /\ BatchFits(c) BY <1>2, <4>1, Parts DEF ShelfStands
      <4>3. BatchFits(c)' BY <1>1, <4>2, Parts, BatchGrows
      <4>4. batch'[q] = c BY <1>2, <3>2, <4>1
      <4>5. QED BY <4>3, <4>4 DEF BatchFits
    <3>3. QED BY <3>1, <3>2
  <2>2. ASSUME NEW e \in Episodes, NEW c \in chapters'[e]
        PROVE  c.asset \in RowsOf("chapter", e)' /\ bucket'[ObjectPath(c)'] # <<>>
    BY DEF Apart, RowsOf, ObjectPath
  <2>3. QED BY <2>1, <2>2 DEF ShelfStands
<1>7. QED BY <1>3, <1>4, <1>5, <1>6 DEF Inv

\* Steps that upload nothing.
LEMMA PaperStep ==
  ASSUME Inv, Apart, UNCHANGED bucket, NEW p \in Publishers, NEW b \in Batch, Set(p, b), BatchFits(b),
         listed' \subseteq Episodes, chapters' \in [Episodes -> SUBSET ShelfChapter],
         \A e \in listed' : bucket[File(FinalRow(e))] # <<>>,
         \A e \in Episodes : \A c \in chapters'[e] :
           c.asset \in RowsOf("chapter", e) /\ bucket[File(rows[c.asset])] # <<>>
  PROVE  Inv'
<1>1. MoreFiles /\ bucket' \in [Files -> Seq(Heard)] /\ Grows
  BY Parts DEF Apart, MoreFiles, MoreRows, Grows
<1>2. BatchFits(b)' BY <1>1, Parts, BatchGrows
<1>3. FilesTell'
  <2>1. \A e, n, h : Speaks(e, n, h)' = Speaks(e, n, h) /\ TellsOf(e, n, h)' = TellsOf(e, n, h)
    BY SameSite DEF Apart
  <2>2. QED BY <2>1, Parts DEF FilesTell, Apart
<1>4. QED BY <1>1, <1>2, <1>3, ShelfStep

\* Steps that leave what is shown as it is.
LEMMA ShownStep ==
  ASSUME Inv, Apart, UNCHANGED <<listed, chapters, bucket>>, NEW p \in Publishers,
         NEW b \in Batch, Set(p, b), BatchFits(b)
  PROVE  Inv'
<1>1. listed' \subseteq Episodes /\ chapters' \in [Episodes -> SUBSET ShelfChapter]
  BY Parts DEF Types
<1>2. /\ \A e \in listed' : bucket[File(FinalRow(e))] # <<>>
      /\ \A e \in Episodes : \A c \in chapters'[e] :
           c.asset \in RowsOf("chapter", e) /\ bucket[File(rows[c.asset])] # <<>>
  BY Parts DEF ShelfStands, ObjectPath
<1>3. QED BY <1>1, <1>2, PaperStep

\* Steps that upload a file.
Uploads(f) == bucket' = [bucket EXCEPT ![f] = disk[f]]
LEMMA UploadStep ==
  ASSUME Inv, Apart, UNCHANGED <<listed, chapters>>, NEW f \in Files, disk[f] # <<>>, Uploads(f),
         NEW p \in Publishers, NEW b \in Batch, Set(p, b), BatchFits(b)'
  PROVE  Inv'
<1>1. bucket \in [Files -> Seq(Heard)] /\ disk \in [Files -> Seq(Heard)] BY Parts
<1>2. /\ bucket' \in [Files -> Seq(Heard)] /\ bucket'[f] = disk[f]
      /\ \A g \in Files : g # f => bucket'[g] = bucket[g]
  BY <1>1 DEF Uploads
<1>3. MoreFiles BY <1>2 DEF MoreFiles, Apart
<1>4. FilesTell'
  <2>1. \A e, n, h : Speaks(e, n, h)' = Speaks(e, n, h) /\ TellsOf(e, n, h)' = TellsOf(e, n, h)
    BY SameSite DEF Apart
  <2>2. ASSUME NEW e \in Episodes, NEW n \in 1..MostChapters
        PROVE  bucket'[ChapterFile(e, n)] \in {bucket[ChapterFile(e, n)], disk[ChapterFile(e, n)]}
    <3>1. ChapterFile(e, n) \in Files BY Parts, FilesAre
    <3>2. QED BY <1>2, <3>1
  <2>3. QED BY <2>1, <2>2, Parts DEF FilesTell, Apart
<1>5. Grows BY <1>3 DEF Grows, MoreRows, Apart
<1>6. listed' \subseteq Episodes /\ chapters' \in [Episodes -> SUBSET ShelfChapter]
  BY Parts DEF Types
<1>7. /\ \A e \in listed' : bucket'[File(FinalRow(e))] # <<>>
      /\ \A e \in Episodes : \A c \in chapters'[e] :
           c.asset \in RowsOf("chapter", e) /\ bucket'[File(rows[c.asset])] # <<>>
  <2>1. /\ \A e \in Episodes : bucket[File(FinalRow(e))] # <<>> => bucket'[File(FinalRow(e))] # <<>>
        /\ \A e : \A i \in RowsOf("chapter", e) :
             bucket[File(rows[i])] # <<>> => bucket'[File(rows[i])] # <<>>
    BY <1>5, Parts, ShelfRows DEF Apart
  <2>2. QED BY <1>6, <2>1, Parts DEF ShelfStands, ObjectPath
<1>8. QED BY <1>2, <1>3, <1>4, <1>6, <1>7, ShelfStep

LEMMA NoBatchIs == NoBatch \in Batch /\ BatchFits(NoBatch)
<1>1. 1 \in Episodes BY AudioAssumption DEF Episodes
<1>2. <<>> \in Seq(Nat) /\ 0 \in Nat
  OBVIOUS
<1>3. NoBatch \in Batch BY <1>1, <1>2 DEF NoBatch, Batch, BatchPc
<1>4. QED BY <1>3 DEF NoBatch, BatchFits

LEMMA BatchIs ==
  ASSUME Inv, NEW p \in Publishers
  PROVE  batch[p] \in Batch /\ BatchFits(batch[p])
BY Parts DEF Types, ShelfStands

LEMMA StartBatchKeeps ==
  ASSUME Inv, NEW p \in Publishers, StartBatch(p), UNCHANGED audioVars PROVE Inv'
<1> DEFINE b == [NoBatch EXCEPT !.pc = "pick", !.todo = {e \in Episodes : HasFinal(e)}]
<1>1. b \in Batch /\ b.pc = "pick" /\ b.todo = {e \in Episodes : HasFinal(e)}
  BY NoBatchIs DEF NoBatch, Batch, BatchPc
<1>2. Set(p, b) /\ UNCHANGED <<listed, chapters, bucket>> BY DEF StartBatch
<1> HIDE DEF b
<1>3. BatchFits(b) BY <1>1 DEF BatchFits
<1>4. QED BY <1>1, <1>2, <1>3, ApartSame, ShownStep

LEMMA PickEpisodeKeeps ==
  ASSUME Inv, NEW p \in Publishers, PickEpisode(p), UNCHANGED audioVars PROVE Inv'
<1>1. PICK b : b = batch[p]
  OBVIOUS
<1>2. b \in Batch /\ (\A e \in b.todo : HasFinal(e)) /\ b.todo \subseteq Episodes
  BY <1>1, BatchIs DEF BatchFits, Batch
<1>3. ASSUME NEW e \in b.todo, Set(p, [NoBatch EXCEPT !.pc = "upload", !.todo = b.todo \ {e}, !.episode = e])
      PROVE  Inv'
  <2> DEFINE d == [NoBatch EXCEPT !.pc = "upload", !.todo = b.todo \ {e}, !.episode = e]
  <2>1. d \in Batch /\ d.pc = "upload" /\ d.todo = b.todo \ {e} /\ d.episode = e
    BY <1>2, NoBatchIs DEF NoBatch, Batch, BatchPc
  <2>2. Set(p, d) /\ UNCHANGED <<listed, chapters, bucket>> BY <1>3 DEF PickEpisode
  <2> HIDE DEF d
  <2>3. BatchFits(d) BY <1>2, <2>1 DEF BatchFits
  <2>4. QED BY <2>1, <2>2, <2>3, ApartSame, ShownStep
<1>4. ASSUME Set(p, NoBatch) PROVE Inv' BY <1>4, NoBatchIs, ApartSame, ShownStep DEF PickEpisode
<1>5. QED BY <1>1, <1>3, <1>4 DEF PickEpisode

LEMMA BatchFailsKeeps ==
  ASSUME Inv, NEW p \in Publishers, BatchFails(p),
         UNCHANGED <<site, ready, status, rows, disk, call, requests>>
  PROVE  Inv'
<1>1. Apart BY SameIs DEF Apart, Same, BatchFails, Fault
<1>2. QED BY <1>1, NoBatchIs, ShownStep DEF BatchFails

\* A row of a final MP3 has its file.
LEMMA FinalIs ==
  ASSUME Inv, NEW e \in Episodes, HasFinal(e)
  PROVE  FinalFile(e) \in Files /\ File(FinalRow(e)) = FinalFile(e) /\ disk[FinalFile(e)] # <<>>
<1>1. FinalFile(e) \in Files /\ File(FinalRow(e)) = FinalFile(e) BY Parts, FilesAre
<1>2. Real(FinalRow(e)) BY Parts DEF RowsStand, Stands, HasFinal
<1>3. QED BY <1>1, <1>2 DEF Real

LEMMA UploadFinalKeeps ==
  ASSUME Inv, NEW p \in Publishers, UploadFinal(p), UNCHANGED audioVars PROVE Inv'
<1>1. PICK b : b = batch[p]
  OBVIOUS
<1>2. b \in Batch /\ BatchFits(b) /\ b.pc = "upload" /\ b.episode \in Episodes
  BY <1>1, BatchIs DEF Batch, UploadFinal
<1> DEFINE d == [b EXCEPT !.pc = "upsert"]
           f == FinalFile(b.episode)
<1>3. d \in Batch /\ d.pc = "upsert" /\ d.todo = b.todo /\ d.episode = b.episode
  BY <1>2 DEF Batch, BatchPc
<1>4. f \in Files /\ File(FinalRow(b.episode)) = f /\ disk[f] # <<>> BY <1>2, FinalIs DEF BatchFits
<1>5. Set(p, d) /\ UNCHANGED <<listed, chapters>> BY <1>1 DEF UploadFinal
<1>6. Uploads(f) BY <1>1, <1>4 DEF UploadFinal, Uploads
<1> HIDE DEF d, f
<1>7. bucket'[f] = disk[f] BY <1>4, <1>6, Parts DEF Uploads
<1>8. BatchFits(d)'
  <2>1. \A e : HasFinal(e)' = HasFinal(e) BY DEF HasFinal, audioVars
  <2>2. QED BY <1>2, <1>3, <1>4, <1>7, <2>1 DEF BatchFits
<1>9. QED BY <1>3, <1>4, <1>5, <1>6, <1>8, ApartSame, UploadStep

LEMMA UpsertEpisodeKeeps ==
  ASSUME Inv, NEW p \in Publishers, UpsertEpisode(p), UNCHANGED audioVars PROVE Inv'
<1>1. PICK b : b = batch[p]
  OBVIOUS
<1>2. b \in Batch /\ BatchFits(b) /\ b.pc = "upsert" /\ b.episode \in Episodes
  BY <1>1, BatchIs DEF Batch, UpsertEpisode
<1> DEFINE d == [b EXCEPT !.pc = "clear"]
<1>3. d \in Batch /\ d.pc = "clear" /\ d.todo = b.todo BY <1>2 DEF Batch, BatchPc
<1>4. Set(p, d) /\ listed' = listed \cup {b.episode} /\ UNCHANGED <<chapters, bucket>>
  BY <1>1 DEF UpsertEpisode
<1> HIDE DEF d
<1>5. BatchFits(d) BY <1>2, <1>3 DEF BatchFits
<1>6. listed' \subseteq Episodes /\ chapters' \in [Episodes -> SUBSET ShelfChapter]
  BY <1>2, <1>4, Parts DEF Types
<1>7. /\ \A e \in listed' : bucket[File(FinalRow(e))] # <<>>
      /\ \A e \in Episodes : \A c \in chapters'[e] :
           c.asset \in RowsOf("chapter", e) /\ bucket[File(rows[c.asset])] # <<>>
  BY <1>2, <1>4, Parts DEF ShelfStands, ObjectPath, BatchFits
<1>8. QED BY <1>3, <1>4, <1>5, <1>6, <1>7, ApartSame, PaperStep

LEMMA ClearChaptersKeeps ==
  ASSUME Inv, NEW p \in Publishers, ClearChapters(p), UNCHANGED audioVars PROVE Inv'
<1>1. PICK b : b = batch[p]
  OBVIOUS
<1>2. b \in Batch /\ BatchFits(b) /\ b.pc = "clear" /\ b.episode \in Episodes
  BY <1>1, BatchIs DEF Batch, ClearChapters
<1>3. PICK ids \in InOrder("chapter", b.episode) :
         Set(p, [b EXCEPT !.pc = IF ids = <<>> THEN "pick" ELSE "chapter", !.assets = ids, !.next = 1])
  BY <1>1 DEF ClearChapters
<1>4. /\ ids \in Seq(Nat)
      /\ \A i \in DOMAIN ids : ids[i] \in RowsOf("chapter", b.episode)
      /\ ids # <<>> => 1 \in DOMAIN ids
  <2>1. Ordered(ids, RowsOf("chapter", b.episode)) /\ ids \in Seq(Nat) BY Parts, OrderedIs
  <2>2. ids # <<>> => 1 \in DOMAIN ids
    <3>1. ids # <<>> => Len(ids) # 0 BY <2>1, EmptySeq
    <3>2. DOMAIN ids = 1..Len(ids) /\ Len(ids) \in Nat BY <2>1
    <3>3. QED BY <3>1, <3>2
  <2>3. QED BY <2>1, <2>2 DEF Ordered
<1> DEFINE d == [b EXCEPT !.pc = IF ids = <<>> THEN "pick" ELSE "chapter", !.assets = ids, !.next = 1]
<1>5. /\ d \in Batch /\ d.todo = b.todo /\ d.episode = b.episode /\ d.assets = ids /\ d.next = 1
      /\ d.pc = IF ids = <<>> THEN "pick" ELSE "chapter"
  BY <1>2, <1>4 DEF Batch, BatchPc
<1>6. Set(p, d) BY <1>3
<1> HIDE DEF d
<1>7. BatchFits(d) BY <1>2, <1>4, <1>5 DEF BatchFits, Uploaded
<1>8. /\ listed' \subseteq Episodes /\ chapters' \in [Episodes -> SUBSET ShelfChapter]
      /\ chapters'[b.episode] = {}
      /\ \A e \in Episodes : e # b.episode => chapters'[e] = chapters[e]
  BY <1>1, <1>2, Parts DEF ClearChapters, Types
<1>9. /\ \A e \in listed' : bucket[File(FinalRow(e))] # <<>>
      /\ \A e \in Episodes : \A c \in chapters'[e] :
           c.asset \in RowsOf("chapter", e) /\ bucket[File(rows[c.asset])] # <<>>
  BY <1>8, Parts DEF ShelfStands, ObjectPath, ClearChapters
<1>10. UNCHANGED bucket BY DEF ClearChapters
<1>11. QED BY <1>5, <1>6, <1>7, <1>8, <1>9, <1>10, ApartSame, PaperStep

\* A row of a chapter has its file.
LEMMA ChapterIs ==
  ASSUME Inv, NEW e \in Episodes, NEW i \in RowsOf("chapter", e)
  PROVE  /\ rows[i].pos \in 1..MostChapters /\ rows[i].article \in Articles
         /\ File(rows[i]) = ChapterFile(e, rows[i].pos)
         /\ File(rows[i]) \in Files /\ disk[File(rows[i])] # <<>> /\ Planned(rows[i])
         /\ rows[i].kind = "chapter" /\ rows[i].episode = e
<1>1. i \in DOMAIN rows /\ rows[i].kind = "chapter" /\ rows[i].episode = e BY DEF RowsOf
<1>2. Real(rows[i]) /\ Planned(rows[i]) BY <1>1, Parts DEF RowsStand, Stands
<1>3. /\ rows[i].article \in Articles /\ rows[i].pos \in 1..MostChapters
      /\ rows[i] = ChapterRow(e, rows[i].pos, rows[i].article)
  BY <1>1, <1>2 DEF Real, SegmentRow, FinalRow
<1>4. File(rows[i]) = ChapterFile(e, rows[i].pos) /\ ChapterFile(e, rows[i].pos) \in Files
  BY <1>3, Parts, FilesAre
<1>5. QED BY <1>1, <1>2, <1>3, <1>4 DEF Real

LEMMA UploadChapterKeeps ==
  ASSUME Inv, NEW p \in Publishers, UploadChapter(p), UNCHANGED audioVars PROVE Inv'
<1>1. PICK b : b = batch[p]
  OBVIOUS
<1>2. b \in Batch /\ BatchFits(b) /\ b.pc = "chapter" /\ b.episode \in Episodes /\ b.next \in Nat
  BY <1>1, BatchIs DEF Batch, UploadChapter
<1> DEFINE n == b.next
           N == Len(b.assets)
           d == [b EXCEPT !.pc = IF b.next = Len(b.assets) THEN "insert" ELSE @, !.next = @ + 1]
<1>3. PICK f : f = File(rows[b.assets[n]])
  OBVIOUS
<1>4. /\ DOMAIN b.assets = 1..N /\ N \in Nat /\ n \in 1..N
      /\ \A i \in 1..N : b.assets[i] \in RowsOf("chapter", b.episode)
      /\ Uploaded(b.assets, n - 1)
  BY <1>2 DEF BatchFits, Batch
<1>5. f \in Files /\ disk[f] # <<>> BY <1>2, <1>3, <1>4, ChapterIs
<1>6. Set(p, d) /\ UNCHANGED <<listed, chapters>> BY <1>1 DEF UploadChapter
<1>7. Uploads(f) BY <1>1, <1>3 DEF UploadChapter, Uploads
<1>8. /\ d \in Batch /\ d.todo = b.todo /\ d.episode = b.episode /\ d.assets = b.assets
      /\ d.next = n + 1 /\ d.pc = IF n = N THEN "insert" ELSE "chapter"
  <2>1. n + 1 \in Nat /\ {"insert", "chapter"} \subseteq BatchPc BY <1>4 DEF BatchPc
  <2>2. d = [b EXCEPT !.pc = IF n = N THEN "insert" ELSE "chapter", !.next = n + 1]
    BY <1>2 DEF Batch
  <2> HIDE DEF d, n, N
  <2>3. QED BY <1>2, <2>1, <2>2 DEF Batch
<1> HIDE DEF d
<1>9. /\ bucket'[f] = disk[f] /\ \A g \in Files : g # f => bucket'[g] = bucket[g]
  BY <1>5, <1>7, Parts DEF Uploads
<1>10. ASSUME NEW i \in 1..n PROVE bucket'[File(rows[b.assets[i]])] # <<>>
  <2>1. i \in 1..N BY <1>4
  <2>2. File(rows[b.assets[i]]) \in Files BY <1>2, <1>4, <2>1, ChapterIs
  <2>3. CASE i = n BY <1>3, <1>5, <1>9, <2>3
  <2>4. CASE i # n
    <3>1. i \in 1..(n - 1) BY <1>4, <2>4
    <3>2. QED BY <1>4, <1>5, <1>9, <2>2, <3>1 DEF Uploaded
  <2>5. QED BY <2>3, <2>4
<1>11. Uploaded(b.assets, n)' BY <1>1, <1>10 DEF Uploaded, audioVars
<1>12. BatchFits(d)'
  <2>1. \A e : HasFinal(e)' = HasFinal(e) /\ RowsOf("chapter", e)' = RowsOf("chapter", e)
    BY DEF HasFinal, RowsOf, audioVars
  <2>2. n + 1 - 1 = n /\ (n # N => n + 1 \in 1..N) BY <1>4
  <2>3. n = N => Uploaded(d.assets, Len(d.assets))' BY <1>8, <1>11 DEF Uploaded
  <2>4. Uploaded(d.assets, d.next - 1)'
    <3>1. d.next - 1 = n /\ d.assets = b.assets BY <1>4, <1>8
    <3>2. QED BY <1>11, <3>1 DEF Uploaded
  <2>5. \A e \in d.todo : HasFinal(e)' BY <1>2, <1>8, <2>1 DEF BatchFits
  <2>6. \A i \in DOMAIN d.assets : d.assets[i] \in RowsOf("chapter", d.episode)' BY <1>4, <1>8, <2>1
  <2>7. d.pc = "chapter" => d.next \in DOMAIN d.assets BY <1>4, <1>8, <2>2
  <2>8. QED BY <1>8, <2>3, <2>4, <2>5, <2>6, <2>7 DEF BatchFits
<1>13. QED BY <1>5, <1>6, <1>7, <1>8, <1>12, ApartSame, UploadStep

LEMMA InsertChaptersKeeps ==
  ASSUME Inv, NEW p \in Publishers, InsertChapters(p), UNCHANGED audioVars PROVE Inv'
<1>1. PICK b : b = batch[p]
  OBVIOUS
<1>2. b \in Batch /\ BatchFits(b) /\ b.pc = "insert" /\ b.episode \in Episodes /\ b.assets \in Seq(Nat)
  BY <1>1, BatchIs DEF Batch, InsertChapters
<1> DEFINE e == b.episode
           new == {[asset |-> b.assets[i], position |-> i] : i \in DOMAIN b.assets}
           kept == {c \in chapters[e] : c.asset \notin ToSet(b.assets)}
           d == [b EXCEPT !.pc = "pick"]
<1>3. d \in Batch /\ d.pc = "pick" /\ d.todo = b.todo BY <1>2 DEF Batch, BatchPc
<1>4. Set(p, d) /\ UNCHANGED <<listed, bucket>> /\ chapters' = [chapters EXCEPT ![e] = kept \cup new]
  BY <1>1 DEF InsertChapters
<1> HIDE DEF d
<1>5. BatchFits(d) BY <1>2, <1>3 DEF BatchFits
<1>6. DOMAIN b.assets = 1..Len(b.assets) BY <1>2
<1>7. ASSUME NEW c \in new
      PROVE  /\ c \in ShelfChapter /\ c.asset \in RowsOf("chapter", e)
             /\ bucket[File(rows[c.asset])] # <<>>
  <2>1. PICK i \in DOMAIN b.assets : c = [asset |-> b.assets[i], position |-> i]
    OBVIOUS
  <2>2. i \in Nat /\ b.assets[i] \in Nat BY <1>2, <1>6
  <2>3. c.asset = b.assets[i] /\ c \in ShelfChapter BY <2>1, <2>2 DEF ShelfChapter
  <2>4. QED BY <1>2, <1>6, <2>3 DEF BatchFits, Uploaded
<1>8. ASSUME NEW c \in kept
      PROVE  /\ c \in ShelfChapter /\ c.asset \in RowsOf("chapter", e)
             /\ bucket[File(rows[c.asset])] # <<>>
  BY <1>2, Parts DEF Types, ShelfStands, ObjectPath
<1>9. /\ chapters'[e] = kept \cup new
      /\ \A x \in Episodes : x # e => chapters'[x] = chapters[x]
      /\ DOMAIN chapters' = Episodes /\ chapters' = [x \in Episodes |-> chapters'[x]]
  BY <1>2, <1>4, Parts DEF Types
<1> HIDE DEF kept, new
<1>10. chapters' \in [Episodes -> SUBSET ShelfChapter]
  <2>1. \A x \in Episodes : chapters'[x] \in SUBSET ShelfChapter
    BY <1>7, <1>8, <1>9, Parts DEF Types
  <2>2. QED BY <1>9, <2>1
<1>11. /\ \A x \in listed' : bucket[File(FinalRow(x))] # <<>>
       /\ \A x \in Episodes : \A c \in chapters'[x] :
            c.asset \in RowsOf("chapter", x) /\ bucket[File(rows[c.asset])] # <<>>
  BY <1>4, <1>7, <1>8, <1>9, Parts DEF ShelfStands, ObjectPath
<1>12. listed' \subseteq Episodes BY <1>4, Parts DEF Types
<1>13. QED BY <1>3, <1>4, <1>5, <1>10, <1>11, <1>12, ApartSame, PaperStep

-----------------------------------------------------------------------------
(* The invariant holds.                                                    *)

LEMMA InitHolds == Init => Inv
<1> SUFFICES ASSUME Init PROVE Inv
  OBVIOUS
<1>1. /\ site \in Sites /\ ready = {} /\ status = [e \in Episodes |-> "draft"] /\ rows = <<>>
      /\ disk = [f \in Files |-> <<>>] /\ call = [w \in Workers |-> NoCall]
      /\ faults = 0 /\ requests = 0
      /\ listed = {} /\ chapters = [e \in Episodes |-> {}] /\ bucket = [f \in Files |-> <<>>]
      /\ batch = [p \in Publishers |-> NoBatch]
  BY DEF Init, AudioInit
<1>2. rows \in Seq(AudioAsset) /\ DOMAIN rows = {} BY <1>1
<1>3. Types
  <2>1. <<>> \in Seq((Scripts \cup {0}) \X (0..MaxLines))
    OBVIOUS
  <2>2. disk \in [Files -> Seq((Scripts \cup {0}) \X (0..MaxLines))] /\ bucket = disk BY <1>1, <2>1
  <2>3. call \in [Workers -> Call] /\ batch \in [Publishers -> Batch] BY <1>1, NoCallIs, NoBatchIs
  <2>4. status \in [Episodes -> EpisodeStatus] BY <1>1 DEF EpisodeStatus
  <2>5. chapters \in [Episodes -> SUBSET ShelfChapter] BY <1>1
  <2>6. QED BY <1>1, <1>2, <2>2, <2>3, <2>4, <2>5 DEF Types
<1>4. RowsStand BY <1>2 DEF RowsStand
<1>5. FilesTell
  <2>1. /\ \A e \in Episodes : \A n \in 1..MaxLines : disk[LineFile(e, n)] = <<>>
        /\ \A e \in Episodes : \A n \in 1..MostChapters :
             disk[ChapterFile(e, n)] = <<>> /\ bucket[ChapterFile(e, n)] = <<>>
    BY <1>1, FilesAre
  <2>2. DOMAIN <<>> = {}
    OBVIOUS
  <2>3. QED BY <2>1, <2>2 DEF FilesTell, Speaks, TellsOf
<1>6. JobsStand
  <2>1. \A w \in Workers : call[w] = NoCall BY <1>1
  <2>2. \A w \in Workers : ~ AtWork(w) BY <2>1 DEF AtWork, NoCall
  <2>3. QED BY <2>1, <2>2, NoCallIs DEF JobsStand, Exclusive
<1>7. ShelfStands
  <2>1. \A p \in Publishers : batch[p] = NoBatch BY <1>1
  <2>2. \A e \in Episodes : chapters[e] = {} BY <1>1
  <2>3. QED BY <1>1, <2>1, <2>2, NoBatchIs DEF ShelfStands
<1>8. QED BY <1>3, <1>4, <1>5, <1>6, <1>7 DEF Inv

LEMMA WorkerKeeps ==
  ASSUME Inv, NEW w \in Workers, Worker(w), UNCHANGED shelfVars PROVE Inv'
<1>1. CASE Work(w)
  BY <1>1, ScheduledKeeps, RerunKeeps, HealthyKeeps, SpeakKeeps, SaveKeeps, EndSpeechKeeps,
     LoadKeeps, NothingToStitchKeeps, StitchKeeps, BuildChaptersKeeps, BuildChapterKeeps,
     CommitKeeps DEF Work
<1>2. CASE ~ Work(w)
  BY <1>2, GenerateKeeps, RunPipelineKeeps, UnavailableKeeps, SpeakFailsKeeps, StitchFailsKeeps,
     CrashKeeps DEF Worker
<1>3. QED BY <1>1, <1>2

LEMMA PublishBatchKeeps ==
  ASSUME Inv, NEW p \in Publishers, PublishBatch(p), UNCHANGED audioVars PROVE Inv'
BY StartBatchKeeps, PickEpisodeKeeps, UploadFinalKeeps, UpsertEpisodeKeeps, ClearChaptersKeeps,
   UploadChapterKeeps, InsertChaptersKeeps DEF PublishBatch

\* Nothing happens.
LEMMA StutterKeeps == ASSUME Inv, UNCHANGED vars PROVE Inv'
<1>1. /\ UNCHANGED <<site, ready, status, rows, disk, call, faults, requests>>
      /\ UNCHANGED <<listed, chapters, bucket, batch>>
  BY DEF vars, audioVars, shelfVars
<1>2. Still /\ Grows BY <1>1, StillStands DEF Still, shelfVars
<1>3. RowsStand' /\ FilesTell' /\ ShelfStands' BY <1>2, StillStands
<1>4. \A w \in Workers : Good(call[w])'
  <2> TAKE w \in Workers
  <2>1. PICK c : c = call[w]
    OBVIOUS
  <2>2. Good(c)' BY <1>1, <2>1, JobIs, GoodSame
  <2>3. QED BY <1>1, <2>1, <2>2, GoodOf
<1>5. JobsStand' BY <1>1, <1>4, Parts DEF JobsStand, Exclusive, AtWork
<1>6. Types' BY <1>1, Parts, SameSite DEF Types
<1>7. QED BY <1>3, <1>5, <1>6 DEF Inv

LEMMA StepKeeps == Inv /\ [Next]_vars => Inv'
<1> SUFFICES ASSUME Inv, [Next]_vars PROVE Inv'
  OBVIOUS
<1>1. CASE AudioNext /\ UNCHANGED shelfVars
  <2>1. site.workers \subseteq Workers BY Parts, AudioAssumption
  <2>2. ASSUME NEW w \in site.workers, Worker(w) PROVE Inv' BY <1>1, <2>1, <2>2, WorkerKeeps
  <2>3. ASSUME NEW s \in Scripts \ ready, ScriptReady(s) PROVE Inv' BY <1>1, <2>3, ScriptReadyKeeps
  <2>4. QED BY <1>1, <2>2, <2>3 DEF AudioNext
<1>2. ASSUME NEW p \in Publishers, PublishBatch(p), UNCHANGED audioVars PROVE Inv'
  BY <1>2, PublishBatchKeeps
<1>3. ASSUME NEW p \in Publishers, BatchFails(p),
             UNCHANGED <<site, ready, status, rows, disk, call, requests>>
      PROVE  Inv'
  BY <1>3, BatchFailsKeeps
<1>4. CASE UNCHANGED vars BY <1>4, StutterKeeps
<1>5. QED BY <1>1, <1>2, <1>3, <1>4 DEF Next

-----------------------------------------------------------------------------
(* What it says.                                                           *)

LEMMA TypesAreOK == Inv => TypeOK
<1> SUFFICES ASSUME Inv PROVE TypeOK
  OBVIOUS
<1>1. ASSUME NEW w \in Workers
      PROVE  /\ call[w].pc \in {"stitch", "chapter"} => call[w].takes # <<>>
             /\ \A i \in DOMAIN call[w].made : call[w].made[i].episode = call[w].episode
  <2>1. Mix(call[w]) BY JobIs DEF Good
  <2>2. QED BY <2>1 DEF Mix, MixPc, MadePc, Listing
<1>2. QED BY <1>1, Parts DEF Types, TypeOK, AudioTypeOK

LEMMA RowsAreWhole == Inv => RowsHaveFiles
BY Parts DEF RowsStand, Stands, Real, RowsHaveFiles

\* The chapters of a script are its articles.
LEMMA PlanHas ==
  ASSUME site \in Sites, NEW s \in Scripts
  PROVE  LET articles == {ArticleOf(s, n) : n \in DOMAIN Lines(s)} \ {NoArticle}
         IN /\ Plan(s) \in Seq(Articles)
            /\ \A n \in DOMAIN Plan(s) : Plan(s)[n] \in articles
            /\ \A a \in articles : \E n \in DOMAIN Plan(s) : Plan(s)[n] = a
            /\ Len(Plan(s)) = Cardinality(articles)
<1> DEFINE articles == {ArticleOf(s, n) : n \in DOMAIN Lines(s)} \ {NoArticle}
<1>1. /\ Reading(s) \in Seq(AudioAsset) /\ DOMAIN Reading(s) = DOMAIN Lines(s)
      /\ \A n \in DOMAIN Lines(s) : Reading(s)[n].article = ArticleOf(s, n)
      /\ Plan(s) = Chapters(Reading(s))
  BY ReadingIs
<1>2. PICK t \in Seq(AudioAsset) : t = Reading(s) BY <1>1
<1>3. PICK c : c = Plan(s)
  OBVIOUS
<1>4. /\ c \in Seq(Articles)
      /\ \A n \in DOMAIN c : \E k \in DOMAIN t : t[k].article = c[n]
      /\ \A k \in DOMAIN t : t[k].article # NoArticle => \E n \in DOMAIN c : c[n] = t[k].article
      /\ \A i, j \in DOMAIN c : c[i] = c[j] => i = j
  BY <1>1, <1>2, <1>3, ChaptersHave
<1>5. NoArticle \notin Articles /\ IsFiniteSet(Articles) BY AudioAssumption
<1>6. PICK m \in Nat : m = Len(c) /\ DOMAIN c = 1..m BY <1>4
<1>7. \A n \in 1..m : c[n] \in articles
  <2> TAKE n \in 1..m
  <2>1. PICK k \in DOMAIN t : t[k].article = c[n] BY <1>4, <1>6
  <2>2. c[n] \in Articles BY <1>4, <1>6
  <2>3. QED BY <1>1, <1>2, <1>5, <2>1, <2>2
<1>8. \A a \in articles : \E n \in 1..m : c[n] = a BY <1>1, <1>2, <1>4, <1>6
<1> HIDE DEF articles
<1>9. m = Cardinality(articles)
  <2>1. IsFiniteSet(1..m) /\ Cardinality(1..m) = m BY FS_Interval
  <2>2. c \in [1..m -> articles] BY <1>4, <1>6, <1>7
  <2>3. c \in Bijection(1..m, articles)
    BY <1>4, <1>6, <1>8, <2>2 DEF Bijection, Injection, Surjection, IsInjective
  <2>4. ExistsBijection(1..m, articles) BY <2>3 DEF ExistsBijection
  <2>5. QED BY <2>1, <2>4, FS_Bijection
<1>10. QED BY <1>3, <1>4, <1>6, <1>7, <1>8, <1>9 DEF articles

LEMMA DeliveriesAreWhole == Inv => ScheduledIsWhole
<1> SUFFICES ASSUME Inv, NEW w \in Workers, call[w].pc = "commit", call[w].op = "scheduled", call[w].alone
             PROVE  LET c == call[w]
                    IN /\ HeardIn(Lines(c.script), disk[File(Head(c.made))])
                       /\ Cardinality(RowsOf("segment", c.episode)) = Len(Lines(c.script)) =>
                            Exact(c.script, Head(c.made), Tail(c.made))
  BY DEF ScheduledIsWhole
<1>1. PICK c \in Call : c = call[w] BY JobIs
<1>2. /\ c.pc = "commit" /\ Speech(c) /\ Mix(c) /\ Own(c) /\ Delivers(c) /\ c.pc \in MixPc /\ c.pc \in MadePc
  BY <1>1, JobIs DEF Good, Delivers, MixPc, MadePc
<1> DEFINE s == c.script
           e == c.episode
           made == c.made
<1>3. s \in Scripts /\ e = EpisodeOf(s) /\ e \in Episodes
  <2>1. s \in Scripts /\ e = EpisodeOf(s) BY <1>2 DEF Speech, Scripted
  <2>2. QED BY <2>1, Parts, SiteHas
<1>4. /\ made \in Seq(AudioAsset) /\ Len(made) = Len(Chapters(c.takes)) + 1
      /\ c.next = Len(Chapters(c.takes)) + 1
      /\ made[1] = FinalRow(e)
      /\ \A n \in 1..(c.next - 1) : made[n + 1] = ChapterRow(e, n, Chapters(c.takes)[n])
  BY <1>2 DEF Mix, Call
<1>5. Chapters(c.takes) \in Seq(Articles) BY ChaptersHave DEF Call
<1>6. PICK m \in Nat : m = Len(Chapters(c.takes)) BY <1>5
<1>7. /\ Head(made) = FinalRow(e) /\ Tail(made) \in Seq(AudioAsset) /\ Len(Tail(made)) = m
      /\ DOMAIN Tail(made) = 1..m
      /\ \A n \in 1..m : Tail(made)[n] = ChapterRow(e, n, Chapters(c.takes)[n])
  <2>1. Len(made) = m + 1 /\ Head(made) = made[1] /\ made # <<>> BY <1>4, <1>6
  <2>2. Tail(made) \in Seq(AudioAsset) /\ Len(Tail(made)) = m BY <1>4, <2>1
  <2>3. \A n \in 1..m : Tail(made)[n] = made[n + 1] BY <1>4, <2>1
  <2>4. c.next - 1 = m BY <1>4, <1>6
  <2>5. QED BY <1>4, <2>1, <2>2, <2>3, <2>4
<1>8. HeardIn(Lines(s), disk[File(FinalRow(e))]) BY <1>2 DEF Own
<1>9. ASSUME OnceEach(c) PROVE Exact(s, FinalRow(e), Tail(made))
  <2>1. PICK t : t = Tail(made)
    OBVIOUS
  <2>2. /\ disk[File(FinalRow(e))] = Lines(s)
        /\ \A n \in 1..m : disk[ChapterFile(e, n)] = AboutIn(s, Chapters(c.takes)[n])
    <3>1. c.next - 1 = m BY <1>4, <1>6
    <3>2. QED BY <1>2, <1>9, <3>1 DEF Own
  <2>3. Chapters(c.takes) = Plan(s)
    <3>1. c.takes = Reading(s) BY <1>2, <1>9, OwnTakes
    <3>2. QED BY <1>3, <3>1, Parts, ReadingIs
  <2> DEFINE articles == {ArticleOf(s, n) : n \in DOMAIN Lines(s)} \ {NoArticle}
  <2>4. /\ \A n \in 1..m : Plan(s)[n] \in articles
        /\ \A a \in articles : \E n \in 1..m : Plan(s)[n] = a
        /\ m = Cardinality(articles)
    <3>1. /\ Plan(s) \in Seq(Articles)
          /\ \A n \in DOMAIN Plan(s) : Plan(s)[n] \in articles
          /\ \A a \in articles : \E n \in DOMAIN Plan(s) : Plan(s)[n] = a
          /\ Len(Plan(s)) = Cardinality(articles)
      BY <1>3, Parts, PlanHas
    <3>2. DOMAIN Plan(s) = 1..m /\ Len(Plan(s)) = m BY <1>6, <2>3, <3>1
    <3> HIDE DEF articles
    <3>3. QED BY <3>1, <3>2
  <2>5. ToSet(t) = {t[n] : n \in 1..m} /\ Len(t) = m BY <1>7, <2>1 DEF ToSet
  <2>6. \A n \in 1..m : t[n] = ChapterRow(e, n, Plan(s)[n]) BY <1>7, <2>1, <2>3
  <2>7. \A n \in 1..m : t[n].article = Plan(s)[n] /\ File(t[n]) = ChapterFile(e, n)
    <3>1. \A n, a : ChapterRow(e, n, a).article = a BY DEF ChapterRow
    <3>2. \A n, a : File(ChapterRow(e, n, a)) = ChapterFile(e, n) BY Parts, FilesAre
    <3>3. QED BY <2>6, <3>1, <3>2
  <2>8. {x.article : x \in ToSet(t)} = articles
    <3> HIDE DEF articles
    <3>1. \A x \in ToSet(t) : x.article \in articles BY <2>4, <2>5, <2>7
    <3>2. \A a \in articles : \E x \in ToSet(t) : x.article = a BY <2>4, <2>5, <2>7
    <3>3. QED BY <3>1, <3>2
  <2>9. \A x \in ToSet(t) : disk[File(x)] = AboutIn(s, x.article) BY <2>2, <2>3, <2>5, <2>7
  <2>10. QED BY <2>1, <2>2, <2>4, <2>5, <2>8, <2>9 DEF Exact, AboutIn
<1>10. QED BY <1>1, <1>7, <1>8, <1>9 DEF OnceEach

LEMMA ChaptersPlay == Inv => ChaptersPlayTheirArticle
<1> SUFFICES ASSUME Inv PROVE ChaptersPlayTheirArticle
  OBVIOUS
<1>1. \A e \in listed : bucket[File(FinalRow(e))] # <<>> BY Parts DEF ShelfStands
<1>2. ASSUME NEW e \in Episodes, NEW c \in chapters[e]
      PROVE  c.asset \in RowsOf("chapter", e) /\ bucket[ObjectPath(c)] # <<>>
  BY Parts DEF ShelfStands
<1>3. ASSUME NEW e \in Episodes, NEW c \in chapters[e], OneVersion(e),
             NEW i \in DOMAIN bucket[ObjectPath(c)], bucket[ObjectPath(c)][i] # Noise
      PROVE  ArticleOf(bucket[ObjectPath(c)][i][1], bucket[ObjectPath(c)][i][2]) = ArticleHeard(c)
  <2>1. PICK r : r = rows[c.asset]
    OBVIOUS
  <2>2. /\ r.pos \in 1..MostChapters /\ File(r) = ChapterFile(e, r.pos)
        /\ Planned(r) /\ r.kind = "chapter" /\ r.episode = e
    BY <1>2, <2>1, ChapterIs
  <2>3. ObjectPath(c) = ChapterFile(e, r.pos) /\ ArticleHeard(c) = r.article
    BY <2>1, <2>2 DEF ObjectPath, ArticleHeard
  <2>4. PICK s \in Scripts : OnlyScript(s, e)
    <3> DEFINE S == {x \in Scripts : EpisodeOf(x) = e}
    <3>1. S # {}
      <4>1. Cardinality(S) = 1 BY <1>3 DEF OneVersion
      <4> HIDE DEF S
      <4>2. Cardinality({}) = 0 BY FS_EmptySet
      <4>3. QED BY <4>1, <4>2
    <3>2. QED BY <1>3, <3>1 DEF OnlyScript
  <2>5. r.article = Plan(s)[r.pos] BY <2>2, <2>4 DEF Planned
  <2>6. TellsOf(e, r.pos, bucket[ChapterFile(e, r.pos)]) BY <2>2, Parts DEF FilesTell
  <2>7. PICK line : line = bucket[ChapterFile(e, r.pos)][i]
    OBVIOUS
  <2>8. line[1] = s /\ ArticleOf(s, line[2]) = Plan(s)[r.pos]
    BY <1>3, <2>3, <2>4, <2>6, <2>7 DEF TellsOf
  <2>9. QED BY <2>3, <2>5, <2>7, <2>8
<1>4. QED BY <1>1, <1>2, <1>3 DEF ChaptersPlayTheirArticle

-----------------------------------------------------------------------------
(* Theorems.                                                               *)

LEMMA AlwaysInv == Spec => []Inv
BY InitHolds, StepKeeps, PTL DEF Spec

\* What stands in table audio_audioasset can be played, whatever crashed or was
\* rolled back; and the MP3s that a daily job is about to deliver hold the
\* whole script in its order, and if each line was taken once nothing else, in
\* the final one, and the lines about each article in its chapter, provided no
\* other job has worked on the episode: for any number of episodes, scripts,
\* lines, articles, workers and faults (AudioGenerationService,
\* AudioPipelineService, AudioChapterService).
THEOREM AudioStaysWhole == Spec => []AudioIsWhole
<1>1. Inv => AudioIsWhole BY TypesAreOK, RowsAreWhole, DeliveriesAreWhole DEF AudioIsWhole
<1>2. QED BY <1>1, AlwaysInv, PTL

\* Whatever batch failed or died at whatever request, and whatever the jobs
\* wrote meanwhile, an episode that listeners can choose can be played and so
\* can its chapters; and what is heard in a chapter is about its article, if
\* the episode has had one version of its script (SupabasePublisher).
THEOREM ListenersHearTheirArticle == Spec => []ChaptersPlayTheirArticle
BY ChaptersPlay, AlwaysInv, PTL

=============================================================================
