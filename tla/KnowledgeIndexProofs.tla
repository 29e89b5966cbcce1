------------------------ MODULE KnowledgeIndexProofs ------------------------
(***************************************************************************)
(* Theorems about KnowledgeIndex, for any number of articles and workers,  *)
(* any texts and settings, any surroundings and any bounds.                *)
(***************************************************************************)
EXTENDS KnowledgeIndex, FiniteSetTheorems, SequenceTheorems, WellFoundedInduction, TLAPS

-----------------------------------------------------------------------------
(* Recursion up to a number.                                               *)

\* What holds of 0 and of every number after one it holds of, it holds of all.
LEMMA UpTo ==
  ASSUME NEW N \in Nat, NEW T, 0 \in T, \A n \in 1..N : n - 1 \in T => n \in T
  PROVE  0..N \subseteq T
<1> DEFINE R == {p \in Nat \X Nat : p[1] < p[2]}
           U == {n \in 0..N : n \notin T}
<1>1. IsWellFoundedOn(R, Nat) BY NatLessThanWellFounded DEF OpToRel
<1>2. U = {}
  <2>1. SUFFICES ASSUME U # {} PROVE FALSE
    OBVIOUS
  <2>2. U \subseteq Nat
    OBVIOUS
  <2>3. PICK x \in U : \A y \in U : ~ (<<y, x>> \in R)
    <3> HIDE DEF R, U
    <3>1. QED BY <1>1, <2>1, <2>2, WFMin, Zenon
  <2>4. x \in 1..N /\ x \notin T BY <2>3
  <2>5. x - 1 \notin U
    <3>1. x - 1 \in Nat /\ x \in Nat /\ x - 1 < x BY <2>4
    <3>2. <<x - 1, x>> \in R BY <3>1
    <3>3. QED BY <2>3, <3>2
  <2>6. QED BY <2>3, <2>4, <2>5
<1>3. QED BY <1>2

\* A function can be defined from each value to the next.
Course(g, N, a, F) == g[0] = a /\ \A n \in 1..N : g[n] = F[<<n, g[n - 1]>>]
HasCourse(N, S, a, F) == \E g \in [0..N -> S] : Course(g, N, a, F)
LEMMA StepByStep ==
  ASSUME NEW N \in Nat, NEW S, NEW a \in S, NEW F \in [(1..N) \X S -> S]
  PROVE  HasCourse(N, S, a, F)
<1> USE DEF HasCourse, Course
<1> DEFINE Good(m, g) == g[0] = a /\ \A n \in 1..m : g[n] = F[<<n, g[n - 1]>>]
           T == {m \in 0..N : \E g \in [0..m -> S] : Good(m, g)}
<1>1. 0 \in T
  <2> DEFINE g == [n \in 0..0 |-> a]
  <2>1. g \in [0..0 -> S] /\ g[0] = a /\ 1..0 = {}
    OBVIOUS
  <2> HIDE DEF g
  <2>2. Good(0, g) BY <2>1
  <2> HIDE DEF Good
  <2>3. QED BY <2>1, <2>2
<1>2. ASSUME NEW m \in 1..N, m - 1 \in T PROVE m \in T
  <2>1. PICK g \in [0..(m - 1) -> S] : Good(m - 1, g) BY <1>2
  <2> DEFINE h == [n \in 0..m |-> IF n = m THEN F[<<m, g[m - 1]>>] ELSE g[n]]
  <2>2. h \in [0..m -> S] BY <2>1
  <2>3. Good(m, h)
    <3>1. h[0] = a BY <2>1
    <3>2. ASSUME NEW n \in 1..m PROVE h[n] = F[<<n, h[n - 1]>>]
      <4>1. CASE n = m
        <5>1. n \in 0..m /\ n - 1 \in 0..m /\ n - 1 # m BY <4>1
        <5>2. QED BY <4>1, <5>1
      <4>2. CASE n # m
        <5>1. n \in 1..(m - 1) /\ n - 1 \in 0..m /\ n - 1 # m BY <4>2
        <5>2. QED BY <2>1, <5>1, <4>2
      <4>3. QED BY <4>1, <4>2
    <3>3. QED BY <3>1, <3>2
  <2>4. m \in 0..N
    OBVIOUS
  <2> HIDE DEF Good, h
  <2>5. QED BY <2>2, <2>3, <2>4
<1>3. 0..N \subseteq T
  <2> HIDE DEF T
  <2>1. QED BY <1>1, <1>2, UpTo
<1>4. QED
  <2> HIDE DEF Good
  <2>1. N \in T BY <1>3
  <2>2. \E g \in [0..N -> S] : Good(N, g) BY <2>1
  <2>3. QED BY <2>2 DEF Good

-----------------------------------------------------------------------------
(* Texts and what is inside of them.                                       *)

\* A set of numbers has a least one, and a greatest when it is bounded.
LEMMA LeastNumber ==
  ASSUME NEW S \in SUBSET Nat, S # {}
  PROVE  \E x \in S : \A y \in S : x <= y
<1> DEFINE R == {p \in Nat \X Nat : p[1] < p[2]}
<1>1. IsWellFoundedOn(R, Nat) BY NatLessThanWellFounded DEF OpToRel
<1>2. PICK x \in S : \A y \in S : ~ (<<y, x>> \in R)
  <2> HIDE DEF R
  <2>1. QED BY <1>1, WFMin, Zenon
<1>3. ASSUME NEW y \in S PROVE x <= y
  <2>1. x \in Nat /\ y \in Nat /\ <<y, x>> \notin R BY <1>2
  <2>2. ~ (y < x) BY <2>1
  <2>3. QED BY <2>1, <2>2
<1>4. QED BY <1>3

LEMMA Ends ==
  ASSUME NEW n \in Nat, NEW S \in SUBSET (1..n), S # {}
  PROVE  /\ Min(S) \in S /\ \A y \in S : Min(S) <= y
         /\ Max(S) \in S /\ \A y \in S : y <= Max(S)
<1>1. \E x \in S : \A y \in S : x <= y BY LeastNumber
<1>2. \E x \in S : \A y \in S : x >= y
  <2> DEFINE U == {n - y : y \in S}
  <2>1. U \in SUBSET Nat /\ U # {}
    <3>1. PICK y \in S : TRUE
      OBVIOUS
    <3>2. n - y \in U
      OBVIOUS
    <3>3. \A z \in S : n - z \in Nat
      OBVIOUS
    <3>4. QED BY <3>2, <3>3
  <2>2. PICK u \in U : \A v \in U : u <= v
    <3> HIDE DEF U
    <3>1. QED BY <2>1, LeastNumber
  <2>3. PICK x \in S : u = n - x
    OBVIOUS
  <2>4. ASSUME NEW y \in S PROVE x >= y
    <3>1. n - y \in U
      OBVIOUS
    <3>2. n - x <= n - y BY <2>2, <2>3, <3>1
    <3>3. QED BY <3>2
  <2>5. QED BY <2>4
<1>3. Min(S) \in S /\ \A y \in S : Min(S) =< y BY <1>1 DEF Min
<1>4. Max(S) \in S /\ \A y \in S : Max(S) >= y BY <1>2 DEF Max
<1>5. QED BY <1>3, <1>4

\* The passage q can be read in the text t.
Inside(q, t) ==
  \E j \in 0..Len(t) :
    j + Len(q) <= Len(t) /\ \A k \in 1..Len(q) : t[j + k] = q[k]

\* A passage without blanks around it.
Word(q) == q \in Seq(Nat) /\ (q # <<>> => q[1] # Blank /\ q[Len(q)] # Blank)

LEMMA InsideTransitive ==
  ASSUME NEW p \in Seq(Nat), NEW q \in Seq(Nat), NEW t \in Seq(Nat), Inside(p, q), Inside(q, t)
  PROVE  Inside(p, t)
<1>1. PICK i \in 0..Len(q) : i + Len(p) <= Len(q) /\ \A k \in 1..Len(p) : q[i + k] = p[k]
  BY DEF Inside
<1>2. PICK j \in 0..Len(t) : j + Len(q) <= Len(t) /\ \A k \in 1..Len(q) : t[j + k] = q[k]
  BY DEF Inside
<1>3. j + i \in 0..Len(t) /\ (j + i) + Len(p) <= Len(t) BY <1>1, <1>2
<1>4. ASSUME NEW k \in 1..Len(p) PROVE t[(j + i) + k] = p[k]
  <2>1. i + k \in 1..Len(q) BY <1>1
  <2>2. t[j + (i + k)] = q[i + k] BY <1>2, <2>1
  <2>3. j + (i + k) = (j + i) + k BY <1>1, <1>2
  <2>4. QED BY <1>1, <2>2, <2>3
<1>5. QED BY <1>3, <1>4 DEF Inside

LEMMA SubSeqInside ==
  ASSUME NEW t \in Seq(Nat), NEW a \in Nat \ {0}, NEW b \in Nat, b <= Len(t)
  PROVE  SubSeq(t, a, b) \in Seq(Nat) /\ Inside(SubSeq(t, a, b), t)
<1>1. CASE a > b
  <2>1. SubSeq(t, a, b) \in Seq(Nat) /\ Len(SubSeq(t, a, b)) = 0 BY <1>1
  <2>2. QED BY <2>1 DEF Inside
<1>2. CASE a <= b
  <2> DEFINE q == SubSeq(t, a, b)
  <2>1. q \in Seq(Nat) /\ Len(q) = b - a + 1 BY <1>2
  <2>2. \A k \in 1..Len(q) : q[k] = t[(a - 1) + k] BY <1>2, <2>1
  <2>3. a - 1 \in 0..Len(t) /\ (a - 1) + Len(q) <= Len(t) BY <1>2, <2>1
  <2> HIDE DEF q
  <2>4. Inside(q, t) BY <2>2, <2>3 DEF Inside
  <2>5. QED BY <2>1, <2>4 DEF q
<1>3. QED BY <1>1, <1>2

\* What has no ink is stripped to nothing, anything else to the part between
\* its first and its last ink.
LEMMA Stripped ==
  ASSUME NEW t \in Seq(Nat)
  PROVE  /\ Strip(t) \in Seq(Nat) /\ Len(Strip(t)) <= Len(t)
         /\ Word(Strip(t)) /\ Inside(Strip(t), t)
         /\ (\E i \in DOMAIN t : t[i] # Blank) => Strip(t) # <<>>
         /\ \A q : Word(q) /\ Inside(q, t) => Inside(q, Strip(t))
<1> DEFINE ink == {i \in DOMAIN t : t[i] # Blank}
<1>1. CASE ink = {}
  <2>1. Strip(t) = <<>> BY <1>1 DEF Strip
  <2>2. ASSUME NEW q, Word(q), Inside(q, t) PROVE Inside(q, <<>>)
    <3>1. PICK j \in 0..Len(t) : j + Len(q) <= Len(t) /\ \A k \in 1..Len(q) : t[j + k] = q[k]
      BY <2>2 DEF Inside
    <3>2. q = <<>>
      <4>1. SUFFICES ASSUME q # <<>> PROVE FALSE
        OBVIOUS
      <4>2. q \in Seq(Nat) /\ 1 \in 1..Len(q) /\ q[1] # Blank BY <2>2, <4>1 DEF Word
      <4>3. j + 1 \in DOMAIN t /\ t[j + 1] # Blank BY <3>1, <4>2
      <4>4. QED BY <1>1, <4>3
    <3>3. QED BY <3>2 DEF Inside
  <2>3. <<>> \in Seq(Nat) /\ Word(<<>>) /\ Inside(<<>>, t) /\ Len(<<>>) <= Len(t)
    BY DEF Word, Inside
  <2>4. ~ \E i \in DOMAIN t : t[i] # Blank BY <1>1
  <2>5. QED BY <2>1, <2>2, <2>3, <2>4
<1>2. CASE ink # {}
  <2> DEFINE a == Min(ink)
             b == Max(ink)
             s == SubSeq(t, a, b)
  <2>1. ink \in SUBSET (1..Len(t)) /\ Len(t) \in Nat
    OBVIOUS
  <2>2. /\ a \in ink /\ \A i \in ink : a <= i
        /\ b \in ink /\ \A i \in ink : i <= b
    <3> HIDE DEF ink
    <3>1. QED BY <1>2, <2>1, Ends
  <2>3. Strip(t) = s BY <1>2 DEF Strip
  <2>4. a \in 1..Len(t) /\ b \in 1..Len(t) /\ a <= b /\ t[a] # Blank /\ t[b] # Blank BY <2>2
  <2>5. \A i \in 1..Len(t) : t[i] # Blank => a <= i /\ i <= b BY <2>2
  <2> HIDE DEF a, b, ink
  <2>6. s \in Seq(Nat) /\ Inside(s, t) BY <2>4, SubSeqInside
  <2>7. Len(s) = b - a + 1 /\ \A k \in 1..Len(s) : s[k] = t[(a - 1) + k] BY <2>4
  <2> HIDE DEF s
  <2>8. Word(s) /\ s # <<>> /\ Len(s) <= Len(t)
    <3>1. s[1] = t[a] /\ s[Len(s)] = t[b]
      <4>1. 1 \in 1..Len(s) /\ Len(s) \in 1..Len(s) /\ (a - 1) + 1 = a /\ (a - 1) + Len(s) = b
        BY <2>4, <2>7
      <4>2. QED BY <2>7, <4>1
    <3>2. Len(s) # 0 /\ Len(s) <= Len(t) BY <2>4, <2>7
    <3>3. QED BY <2>4, <2>6, <3>1, <3>2 DEF Word
  <2>9. ASSUME NEW q, Word(q), Inside(q, t) PROVE Inside(q, s)
    <3>1. PICK j \in 0..Len(t) : j + Len(q) <= Len(t) /\ \A k \in 1..Len(q) : t[j + k] = q[k]
      BY <2>9 DEF Inside
    <3>2. q \in Seq(Nat) /\ (q # <<>> => q[1] # Blank /\ q[Len(q)] # Blank) BY <2>9 DEF Word
    <3>3. CASE q = <<>> BY <2>6, <3>3 DEF Inside
    <3>4. CASE q # <<>>
      <4>1. Len(q) \in Nat /\ Len(q) >= 1 BY <3>2, <3>4
      <4>2. a <= j + 1 /\ j + Len(q) <= b
        <5>1. j + 1 \in 1..Len(t) /\ t[j + 1] # Blank BY <3>1, <3>2, <3>4, <4>1
        <5>2. j + Len(q) \in 1..Len(t) /\ t[j + Len(q)] # Blank BY <3>1, <3>2, <3>4, <4>1
        <5>3. QED BY <2>5, <5>1, <5>2
      <4> DEFINE i == j + 1 - a
      <4>3. i \in 0..Len(s) /\ i + Len(q) <= Len(s) BY <2>4, <2>7, <4>1, <4>2
      <4>4. ASSUME NEW k \in 1..Len(q) PROVE s[i + k] = q[k]
        <5>1. i + k \in 1..Len(s) /\ (a - 1) + (i + k) = j + k BY <2>4, <2>7, <4>1, <4>3
        <5>2. QED BY <2>7, <3>1, <5>1
      <4> HIDE DEF i
      <4>5. QED BY <4>3, <4>4 DEF Inside
    <3>5. QED BY <3>3, <3>4
  <2>10. QED BY <2>3, <2>6, <2>8, <2>9
<1>3. QED BY <1>1, <1>2

\* Each of two texts is inside of both with something between.
LEMMA JoinedInside ==
  ASSUME NEW s \in Seq(Nat), NEW m \in Seq(Nat), NEW t \in Seq(Nat)
  PROVE  s \o m \o t \in Seq(Nat) /\ Inside(s, s \o m \o t) /\ Inside(t, s \o m \o t)
<1> DEFINE b == s \o m
           u == b \o t
<1>1. /\ b \in Seq(Nat) /\ Len(b) = Len(s) + Len(m)
      /\ \A k \in 1..Len(s) : b[k] = s[k]
  OBVIOUS
<1> HIDE DEF b
<1>2. /\ u \in Seq(Nat) /\ Len(u) = Len(b) + Len(t)
      /\ \A k \in 1..Len(b) : u[k] = b[k]
      /\ \A k \in 1..Len(t) : u[Len(b) + k] = t[k]
  <2>1. u \in Seq(Nat) /\ Len(u) = Len(b) + Len(t) BY <1>1, ConcatProperties, Zenon
  <2>2. \A k \in 1..Len(b) : u[k] = b[k] BY <1>1
  <2>3. ASSUME NEW k \in 1..Len(t) PROVE u[Len(b) + k] = t[k]
    <3>1. Len(b) + k \in 1..(Len(b) + Len(t)) /\ Len(b) + k > Len(b) /\ (Len(b) + k) - Len(b) = k
      BY <1>1
    <3>2. QED BY <1>1, <3>1
  <2>4. QED BY <2>1, <2>2, <2>3
<1> HIDE DEF u
<1>3. Inside(s, u)
  <2>1. 0 \in 0..Len(u) /\ 0 + Len(s) <= Len(u) BY <1>1, <1>2
  <2>2. ASSUME NEW k \in 1..Len(s) PROVE u[0 + k] = s[k]
    <3>1. k \in 1..Len(b) /\ 0 + k = k BY <1>1
    <3>2. QED BY <1>1, <1>2, <3>1
  <2>3. QED BY <2>1, <2>2 DEF Inside
<1>4. Inside(t, u)
  <2>1. Len(b) \in 0..Len(u) /\ Len(b) + Len(t) <= Len(u) BY <1>1, <1>2
  <2>2. QED BY <1>2, <2>1 DEF Inside
<1>5. QED BY <1>2, <1>3, <1>4 DEF u, b

-----------------------------------------------------------------------------
(* Cutting a paragraph.                                                    *)

LEMMA OfTwo ==
  ASSUME NEW x \in Int, NEW y \in Int
  PROVE  /\ Max({x, y}) = IF x >= y THEN x ELSE y
         /\ Min({x, y}) = IF x <= y THEN x ELSE y
<1>1. \E z \in {x, y} : \A w \in {x, y} : z >= w
  OBVIOUS
<1>2. \E z \in {x, y} : \A w \in {x, y} : z =< w
  OBVIOUS
<1>3. Max({x, y}) \in {x, y} /\ \A w \in {x, y} : Max({x, y}) >= w BY <1>1 DEF Max
<1>4. Min({x, y}) \in {x, y} /\ \A w \in {x, y} : Min({x, y}) =< w BY <1>2 DEF Min
<1>5. QED BY <1>3, <1>4

\* What two neighbouring pieces have in common.
Margin(size, overlap) == Max({0, Min({overlap, size - 1})})

LEMMA MarginFits ==
  ASSUME NEW size \in Nat \ {0}, NEW overlap \in Int
  PROVE  /\ Margin(size, overlap) \in 0..(size - 1)
         /\ Stride(size, overlap) \in 1..size
         /\ Stride(size, overlap) + Margin(size, overlap) = size
<1>1. Min({overlap, size - 1}) = IF overlap <= size - 1 THEN overlap ELSE size - 1 BY OfTwo
<1>2. Min({overlap, size - 1}) \in Int /\ Min({overlap, size - 1}) <= size - 1 BY <1>1
<1>3. Margin(size, overlap) \in 0..(size - 1) BY <1>2, OfTwo DEF Margin
<1>4. Stride(size, overlap) = size - Margin(size, overlap) BY DEF Stride, Margin
<1>5. QED BY <1>3, <1>4

\* The last piece ends before the end of the text, and what is left fits.
LEMMA CutsFit ==
  ASSUME NEW t \in Seq(Nat), NEW size \in Nat \ {0}, NEW stride \in 1..size
  PROVE  LET c == Cuts(t, size, stride) IN
           /\ c \in Nat /\ c * stride \in Nat
           /\ Len(t) <= size => c = 0
           /\ \A k \in 1..c : (k - 1) * stride \in Nat /\ (k - 1) * stride + size < Len(t)
           /\ Len(t) <= c * stride + size
           /\ t # <<>> => c * stride < Len(t)
<1> DEFINE c == Cuts(t, size, stride)
           L == Len(t)
<1>1. L \in Nat
  OBVIOUS
<1>2. CASE L <= size
  <2>1. c = 0 BY <1>2 DEF Cuts
  <2>2. 0 * stride = 0
    OBVIOUS
  <2>3. t # <<>> => L > 0
    OBVIOUS
  <2> HIDE DEF c, L
  <2>4. QED BY <1>1, <1>2, <2>1, <2>2, <2>3 DEF c, L
<1>3. CASE L > size
  <2> DEFINE n == L - size + stride - 1
  <2>1. c = n \div stride BY <1>3 DEF Cuts
  <2>2. n \in Nat /\ stride \in Nat \ {0} BY <1>1, <1>3
  <2> HIDE DEF L, c, n
  <2>3. c \in Nat /\ c * stride <= n /\ n < c * stride + stride /\ c * stride \in Nat
    BY <2>1, <2>2, SMTT(30)
  <2>4. ASSUME NEW k \in 1..c PROVE (k - 1) * stride \in Nat /\ (k - 1) * stride + stride <= c * stride
    <3>1. k - 1 \in Nat /\ c - k \in Nat /\ c = (k - 1) + 1 + (c - k) BY <2>3
    <3>2. (k - 1) * stride \in Nat /\ (c - k) * stride \in Nat BY <2>2, <3>1
    <3>3. c * stride = (k - 1) * stride + stride + (c - k) * stride BY <2>2, <3>1
    <3>4. QED BY <3>2, <3>3, <2>3
  <2>5. ASSUME NEW k \in 1..c PROVE (k - 1) * stride + size < L BY <1>1, <2>2, <2>3, <2>4 DEF n
  <2>6. L <= c * stride + size /\ c * stride < L BY <1>1, <1>3, <2>2, <2>3 DEF n
  <2>7. QED BY <1>3, <2>3, <2>4, <2>5, <2>6 DEF c, L
<1>4. QED BY <1>1, <1>2, <1>3

LEMMA PartOf ==
  ASSUME NEW t \in Seq(Nat), NEW a \in Nat, NEW b \in Nat, a <= b, b <= Len(t)
  PROVE  /\ SubSeq(t, a + 1, b) \in Seq(Nat) /\ Len(SubSeq(t, a + 1, b)) = b - a
         /\ \A m \in 1..(b - a) : SubSeq(t, a + 1, b)[m] = t[a + m]
<1>1. SubSeq(t, a + 1, b) \in Seq(Nat) /\ Len(SubSeq(t, a + 1, b)) = b - a
  OBVIOUS
<1>2. ASSUME NEW m \in 1..(b - a) PROVE SubSeq(t, a + 1, b)[m] = t[a + m]
  <2>1. (a + 1) + m - 1 = a + m
    OBVIOUS
  <2>2. QED BY <2>1
<1>3. QED BY <1>1, <1>2

\* The pieces and what is left have the size at most; every passage that is no
\* longer than the margin and one character more is inside of one of them.
WellCut(t, pieces, rest, size, margin) ==
  /\ pieces \in Seq(Seq(Nat)) /\ \A k \in 1..Len(pieces) : Len(pieces[k]) <= size
  /\ rest \in Seq(Nat) /\ rest # <<>> /\ Len(rest) <= size
  /\ \A i, j \in 1..Len(t) : i <= j /\ j - i <= margin =>
       \/ Inside(SubSeq(t, i, j), rest)
       \/ \E k \in 1..Len(pieces) : Inside(SubSeq(t, i, j), pieces[k])

LEMMA PiecesKeep ==
  ASSUME NEW t \in Seq(Nat), t # <<>>,
         NEW size \in Nat \ {0}, NEW stride \in 1..size, NEW margin \in Nat, stride + margin = size
  PROVE  WellCut(t, Pieces(t, size, stride), Remainder(t, size, stride), size, margin)
<1> DEFINE c == Cuts(t, size, stride)
           L == Len(t)
           pieces == Pieces(t, size, stride)
           rest == Remainder(t, size, stride)
           from(k) == (k - 1) * stride
           done == c * stride
<1>1. /\ c \in Nat /\ done \in Nat
      /\ L <= size => c = 0
      /\ \A k \in 1..c : from(k) \in Nat /\ from(k) + size < L
      /\ L <= done + size
      /\ done < L
  BY CutsFit
<1>2. L \in Nat /\ stride \in Nat /\ stride >= 1
  OBVIOUS
<1>3. pieces = [k \in 1..c |-> SubSeq(t, from(k) + 1, from(k) + size)] BY DEF Pieces
<1>4. rest = SubSeq(t, done + 1, L) BY DEF Remainder
<1> HIDE DEF c, pieces, rest, from, done
<1>5. ASSUME NEW k \in 1..c
      PROVE  LET s == SubSeq(t, from(k) + 1, from(k) + size)
             IN /\ s \in Seq(Nat) /\ Len(s) = size
                /\ \A m \in 1..size : s[m] = t[from(k) + m]
  <2>1. from(k) \in Nat /\ from(k) + size \in Nat /\ from(k) <= from(k) + size /\ from(k) + size <= L
    BY <1>1, <1>2
  <2> DEFINE a == from(k)
             b == from(k) + size
  <2>2. a \in Nat /\ b \in Nat /\ a <= b /\ b <= Len(t) /\ b - a = size BY <2>1
  <2> HIDE DEF a, b
  <2>3. /\ SubSeq(t, a + 1, b) \in Seq(Nat) /\ Len(SubSeq(t, a + 1, b)) = b - a
        /\ \A m \in 1..(b - a) : SubSeq(t, a + 1, b)[m] = t[a + m]
    BY <2>2, PartOf
  <2>4. QED BY <2>2, <2>3 DEF a, b
<1>6. pieces \in Seq(Seq(Nat)) /\ Len(pieces) = c /\ \A k \in 1..Len(pieces) : Len(pieces[k]) <= size
  <2> DEFINE s(k) == SubSeq(t, from(k) + 1, from(k) + size)
  <2>1. \A k \in 1..c : s(k) \in Seq(Nat) /\ Len(s(k)) = size BY <1>5
  <2>2. pieces = [k \in 1..c |-> s(k)] BY <1>3
  <2> HIDE DEF s
  <2>3. pieces \in Seq(Seq(Nat)) /\ Len(pieces) = c BY <1>1, <2>1, <2>2
  <2>4. \A k \in 1..c : pieces[k] = s(k) BY <2>2
  <2>5. QED BY <2>1, <2>3, <2>4
<1>7. /\ rest \in Seq(Nat) /\ Len(rest) = L - done /\ Len(rest) <= size /\ Len(rest) >= 1
      /\ \A m \in 1..Len(rest) : rest[m] = t[done + m]
  <2>1. rest \in Seq(Nat) /\ Len(rest) = L - done /\ \A m \in 1..(L - done) : rest[m] = t[done + m]
    BY <1>1, <1>2, <1>4, PartOf
  <2>2. QED BY <1>1, <1>2, <2>1
<1>8. rest[Len(rest)] = t[Len(t)] /\ rest # <<>>
  <2>1. Len(rest) \in 1..Len(rest) /\ done + Len(rest) = L BY <1>1, <1>2, <1>7
  <2>2. QED BY <1>7, <2>1
<1>9. ASSUME NEW i \in 1..L, NEW j \in 1..L, i <= j, j - i <= margin
      PROVE  \/ Inside(SubSeq(t, i, j), rest)
             \/ \E k \in 1..Len(pieces) : Inside(SubSeq(t, i, j), pieces[k])
  <2> DEFINE q == SubSeq(t, i, j)
  <2>1. q \in Seq(Nat) /\ Len(q) = j - i + 1 /\ \A m \in 1..Len(q) : q[m] = t[i - 1 + m] BY <1>9
  <2>0. i \in Nat /\ j \in Nat /\ i >= 1 /\ j <= L /\ i <= j /\ j - i <= margin /\ Len(q) = j - i + 1
    BY <1>9, <2>1
  <2> HIDE DEF q
  <2>2. CASE i > done
    <3> DEFINE d == i - 1 - done
    <3>0. Len(rest) = L - done /\ L \in Nat /\ done \in Nat BY <1>1, <1>2, <1>7
    <3> HIDE DEF L
    <3>1. d \in 0..Len(rest) /\ d + Len(q) <= Len(rest) BY <3>0, <2>0, <2>2
    <3>2. ASSUME NEW m \in 1..Len(q) PROVE rest[d + m] = q[m]
      <4>1. d + m \in 1..Len(rest) /\ done + (d + m) = i - 1 + m BY <3>0, <2>0, <2>2, <3>1
      <4>2. QED BY <1>7, <2>1, <4>1
    <3> HIDE DEF d
    <3>3. Inside(q, rest) BY <3>1, <3>2 DEF Inside
    <3>4. QED BY <3>3 DEF q
  <2>3. CASE i <= done
    <3> DEFINE U == {k \in 1..c : i <= k * stride}
    <3>1. c \in U
      <4>1. c # 0
        <5>1. SUFFICES ASSUME c = 0 PROVE FALSE
          OBVIOUS
        <5>2. done = 0 BY <1>2, <5>1 DEF done
        <5>3. QED BY <2>3, <5>2
      <4>2. QED BY <1>1, <2>3, <4>1 DEF done
    <3>2. PICK k \in U : \A m \in U : k <= m
      <4>1. U \in SUBSET Nat
        OBVIOUS
      <4> HIDE DEF U
      <4>2. QED BY <3>1, <4>1, LeastNumber
    <3>3. k \in 1..c /\ i <= k * stride BY <3>2
    <3>4. from(k) < i
      <4>1. CASE k = 1
        <5>1. from(k) = 0 BY <4>1, <1>2 DEF from
        <5>2. QED BY <5>1
      <4>2. CASE k # 1
        <5>1. k - 1 \in 1..c /\ ~ (k <= k - 1) BY <1>1, <3>3, <4>2
        <5>2. k - 1 \notin U BY <3>2, <5>1
        <5>3. ~ (i <= (k - 1) * stride) BY <5>1, <5>2
        <5>4. (k - 1) * stride \in Nat BY <1>2, <5>1
        <5>5. QED BY <5>3, <5>4 DEF from
      <4>3. QED BY <4>1, <4>2
    <3>5. from(k) + stride = k * stride /\ from(k) \in Nat
      <4>1. k - 1 \in Nat /\ k = (k - 1) + 1 BY <3>3
      <4>2. k * stride = (k - 1) * stride + stride BY <1>2, <4>1
      <4>3. QED BY <1>1, <3>3, <4>2 DEF from
    <3> DEFINE d == i - 1 - from(k)
               s == SubSeq(t, from(k) + 1, from(k) + size)
    <3>6. s \in Seq(Nat) /\ Len(s) = size /\ \A m \in 1..size : s[m] = t[from(k) + m] BY <1>5, <3>3
    <3> DEFINE start == from(k)
               end == k * stride
    <3>12. /\ start \in Nat /\ start + stride = end /\ i <= end /\ start < i
           /\ Len(s) = size /\ stride + margin = size /\ margin \in Nat /\ stride \in Nat
      BY <1>2, <3>3, <3>4, <3>5, <3>6
    <3> HIDE DEF L, start, end, s
    <3>13. i - 1 - start \in 0..Len(s) /\ (i - 1 - start) + Len(q) <= Len(s) BY <2>0, <3>12
    <3>7. d \in 0..Len(s) /\ d + Len(q) <= Len(s) BY <3>13 DEF start
    <3>8. ASSUME NEW m \in 1..Len(q) PROVE s[d + m] = q[m]
      <4>0. m \in Nat /\ m >= 1 /\ m <= Len(q) BY <2>1
      <4>1. (i - 1 - start) + m \in 1..size /\ start + ((i - 1 - start) + m) = i - 1 + m
        BY <2>0, <3>12, <3>13, <4>0
      <4>2. d + m \in 1..size /\ from(k) + (d + m) = i - 1 + m BY <4>1 DEF start
      <4>3. QED BY <2>1, <3>6, <4>2 DEF s
    <3>9. pieces[k] = s /\ k \in 1..Len(pieces) BY <1>3, <1>6, <3>3 DEF s
    <3> HIDE DEF d
    <3>10. Inside(q, s) BY <3>7, <3>8 DEF Inside
    <3>11. QED BY <3>9, <3>10 DEF q
  <2>4. QED BY <1>1, <2>2, <2>3
<1>10. QED BY <1>6, <1>7, <1>8, <1>9 DEF pieces, rest, WellCut

-----------------------------------------------------------------------------
(* Chunks.                                                                 *)

\* What there is after some paragraphs: the texts that are complete, and the
\* one that is being collected.
Buffered == [texts : Seq(Seq(Nat)), buffer : Seq(Nat)]
Fits(b, size) == Len(b.buffer) <= size /\ \A x \in Range(b.texts) : Len(x) <= size

\* The passage q can be read in one of them.
KeptIn(q, b) ==
  \/ b.buffer # <<>> /\ Inside(q, b.buffer)
  \/ \E x \in Range(b.texts) : Inside(q, x)

LEMMA FlushedKeeps ==
  ASSUME NEW x \in Seq(Nat)
  PROVE  Flushed(x) \in Seq(Seq(Nat)) /\ Range(Flushed(x)) = {y \in {x} : x # <<>>}
<1>1. CASE x = <<>>
  <2>1. Flushed(x) = <<>> BY <1>1 DEF Flushed
  <2>2. <<>> \in Seq(Seq(Nat)) /\ Range(<<>>) = {} BY DEF Range
  <2>3. QED BY <1>1, <2>1, <2>2
<1>2. CASE x # <<>>
  <2>1. Flushed(x) = <<x>> BY <1>2 DEF Flushed
  <2>2. <<x>> \in Seq(Seq(Nat)) /\ Range(<<x>>) = {x} BY DEF Range
  <2>3. QED BY <1>2, <2>1, <2>2
<1>3. QED BY <1>1, <1>2

\* One more paragraph: nothing that was kept is lost, and every passage of the
\* paragraph is kept.
LEMMA TakeKeeps ==
  ASSUME NEW size \in Nat \ {0}, NEW stride \in 1..size, NEW margin \in Nat, stride + margin = size,
         NEW b \in Buffered, Fits(b, size), NEW t \in Seq(Nat), IsParagraph(t)
  PROVE  LET after == Take(b, t, size, stride)
         IN /\ after \in Buffered /\ Fits(after, size) /\ after.buffer # <<>>
            /\ \A q : Word(q) /\ KeptIn(q, b) => KeptIn(q, after)
            /\ \A i, j \in 1..Len(t) : i <= j /\ j - i <= margin => KeptIn(Strip(SubSeq(t, i, j)), after)
<1> DEFINE after == Take(b, t, size, stride)
           passage(i, j) == Strip(SubSeq(t, i, j))
<1>1. b.texts \in Seq(Seq(Nat)) /\ b.buffer \in Seq(Nat) BY DEF Buffered
<1>2. t # <<>> /\ t[Len(t)] # Blank /\ Len(t) \in 1..Len(t) BY DEF IsParagraph, Last
<1>3. ASSUME NEW i \in 1..Len(t), NEW j \in 1..Len(t), i <= j
      PROVE  /\ SubSeq(t, i, j) \in Seq(Nat) /\ Inside(SubSeq(t, i, j), t)
             /\ Word(passage(i, j)) /\ Inside(passage(i, j), SubSeq(t, i, j))
             /\ passage(i, j) \in Seq(Nat)
  <2>1. i \in Nat \ {0} /\ j \in Nat /\ j <= Len(t)
    OBVIOUS
  <2>2. SubSeq(t, i, j) \in Seq(Nat) /\ Inside(SubSeq(t, i, j), t) BY <2>1, SubSeqInside
  <2>3. QED BY <2>2, Stripped
<1> HIDE DEF passage
<1>4. CASE Len(Collected(b.buffer, t)) <= size
  <2> DEFINE new == Collected(b.buffer, t)
  <2>1. after = [b EXCEPT !.buffer = new] BY <1>4 DEF Take
  <2>2. /\ new \in Seq(Nat) /\ new # <<>>
        /\ \A q : Word(q) /\ b.buffer # <<>> /\ Inside(q, b.buffer) => Inside(q, new)
        /\ \A q : Word(q) /\ Inside(q, t) => Inside(q, new)
    <3>1. CASE b.buffer = <<>> BY <1>2, <3>1 DEF Collected
    <3>2. CASE b.buffer # <<>>
      <4> DEFINE two == <<Blank, Blank>>
                 whole == b.buffer \o two \o t
      <4>1. new = Strip(whole) BY <3>2 DEF Collected
      <4>2. two \in Seq(Nat) BY DEF Blank
      <4> HIDE DEF two
      <4>3. whole \in Seq(Nat) /\ Inside(b.buffer, whole) /\ Inside(t, whole)
        BY <1>1, <4>2, JoinedInside
      <4> HIDE DEF whole, new
      <4>4. \E i \in DOMAIN whole : whole[i] # Blank
        <5>1. PICK m \in 0..Len(whole) : m + Len(t) <= Len(whole) /\ \A k \in 1..Len(t) : whole[m + k] = t[k]
          BY <4>3 DEF Inside
        <5>2. m + Len(t) \in 1..Len(whole) /\ whole[m + Len(t)] # Blank BY <1>2, <4>3, <5>1
        <5>3. QED BY <4>3, <5>2
      <4>5. /\ Strip(whole) \in Seq(Nat) /\ Strip(whole) # <<>>
            /\ \A q : Word(q) /\ Inside(q, whole) => Inside(q, Strip(whole))
        BY <4>3, <4>4, Stripped
      <4>6. ASSUME NEW q, Word(q), Inside(q, b.buffer) PROVE Inside(q, new)
        <5>1. q \in Seq(Nat) BY <4>6 DEF Word
        <5>2. Inside(q, whole) BY <1>1, <4>3, <4>6, <5>1, InsideTransitive
        <5>3. QED BY <4>1, <4>5, <4>6, <5>2
      <4>7. ASSUME NEW q, Word(q), Inside(q, t) PROVE Inside(q, new)
        <5>1. q \in Seq(Nat) BY <4>7 DEF Word
        <5>2. Inside(q, whole) BY <4>3, <4>7, <5>1, InsideTransitive
        <5>3. QED BY <4>1, <4>5, <4>7, <5>2
      <4>8. QED BY <4>1, <4>5, <4>6, <4>7
    <3>3. QED BY <3>1, <3>2
  <2> HIDE DEF new
  <2>3. after \in Buffered /\ after.buffer = new /\ after.texts = b.texts
    BY <1>1, <2>1, <2>2 DEF Buffered
  <2> HIDE DEF after
  <2>4. Fits(after, size) BY <1>4, <2>3 DEF Fits, new
  <2>5. ASSUME NEW q, Word(q), KeptIn(q, b) PROVE KeptIn(q, after) BY <2>2, <2>3, <2>5 DEF KeptIn
  <2>6. ASSUME NEW i \in 1..Len(t), NEW j \in 1..Len(t), i <= j
        PROVE  KeptIn(passage(i, j), after)
    <3>1. Inside(passage(i, j), t) BY <1>3, <2>6, InsideTransitive
    <3>2. QED BY <1>3, <2>2, <2>3, <2>6, <3>1 DEF KeptIn
  <2>7. QED BY <2>2, <2>3, <2>4, <2>5, <2>6 DEF after, passage
<1>5. CASE ~ (Len(Collected(b.buffer, t)) <= size)
  <2> DEFINE pieces == Pieces(t, size, stride)
             rest == Remainder(t, size, stride)
             flushed == Flushed(b.buffer)
             texts == b.texts \o flushed \o pieces
  <2>1. after = [texts |-> texts, buffer |-> rest] BY <1>5 DEF Take
  <2>2. WellCut(t, pieces, rest, size, margin) BY <1>2, PiecesKeep
  <2>3. flushed \in Seq(Seq(Nat)) /\ Range(flushed) = {y \in {b.buffer} : b.buffer # <<>>}
    BY <1>1, FlushedKeeps
  <2> HIDE DEF pieces, rest, flushed
  <2>11. /\ pieces \in Seq(Seq(Nat)) /\ \A k \in 1..Len(pieces) : Len(pieces[k]) <= size
         /\ rest \in Seq(Nat) /\ rest # <<>> /\ Len(rest) <= size
         /\ \A i, j \in 1..Len(t) : i <= j /\ j - i <= margin =>
              \/ Inside(SubSeq(t, i, j), rest)
              \/ \E k \in 1..Len(pieces) : Inside(SubSeq(t, i, j), pieces[k])
    BY <2>2 DEF WellCut
  <2>4. texts \in Seq(Seq(Nat)) /\ Range(texts) = Range(b.texts) \cup Range(flushed) \cup Range(pieces)
    <3> DEFINE S == Seq(Nat)
               x == b.texts
               y == x \o flushed
    <3>1. x \in Seq(S) /\ flushed \in Seq(S) /\ pieces \in Seq(S) BY <1>1, <2>11, <2>3
    <3> HIDE DEF S, x
    <3>2. y \in Seq(S) BY <3>1
    <3>3. Range(y) = Range(x) \cup Range(flushed) BY <3>1, RangeConcatenation
    <3> HIDE DEF y
    <3>4. y \o pieces \in Seq(S) /\ Range(y \o pieces) = Range(y) \cup Range(pieces)
      BY <3>1, <3>2, RangeConcatenation
    <3>5. QED BY <3>3, <3>4 DEF S, x, y
  <2>5. Range(pieces) = {pieces[k] : k \in 1..Len(pieces)} BY <2>11, RangeEquality
  <2> HIDE DEF texts
  <2>6. after \in Buffered /\ after.buffer = rest /\ after.texts = texts
    BY <2>1, <2>11, <2>4 DEF Buffered
  <2> HIDE DEF after
  <2>7. Fits(after, size) BY <2>11, <2>3, <2>4, <2>5, <2>6 DEF Fits
  <2>8. ASSUME NEW q, Word(q), KeptIn(q, b) PROVE KeptIn(q, after)
    BY <2>3, <2>4, <2>6, <2>8 DEF KeptIn
  <2>9. ASSUME NEW i \in 1..Len(t), NEW j \in 1..Len(t), i <= j, j - i <= margin
        PROVE  KeptIn(passage(i, j), after)
    <3>1. passage(i, j) \in Seq(Nat) /\ SubSeq(t, i, j) \in Seq(Nat) /\ Inside(passage(i, j), SubSeq(t, i, j))
      BY <1>3, <2>9
    <3>2. CASE Inside(SubSeq(t, i, j), rest)
      <4>1. Inside(passage(i, j), rest) BY <2>11, <3>1, <3>2, InsideTransitive
      <4>2. QED BY <2>11, <2>6, <4>1 DEF KeptIn
    <3>3. ASSUME NEW k \in 1..Len(pieces), Inside(SubSeq(t, i, j), pieces[k])
          PROVE  KeptIn(passage(i, j), after)
      <4>1. pieces[k] \in Seq(Nat) BY <2>11
      <4>2. Inside(passage(i, j), pieces[k]) BY <3>1, <3>3, <4>1, InsideTransitive
      <4>3. pieces[k] \in Range(after.texts) BY <2>4, <2>5, <2>6
      <4>4. QED BY <4>2, <4>3 DEF KeptIn
    <3>4. QED BY <2>11, <2>9, <3>2, <3>3
  <2>10. QED BY <2>11, <2>6, <2>7, <2>8, <2>9 DEF after, passage
<1>6. QED BY <1>4, <1>5

\* The first n paragraphs are kept in b.
Holds(b, paragraphs, n, size, margin) ==
  /\ b \in Buffered /\ Fits(b, size)
  /\ n > 0 => b.buffer # <<>>
  /\ \A k \in 1..n : \A i, j \in 1..Len(paragraphs[k]) :
       i <= j /\ j - i <= margin => KeptIn(Strip(SubSeq(paragraphs[k], i, j)), b)

LEMMA TakenHolds ==
  ASSUME NEW size \in Nat \ {0}, NEW stride \in 1..size, NEW margin \in Nat, stride + margin = size,
         NEW ps \in Seq(Seq(Nat)), \A n \in 1..Len(ps) : IsParagraph(ps[n])
  PROVE  Holds(Taken(ps, size, stride), ps, Len(ps), size, margin)
<1> DEFINE N == Len(ps)
           S == {b \in Buffered : Fits(b, size)}
           none == [texts |-> <<>>, buffer |-> <<>>]
           next(b, n) == Take(b, ps[n], size, stride)
           IsTaken(g) == g = [n \in 0..N |-> IF n = 0 THEN none ELSE next(g[n - 1], n)]
           taken == CHOOSE g : IsTaken(g)
<1>1. N \in Nat /\ \A n \in 1..N : ps[n] \in Seq(Nat) /\ IsParagraph(ps[n])
  OBVIOUS
<1>2. none \in S BY DEF Buffered, Fits, Range
<1>3. ASSUME NEW n \in 1..N, NEW b \in S
      PROVE  /\ next(b, n) \in S /\ next(b, n).buffer # <<>>
             /\ \A q : Word(q) /\ KeptIn(q, b) => KeptIn(q, next(b, n))
             /\ \A i, j \in 1..Len(ps[n]) : i <= j /\ j - i <= margin =>
                  KeptIn(Strip(SubSeq(ps[n], i, j)), next(b, n))
  <2>1. b \in Buffered /\ Fits(b, size) /\ ps[n] \in Seq(Nat) /\ IsParagraph(ps[n]) BY <1>1
  <2>2. /\ next(b, n) \in Buffered /\ Fits(next(b, n), size) /\ next(b, n).buffer # <<>>
        /\ \A q : Word(q) /\ KeptIn(q, b) => KeptIn(q, next(b, n))
        /\ \A i, j \in 1..Len(ps[n]) : i <= j /\ j - i <= margin =>
             KeptIn(Strip(SubSeq(ps[n], i, j)), next(b, n))
    BY <2>1, TakeKeeps
  <2>3. QED BY <2>2
<1>4. Taken(ps, size, stride) = taken[N] BY DEF Taken
<1> HIDE DEF S, none, next, N
<1>5. IsTaken(taken)
  <2> DEFINE F == [x \in (1..N) \X S |-> next(x[2], x[1])]
  <2>1. F \in [(1..N) \X S -> S] /\ \A n \in 1..N, b \in S : F[<<n, b>>] = next(b, n) BY <1>3
  <2> HIDE DEF F
  <2>2. PICK g \in [0..N -> S] : g[0] = none /\ \A n \in 1..N : g[n] = F[<<n, g[n - 1]>>]
    <3>1. HasCourse(N, S, none, F) BY <1>1, <1>2, <2>1, StepByStep
    <3>2. QED BY <3>1 DEF HasCourse, Course
  <2>3. ASSUME NEW n \in 0..N PROVE g[n] = IF n = 0 THEN none ELSE next(g[n - 1], n)
    <3>1. CASE n = 0 BY <2>2, <3>1
    <3>2. CASE n # 0
      <4>1. n \in 1..N /\ n - 1 \in 0..N BY <1>1, <3>2
      <4>2. g[n - 1] \in S BY <2>2, <4>1
      <4>3. QED BY <2>1, <2>2, <3>2, <4>1, <4>2
    <3>3. QED BY <3>1, <3>2
  <2>4. IsTaken(g) BY <2>2, <2>3
  <2>5. QED BY <2>4
<1> HIDE DEF taken
<1>6. /\ taken[0] = none
      /\ \A n \in 1..N : taken[n] = next(taken[n - 1], n)
  BY <1>1, <1>5
<1> HIDE DEF IsTaken
<1> DEFINE Good(n) ==
             /\ taken[n] \in S /\ (n > 0 => taken[n].buffer # <<>>)
             /\ \A k \in 1..n : \A i, j \in 1..Len(ps[k]) :
                  i <= j /\ j - i <= margin => KeptIn(Strip(SubSeq(ps[k], i, j)), taken[n])
           T == {n \in 0..N : Good(n)}
<1>7. 0 \in T BY <1>1, <1>2, <1>6
<1>8. ASSUME NEW n \in 1..N, n - 1 \in T PROVE n \in T
  <2>1. taken[n - 1] \in S /\ taken[n] = next(taken[n - 1], n) BY <1>6, <1>8
  <2>2. taken[n] \in S /\ taken[n].buffer # <<>> BY <1>3, <2>1
  <2>3. ASSUME NEW k \in 1..n, NEW i \in 1..Len(ps[k]), NEW j \in 1..Len(ps[k]), i <= j, j - i <= margin
        PROVE  KeptIn(Strip(SubSeq(ps[k], i, j)), taken[n])
    <3>1. CASE k = n BY <1>3, <2>1, <2>3, <3>1
    <3>2. CASE k # n
      <4>1. k \in 1..(n - 1) BY <3>2
      <4>2. KeptIn(Strip(SubSeq(ps[k], i, j)), taken[n - 1]) BY <1>8, <2>3, <4>1
      <4>3. Word(Strip(SubSeq(ps[k], i, j)))
        <5>1. k \in 1..N BY <1>1
        <5>2. ps[k] \in Seq(Nat) /\ i \in Nat \ {0} /\ j \in Nat /\ j <= Len(ps[k]) BY <1>1, <5>1
        <5>3. SubSeq(ps[k], i, j) \in Seq(Nat) BY <5>2, SubSeqInside
        <5>4. QED BY <5>3, Stripped
      <4>4. QED BY <1>3, <2>1, <4>2, <4>3
    <3>3. QED BY <3>1, <3>2
  <2>4. n \in 0..N BY <1>1
  <2>5. QED BY <2>2, <2>3, <2>4
<1>9. N \in T
  <2> HIDE DEF T
  <2>1. 0..N \subseteq T BY <1>1, <1>7, <1>8, UpTo
  <2>2. QED BY <1>1, <2>1
<1>10. Good(N) BY <1>9
<1>11. taken[N] \in Buffered /\ Fits(taken[N], size) BY <1>10 DEF S
<1>12. QED BY <1>4, <1>10, <1>11 DEF Holds, N

\* Whatever the text, the chunk size and the overlap: no chunk is longer than
\* the size, and no passage of a paragraph that is no longer than the overlap
\* and one character more is lost to a cut (ChunkingService.chunk_document).
THEOREM CutsKeepPassages ==
  ASSUME NEW paragraphs \in Seq(Seq(Nat)), \A n \in 1..Len(paragraphs) : IsParagraph(paragraphs[n]),
         NEW size \in Nat \ {0}, NEW overlap \in Int
  PROVE  LET chunks == ChunkDocument(paragraphs, size, overlap)
         IN /\ chunks \in Seq({MakeChunk(t) : t \in Seq(Nat)})
            /\ PassagesKept(chunks, paragraphs, size, overlap)
<1> DEFINE chunks == ChunkDocument(paragraphs, size, overlap)
           stride == Stride(size, overlap)
           margin == Margin(size, overlap)
           last == Taken(paragraphs, size, stride)
           texts == last.texts \o Flushed(last.buffer)
<1>1. stride \in 1..size /\ margin \in 0..(size - 1) /\ stride + margin = size BY MarginFits
<1>2. Holds(last, paragraphs, Len(paragraphs), size, margin)
  <2> HIDE DEF stride, margin
  <2>1. QED BY <1>1, TakenHolds
<1>3. chunks = [k \in DOMAIN texts |-> MakeChunk(texts[k])] BY DEF ChunkDocument
<1> HIDE DEF stride, margin, last
<1>4. last \in Buffered /\ last.texts \in Seq(Seq(Nat)) /\ last.buffer \in Seq(Nat) /\ Fits(last, size)
  BY <1>2 DEF Holds, Buffered
<1>5. texts \in Seq(Seq(Nat)) /\ Range(texts) = Range(last.texts) \cup {y \in {last.buffer} : last.buffer # <<>>}
  <2> DEFINE S == Seq(Nat)
             x == last.texts
             y == Flushed(last.buffer)
  <2>1. x \in Seq(S) /\ y \in Seq(S) /\ Range(y) = {z \in {last.buffer} : last.buffer # <<>>}
    BY <1>4, FlushedKeeps
  <2> HIDE DEF S, x, y
  <2>2. x \o y \in Seq(S) /\ Range(x \o y) = Range(x) \cup Range(y) BY <2>1, RangeConcatenation
  <2>3. QED BY <2>1, <2>2 DEF S, x, y
<1> HIDE DEF chunks, texts
<1>6. texts \in Seq(Seq(Nat)) /\ Range(texts) = {texts[k] : k \in 1..Len(texts)} /\ DOMAIN texts = 1..Len(texts)
  <2>1. texts \in Seq(Seq(Nat)) BY <1>5
  <2>2. Range(texts) = {texts[k] : k \in 1..Len(texts)} BY <2>1, RangeEquality, Zenon
  <2>3. DOMAIN texts = 1..Len(texts) BY <2>1
  <2>4. QED BY <2>1, <2>2, <2>3
<1>7. /\ chunks \in Seq({MakeChunk(t) : t \in Seq(Nat)}) /\ DOMAIN chunks = 1..Len(texts)
      /\ \A k \in 1..Len(texts) : texts[k] \in Seq(Nat) /\ chunks[k].text = Strip(texts[k])
  BY <1>3, <1>6 DEF MakeChunk
<1>8. ASSUME NEW k \in DOMAIN chunks PROVE Len(chunks[k].text) <= size
  <2>1. Len(texts[k]) <= size BY <1>4, <1>5, <1>6, <1>7 DEF Fits
  <2>2. Len(Strip(texts[k])) <= Len(texts[k]) /\ Strip(texts[k]) \in Seq(Nat) BY <1>7, Stripped
  <2>3. QED BY <1>7, <2>1, <2>2
<1>9. ASSUME NEW q, Word(q), KeptIn(q, last)
      PROVE  \E k \in DOMAIN chunks : Inside(q, chunks[k].text)
  <2>1. \E x \in Range(texts) : Inside(q, x) BY <1>5, <1>9 DEF KeptIn
  <2>2. PICK k \in 1..Len(texts) : Inside(q, texts[k]) BY <1>6, <2>1
  <2>3. Inside(q, Strip(texts[k])) BY <1>7, <1>9, <2>2, Stripped
  <2>4. QED BY <1>7, <2>3
<1>10. ASSUME NEW n \in DOMAIN paragraphs,
              NEW i \in 1..Len(paragraphs[n]), NEW j \in 1..Len(paragraphs[n]), i <= j, j - i <= margin
       PROVE  LET passage == Strip(SubSeq(paragraphs[n], i, j))
              IN \E k \in DOMAIN chunks : \E m \in 0..Len(chunks[k].text) :
                   /\ m + Len(passage) <= Len(chunks[k].text)
                   /\ SubSeq(chunks[k].text, m + 1, m + Len(passage)) = passage
  <2> DEFINE passage == Strip(SubSeq(paragraphs[n], i, j))
  <2>1. n \in 1..Len(paragraphs) /\ paragraphs[n] \in Seq(Nat)
    OBVIOUS
  <2>2. KeptIn(passage, last) BY <1>2, <1>10, <2>1 DEF Holds
  <2>3. Word(passage) /\ passage \in Seq(Nat)
    <3>1. i \in Nat \ {0} /\ j \in Nat /\ j <= Len(paragraphs[n]) BY <2>1
    <3>2. SubSeq(paragraphs[n], i, j) \in Seq(Nat) BY <2>1, <3>1, SubSeqInside
    <3>3. QED BY <3>2, Stripped
  <2> HIDE DEF passage
  <2>4. PICK k \in DOMAIN chunks : Inside(passage, chunks[k].text) BY <1>9, <2>2, <2>3
  <2> DEFINE t == chunks[k].text
  <2>5. t \in Seq(Nat) BY <1>7, Stripped
  <2> HIDE DEF t
  <2>6. PICK m \in 0..Len(t) : m + Len(passage) <= Len(t) /\ \A h \in 1..Len(passage) : t[m + h] = passage[h]
    BY <2>4 DEF Inside, t
  <2> DEFINE b == m + Len(passage)
             s == SubSeq(t, m + 1, b)
  <2>7. m \in Nat /\ b \in Nat /\ m <= b /\ b <= Len(t) /\ b - m = Len(passage) BY <2>3, <2>6
  <2> HIDE DEF b
  <2>8. s \in Seq(Nat) /\ Len(s) = b - m /\ \A h \in 1..(b - m) : s[h] = t[m + h]
    BY <2>5, <2>7, PartOf
  <2> HIDE DEF s
  <2>9. s = passage BY <2>3, <2>6, <2>7, <2>8, SeqEqual
  <2>10. QED BY <2>6, <2>9 DEF b, s, t, passage
<1>11. PassagesKept(chunks, paragraphs, size, overlap)
  <2>1. ASSUME NEW n \in DOMAIN paragraphs
        PROVE  LET t == paragraphs[n]
                   width == Min({Len(t), 1 + margin})
               IN \A i \in 1..(Len(t) - width + 1) :
                    LET passage == Strip(SubSeq(t, i, i + width - 1))
                    IN \E k \in DOMAIN chunks : \E m \in 0..Len(chunks[k].text) :
                         /\ m + Len(passage) <= Len(chunks[k].text)
                         /\ SubSeq(chunks[k].text, m + 1, m + Len(passage)) = passage
    <3> DEFINE t == paragraphs[n]
               width == Min({Len(t), 1 + margin})
    <3>1. t \in Seq(Nat) /\ t # <<>>
      <4>1. n \in 1..Len(paragraphs)
        OBVIOUS
      <4>2. IsParagraph(t) BY <4>1
      <4>3. QED BY <4>1, <4>2 DEF IsParagraph
    <3>2. Len(t) \in Nat /\ Len(t) >= 1 /\ margin \in Nat BY <1>1, <3>1
    <3>3. width = IF Len(t) <= 1 + margin THEN Len(t) ELSE 1 + margin
      <4> DEFINE L == Len(t)
                 m == 1 + margin
      <4>1. L \in Int /\ m \in Int BY <3>2
      <4> HIDE DEF L, m
      <4>2. Min({L, m}) = IF L <= m THEN L ELSE m BY <4>1, OfTwo
      <4>3. QED BY <4>2 DEF L, m
    <3> HIDE DEF width
    <3>4. width \in 1..Len(t) /\ width <= 1 + margin BY <3>2, <3>3
    <3>5. ASSUME NEW i \in 1..(Len(t) - width + 1)
          PROVE  LET j == i + width - 1 IN j \in 1..Len(t) /\ i \in 1..Len(t) /\ i <= j /\ j - i <= margin
      BY <3>2, <3>4
    <3>6. QED BY <1>10, <3>5 DEF width
  <2>2. QED BY <1>8, <2>1 DEF PassagesKept, margin, Margin
<1>12. QED BY <1>7, <1>11 DEF chunks

-----------------------------------------------------------------------------
(* The texts and their chunks.                                             *)

ParagraphLists == {s \in Seq(Seq(Nat)) : \A n \in 1..Len(s) : IsParagraph(s[n])}

LEMMA JoinedLists ==
  ASSUME NEW s \in ParagraphLists, NEW t \in ParagraphLists
  PROVE  s \o t \in ParagraphLists
<1>1. s \in Seq(Seq(Nat)) /\ t \in Seq(Seq(Nat)) /\ Len(s) \in Nat /\ Len(t) \in Nat
  BY DEF ParagraphLists
<1>2. /\ s \o t \in Seq(Seq(Nat)) /\ Len(s \o t) = Len(s) + Len(t)
      /\ \A n \in 1..(Len(s) + Len(t)) :
           (s \o t)[n] = IF n <= Len(s) THEN s[n] ELSE t[n - Len(s)]
  BY <1>1, ConcatProperties, Zenon
<1>3. ASSUME NEW n \in 1..(Len(s) + Len(t)) PROVE IsParagraph((s \o t)[n])
  <2>1. CASE n <= Len(s)
    <3>1. n \in 1..Len(s) /\ (s \o t)[n] = s[n] BY <1>1, <1>2, <2>1
    <3>2. QED BY <3>1 DEF ParagraphLists
  <2>2. CASE ~ (n <= Len(s))
    <3>1. n - Len(s) \in 1..Len(t) /\ (s \o t)[n] = t[n - Len(s)] BY <1>1, <1>2, <2>2
    <3>2. QED BY <3>1 DEF ParagraphLists
  <2>3. QED BY <2>1, <2>2
<1>4. QED BY <1>2, <1>3 DEF ParagraphLists

\* The paragraphs of an article are those of its sections.
LEMMA SectionsJoined ==
  ASSUME NEW seqs \in Seq(ParagraphLists)
  PROVE  FromArticle(seqs) \in ParagraphLists
<1> DEFINE N == Len(seqs)
           IsFlat(g) == g = [i \in 1..N |-> IF i = 1 THEN seqs[i] ELSE g[i - 1] \o seqs[i]]
           flat == CHOOSE g : IsFlat(g)
           none == <<>>
           F == [x \in (1..N) \X ParagraphLists |-> x[2] \o seqs[x[1]]]
<1>1. N \in Nat /\ \A n \in 1..N : seqs[n] \in ParagraphLists
  OBVIOUS
<1>2. none \in ParagraphLists /\ \A s \in ParagraphLists : none \o s = s BY DEF ParagraphLists
<1>3. /\ F \in [(1..N) \X ParagraphLists -> ParagraphLists]
      /\ \A n \in 1..N, b \in ParagraphLists : F[<<n, b>>] = b \o seqs[n]
  BY <1>1, JoinedLists
<1>4. FromArticle(seqs) = IF N = 0 THEN seqs ELSE flat[N] BY DEF FromArticle, FlattenSeq
<1> HIDE DEF F, none, N
<1>5. PICK g \in [0..N -> ParagraphLists] :
        g[0] = none /\ \A n \in 1..N : g[n] = F[<<n, g[n - 1]>>]
  <2>1. HasCourse(N, ParagraphLists, none, F) BY <1>1, <1>2, <1>3, StepByStep
  <2>2. QED BY <2>1 DEF HasCourse, Course
<1> DEFINE h == [i \in 1..N |-> g[i]]
<1>6. IsFlat(h)
  <2>1. ASSUME NEW i \in 1..N
        PROVE  h[i] = IF i = 1 THEN seqs[i] ELSE h[i - 1] \o seqs[i]
    <3>1. i - 1 \in 0..N BY <1>1
    <3>2. g[i - 1] \in ParagraphLists BY <3>1, <1>5
    <3>3. h[i] = g[i - 1] \o seqs[i] BY <3>2, <1>3, <1>5
    <3>4. CASE i = 1
      <4>1. g[i - 1] = none /\ seqs[i] \in ParagraphLists BY <3>4, <1>1, <1>5
      <4>2. none \o seqs[i] = seqs[i] BY <4>1, <1>2
      <4>3. QED BY <3>3, <3>4, <4>1, <4>2
    <3>5. CASE i # 1
      <4>1. i - 1 \in 1..N BY <3>5, <1>1
      <4>2. QED BY <3>3, <3>5, <4>1
    <3>6. QED BY <3>4, <3>5
  <2>2. QED BY <2>1
<1>7. IsFlat(flat)
  <2> HIDE DEF IsFlat, h
  <2>1. QED BY <1>6
<1> HIDE DEF flat, h
<1> DEFINE T == {n \in 0..N : n = 0 \/ flat[n] \in ParagraphLists}
<1>8. 0 \in T BY <1>1
<1>9. ASSUME NEW n \in 1..N, n - 1 \in T PROVE n \in T
  <2>1. flat[n] = IF n = 1 THEN seqs[n] ELSE flat[n - 1] \o seqs[n] BY <1>7
  <2>2. seqs[n] \in ParagraphLists BY <1>1
  <2>3. CASE n = 1 BY <1>1, <2>1, <2>2, <2>3
  <2>4. CASE n # 1
    <3>1. flat[n - 1] \in ParagraphLists BY <1>1, <1>9, <2>4
    <3>2. flat[n - 1] \o seqs[n] \in ParagraphLists BY <2>2, <3>1, JoinedLists
    <3>3. flat[n] \in ParagraphLists BY <2>1, <2>4, <3>2
    <3>4. QED BY <1>1, <3>3
  <2>5. QED BY <2>3, <2>4
<1>10. 0..N \subseteq T
  <2> HIDE DEF T
  <2>1. QED BY <1>1, <1>8, <1>9, UpTo
<1>11. CASE N = 0 BY <1>4, <1>11 DEF ParagraphLists, N
<1>12. CASE N # 0
  <2>1. N \in T BY <1>1, <1>10
  <2>2. QED BY <1>4, <1>12, <2>1
<1>13. QED BY <1>11, <1>12

\* What is indexed of an edition is what CutsKeepPassages is about.
LEMMA ContentHolds ==
  ASSUME site \in Sites, NEW a \in Articles, NEW e \in 1..Len(site.editions[a])
  PROVE  LET content == Content(a, e)
         IN /\ content \in ParagraphLists
            /\ Drafts(content) = ChunkDocument(content, site.size, site.overlap)
            /\ Drafts(content) \in Seq({MakeChunk(t) : t \in Seq(Nat)})
            /\ PassagesKept(Drafts(content), content, site.size, site.overlap)
<1> DEFINE editions == site.editions[a]
           content == Content(a, e)
           key == <<content, site.size, site.overlap>>
<1>1. /\ editions \in Seq(Seq(Seq(Seq(Nat))))
      /\ \A n \in DOMAIN editions : \A k \in DOMAIN editions[n] :
           \A i \in DOMAIN editions[n][k] : IsParagraph(editions[n][k][i])
      /\ site.size \in Nat \ {0} /\ site.overlap \in Int
  BY KnowledgeAssumption DEF Settings
<1>2. e \in DOMAIN editions BY <1>1
<1>3. editions[e] \in Seq(Seq(Seq(Nat))) BY <1>1, <1>2
<1>4. editions[e] \in Seq(ParagraphLists)
  <2>1. ASSUME NEW k \in 1..Len(editions[e]) PROVE editions[e][k] \in ParagraphLists
    <3>1. editions[e][k] \in Seq(Seq(Nat)) BY <1>3
    <3>2. k \in DOMAIN editions[e] /\ DOMAIN editions[e][k] = 1..Len(editions[e][k]) BY <1>3, <3>1
    <3>3. QED BY <1>1, <1>2, <3>1, <3>2 DEF ParagraphLists
  <2>2. QED
    <3>1. editions[e] \in [1..Len(editions[e]) -> ParagraphLists] /\ Len(editions[e]) \in Nat
      BY <1>3, <2>1
    <3>2. QED BY <3>1, SeqDef
<1>5. content \in ParagraphLists BY <1>4, SectionsJoined DEF Content
<1>6. key \in Texts
  <2> DEFINE Keys(s, b) == {<<FromArticle(s.editions[b][x]), s.size, s.overlap>> :
                              x \in DOMAIN s.editions[b]}
  <2>1. key \in Keys(site, a) BY <1>2 DEF Content
  <2>2. Texts = UNION {Keys(s, b) : s \in Sites, b \in Articles} BY DEF Texts
  <2> HIDE DEF Keys, key
  <2>3. QED BY <2>1, <2>2
<1>7. Drafts(content) = ChunkDocument(content, site.size, site.overlap)
  <2>1. Cut[key] = ChunkDocument(key[1], key[2], key[3]) BY <1>6 DEF Cut
  <2>2. QED BY <2>1 DEF Drafts
<1> HIDE DEF content
<1>8. /\ ChunkDocument(content, site.size, site.overlap) \in Seq({MakeChunk(t) : t \in Seq(Nat)})
      /\ PassagesKept(ChunkDocument(content, site.size, site.overlap), content,
                      site.size, site.overlap)
  <2>1. content \in Seq(Seq(Nat)) /\ \A n \in 1..Len(content) : IsParagraph(content[n])
    BY <1>5 DEF ParagraphLists
  <2>2. QED BY <1>1, <2>1, CutsKeepPassages
<1>9. QED BY <1>5, <1>7, <1>8 DEF content

-----------------------------------------------------------------------------
(* The inductive invariant.                                                *)

CallFields ==
  {"kind", "pc", "todo", "existing", "chunks", "next", "attempts", "found", "context"}

\* What a worker has read exists: editions are only added.  One that creates
\* has found no document, one that rewrites has found one.
GoodCall(c, st) ==
  /\ DOMAIN c = CallFields
  /\ c.pc \in {"idle", "look", "create", "reindex", "embed", "search", "build", "done"}
  /\ c.pc # "idle" => c.todo # <<>>
  /\ c.todo \in Seq([article : Articles, edition : Nat])
  /\ \A k \in 1..Len(c.todo) : c.todo[k].edition \in 1..st[c.todo[k].article]
  /\ c.existing \in Nat /\ c.next \in Nat \ {0}
  /\ c.pc \in {"look", "create"} => c.existing = 0
  /\ c.pc = "reindex" => c.existing # 0
  /\ c.pc \in {"look", "create", "reindex"} => c.next = 1

\* The chunks of a document while the ones before next have been embedded.
Halfway(drafts, next) ==
  [k \in DOMAIN drafts |-> IF k < next THEN Embedded(PendingChunk(drafts[k]))
                           ELSE PendingChunk(drafts[k])]

\* A worker that embeds holds the article; the document it has found is still
\* there as long as it does, and its chunks are the ones of its own copy.
Alone(p, c, wr, doc) ==
  c.pc = "embed" =>
    LET h == Head(c.todo)
    IN /\ wr[h.article] = p
       /\ c.existing = 0 => doc[h.article] = NoDocument
       /\ c.existing # 0 => doc[h.article].id = c.existing
       /\ c.chunks = Halfway(Drafts(Content(h.article, h.edition)), c.next)

\* Only documents have numbers, no two the same, and none one to come.
Numbered(doc, n) ==
  \A a \in Articles :
    /\ doc[a].id \in 0..n
    /\ doc[a].id = 0 <=> doc[a] = NoDocument
    /\ \A b \in Articles \ {a} : doc[b].id = doc[a].id => doc[a].id = 0

IndexInv ==
  /\ site \in Sites
  /\ stored \in [Articles -> Nat]
  /\ \A a \in Articles : stored[a] <= Len(site.editions[a])
  /\ writer \in [Articles -> Workers \cup {"nobody"}]
  /\ DOMAIN document = Articles /\ DOMAIN call = Workers
  /\ DOMAIN spent = {"requests", "deletions", "faults", "documents"}
  /\ spent.documents \in Nat
  /\ \A p \in Workers : GoodCall(call[p], stored) /\ Alone(p, call[p], writer, document)
  /\ Numbered(document, spent.documents)
  /\ DocumentsAreWhole


CountsGo == DOMAIN spent' = DOMAIN spent /\ spent'.documents = spent.documents

LEMMA SpendCounts ==
  ASSUME IndexInv, NEW kind \in {"requests", "deletions", "faults"}, Spend(kind)
  PROVE  CountsGo
  BY DEF IndexInv, Spend, CountsGo

LEMMA SameCounts ==
  ASSUME UNCHANGED spent
  PROVE  CountsGo
  BY DEF CountsGo

LEMMA FaultCounts ==
  ASSUME IndexInv, NEW kind \in {"embed", "insert", "query", "crash"}, Fault(kind)
  PROVE  CountsGo
  BY DEF IndexInv, Fault, Spend, CountsGo

\* No document is touched: what there is stays whole.
LEMMA SameDocuments ==
  ASSUME IndexInv, site' = site, document' = document, CountsGo,
         stored' \in [Articles -> Nat], \A a \in Articles : stored[a] <= stored'[a]
  PROVE  (Numbered(document, spent.documents) /\ DocumentsAreWhole)'
<1>1. Numbered(document', spent'.documents) BY DEF IndexInv, Numbered, CountsGo
<1>2. ASSUME NEW a \in Articles, NEW e \in 1..stored[a] PROVE e \in 1..stored'[a]
  <2>1. stored[a] \in Nat /\ stored'[a] \in Nat /\ stored[a] <= stored'[a] BY DEF IndexInv
  <2>2. QED BY <2>1
<1>3. DocumentsAreWhole' BY <1>2 DEF IndexInv, DocumentsAreWhole, Drafts, Content
<1>4. QED BY <1>1, <1>3

\* What one worker does to its own call and to the articles it holds leaves
\* the others as they were.
LEMMA OthersStay ==
  ASSUME IndexInv, NEW p, site' = site,
         stored' \in [Articles -> Nat], \A a \in Articles : stored[a] <= stored'[a],
         \A q \in Workers : q # p => call'[q] = call[q],
         \A a \in Articles, q \in Workers :
           q # p /\ writer[a] = q => writer'[a] = q /\ document'[a] = document[a]
  PROVE  \A q \in Workers : q # p =>
           (GoodCall(call[q], stored) /\ Alone(q, call[q], writer, document))'
<1> SUFFICES ASSUME NEW q \in Workers, q # p
             PROVE  (GoodCall(call[q], stored) /\ Alone(q, call[q], writer, document))'
  OBVIOUS
<1>1. GoodCall(call[q], stored) /\ Alone(q, call[q], writer, document) /\ call'[q] = call[q]
  BY DEF IndexInv
<1>2. GoodCall(call'[q], stored')
  <2>1. ASSUME NEW k \in 1..Len(call[q].todo)
        PROVE  call[q].todo[k].edition \in 1..stored'[call[q].todo[k].article]
    <3> DEFINE x == call[q].todo[k]
    <3>1. x \in [article : Articles, edition : Nat]
      <4>1. call[q].todo \in Seq([article : Articles, edition : Nat]) BY <1>1 DEF GoodCall
      <4>2. QED BY <4>1, ElementOfSeq
    <3>2. x.article \in Articles /\ x.edition \in 1..stored[x.article] BY <1>1, <3>1 DEF GoodCall
    <3> HIDE DEF x
    <3>3. stored[x.article] \in Nat /\ stored'[x.article] \in Nat
          /\ stored[x.article] <= stored'[x.article]
      BY <3>2 DEF IndexInv
    <3>4. x.edition \in 1..stored'[x.article] BY <3>2, <3>3
    <3>5. QED BY <3>4 DEF x
  <2>2. QED BY <1>1, <2>1 DEF GoodCall
<1>3. (Alone(q, call[q], writer, document))'
  <2> SUFFICES ASSUME call[q].pc = "embed"
               PROVE  (Alone(q, call[q], writer, document))'
    BY <1>1 DEF Alone
  <2> DEFINE h == Head(call[q].todo)
  <2>1. h \in [article : Articles, edition : Nat]
    <3> DEFINE S == [article : Articles, edition : Nat]
    <3>1. call[q].todo \in Seq(S) /\ call[q].todo # <<>> BY <1>1 DEF GoodCall
    <3> HIDE DEF S
    <3>2. h \in S BY <3>1
    <3>3. QED BY <3>2 DEF S
  <2>2. h.article \in Articles /\ writer[h.article] = q BY <1>1, <2>1 DEF Alone
  <2>3. writer'[h.article] = q /\ document'[h.article] = document[h.article] BY <2>2
  <2>4. QED BY <1>1, <2>2, <2>3 DEF Alone, Drafts, Content
<1>4. QED BY <1>2, <1>3

\* A worker goes on, with or without an article of its own.
LEMMA CallGoesOn ==
  ASSUME IndexInv, NEW p \in Workers, NEW c,
         site' = site, document' = document, CountsGo, Goto(p, c),
         stored' \in [Articles -> Nat],
         \A a \in Articles : stored[a] <= stored'[a] /\ stored'[a] <= Len(site.editions[a]),
         writer' \in [Articles -> Workers \cup {"nobody"}],
         \A a \in Articles : writer'[a] = writer[a] \/ writer[a] \in {p, "nobody"},
         GoodCall(c, stored'), Alone(p, c, writer', document)
  PROVE  IndexInv'
<1>1. DOMAIN call' = Workers /\ call'[p] = c /\ \A q \in Workers : q # p => call'[q] = call[q]
  BY DEF IndexInv, Goto
<1>2. \A a \in Articles, q \in Workers :
        q # p /\ writer[a] = q => writer'[a] = q /\ document'[a] = document[a]
  BY KnowledgeAssumption
<1>3. \A q \in Workers : q # p =>
        (GoodCall(call[q], stored) /\ Alone(q, call[q], writer, document))'
  BY <1>1, <1>2, OthersStay
<1>4. (GoodCall(call[p], stored) /\ Alone(p, call[p], writer, document))'
  BY <1>1 DEF Alone, Drafts, Content
<1>5. (Numbered(document, spent.documents) /\ DocumentsAreWhole)' BY SameDocuments
<1>6. QED BY <1>1, <1>3, <1>4, <1>5 DEF IndexInv, CountsGo

\* As before, when no article is imported or taken.
LEMMA CallMoves ==
  ASSUME IndexInv, NEW p \in Workers, NEW c,
         site' = site, document' = document, stored' = stored, writer' = writer, CountsGo,
         Goto(p, c), GoodCall(c, stored), Alone(p, c, writer, document)
  PROVE  IndexInv'
  BY CallGoesOn DEF IndexInv

LEMMA CallFrees ==
  ASSUME IndexInv, NEW p \in Workers, NEW c,
         site' = site, document' = document, stored' = stored, Release(p), CountsGo,
         Goto(p, c), GoodCall(c, stored), c.pc # "embed"
  PROVE  IndexInv'
<1>1. writer' \in [Articles -> Workers \cup {"nobody"}]
      /\ \A a \in Articles : writer'[a] = writer[a] \/ writer[a] \in {p, "nobody"}
  BY DEF IndexInv, Release
<1>2. Alone(p, c, writer', document) BY DEF Alone
<1>3. QED BY <1>1, <1>2, CallGoesOn DEF IndexInv

\* A worker that is given articles it has read, or none.
LEMMA NewCall ==
  ASSUME NEW kind, NEW todo \in Seq([article : Articles, edition : Nat]), NEW st,
         \A k \in 1..Len(todo) : todo[k].edition \in 1..st[todo[k].article],
         NEW pc \in {"idle", "look", "search"}, pc # "idle" => todo # <<>>
  PROVE  GoodCall([NoCall EXCEPT !.kind = kind, !.pc = pc, !.todo = todo], st)
  BY DEF GoodCall, NoCall, CallFields

LEMMA NoneIsGood ==
  ASSUME NEW st
  PROVE  GoodCall(NoCall, st)
  BY DEF GoodCall, NoCall, CallFields

\* However an indexing ends, its worker goes on with what it has read.
LEMMA SettledIsGood ==
  ASSUME IndexInv, NEW p \in Workers, NEW indexed \in BOOLEAN, ~ At(p, "idle"), Settled(p, indexed)
  PROVE  \E c : Goto(p, c) /\ GoodCall(c, stored) /\ c.pc # "embed"
<1> DEFINE c == call[p]
           S == [article : Articles, edition : Nat]
<1>1. c.todo \in Seq(S) /\ c.todo # <<>>
      /\ \A k \in 1..Len(c.todo) : c.todo[k].edition \in 1..stored[c.todo[k].article]
  BY DEF IndexInv, GoodCall, At
<1>2. CASE c.kind = "script"
  <2> DEFINE d == [NoCall EXCEPT !.kind = c.kind, !.pc = "search", !.todo = c.todo]
  <2>1. Goto(p, d) BY <1>2 DEF Settled
  <2>2. GoodCall(d, stored) /\ d.pc = "search" BY <1>1, NewCall DEF NoCall
  <2> HIDE DEF d
  <2>3. QED BY <2>1, <2>2
<1>3. CASE c.kind # "script" /\ indexed /\ Len(c.todo) > 1
  <2> DEFINE t == Tail(c.todo)
             d == [NoCall EXCEPT !.kind = c.kind, !.pc = "look", !.todo = t]
  <2>1. t \in Seq(S) /\ Len(t) = Len(c.todo) - 1 /\ \A k \in 1..Len(t) : t[k] = c.todo[k + 1]
    BY <1>1
  <2>2. Goto(p, d) BY <1>3 DEF Settled, Begin
  <2>3. Len(c.todo) \in Nat BY <1>1
  <2> HIDE DEF t
  <2>4. ASSUME NEW k \in 1..Len(t) PROVE t[k].edition \in 1..stored[t[k].article]
    <3>1. k + 1 \in 1..Len(c.todo) BY <2>1, <2>3
    <3>2. QED BY <1>1, <2>1, <3>1
  <2>5. t # <<>> BY <1>3, <2>1, <2>3
  <2>6. GoodCall(d, stored) /\ d.pc = "look" BY <2>1, <2>4, <2>5, NewCall DEF NoCall
  <2> HIDE DEF d
  <2>7. QED BY <2>2, <2>6
<1>4. CASE c.kind # "script" /\ ~ (indexed /\ Len(c.todo) > 1)
  <2>1. Goto(p, NoCall) BY <1>4 DEF Settled
  <2>2. GoodCall(NoCall, stored) /\ NoCall.pc # "embed" BY NoneIsGood DEF NoCall
  <2>3. QED BY <2>1, <2>2
<1>5. QED BY <1>2, <1>3, <1>4

\* The article a worker is at, and the edition it has read of it.
LEMMA SubjectKnown ==
  ASSUME IndexInv, NEW p \in Workers, ~ At(p, "idle")
  PROVE  LET h == Head(call[p].todo)
         IN /\ h \in [article : Articles, edition : Nat]
            /\ Subject(p) = h.article /\ Subject(p) \in Articles
            /\ h.edition \in 1..stored[Subject(p)]
            /\ h.edition \in 1..Len(site.editions[Subject(p)])
            /\ Copy(p) = Content(Subject(p), h.edition)
<1> DEFINE h == Head(call[p].todo)
<1>1. call[p].todo \in Seq([article : Articles, edition : Nat]) /\ call[p].todo # <<>>
      /\ \A k \in 1..Len(call[p].todo) :
           call[p].todo[k].edition \in 1..stored[call[p].todo[k].article]
  BY DEF IndexInv, GoodCall, At
<1>2. h = call[p].todo[1] /\ 1 \in 1..Len(call[p].todo) /\ h \in [article : Articles, edition : Nat]
  <2> DEFINE S == [article : Articles, edition : Nat]
  <2>1. call[p].todo \in Seq(S) /\ call[p].todo # <<>> BY <1>1
  <2> HIDE DEF S
  <2>2. h = call[p].todo[1] /\ 1 \in 1..Len(call[p].todo) /\ h \in S BY <2>1
  <2>3. QED BY <2>2 DEF S
<1>3. h.article \in Articles /\ h.edition \in 1..stored[h.article] BY <1>1, <1>2
<1>4. stored[h.article] \in Nat /\ stored[h.article] <= Len(site.editions[h.article])
      /\ Len(site.editions[h.article]) \in Nat
  <2>1. site.editions[h.article] \in Seq(Seq(Seq(Seq(Nat))))
    BY <1>3, KnowledgeAssumption DEF IndexInv
  <2>2. QED BY <1>3, <2>1 DEF IndexInv
<1> HIDE DEF h
<1>5. h.edition \in 1..Len(site.editions[h.article]) BY <1>3, <1>4
<1>6. QED BY <1>2, <1>3, <1>5 DEF h, Subject, Copy

LEMMA ImportKeeps ==
  ASSUME IndexInv, NEW p \in Workers, NEW a \in Articles, ImportArticle(p, a)
  PROVE  IndexInv'
<1> DEFINE todo == <<[article |-> a, edition |-> 1]>>
           c == [NoCall EXCEPT !.kind = "import", !.pc = "look", !.todo = todo]
<1>1. /\ site' = site /\ document' = document /\ writer' = writer /\ CountsGo
      /\ stored' \in [Articles -> Nat]
      /\ \A b \in Articles : stored'[b] = IF b = a THEN 1 ELSE stored[b]
      /\ stored[a] = 0 /\ writer' \in [Articles -> Workers \cup {"nobody"}]
  BY SameCounts DEF ImportArticle, IndexInv
<1>2. \A b \in Articles : stored[b] <= stored'[b] /\ stored'[b] <= Len(site.editions[b])
  <2>1. Len(site.editions[a]) \in Nat /\ Len(site.editions[a]) >= 1
    <3>1. site.editions[a] \in Seq(Seq(Seq(Seq(Nat)))) /\ site.editions[a] # <<>>
      BY KnowledgeAssumption DEF IndexInv
    <3>2. QED BY <3>1
  <2>2. QED BY <1>1, <2>1 DEF IndexInv
<1>3. CASE site.enabled
  <2>1. Goto(p, c) BY <1>3 DEF ImportArticle, Begin
  <2>2. todo \in Seq([article : Articles, edition : Nat]) /\ todo # <<>>
        /\ \A k \in 1..Len(todo) : todo[k].edition \in 1..stored'[todo[k].article]
    BY <1>1
  <2> HIDE DEF todo
  <2>3. GoodCall(c, stored') /\ c.pc = "look" BY <2>2, NewCall DEF NoCall
  <2> HIDE DEF c
  <2>4. Alone(p, c, writer', document) BY <2>3 DEF Alone
  <2>5. QED BY <1>1, <1>2, <2>1, <2>3, <2>4, CallGoesOn
<1>4. CASE ~ site.enabled
  <2>1. call' = call /\ call[p] = call[p] /\ At(p, "idle") BY <1>4 DEF ImportArticle
  <2>3. \A q \in Workers : q # "nobody" => call'[q] = call[q] BY <2>1
  <2>4. \A q \in Workers : q # "nobody" =>
          (GoodCall(call[q], stored) /\ Alone(q, call[q], writer, document))'
    BY <1>1, <1>2, <2>3, OthersStay
  <2>5. (Numbered(document, spent.documents) /\ DocumentsAreWhole)' BY <1>1, <1>2, SameDocuments
  <2>6. QED BY <1>1, <1>2, <2>1, <2>4, <2>5, KnowledgeAssumption DEF IndexInv, CountsGo
<1>5. QED BY <1>3, <1>4

LEMMA ReviseKeeps ==
  ASSUME IndexInv, NEW a \in Articles, Revise(a)
  PROVE  IndexInv'
<1>1. /\ site' = site /\ document' = document /\ writer' = writer /\ call' = call /\ CountsGo
      /\ stored' \in [Articles -> Nat]
      /\ \A b \in Articles : stored'[b] = IF b = a THEN stored[a] + 1 ELSE stored[b]
      /\ stored[a] \in 1..(Len(site.editions[a]) - 1)
  BY SameCounts DEF Revise, IndexInv
<1>2. \A b \in Articles : stored[b] <= stored'[b] /\ stored'[b] <= Len(site.editions[b])
  <2>1. Len(site.editions[a]) \in Nat
    <3>1. site.editions[a] \in Seq(Seq(Seq(Seq(Nat)))) BY KnowledgeAssumption DEF IndexInv
    <3>2. QED BY <3>1
  <2>2. QED BY <1>1, <2>1 DEF IndexInv
<1>3. \A q \in Workers : q # "nobody" =>
        (GoodCall(call[q], stored) /\ Alone(q, call[q], writer, document))'
  BY <1>1, <1>2, OthersStay
<1>4. (Numbered(document, spent.documents) /\ DocumentsAreWhole)' BY <1>1, <1>2, SameDocuments
<1>5. QED BY <1>1, <1>2, <1>3, <1>4, KnowledgeAssumption DEF IndexInv, CountsGo

LEMMA EnrichKeeps ==
  ASSUME IndexInv, NEW p \in Workers, NEW a \in Articles, EnrichArticle(p, a)
  PROVE  IndexInv'
<1> DEFINE todo == <<[article |-> a, edition |-> stored[a]]>>
           c == [NoCall EXCEPT !.kind = "script", !.pc = "look", !.todo = todo]
<1>1. CountsGo BY SpendCounts DEF EnrichArticle, Asked
<1>2. /\ site' = site /\ document' = document /\ writer' = writer /\ stored' = stored
      /\ Goto(p, c)
  BY DEF EnrichArticle, Begin
<1>3. stored[a] \in Nat /\ stored[a] > 0 BY DEF EnrichArticle, IndexInv
<1>4. todo \in Seq([article : Articles, edition : Nat]) /\ todo # <<>>
      /\ \A k \in 1..Len(todo) : todo[k].edition \in 1..stored[todo[k].article]
  BY <1>3
<1> HIDE DEF todo
<1>5. GoodCall(c, stored) /\ c.pc = "look" BY <1>4, NewCall DEF NoCall
<1> HIDE DEF c
<1>6. Alone(p, c, writer, document) BY <1>5 DEF Alone
<1>7. QED BY <1>1, <1>2, <1>5, <1>6, CallMoves

\* The elements of a finite set, one after the other.
LEMMA Listed ==
  ASSUME NEW S, IsFiniteSet(S)
  PROVE  SetToSeq(S) \in Seq(S)
<1> DEFINE n == Cardinality(S)
<1>1. n \in Nat /\ ExistsBijection(1..n, S) BY FS_CardinalityType
<1>2. PICK f \in [1..n -> S] : \A a, b \in 1..n : f[a] = f[b] => a = b
  BY <1>1 DEF ExistsBijection, Bijection, Injection, IsInjective
<1>3. f \in [1..n -> S] /\ IsInjective(f) BY <1>2 DEF IsInjective
<1> HIDE DEF n
<1>4. (CHOOSE g \in [1..n -> S] : IsInjective(g)) \in [1..n -> S] BY <1>3
<1>5. SetToSeq(S) \in [1..n -> S] BY <1>4 DEF SetToSeq, n
<1>6. QED BY <1>1, <1>5, SeqDef

\* The articles a worker of the workflow's last step is to index.
LEMMA TodaysAre ==
  ASSUME IndexInv
  PROVE  LET todays == SetToSeq({a \in Articles : stored[a] > 0})
             todo == [k \in DOMAIN todays |-> [article |-> todays[k], edition |-> stored[todays[k]]]]
         IN /\ todo \in Seq([article : Articles, edition : Nat])
            /\ todays # <<>> => todo # <<>>
            /\ \A k \in 1..Len(todo) : todo[k].edition \in 1..stored[todo[k].article]
<1> DEFINE present == {a \in Articles : stored[a] > 0}
           todays == SetToSeq(present)
           todo == [k \in DOMAIN todays |-> [article |-> todays[k], edition |-> stored[todays[k]]]]
<1>1. todays \in Seq(present)
  <2>1. IsFiniteSet(present) BY KnowledgeAssumption, FS_Subset
  <2> HIDE DEF present
  <2>2. QED BY <2>1, Listed
<1> HIDE DEF todays
<1>2. /\ todo \in Seq([article : Articles, edition : Nat]) /\ (todays # <<>> => todo # <<>>)
      /\ \A k \in 1..Len(todo) : todo[k].edition \in 1..stored[todo[k].article]
  <2>1. Len(todays) \in Nat /\ DOMAIN todays = 1..Len(todays) /\ (todays # <<>> => Len(todays) # 0)
    BY <1>1
  <2>2. ASSUME NEW k \in 1..Len(todays)
        PROVE  /\ todo[k] = [article |-> todays[k], edition |-> stored[todays[k]]]
               /\ todays[k] \in Articles /\ stored[todays[k]] \in Nat
               /\ stored[todays[k]] \in 1..stored[todays[k]]
    <3>1. todays[k] \in present BY <1>1
    <3>2. todays[k] \in Articles /\ stored[todays[k]] \in Nat /\ stored[todays[k]] > 0
      BY <3>1 DEF IndexInv
    <3>3. QED BY <2>1, <3>2
  <2>3. todo \in [1..Len(todays) -> [article : Articles, edition : Nat]] BY <2>1, <2>2
  <2>4. todo \in Seq([article : Articles, edition : Nat]) /\ Len(todo) = Len(todays)
    BY <2>1, <2>3, SeqDef
  <2>5. ASSUME NEW k \in 1..Len(todays) PROVE todo[k].edition \in 1..stored[todo[k].article]
    <3> HIDE DEF todo
    <3>1. todo[k] = [article |-> todays[k], edition |-> stored[todays[k]]] BY <2>2
    <3>2. stored[todays[k]] \in 1..stored[todays[k]] BY <2>2
    <3>3. todo[k].edition = stored[todays[k]] /\ todo[k].article = todays[k] BY <3>1
    <3>4. QED BY <3>2, <3>3
  <2> HIDE DEF todo
  <2>6. QED BY <2>1, <2>4, <2>5
<1>3. QED BY <1>2 DEF todo, todays

LEMMA WorkflowStepKeeps ==
  ASSUME IndexInv, NEW p \in Workers, IndexKnowledge(p)
  PROVE  IndexInv'
<1> DEFINE present == {a \in Articles : stored[a] > 0}
           todays == SetToSeq(present)
           todo == [k \in DOMAIN todays |-> [article |-> todays[k], edition |-> stored[todays[k]]]]
           c == [NoCall EXCEPT !.kind = "workflow", !.pc = "look", !.todo = todo]
<1>1. CountsGo BY SpendCounts DEF IndexKnowledge, Asked
<1>2. /\ site' = site /\ document' = document /\ writer' = writer /\ stored' = stored
      /\ Goto(p, c) /\ todays # <<>>
  BY DEF IndexKnowledge, Begin
<1>3. /\ todo \in Seq([article : Articles, edition : Nat]) /\ todo # <<>>
      /\ \A k \in 1..Len(todo) : todo[k].edition \in 1..stored[todo[k].article]
  BY <1>2, TodaysAre
<1> HIDE DEF todays, todo
<1>4. GoodCall(c, stored) /\ c.pc = "look" BY <1>3, NewCall DEF NoCall
<1> HIDE DEF c
<1>5. Alone(p, c, writer, document) BY <1>4 DEF Alone
<1>6. QED BY <1>1, <1>2, <1>4, <1>5, CallMoves

LEMMA DeleteKeeps ==
  ASSUME IndexInv, NEW a \in Articles, DeleteDocument(a)
  PROVE  IndexInv'
<1>1. /\ site' = site /\ writer' = writer /\ call' = call /\ stored' = stored
      /\ DOMAIN document' = Articles /\ document'[a] = NoDocument
      /\ \A b \in Articles : b # a => document'[b] = document[b]
      /\ writer[a] = "nobody"
  BY DEF DeleteDocument, IndexInv
<1>2. CountsGo BY SpendCounts DEF DeleteDocument
<1>3. \A b \in Articles : stored[b] <= stored[b] BY DEF IndexInv
<1>4. \A b \in Articles, q \in Workers :
        q # "nobody" /\ writer[b] = q => writer'[b] = q /\ document'[b] = document[b]
  BY <1>1
<1>5. \A q \in Workers : q # "nobody" =>
        (GoodCall(call[q], stored) /\ Alone(q, call[q], writer, document))'
  <2>1. stored' \in [Articles -> Nat] /\ \A b \in Articles : stored[b] <= stored'[b]
    BY <1>1, <1>3 DEF IndexInv
  <2>2. QED BY <1>1, <1>4, <2>1, OthersStay
<1>6. Numbered(document', spent'.documents)
  <2>1. NoDocument.id = 0 /\ spent'.documents = spent.documents /\ spent.documents \in Nat
    BY <1>2 DEF IndexInv, CountsGo, NoDocument
  <2>2. Numbered(document, spent.documents) BY DEF IndexInv
  <2>3. ASSUME NEW b \in Articles
        PROVE  /\ document'[b].id \in 0..spent.documents
               /\ document'[b].id = 0 <=> document'[b] = NoDocument
               /\ \A x \in Articles \ {b} : document'[x].id = document'[b].id => document'[b].id = 0
    <3>1. CASE b = a BY <1>1, <2>1, <3>1
    <3>2. CASE b # a
      <4>1. document'[b] = document[b] BY <1>1, <3>2
      <4>2. \A x \in Articles \ {b} : document'[x].id = document'[b].id => document'[b].id = 0
        BY <1>1, <2>1, <2>2, <4>1 DEF Numbered
      <4>3. QED BY <2>2, <4>1, <4>2 DEF Numbered
    <3>3. QED BY <3>1, <3>2
  <2>4. QED BY <2>1, <2>3 DEF Numbered
<1>7. DocumentsAreWhole'
  <2> SUFFICES ASSUME NEW b \in Articles, document'[b] # NoDocument
               PROVE  LET d == document'[b]
                          drafts == Drafts(d.content)
                      IN /\ \E e \in 1..stored[b] : d.content = Content(b, e)
                         /\ d.chunks = [k \in DOMAIN drafts |-> Embedded(PendingChunk(drafts[k]))]
                         /\ \A x \in Articles \ {b} : document'[x].id # d.id
    BY <1>1 DEF DocumentsAreWhole, Drafts, Content
  <2>1. b # a /\ document'[b] = document[b] /\ document[b] # NoDocument BY <1>1
  <2>2. document'[b].id # 0 BY <2>1, <1>6 DEF Numbered
  <2>3. \A x \in Articles \ {b} : document'[x].id # document'[b].id BY <2>2, <1>6 DEF Numbered
  <2>4. QED BY <2>1, <2>3 DEF IndexInv, DocumentsAreWhole
<1>8. QED BY <1>1, <1>2, <1>5, <1>6, <1>7, KnowledgeAssumption DEF IndexInv, CountsGo

\* A call that only goes on in pc, attempts or what was found is as good.
LEMMA LookKeeps ==
  ASSUME IndexInv, NEW p \in Workers, Look(p)
  PROVE  IndexInv'
<1> DEFINE d == document[Subject(p)]
           c == [call[p] EXCEPT !.existing = d.id,
                   !.pc = IF d = NoDocument THEN "create" ELSE "reindex"]
<1>1. /\ site' = site /\ document' = document /\ writer' = writer /\ stored' = stored /\ CountsGo
      /\ call[p].pc = "look" /\ ~ At(p, "idle")
  BY SameCounts DEF Look, At
<1>2. CASE Settled(p, TRUE)
  <2>1. PICK x : Goto(p, x) /\ GoodCall(x, stored) /\ x.pc # "embed" BY <1>1, <1>2, SettledIsGood
  <2>2. Alone(p, x, writer, document) BY <2>1 DEF Alone
  <2>3. QED BY <1>1, <2>1, <2>2, CallMoves
<1>3. CASE Goto(p, c)
  <2>1. Subject(p) \in Articles BY <1>1, SubjectKnown
  <2>2. d.id \in Nat /\ (d.id = 0 <=> d = NoDocument) BY <2>1 DEF IndexInv, Numbered
  <2>3. GoodCall(call[p], stored) BY DEF IndexInv
  <2> HIDE DEF d
  <2>4. GoodCall(c, stored) /\ c.pc # "embed" BY <1>1, <2>2, <2>3 DEF GoodCall, CallFields
  <2> HIDE DEF c
  <2>5. Alone(p, c, writer, document) BY <2>4 DEF Alone
  <2>6. QED BY <1>1, <1>3, <2>4, <2>5, CallMoves
<1>4. QED BY <1>2, <1>3 DEF Look

\* A transaction begins: none of the chunks has been embedded.
LEMMA OpenKeeps ==
  ASSUME IndexInv, NEW p \in Workers, ~ At(p, "idle"), call[p].next = 1,
         writer[Subject(p)] = "nobody", OpenTransaction(p),
         document[Subject(p)].id = call[p].existing,
         UNCHANGED <<site, stored, document, spent>>
  PROVE  IndexInv'
<1> DEFINE h == Head(call[p].todo)
           drafts == Drafts(Copy(p))
           chunks == [k \in DOMAIN drafts |-> PendingChunk(drafts[k])]
           c == [call[p] EXCEPT !.pc = "embed", !.chunks = chunks]
<1>1. Goto(p, c) /\ writer' = [writer EXCEPT ![Subject(p)] = p] BY DEF OpenTransaction
<1>2. /\ h.article = Subject(p) /\ Subject(p) \in Articles /\ Copy(p) = Content(h.article, h.edition)
      /\ h.edition \in 1..Len(site.editions[Subject(p)])
  BY SubjectKnown
<1>3. DOMAIN drafts \subseteq Nat \ {0}
  <2>1. Drafts(Content(Subject(p), h.edition)) \in Seq({MakeChunk(t) : t \in Seq(Nat)})
    <3> HIDE DEF h
    <3>1. site \in Sites BY DEF IndexInv
    <3>2. QED BY <1>2, <3>1, ContentHolds
  <2>2. drafts \in Seq({MakeChunk(t) : t \in Seq(Nat)}) BY <1>2, <2>1
  <2> HIDE DEF drafts
  <2>3. QED BY <2>2
<1>4. chunks = Halfway(drafts, 1)
  <2> HIDE DEF drafts
  <2>1. \A k \in DOMAIN drafts : ~ (k < 1) BY <1>3
  <2>2. QED BY <2>1 DEF Halfway
<1>5. GoodCall(call[p], stored) BY DEF IndexInv
<1>6. GoodCall(c, stored) /\ c.pc = "embed" /\ c.todo = call[p].todo /\ c.next = 1
      /\ c.existing = call[p].existing /\ c.chunks = chunks
  <2> HIDE DEF chunks
  <2>1. DOMAIN call[p] = CallFields BY <1>5 DEF GoodCall
  <2>2. /\ DOMAIN c = CallFields /\ c.pc = "embed" /\ c.todo = call[p].todo /\ c.next = 1
        /\ c.existing = call[p].existing /\ c.chunks = chunks
    BY <2>1 DEF CallFields
  <2> HIDE DEF c
  <2>3. call[p].todo # <<>> BY <1>5 DEF GoodCall, At
  <2>4. GoodCall(c, stored) BY <1>5, <2>2, <2>3 DEF GoodCall
  <2>5. QED BY <2>2, <2>4
<1>7. Alone(p, c, writer', document)
  <2>1. writer'[Subject(p)] = p BY <1>1, <1>2 DEF IndexInv
  <2>2. call[p].existing = 0 => document[Subject(p)] = NoDocument BY <1>2 DEF IndexInv, Numbered
  <2> HIDE DEF c, chunks, drafts
  <2>3. c.chunks = Halfway(Drafts(Content(h.article, h.edition)), c.next)
    BY <1>2, <1>4, <1>6 DEF drafts
  <2>4. QED BY <1>2, <1>6, <2>1, <2>2, <2>3 DEF Alone
<1>8. CountsGo BY SameCounts
<1>9. /\ writer' \in [Articles -> Workers \cup {"nobody"}]
      /\ \A a \in Articles : writer'[a] = writer[a] \/ writer[a] \in {p, "nobody"}
  BY <1>1 DEF IndexInv
<1>10. \A a \in Articles : stored[a] <= stored[a] /\ stored[a] <= Len(site.editions[a])
  BY DEF IndexInv
<1>11. stored' \in [Articles -> Nat] /\ stored' = stored BY DEF IndexInv
<1> HIDE DEF c
<1>12. QED BY <1>1, <1>6, <1>7, <1>8, <1>9, <1>10, <1>11, CallGoesOn

\* A transaction that is undone leaves no trace.
LEMMA RollbackKeeps ==
  ASSUME IndexInv, NEW p \in Workers, ~ At(p, "idle"), Rollback(p), CountsGo
  PROVE  IndexInv'
<1>1. PICK c : Goto(p, c) /\ GoodCall(c, stored) /\ c.pc # "embed" BY SettledIsGood DEF Rollback
<1>2. QED BY <1>1, CallFrees DEF Rollback

LEMMA CreateKeeps ==
  ASSUME IndexInv, NEW p \in Workers, CreateAndIndex(p)
  PROVE  IndexInv'
<1>1. call[p].pc = "create" /\ ~ At(p, "idle") /\ writer[Subject(p)] = "nobody" /\ spent' = spent
  BY DEF CreateAndIndex, At
<1>2. call[p].existing = 0 /\ call[p].next = 1 BY <1>1 DEF IndexInv, GoodCall
<1>3. CASE document[Subject(p)] = NoDocument /\ OpenTransaction(p) /\ UNCHANGED <<site, stored, document>>
  <2>1. document[Subject(p)].id = call[p].existing BY <1>2, <1>3 DEF NoDocument
  <2>2. QED BY <1>1, <1>2, <1>3, <2>1, OpenKeeps
<1>4. CASE Rollback(p) BY <1>1, <1>4, SameCounts, RollbackKeeps
<1>5. QED BY <1>3, <1>4 DEF CreateAndIndex

LEMMA ReindexKeeps ==
  ASSUME IndexInv, NEW p \in Workers, Reindex(p)
  PROVE  IndexInv'
<1>1. call[p].pc = "reindex" /\ ~ At(p, "idle") /\ writer[Subject(p)] = "nobody" /\ spent' = spent
  BY DEF Reindex, At
<1>2. call[p].next = 1 BY <1>1 DEF IndexInv, GoodCall
<1>3. CASE /\ document[Subject(p)].id = call[p].existing /\ OpenTransaction(p)
           /\ UNCHANGED <<site, stored, document>>
  BY <1>1, <1>2, <1>3, OpenKeeps
<1>4. CASE Rollback(p) BY <1>1, <1>4, SameCounts, RollbackKeeps
<1>5. QED BY <1>3, <1>4 DEF Reindex

\* A batch is embedded: the chunks before the next one now have their vectors.
LEMMA BatchKeeps ==
  ASSUME IndexInv, NEW p \in Workers, EmbedBatch(p)
  PROVE  IndexInv'
<1> DEFINE c == call[p]
           h == Head(c.todo)
           drafts == Drafts(Content(h.article, h.edition))
<1>1. c.pc = "embed" /\ ~ At(p, "idle") /\ c.next <= Len(c.chunks) BY DEF EmbedBatch, At
<1>2. GoodCall(c, stored) /\ Alone(p, c, writer, document) BY DEF IndexInv
<1>3. drafts \in Seq({MakeChunk(t) : t \in Seq(Nat)})
  <2>1. /\ h.article \in Articles /\ h.edition \in 1..Len(site.editions[h.article]) /\ site \in Sites
    BY <1>1, SubjectKnown DEF IndexInv
  <2> HIDE DEF h
  <2>2. QED BY <2>1, ContentHolds
<1>4. /\ DOMAIN drafts = 1..Len(drafts) /\ Len(drafts) \in Nat
      /\ c.chunks = Halfway(drafts, c.next) /\ c.next \in Nat \ {0}
      /\ DOMAIN c.chunks = 1..Len(drafts) /\ Len(c.chunks) = Len(drafts)
  <2>1. c.chunks = Halfway(drafts, c.next) /\ c.next \in Nat \ {0} BY <1>1, <1>2 DEF Alone, GoodCall
  <2> HIDE DEF drafts, c
  <2>2. DOMAIN drafts = 1..Len(drafts) /\ Len(drafts) \in Nat BY <1>3
  <2>3. DOMAIN c.chunks = 1..Len(drafts) BY <2>1, <2>2 DEF Halfway
  <2>4. c.chunks \in Seq({c.chunks[k] : k \in 1..Len(drafts)})
    <3>1. c.chunks \in [1..Len(drafts) -> {c.chunks[k] : k \in 1..Len(drafts)}]
      BY <2>1, <2>2 DEF Halfway
    <3>2. QED BY <2>2, <3>1, SeqDef
  <2>5. QED BY <2>1, <2>2, <2>3, <2>4
<1>5. site.batch \in Nat \ {0} BY KnowledgeAssumption DEF IndexInv, Settings
<1>6. CASE /\ Goto(p, [c EXCEPT !.next = @ + site.batch, !.attempts = 0,
                !.chunks = [k \in DOMAIN @ |-> IF k \in Batch(p) THEN Embedded(@[k]) ELSE @[k]]])
           /\ UNCHANGED <<site, stored, document, writer, gap, spent>>
  <2> DEFINE chunks == [k \in DOMAIN c.chunks |-> IF k \in Batch(p) THEN Embedded(c.chunks[k])
                                                  ELSE c.chunks[k]]
             n == c.next + site.batch
             d == [c EXCEPT !.next = n, !.attempts = 0, !.chunks = chunks]
  <2>1. Goto(p, d) BY <1>6
  <2>2. Batch(p) = c.next..(IF n - 1 <= Len(drafts) THEN n - 1 ELSE Len(drafts))
    <3> DEFINE x == n - 1
               y == Len(drafts)
    <3>1. x \in Int /\ y \in Int BY <1>4, <1>5
    <3>2. Batch(p) = c.next..Min({x, y})
      <4> DEFINE z == Len(c.chunks)
      <4>1. z = y BY <1>4
      <4> DEFINE w == c.next + (site.batch - 1)
      <4>2. w = x BY <1>4, <1>5
      <4>3. Batch(p) = c.next..Min({w, z}) BY DEF Batch
      <4> HIDE DEF w, x, y, z
      <4>4. QED BY <4>1, <4>2, <4>3
    <3> HIDE DEF x, y
    <3>3. Batch(p) = c.next..(IF x <= y THEN x ELSE y) BY <3>1, <3>2, OfTwo
    <3>4. QED BY <3>3 DEF x, y
  <2>3. chunks = Halfway(drafts, n)
    <3> HIDE DEF drafts
    <3>1. ASSUME NEW k \in 1..Len(drafts)
          PROVE  chunks[k] = IF k < n THEN Embedded(PendingChunk(drafts[k]))
                             ELSE PendingChunk(drafts[k])
      <4>1. c.chunks[k] = IF k < c.next THEN Embedded(PendingChunk(drafts[k]))
                          ELSE PendingChunk(drafts[k])
        BY <1>4 DEF Halfway
      <4>2. chunks[k] = IF k \in Batch(p) THEN Embedded(c.chunks[k]) ELSE c.chunks[k] BY <1>4
      <4>3. c.next \in Nat /\ n \in Nat /\ c.next < n /\ k \in Nat /\ k <= Len(drafts) /\ Len(drafts) \in Nat
        BY <1>4, <1>5
      <4>4. CASE k < c.next
        <5>1. k \notin Batch(p) /\ k < n BY <2>2, <4>3, <4>4
        <5>2. QED BY <4>1, <4>2, <4>4, <5>1
      <4>5. CASE ~ (k < c.next) /\ k < n
        <5>1. k \in Batch(p) BY <2>2, <4>3, <4>5
        <5>2. QED BY <4>1, <4>2, <4>5, <5>1
      <4>6. CASE ~ (k < n)
        <5>1. k \notin Batch(p) /\ ~ (k < c.next) BY <2>2, <4>3, <4>6
        <5>2. QED BY <4>1, <4>2, <4>6, <5>1
      <4>7. QED BY <4>4, <4>5, <4>6
    <3>2. DOMAIN chunks = 1..Len(drafts) BY <1>4
    <3> HIDE DEF chunks, n
    <3>3. QED
      <4>1. chunks = [k \in 1..Len(drafts) |-> chunks[k]] BY <3>2 DEF chunks
      <4>2. QED BY <1>4, <3>1, <4>1 DEF Halfway
  <2>4. n \in Nat \ {0} BY <1>4, <1>5
  <2> HIDE DEF chunks, n
  <2>5. /\ GoodCall(d, stored) /\ d.pc = "embed" /\ d.todo = c.todo /\ d.existing = c.existing
        /\ d.next = n /\ d.chunks = chunks
    BY <1>1, <1>2, <2>4 DEF GoodCall, CallFields
  <2> HIDE DEF d
  <2>6. Alone(p, d, writer, document) BY <1>1, <1>2, <2>3, <2>5 DEF Alone
  <2>7. QED BY <1>6, <2>1, <2>5, <2>6, SameCounts, CallMoves
<1>7. CASE /\ BatchFails(p) /\ Goto(p, [c EXCEPT !.attempts = @ + 1])
           /\ UNCHANGED <<site, stored, document, writer, gap>>
  <2> DEFINE d == [c EXCEPT !.attempts = @ + 1]
  <2>1. CountsGo BY <1>7, FaultCounts, SameCounts DEF BatchFails
  <2>2. /\ GoodCall(d, stored) /\ d.pc = c.pc /\ d.todo = c.todo /\ d.existing = c.existing
        /\ d.next = c.next /\ d.chunks = c.chunks
    BY <1>1, <1>2 DEF GoodCall, CallFields
  <2>3. Goto(p, d) BY <1>7
  <2> HIDE DEF d
  <2>4. Alone(p, d, writer, document) BY <1>2, <2>2 DEF Alone
  <2>5. QED BY <1>7, <2>1, <2>2, <2>3, <2>4, CallMoves
<1>8. CASE BatchFails(p) /\ Lost(p)
  <2>1. CountsGo BY <1>8, FaultCounts, SameCounts DEF BatchFails
  <2>2. QED BY <1>1, <1>8, <2>1, RollbackKeeps DEF Lost
<1>9. CASE Fault("insert") /\ BreakTransaction(p)
  <2>1. CountsGo BY <1>9, FaultCounts
  <2>2. QED BY <1>1, <1>9, <2>1, RollbackKeeps DEF BreakTransaction, Lost
<1>10. QED BY <1>6, <1>7, <1>8, <1>9 DEF EmbedBatch

\* A document is committed by the worker that holds its article, when all its
\* chunks have been embedded.
LEMMA CommitKeeps ==
  ASSUME IndexInv, NEW p \in Workers, Commit(p)
  PROVE  IndexInv'
<1> DEFINE c == call[p]
           h == Head(c.todo)
           a == Subject(p)
           drafts == Drafts(Copy(p))
           new == c.existing = 0
           id == IF new THEN spent.documents + 1 ELSE c.existing
           d == [id |-> id, content |-> Copy(p), chunks |-> c.chunks]
<1>1. /\ c.pc = "embed" /\ ~ At(p, "idle") /\ c.next > Len(c.chunks)
      /\ site' = site /\ stored' = stored /\ document' = [document EXCEPT ![a] = d]
      /\ spent' = [spent EXCEPT !.documents = IF new THEN @ + 1 ELSE @]
      /\ Release(p) /\ Settled(p, TRUE)
  BY DEF Commit, At
<1>2. GoodCall(c, stored) /\ Alone(p, c, writer, document) BY DEF IndexInv
<1>3. /\ h.article = a /\ a \in Articles /\ Copy(p) = Content(a, h.edition)
      /\ h.edition \in 1..stored[a] /\ h.edition \in 1..Len(site.editions[a])
  BY <1>1, SubjectKnown
<1>4. writer[a] = p /\ document[a].id = c.existing
      /\ c.chunks = Halfway(drafts, c.next) /\ c.next \in Nat /\ c.existing \in Nat
  <2> HIDE DEF drafts, a, h
  <2>1. writer[a] = p /\ (c.existing = 0 => document[a] = NoDocument)
        /\ (c.existing # 0 => document[a].id = c.existing)
        /\ c.chunks = Halfway(Drafts(Content(a, h.edition)), c.next)
    BY <1>1, <1>2, <1>3 DEF Alone, h
  <2>2. c.next \in Nat /\ c.existing \in Nat BY <1>2 DEF GoodCall
  <2>3. QED BY <1>3, <2>1, <2>2 DEF drafts, NoDocument
<1>5. c.chunks = [k \in DOMAIN drafts |-> Embedded(PendingChunk(drafts[k]))]
  <2>1. drafts \in Seq({MakeChunk(t) : t \in Seq(Nat)})
    <3>1. Drafts(Content(a, h.edition)) \in Seq({MakeChunk(t) : t \in Seq(Nat)})
      <4> HIDE DEF h, a
      <4>1. site \in Sites BY DEF IndexInv
      <4>2. QED BY <1>3, <4>1, ContentHolds
    <3>2. QED BY <1>3, <3>1
  <2> HIDE DEF drafts, c
  <2>2. DOMAIN drafts = 1..Len(drafts) /\ Len(drafts) \in Nat BY <2>1
  <2>3. c.chunks \in [1..Len(drafts) -> {c.chunks[k] : k \in 1..Len(drafts)}]
    BY <1>4, <2>2 DEF Halfway
  <2>4. c.chunks \in Seq({c.chunks[k] : k \in 1..Len(drafts)}) /\ Len(c.chunks) = Len(drafts)
    <3>1. c.chunks \in Seq({c.chunks[k] : k \in 1..Len(drafts)}) BY <2>2, <2>3, SeqDef
    <3>2. DOMAIN c.chunks = 1..Len(c.chunks) /\ Len(c.chunks) \in Nat BY <3>1
    <3>3. DOMAIN c.chunks = 1..Len(drafts) BY <2>3
    <3>4. QED BY <2>2, <3>1, <3>2, <3>3
  <2>5. \A k \in DOMAIN drafts : k < c.next BY <1>1, <1>4, <2>2, <2>4 DEF c
  <2>6. QED BY <1>4, <2>5 DEF Halfway
<1>6. /\ DOMAIN spent' = {"requests", "deletions", "faults", "documents"}
      /\ spent'.documents = IF new THEN spent.documents + 1 ELSE spent.documents
      /\ spent.documents \in Nat /\ spent'.documents \in Nat
      /\ spent.documents <= spent'.documents
  BY <1>1 DEF IndexInv
<1>7. /\ DOMAIN document' = Articles /\ document'[a] = d
      /\ \A b \in Articles : b # a => document'[b] = document[b]
  BY <1>1, <1>3 DEF IndexInv
<1>8. /\ id \in 1..spent'.documents /\ d # NoDocument /\ d.id = id
      /\ \A b \in Articles \ {a} : document[b].id # id
  <2>1. CASE new
    <3>1. \A b \in Articles : document[b].id \in 0..spent.documents BY DEF IndexInv, Numbered
    <3>2. id = spent.documents + 1 BY <2>1
    <3>3. QED BY <1>6, <2>1, <3>1, <3>2 DEF NoDocument
  <2>2. CASE ~ new
    <3>1. id = document[a].id /\ id # 0 /\ id \in 0..spent.documents
      BY <1>3, <1>4, <2>2 DEF IndexInv, Numbered
    <3>2. \A b \in Articles \ {a} : document[b].id # id BY <1>3, <3>1 DEF IndexInv, Numbered
    <3>3. QED BY <1>6, <3>1, <3>2 DEF NoDocument
  <2>3. QED BY <2>1, <2>2
<1> HIDE DEF d, id
<1>9. Numbered(document', spent'.documents)
  <2>1. ASSUME NEW b \in Articles
        PROVE  /\ document'[b].id \in 0..spent'.documents
               /\ document'[b].id = 0 <=> document'[b] = NoDocument
               /\ \A x \in Articles \ {b} : document'[x].id = document'[b].id => document'[b].id = 0
    <3>1. CASE b = a
      <4>1. document'[b].id = id /\ id # 0 BY <1>6, <1>7, <1>8, <3>1
      <4>2. QED BY <1>6, <1>7, <1>8, <3>1, <4>1
    <3>2. CASE b # a
      <4>1. document'[b] = document[b] /\ document[b].id \in 0..spent.documents
            /\ (document[b].id = 0 <=> document[b] = NoDocument)
            /\ document[b].id # id
            /\ \A x \in Articles \ {b} : document[x].id = document[b].id => document[b].id = 0
        BY <1>7, <1>8, <3>2 DEF IndexInv, Numbered
      <4>2. QED BY <1>3, <1>6, <1>7, <1>8, <3>2, <4>1
    <3>3. QED BY <3>1, <3>2
  <2>2. QED BY <2>1 DEF Numbered
<1>10. DocumentsAreWhole'
  <2> SUFFICES ASSUME NEW b \in Articles, document'[b] # NoDocument
               PROVE  LET t == document'[b]
                          list == Drafts(t.content)
                      IN /\ \E e \in 1..stored[b] : t.content = Content(b, e)
                         /\ t.chunks = [k \in DOMAIN list |-> Embedded(PendingChunk(list[k]))]
                         /\ \A x \in Articles \ {b} : document'[x].id # t.id
    <3>1. site' = site /\ stored' = stored BY <1>1
    <3>2. QED BY <3>1, Zenon DEF DocumentsAreWhole, Drafts, Content
  <2>1. \A x \in Articles \ {b} : document'[x].id # document'[b].id
    <3>1. \A x \in Articles \ {b} : document'[x].id = document'[b].id => document'[b].id = 0
      BY <1>9 DEF Numbered
    <3>2. document'[b].id # 0 BY <1>9 DEF Numbered
    <3>3. QED BY <3>1, <3>2
  <2>2. CASE b = a
    <3>1. document'[b].content = Copy(p) /\ document'[b].chunks = c.chunks BY <1>7, <2>2 DEF d
    <3>2. QED BY <1>3, <1>5, <2>1, <2>2, <3>1
  <2>3. CASE b # a
    <3>1. document'[b] = document[b] BY <1>7, <2>3
    <3>2. QED BY <2>1, <3>1 DEF IndexInv, DocumentsAreWhole
  <2>4. QED BY <2>2, <2>3
<1>11. PICK x : Goto(p, x) /\ GoodCall(x, stored) /\ x.pc # "embed" BY <1>1, SettledIsGood
<1>12. DOMAIN call' = Workers /\ call'[p] = x /\ \A q \in Workers : q # p => call'[q] = call[q]
  BY <1>11 DEF IndexInv, Goto
<1>13. /\ writer' \in [Articles -> Workers \cup {"nobody"}]
       /\ \A b \in Articles, q \in Workers :
            q # p /\ writer[b] = q => writer'[b] = q /\ document'[b] = document[b]
  <2>1. writer' = [b \in Articles |-> IF writer[b] = p THEN "nobody" ELSE writer[b]]
    BY <1>1 DEF Release
  <2>2. QED BY <1>4, <1>7, <2>1 DEF IndexInv
<1>14. \A q \in Workers : q # p =>
         (GoodCall(call[q], stored) /\ Alone(q, call[q], writer, document))'
  <2>1. stored' \in [Articles -> Nat] /\ \A b \in Articles : stored[b] <= stored'[b]
    BY <1>1 DEF IndexInv
  <2>2. QED BY <1>1, <1>12, <1>13, <2>1, OthersStay
<1>15. (GoodCall(call[p], stored) /\ Alone(p, call[p], writer, document))'
  BY <1>1, <1>11, <1>12 DEF Alone
<1>16. QED BY <1>1, <1>6, <1>7, <1>9, <1>10, <1>12, <1>13, <1>14, <1>15 DEF IndexInv

\* Retrieval only reads.
LEMMA RetrievalKeeps ==
  ASSUME IndexInv, NEW p \in Workers, Retrieve(p) \/ BuildContext(p) \/ UseContext(p)
  PROVE  IndexInv'
<1>1. site' = site /\ document' = document /\ writer' = writer /\ stored' = stored
  BY DEF Retrieve, BuildContext, UseContext
<1>2. CountsGo BY FaultCounts, SameCounts DEF Retrieve, BuildContext, UseContext
<1>3. call[p].pc \in {"search", "build", "done"} /\ GoodCall(call[p], stored)
  BY DEF Retrieve, BuildContext, UseContext, At, IndexInv
<1>4. \E c : Goto(p, c) /\ GoodCall(c, stored) /\ c.pc # "embed"
  <2>1. CASE Goto(p, NoCall) BY <2>1, NoneIsGood DEF NoCall
  <2>2. ASSUME NEW x, Goto(p, [call[p] EXCEPT !.pc = "build", !.found = x])
        PROVE  \E c : Goto(p, c) /\ GoodCall(c, stored) /\ c.pc # "embed"
    <3> DEFINE c == [call[p] EXCEPT !.pc = "build", !.found = x]
    <3>1. Goto(p, c) /\ GoodCall(c, stored) /\ c.pc # "embed" BY <1>3, <2>2 DEF GoodCall, CallFields
    <3> HIDE DEF c
    <3>2. QED BY <3>1
  <2>3. ASSUME NEW x, Goto(p, [call[p] EXCEPT !.pc = "done", !.context = x])
        PROVE  \E c : Goto(p, c) /\ GoodCall(c, stored) /\ c.pc # "embed"
    <3> DEFINE c == [call[p] EXCEPT !.pc = "done", !.context = x]
    <3>1. Goto(p, c) /\ GoodCall(c, stored) /\ c.pc # "embed" BY <1>3, <2>3 DEF GoodCall, CallFields
    <3> HIDE DEF c
    <3>2. QED BY <3>1
  <2>4. CASE Goto(p, [call[p] EXCEPT !.pc = "done"])
    <3> DEFINE c == [call[p] EXCEPT !.pc = "done"]
    <3>1. Goto(p, c) /\ GoodCall(c, stored) /\ c.pc # "embed" BY <1>3, <2>4 DEF GoodCall, CallFields
    <3> HIDE DEF c
    <3>2. QED BY <3>1
  <2>5. CASE Retrieve(p) BY <2>2, <2>4, <2>5 DEF Retrieve
  <2>6. CASE BuildContext(p) BY <2>3, <2>6 DEF BuildContext
  <2>7. CASE UseContext(p) BY <2>1, <2>7 DEF UseContext
  <2>8. QED BY <2>5, <2>6, <2>7
<1>5. PICK c : Goto(p, c) /\ GoodCall(c, stored) /\ c.pc # "embed" BY <1>4
<1>6. Alone(p, c, writer, document) BY <1>5 DEF Alone
<1>7. QED BY <1>1, <1>2, <1>5, <1>6, CallMoves

LEMMA CrashKeeps ==
  ASSUME IndexInv, NEW p \in Workers, Crash(p)
  PROVE  IndexInv'
<1>1. CountsGo BY FaultCounts DEF Crash
<1>2. GoodCall(NoCall, stored) /\ NoCall.pc # "embed" BY NoneIsGood DEF NoCall
<1>3. QED BY <1>1, <1>2, CallFrees DEF Crash

LEMMA IndexStarts ==
  ASSUME Init
  PROVE  IndexInv
<1>1. /\ site \in Sites /\ stored = [a \in Articles |-> 0]
      /\ document = [a \in Articles |-> NoDocument]
      /\ writer = [a \in Articles |-> "nobody"]
      /\ call = [p \in Workers |-> NoCall]
      /\ spent = [requests |-> 0, deletions |-> 0, faults |-> 0, documents |-> 0]
  BY DEF Init
<1>2. ASSUME NEW a \in Articles PROVE stored[a] <= Len(site.editions[a])
  <2>1. site.editions[a] \in Seq(Seq(Seq(Seq(Nat)))) BY <1>1, KnowledgeAssumption
  <2>2. Len(site.editions[a]) \in Nat BY <2>1
  <2>3. QED BY <1>1, <2>2
<1>3. ASSUME NEW p \in Workers
      PROVE  GoodCall(call[p], stored) /\ Alone(p, call[p], writer, document)
  BY <1>1, NoneIsGood DEF Alone, NoCall
<1>4. Numbered(document, spent.documents) BY <1>1 DEF Numbered, NoDocument
<1>5. DocumentsAreWhole BY <1>1 DEF DocumentsAreWhole
<1>6. QED BY <1>1, <1>2, <1>3, <1>4, <1>5 DEF IndexInv

LEMMA IndexStep ==
  ASSUME IndexInv, [Next]_vars
  PROVE  IndexInv'
<1>1. CASE UNCHANGED vars
  <2>1. /\ site' = site /\ stored' = stored /\ document' = document /\ writer' = writer
        /\ call' = call /\ spent' = spent /\ CountsGo
    BY <1>1, SameCounts DEF vars
  <2>2. stored' \in [Articles -> Nat] /\ \A a \in Articles : stored[a] <= stored'[a]
    BY <2>1 DEF IndexInv
  <2>3. \A q \in Workers : q # "nobody" =>
          (GoodCall(call[q], stored) /\ Alone(q, call[q], writer, document))'
    BY <2>1, <2>2, OthersStay
  <2>4. (Numbered(document, spent.documents) /\ DocumentsAreWhole)' BY <2>1, <2>2, SameDocuments
  <2>5. QED BY <2>1, <2>2, <2>3, <2>4, KnowledgeAssumption DEF IndexInv
<1>2. CASE Imports BY <1>2, ImportKeeps DEF Imports
<1>3. CASE Revisions BY <1>3, ReviseKeeps DEF Revisions
<1>4. CASE Enrichments BY <1>4, EnrichKeeps DEF Enrichments
<1>5. CASE WorkflowSteps BY <1>5, WorkflowStepKeeps DEF WorkflowSteps
<1>6. CASE Deletions BY <1>6, DeleteKeeps DEF Deletions
<1>7. CASE Crashes BY <1>7, CrashKeeps DEF Crashes
<1>8. CASE AllWork
  BY <1>8, LookKeeps, CreateKeeps, ReindexKeeps, BatchKeeps, CommitKeeps, RetrievalKeeps DEF
     AllWork, Work
<1>9. QED BY <1>1, <1>2, <1>3, <1>4, <1>5, <1>6, <1>7, <1>8 DEF Next, Quiet

\* A document has the chunks of a text of its article, and no passage is lost
\* to the cuts.
LEMMA WholeMeansRead ==
  ASSUME IndexInv
  PROVE  IndexIsWhole
<1>1. ASSUME NEW a \in Articles, document[a] # NoDocument
      PROVE  PassagesKept(document[a].chunks, document[a].content, site.size, site.overlap)
  <2> DEFINE d == document[a]
             drafts == Drafts(d.content)
  <2>1. PICK e \in 1..stored[a] : d.content = Content(a, e) BY <1>1 DEF IndexInv, DocumentsAreWhole
  <2>2. d.chunks = [k \in DOMAIN drafts |-> Embedded(PendingChunk(drafts[k]))]
    BY <1>1 DEF IndexInv, DocumentsAreWhole
  <2>3. e \in 1..Len(site.editions[a]) /\ site \in Sites
    <3>1. site.editions[a] \in Seq(Seq(Seq(Seq(Nat)))) /\ site \in Sites
      BY KnowledgeAssumption DEF IndexInv
    <3>2. Len(site.editions[a]) \in Nat /\ stored[a] \in Nat /\ stored[a] <= Len(site.editions[a])
      BY <3>1 DEF IndexInv
    <3>3. QED BY <3>1, <3>2
  <2>4. PassagesKept(drafts, d.content, site.size, site.overlap)
    <3>1. PassagesKept(Drafts(Content(a, e)), Content(a, e), site.size, site.overlap)
      BY <2>3, ContentHolds
    <3>2. QED BY <2>1, <3>1
  <2> HIDE DEF drafts, d
  <2>5. DOMAIN d.chunks = DOMAIN drafts /\ \A k \in DOMAIN drafts : d.chunks[k].text = drafts[k].text
    BY <2>2 DEF Embedded, PendingChunk
  <2>6. PassagesKept(d.chunks, d.content, site.size, site.overlap) BY <2>4, <2>5 DEF PassagesKept
  <2>7. QED BY <2>6 DEF d
<1>2. PassagesSurvive BY <1>1 DEF PassagesSurvive
<1>3. QED BY <1>2 DEF IndexInv, IndexIsWhole

\* Whatever is in the knowledge base is a whole text of its article, cut so
\* that no short passage is lost, each chunk with the embedding of itself: for
\* any number of workers that index, delete, fail and crash.
THEOREM IndexHolds == Spec => []IndexIsWhole
<1>1. Spec => []IndexInv BY IndexStarts, IndexStep, PTL DEF Spec
<1>2. QED BY <1>1, WholeMeansRead, PTL

-----------------------------------------------------------------------------
(* Parts of sequences.                                                     *)

\* h lists the numbers of P in increasing order.
Lists(h, m, P) ==
  /\ h \in [1..m -> P]
  /\ \A i, j \in 1..m : i < j => h[i] < h[j]
  /\ \A x \in P : \E k \in 1..m : h[k] = x

\* One place after the other.
KeptAt(g, seq, S, A) ==
  /\ g \in [0..Len(seq) -> Seq(A)] /\ g[0] = <<>>
  /\ \A n \in 1..Len(seq) : g[n] = IF n \in S THEN Append(g[n - 1], seq[n]) ELSE g[n - 1]
  /\ Kept(seq, S) = g[Len(seq)]
LEMMA KeptUnfolds ==
  ASSUME NEW A, NEW seq \in Seq(A), NEW S
  PROVE  \E g : KeptAt(g, seq, S, A)
<1> DEFINE N == Len(seq)
           next(s, n) == IF n \in S THEN Append(s, seq[n]) ELSE s
           IsKept(g) == g = [n \in 0..N |-> IF n = 0 THEN <<>>
                                            ELSE IF n \in S THEN Append(g[n - 1], seq[n]) ELSE g[n - 1]]
           kept == CHOOSE g : IsKept(g)
<1>1. N \in Nat /\ <<>> \in Seq(A) /\ \A n \in 1..N : \A s \in Seq(A) : next(s, n) \in Seq(A)
  OBVIOUS
<1>2. Kept(seq, S) = kept[N] BY DEF Kept
<1>3. PICK g \in [0..N -> Seq(A)] : g[0] = <<>> /\ \A n \in 1..N : g[n] = next(g[n - 1], n)
  <2> DEFINE F == [x \in (1..N) \X Seq(A) |-> next(x[2], x[1])]
  <2> HIDE DEF N, next
  <2>1. F \in [(1..N) \X Seq(A) -> Seq(A)] /\ \A n \in 1..N, s \in Seq(A) : F[<<n, s>>] = next(s, n)
    BY <1>1
  <2> HIDE DEF F
  <2>2. HasCourse(N, Seq(A), <<>>, F) BY <1>1, <2>1, StepByStep
  <2>3. PICK g \in [0..N -> Seq(A)] : g[0] = <<>> /\ \A n \in 1..N : g[n] = F[<<n, g[n - 1]>>]
    BY <2>2 DEF HasCourse, Course
  <2>4. \A n \in 1..N : g[n] = next(g[n - 1], n)
    <3>1. \A n \in 1..N : n - 1 \in 0..N BY <1>1
    <3>2. QED BY <2>1, <2>3, <3>1
  <2>5. QED BY <2>3, <2>4
<1>4. IsKept(g)
  <2> HIDE DEF N
  <2>1. ASSUME NEW n \in 0..N
        PROVE  g[n] = IF n = 0 THEN <<>> ELSE IF n \in S THEN Append(g[n - 1], seq[n]) ELSE g[n - 1]
    <3>1. CASE n = 0 BY <1>3, <3>1
    <3>2. CASE n # 0
      <4>1. n \in 1..N BY <1>1, <3>2
      <4>2. QED BY <1>3, <4>1, <3>2
    <3>3. QED BY <3>1, <3>2
  <2>2. QED BY <1>3, <2>1
<1> HIDE DEF IsKept
<1>5. IsKept(kept) BY <1>4
<1> HIDE DEF kept
<1>6. /\ kept[0] = <<>>
      /\ \A n \in 1..N : kept[n] = next(kept[n - 1], n)
      /\ DOMAIN kept = 0..N
  <2> HIDE DEF N
  <2>1. /\ DOMAIN kept = 0..N
        /\ \A n \in 0..N : kept[n] = IF n = 0 THEN <<>>
                                    ELSE IF n \in S THEN Append(kept[n - 1], seq[n]) ELSE kept[n - 1]
    BY <1>5 DEF IsKept
  <2>2. 0 \in 0..N /\ \A n \in 1..N : n \in 0..N /\ n # 0 BY <1>1
  <2>3. QED BY <2>1, <2>2
<1>7. \A n \in 0..N : kept[n] \in Seq(A)
  <2> DEFINE T == {n \in 0..N : kept[n] \in Seq(A)}
  <2> HIDE DEF N, next
  <2>1. 0 \in T
    <3>1. 0 \in 0..N /\ <<>> \in Seq(A) BY <1>1
    <3>2. kept[0] \in Seq(A) BY <1>6, <3>1
    <3>3. QED BY <3>1, <3>2
  <2>2. ASSUME NEW n \in 1..N, n - 1 \in T PROVE n \in T BY <1>1, <1>6, <2>2
  <2>3. 0..N \subseteq T
    <3> HIDE DEF T
    <3>1. QED BY <1>1, <2>1, <2>2, UpTo
  <2>4. QED BY <2>3
<1>8. kept \in [0..N -> Seq(A)] BY <1>5, <1>7 DEF IsKept
<1>9. KeptAt(kept, seq, S, A) BY <1>2, <1>6, <1>8 DEF KeptAt
<1>10. QED BY <1>9

\* What Kept returns: what is at the places of S, in their order.
KeepsAt(h, m, seq, S) ==
  Lists(h, m, S \cap (1..Len(seq))) /\ Kept(seq, S) = [k \in 1..m |-> seq[h[k]]]
LEMMA KeptIs ==
  ASSUME NEW A, NEW seq \in Seq(A), NEW S
  PROVE  \E m \in Nat : \E h : KeepsAt(h, m, seq, S)
<1> DEFINE N == Len(seq)
           Till(n) == S \cap (1..n)
<1>1. PICK g : KeptAt(g, seq, S, A) BY KeptUnfolds
<1>2. /\ N \in Nat /\ g[0] = <<>> /\ Kept(seq, S) = g[N]
      /\ \A n \in 1..N : g[n] = IF n \in S THEN Append(g[n - 1], seq[n]) ELSE g[n - 1]
      /\ \A n \in 1..N : seq[n] \in A
  BY <1>1 DEF KeptAt
<1> DEFINE Good(n) == \E m \in Nat : \E h : Lists(h, m, Till(n)) /\ g[n] = [k \in 1..m |-> seq[h[k]]]
           T == {n \in 0..N : Good(n)}
<1> HIDE DEF N
<1>3. 0 \in T
  <2> DEFINE h == [k \in 1..0 |-> 1]
  <2>1. Till(0) = {} /\ 1..0 = {}
    OBVIOUS
  <2>2. Lists(h, 0, Till(0)) BY <2>1 DEF Lists
  <2>3. g[0] = [k \in 1..0 |-> seq[h[k]]] BY <1>2
  <2> HIDE DEF h, Till
  <2>4. 0 \in 0..N /\ 0 \in Nat BY <1>2
  <2>5. Good(0) BY <2>2, <2>3, <2>4
  <2> HIDE DEF Good
  <2>6. QED BY <2>4, <2>5
<1>4. ASSUME NEW n \in 1..N, n - 1 \in T PROVE n \in T
  <2>0. PICK m \in Nat : \E h : Lists(h, m, Till(n - 1)) /\ g[n - 1] = [k \in 1..m |-> seq[h[k]]]
    BY <1>4
  <2>1. PICK h : Lists(h, m, Till(n - 1)) /\ g[n - 1] = [k \in 1..m |-> seq[h[k]]] BY <2>0
  <2>2. n \in Nat /\ n - 1 \in Nat /\ n \in 0..N BY <1>2
  <2>3. CASE n \notin S
    <3>1. Till(n) = Till(n - 1) BY <2>2, <2>3
    <3>2. g[n] = g[n - 1] BY <1>2, <2>3
    <3> HIDE DEF Till
    <3>3. Lists(h, m, Till(n)) /\ g[n] = [k \in 1..m |-> seq[h[k]]] BY <2>1, <3>1, <3>2
    <3>4. Good(n) BY <3>3
    <3> HIDE DEF Good
    <3>5. QED BY <2>2, <3>4
  <2>4. CASE n \in S
    <3> DEFINE i == [k \in 1..(m + 1) |-> IF k = m + 1 THEN n ELSE h[k]]
    <3>1. Till(n) = Till(n - 1) \cup {n} /\ \A x \in Till(n - 1) : x \in Nat /\ x < n BY <2>2, <2>4
    <3>2. h \in [1..m -> Till(n - 1)] BY <2>1 DEF Lists
    <3>3. /\ \A k \in 1..m : i[k] = h[k] /\ h[k] \in Till(n - 1)
          /\ i[m + 1] = n /\ i \in [1..(m + 1) -> Till(n)]
      BY <3>1, <3>2
    <3>4. Lists(i, m + 1, Till(n))
      <4>1. ASSUME NEW x \in 1..(m + 1), NEW y \in 1..(m + 1), x < y PROVE i[x] < i[y]
        <5>1. x \in 1..m BY <4>1
        <5>2. CASE y = m + 1 BY <3>1, <3>3, <5>1, <5>2
        <5>3. CASE y # m + 1
          <6>1. y \in 1..m BY <5>3
          <6> HIDE DEF i, Till
          <6>2. h[x] < h[y] BY <2>1, <4>1, <5>1, <6>1 DEF Lists
          <6>3. QED BY <3>3, <5>1, <6>1, <6>2
        <5>4. QED BY <5>2, <5>3
      <4>2. ASSUME NEW x \in Till(n) PROVE \E k \in 1..(m + 1) : i[k] = x
        <5> HIDE DEF i, Till
        <5>1. CASE x = n BY <3>3, <5>1
        <5>2. CASE x # n
          <6>1. PICK k \in 1..m : h[k] = x BY <2>1, <3>1, <5>2 DEF Lists
          <6>2. k \in 1..(m + 1)
            OBVIOUS
          <6>3. QED BY <3>3, <6>1, <6>2
        <5>3. QED BY <5>1, <5>2
      <4> HIDE DEF i, Till
      <4>3. QED BY <3>3, <4>1, <4>2 DEF Lists
    <3>5. g[n] = [k \in 1..(m + 1) |-> seq[i[k]]]
      <4> HIDE DEF i, Till
      <4>1. g[n] = Append(g[n - 1], seq[n]) BY <1>2, <2>4
      <4>2. g[n - 1] \in Seq(A) BY <1>1, <2>2 DEF KeptAt, N
      <4>3. Len(g[n - 1]) = m BY <2>1, <4>2
      <4>4. DOMAIN g[n] = 1..(m + 1) BY <4>1, <4>2, <4>3
      <4>5. ASSUME NEW k \in 1..(m + 1) PROVE g[n][k] = seq[i[k]]
        <5>1. CASE k = m + 1 BY <3>3, <4>1, <4>2, <4>3, <5>1
        <5>2. CASE k # m + 1
          <6>1. k \in 1..m BY <5>2
          <6>2. g[n][k] = g[n - 1][k] BY <4>1, <4>2, <4>3, <6>1
          <6>3. QED BY <2>1, <3>3, <6>1, <6>2
        <5>3. QED BY <5>1, <5>2
      <4>6. g[n] \in Seq(A) BY <1>1, <2>2 DEF KeptAt, N
      <4>7. QED BY <4>4, <4>5, <4>6
    <3> HIDE DEF i, Till
    <3>6. m + 1 \in Nat
      OBVIOUS
    <3>7. QED BY <2>2, <3>4, <3>5, <3>6
  <2>5. QED BY <2>3, <2>4
<1>5. N \in T
  <2> HIDE DEF T
  <2>1. 0..N \subseteq T BY <1>2, <1>3, <1>4, UpTo
  <2>2. QED BY <1>2, <2>1
<1>6. Good(N) BY <1>5
<1>7. PICK m \in Nat : \E h : Lists(h, m, Till(N)) /\ g[N] = [k \in 1..m |-> seq[h[k]]] BY <1>6
<1>8. PICK h : Lists(h, m, Till(N)) /\ g[N] = [k \in 1..m |-> seq[h[k]]] BY <1>7
<1>9. KeepsAt(h, m, seq, S) BY <1>2, <1>8 DEF KeepsAt, N
<1>10. QED BY <1>9

-----------------------------------------------------------------------------
(* Sets in an order.                                                       *)

\* R is a strict total order of S.
Orders(R, S) ==
  /\ \A x \in S : <<x, x>> \notin R
  /\ \A x, y, z \in S : <<x, y>> \in R /\ <<y, z>> \in R => <<x, z>> \in R
  /\ \A x, y \in S : x = y \/ <<x, y>> \in R \/ <<y, x>> \in R

\* The following member is the one with as many before it.
LEMMA Ranks ==
  ASSUME NEW S, IsFiniteSet(S), NEW R, Orders(R, S)
  PROVE  LET rank(x) == Cardinality({y \in S : <<y, x>> \in R})
         IN /\ \A x, y \in S : <<x, y>> \in R <=> rank(x) < rank(y)
            /\ \A k \in 1..Cardinality(S) : \E x \in S : rank(x) = k - 1
            /\ \A x \in S : rank(x) \in Nat /\ rank(x) < Cardinality(S)
<1> DEFINE before(x) == {y \in S : <<y, x>> \in R}
           rank(x) == Cardinality(before(x))
           n == Cardinality(S)
<1>1. n \in Nat /\ \A T \in SUBSET S : IsFiniteSet(T) /\ Cardinality(T) \in Nat /\ Cardinality(T) <= n
  BY FS_CardinalityType, FS_Subset
<1>2. \A x \in S : before(x) \in SUBSET S /\ IsFiniteSet(before(x)) /\ rank(x) \in Nat BY <1>1
<1>3. ASSUME NEW x \in S PROVE rank(x) < n
  <2>1. before(x) \in SUBSET (S \ {x}) BY DEF Orders
  <2>2. IsFiniteSet(S \ {x}) /\ Cardinality(S \ {x}) = n - 1 BY FS_RemoveElement
  <2> HIDE DEF before
  <2>3. Cardinality(before(x)) <= n - 1 BY <2>1, <2>2, FS_Subset
  <2>4. QED BY <1>1, <1>2, <2>3
<1>4. ASSUME NEW x \in S, NEW y \in S, <<x, y>> \in R PROVE rank(x) < rank(y)
  <2>1. before(x) \subseteq before(y) /\ x \in before(y) /\ x \notin before(x) BY <1>4 DEF Orders
  <2>2. before(x) \in SUBSET before(y) /\ before(x) # before(y) BY <2>1
  <2> HIDE DEF before
  <2>3. Cardinality(before(x)) <= Cardinality(before(y)) /\ Cardinality(before(x)) # Cardinality(before(y))
    BY <1>2, <2>2, FS_Subset
  <2>4. QED BY <1>2, <2>3
<1>5. ASSUME NEW x \in S, NEW y \in S PROVE <<x, y>> \in R <=> rank(x) < rank(y)
  <2>1. x = y \/ <<x, y>> \in R \/ <<y, x>> \in R BY DEF Orders
  <2>2. x = y => <<x, y>> \notin R BY DEF Orders
  <2>3. rank(x) \in Nat /\ rank(y) \in Nat BY <1>2
  <2>4. (<<x, y>> \in R => rank(x) < rank(y)) /\ (<<y, x>> \in R => rank(y) < rank(x)) BY <1>4
  <2> HIDE DEF rank
  <2>5. QED BY <2>1, <2>2, <2>3, <2>4
<1>6. ASSUME NEW k \in 1..n PROVE \E x \in S : rank(x) = k - 1
  <2> DEFINE f == [x \in S |-> rank(x)]
  <2>1. f \in [S -> 0..(n - 1)]
    <3>1. n \in Nat /\ \A x \in S : rank(x) \in Nat /\ rank(x) < n BY <1>1, <1>2, <1>3
    <3> HIDE DEF rank, n
    <3>2. \A x \in S : rank(x) \in 0..(n - 1) BY <3>1
    <3>3. QED BY <3>2
  <2>2. \A x, y \in S : f[x] = f[y] => x = y
    <3>1. ASSUME NEW x \in S, NEW y \in S, f[x] = f[y] PROVE x = y
      <4>1. x = y \/ <<x, y>> \in R \/ <<y, x>> \in R BY DEF Orders
      <4>2. rank(x) \in Nat /\ rank(x) = rank(y) BY <1>2, <3>1
      <4>3. (<<x, y>> \in R => rank(x) < rank(y)) /\ (<<y, x>> \in R => rank(y) < rank(x)) BY <1>4
      <4> HIDE DEF rank
      <4>4. QED BY <4>1, <4>2, <4>3
    <3>2. QED BY <3>1
  <2>3. f \in Injection(S, 0..(n - 1))
    <3> HIDE DEF f
    <3>1. QED BY <2>1, <2>2 DEF Injection, IsInjective
  <2>4. IsFiniteSet(0..(n - 1)) /\ Cardinality(0..(n - 1)) = n
    <3>1. n \in Nat BY <1>1
    <3> HIDE DEF n
    <3>2. 0 \in Int /\ n - 1 \in Int BY <3>1
    <3>3. IsFiniteSet(0..(n - 1)) /\ Cardinality(0..(n - 1)) = IF 0 > n - 1 THEN 0 ELSE (n - 1) - 0 + 1
      BY <3>2, FS_Interval
    <3>4. QED BY <3>1, <3>3
  <2>5. f \in Surjection(S, 0..(n - 1))
    <3> HIDE DEF f
    <3>1. QED BY <2>3, <2>4, FS_Injection
  <2>6. k - 1 \in 0..(n - 1) BY <1>1
  <2>7. \E x \in S : f[x] = k - 1
    <3> HIDE DEF f
    <3>1. QED BY <2>5, <2>6 DEF Surjection
  <2>8. QED BY <2>7
<1>7. QED BY <1>2, <1>3, <1>5, <1>6

-----------------------------------------------------------------------------
(* Rows in the order of their scores.                                      *)

Scored(rows) == rows \in Seq(RetrievedChunk)

LEMMA RowsAre ==
  ASSUME NEW rows, Scored(rows)
  PROVE  /\ Len(rows) \in Nat /\ DOMAIN rows = 1..Len(rows)
         /\ rows = [k \in 1..Len(rows) |-> rows[k]]
         /\ \A k \in 1..Len(rows) : /\ rows[k] \in RetrievedChunk /\ rows[k].text \in Seq(Nat)
                                    /\ rows[k].tokens \in Nat /\ rows[k].score \in Int
<1>1. rows \in Seq(RetrievedChunk) BY DEF Scored
<1> DEFINE R == RetrievedChunk
<1>2. \A c \in R : c.text \in Seq(Nat) /\ c.tokens \in Nat /\ c.score \in Int BY DEF RetrievedChunk
<1> HIDE DEF R
<1>3. /\ Len(rows) \in Nat /\ DOMAIN rows = 1..Len(rows)
      /\ rows = [k \in 1..Len(rows) |-> rows[k]] /\ \A k \in 1..Len(rows) : rows[k] \in R
  BY <1>1 DEF R
<1>4. QED BY <1>2, <1>3 DEF R

\* sorted is rows in another order, best first.
PutAt(o, rows, sorted) ==
  /\ o \in [1..Len(rows) -> 1..Len(rows)]
  /\ sorted = [n \in 1..Len(rows) |-> rows[o[n]]]
  /\ \A i, j \in 1..Len(rows) : i < j => rows[o[i]].score >= rows[o[j]].score

LEMMA ByScoreIs ==
  ASSUME NEW rows, Scored(rows), NEW way \in {1, 0 - 1}
  PROVE  \E o : PutAt(o, rows, ByScore(rows, way))
<1> DEFINE N == Len(rows)
           S == 1..N
           Ahead(j, k) == way * j < way * k
           Before(j, k) == \/ rows[j].score > rows[k].score
                           \/ rows[j].score = rows[k].score /\ Ahead(j, k)
           R == {p \in S \X S : Before(p[1], p[2])}
           rank(k) == Cardinality({j \in S : <<j, k>> \in R})
           placed(n) == CHOOSE k \in S : rank(k) = n - 1
           o == [n \in S |-> placed(n)]
<1>1. N \in Nat /\ DOMAIN rows = S /\ \A k \in S : rows[k].score \in Int BY RowsAre
<1>2. IsFiniteSet(S) /\ Cardinality(S) = N BY <1>1, FS_Interval
<1>3. /\ \A j \in S : ~ Ahead(j, j)
      /\ \A i, j, k \in S : Ahead(i, j) /\ Ahead(j, k) => Ahead(i, k)
      /\ \A j, k \in S : j = k \/ Ahead(j, k) \/ Ahead(k, j)
  <2>1. CASE way = 1 BY <1>1, <2>1
  <2>2. CASE way = 0 - 1 BY <1>1, <2>2
  <2>3. QED BY <2>1, <2>2
<1>4. ByScore(rows, way) =
        [n \in S |-> rows[CHOOSE k \in S : Cardinality({j \in S : Before(j, k)}) = n - 1]]
  BY <1>1 DEF ByScore
<1> HIDE DEF S, Ahead
<1>5. \A j, k \in S : <<j, k>> \in R <=> Before(j, k)
  OBVIOUS
<1>6. Orders(R, S)
  <2>1. \A x \in S : ~ Before(x, x) BY <1>1, <1>3
  <2>2. \A x, y, z \in S : Before(x, y) /\ Before(y, z) => Before(x, z) BY <1>1, <1>3
  <2>3. \A x, y \in S : x = y \/ Before(x, y) \/ Before(y, x) BY <1>1, <1>3
  <2> HIDE DEF R, Before
  <2>4. QED BY <1>5, <2>1, <2>2, <2>3 DEF Orders
<1>7. \A n \in S, k \in S : {j \in S : Before(j, k)} = {j \in S : <<j, k>> \in R} BY <1>5
<1>8. ByScore(rows, way) = [n \in S |-> rows[placed(n)]]
  <2>1. \A n \in S : (CHOOSE k \in S : Cardinality({j \in S : Before(j, k)}) = n - 1) = placed(n)
    <3> HIDE DEF R, Before
    <3>1. ASSUME NEW n \in S
          PROVE  (CHOOSE k \in S : Cardinality({j \in S : Before(j, k)}) = n - 1) = placed(n)
      <4>1. \A k \in S : Cardinality({j \in S : Before(j, k)}) = n - 1 <=> rank(k) = n - 1 BY <1>7
      <4>2. QED BY <4>1
    <3>2. QED BY <3>1
  <2> HIDE DEF Before, placed
  <2>2. QED BY <1>4, <2>1
<1> HIDE DEF R
<1>9. /\ \A x, y \in S : <<x, y>> \in R <=> rank(x) < rank(y)
      /\ \A k \in 1..Cardinality(S) : \E x \in S : rank(x) = k - 1
  <2>1. IsFiniteSet(S) BY <1>2
  <2> HIDE DEF N
  <2>2. LET r(x) == Cardinality({y \in S : <<y, x>> \in R})
        IN /\ \A x, y \in S : <<x, y>> \in R <=> r(x) < r(y)
           /\ \A k \in 1..Cardinality(S) : \E x \in S : r(x) = k - 1
           /\ \A x \in S : r(x) \in Nat /\ r(x) < Cardinality(S)
    BY <1>6, <2>1, Ranks
  <2>3. QED BY <2>2
<1> HIDE DEF rank
<1>10. ASSUME NEW n \in S PROVE placed(n) \in S /\ rank(placed(n)) = n - 1
  <2>1. \E x \in S : rank(x) = n - 1 BY <1>2, <1>9 DEF S
  <2>2. QED BY <2>1
<1> HIDE DEF placed
<1>11. o \in [S -> S] /\ \A n \in S : rank(o[n]) = n - 1 /\ o[n] = placed(n) BY <1>10
<1>12. ByScore(rows, way) = [n \in S |-> rows[o[n]]] BY <1>8, <1>11
<1> HIDE DEF o
<1>13. ASSUME NEW i \in S, NEW j \in S, i < j PROVE rows[o[i]].score >= rows[o[j]].score
  <2>1. o[i] \in S /\ o[j] \in S /\ rank(o[i]) < rank(o[j])
    <3>1. i \in Nat /\ j \in Nat BY <1>1 DEF S
    <3>2. QED BY <1>11, <1>13, <3>1
  <2>2. Before(o[i], o[j]) BY <1>5, <1>9, <2>1
  <2>3. QED BY <1>1, <2>1, <2>2
<1>14. PutAt(o, rows, ByScore(rows, way)) BY <1>11, <1>12, <1>13 DEF PutAt, S, N
<1>15. QED BY <1>14

\* Rows that are in order stay as they are.
LEMMA ByScoreSame ==
  ASSUME NEW rows, Scored(rows), Descending(rows)
  PROVE  ByScore(rows, 1) = rows
<1> DEFINE N == Len(rows)
           S == 1..N
           Before(j, k) == \/ rows[j].score > rows[k].score
                           \/ rows[j].score = rows[k].score /\ 1 * j < 1 * k
<1>1. N \in Nat /\ DOMAIN rows = S /\ rows = [k \in S |-> rows[k]] /\ \A k \in S : rows[k].score \in Int
  BY RowsAre
<1>2. ByScore(rows, 1) =
        [n \in S |-> rows[CHOOSE k \in S : Cardinality({j \in S : Before(j, k)}) = n - 1]]
  BY <1>1 DEF ByScore
<1>3. \A j, k \in S : Before(j, k) <=> j < k
  <2>1. ASSUME NEW j \in S, NEW k \in S PROVE Before(j, k) <=> j < k
    <3>1. j \in Nat /\ k \in Nat /\ rows[j].score \in Int /\ rows[k].score \in Int BY <1>1
    <3>2. (j < k => rows[j].score >= rows[k].score) /\ (k < j => rows[k].score >= rows[j].score)
      BY <1>1 DEF Descending
    <3>3. j = k => rows[j].score = rows[k].score
      OBVIOUS
    <3>4. QED BY <3>1, <3>2, <3>3
  <2>2. QED BY <2>1
<1>4. ASSUME NEW k \in S PROVE Cardinality({j \in S : Before(j, k)}) = k - 1
  <2>1. {j \in S : Before(j, k)} = 1..(k - 1)
    <3>1. \A j : j \in S /\ Before(j, k) <=> j \in 1..(k - 1)
      <4>1. \A j \in S : Before(j, k) <=> j < k BY <1>3
      <4> HIDE DEF Before
      <4>2. QED BY <1>1, <4>1
    <3> HIDE DEF S, Before
    <3>2. QED BY <3>1
  <2>2. k \in Nat /\ k >= 1 BY <1>1
  <2>3. Cardinality(1..(k - 1)) = k - 1 BY <2>2, FS_Interval
  <2>4. QED BY <2>1, <2>3
<1> DEFINE rank(k) == Cardinality({j \in S : Before(j, k)})
<1>5. ASSUME NEW n \in S PROVE (CHOOSE k \in S : rank(k) = n - 1) = n
  <2>1. \A k \in S : rank(k) = k - 1 /\ k \in Int BY <1>1, <1>4
  <2> HIDE DEF rank, S
  <2>2. \A k \in S : rank(k) = n - 1 <=> k = n BY <2>1
  <2>3. QED BY <2>2
<1>6. ByScore(rows, 1) = [n \in S |-> rows[CHOOSE k \in S : rank(k) = n - 1]] BY <1>2
<1> HIDE DEF rank, S
<1>7. QED BY <1>1, <1>5, <1>6

-----------------------------------------------------------------------------
(* The first of a sequence.                                                *)

LEMMA Starts ==
  ASSUME NEW A, NEW seq \in Seq(A), NEW q \in Nat, q <= Len(seq)
  PROVE  /\ SubSeq(seq, 1, q) = [k \in 1..q |-> seq[k]] /\ SubSeq(seq, 1, q) \in Seq(A)
         /\ Len(SubSeq(seq, 1, q)) = q /\ DOMAIN SubSeq(seq, 1, q) = 1..q
         /\ \A k \in 1..q : SubSeq(seq, 1, q)[k] = seq[k]
<1> DEFINE s == [k \in 1..q |-> seq[k]]
<1>1. Len(seq) \in Nat /\ DOMAIN seq = 1..Len(seq) /\ \A k \in 1..Len(seq) : seq[k] \in A
  OBVIOUS
<1>2. \A k \in 1..q : k \in 1..Len(seq) BY <1>1
<1>3. s \in [1..q -> A] /\ DOMAIN s = 1..q BY <1>1, <1>2
<1>4. s \in Seq(A) /\ Len(s) = q BY <1>3, SeqDef
<1>5. /\ SubSeq(seq, 1, q) \in Seq(A) /\ Len(SubSeq(seq, 1, q)) = q
      /\ DOMAIN SubSeq(seq, 1, q) = 1..q
      /\ \A k \in 1..q : SubSeq(seq, 1, q)[k] = seq[k]
  BY <1>1
<1>6. SubSeq(seq, 1, q) = s
  <2>1. \A k \in 1..q : s[k] = SubSeq(seq, 1, q)[k] BY <1>5
  <2> HIDE DEF s
  <2>2. QED BY <1>3, <1>4, <1>5, <2>1, SeqEqual
<1>7. QED BY <1>5, <1>6

LEMMA ListsFirst ==
  ASSUME NEW q \in Nat, NEW m \in Nat, NEW h, Lists(h, m, 1..q)
  PROVE  m = q /\ \A i \in 1..m : h[i] = i
<1>1. /\ h \in [1..m -> 1..q]
      /\ \A i, j \in 1..m : i < j => h[i] < h[j]
      /\ \A x \in 1..q : \E k \in 1..m : h[k] = x
  BY DEF Lists
<1> DEFINE T == {n \in 0..m : n \in 1..m => h[n] = n}
<1>2. 0 \in T
  OBVIOUS
<1>3. ASSUME NEW n \in 1..m, n - 1 \in T PROVE n \in T
  <2>1. n \in Nat /\ n - 1 \in Nat /\ h[n] \in 1..q BY <1>1
  <2>2. h[n] >= n
    <3>1. CASE n = 1 BY <2>1, <3>1
    <3>2. CASE n # 1
      <4>1. n - 1 \in 1..m /\ n - 1 < n BY <2>1, <3>2
      <4>2. h[n - 1] = n - 1 /\ h[n - 1] < h[n] BY <1>1, <1>3, <4>1
      <4>3. QED BY <2>1, <4>2
    <3>3. QED BY <3>1, <3>2
  <2>3. n \in 1..q BY <2>1, <2>2
  <2>4. PICK k \in 1..m : h[k] = n BY <1>1, <2>3
  <2>5. k >= n
    <3>1. CASE n = 1 BY <3>1
    <3>2. CASE n # 1
      <4>1. n - 1 \in 1..m BY <2>1, <3>2
      <4>2. h[n - 1] = n - 1 BY <1>3, <4>1
      <4>3. k < n - 1 => h[k] < h[n - 1] BY <1>1, <4>1
      <4>4. ~ (k < n - 1) /\ k # n - 1 BY <2>1, <2>4, <4>2, <4>3
      <4>5. QED BY <2>1, <4>4
    <3>3. QED BY <3>1, <3>2
  <2>6. ~ (k > n)
    <3>1. n < k => h[n] < h[k] BY <1>1
    <3>2. QED BY <2>1, <2>2, <2>4, <3>1
  <2>7. k = n BY <2>1, <2>5, <2>6
  <2>8. QED BY <2>1, <2>4, <2>7
<1>4. 0..m \subseteq T
  <2> HIDE DEF T
  <2>1. QED BY <1>2, <1>3, UpTo
<1>5. \A i \in 1..m : h[i] = i
  <2>1. \A i \in 1..m : i \in 0..m
    OBVIOUS
  <2>2. QED BY <1>4, <2>1
<1>6. m <= q
  <2>1. CASE m = 0 BY <2>1
  <2>2. CASE m # 0
    <3>1. m \in 1..m BY <2>2
    <3>2. h[m] = m /\ h[m] \in 1..q BY <1>1, <1>5, <3>1
    <3>3. QED BY <3>2
  <2>3. QED BY <2>1, <2>2
<1>7. q <= m
  <2>1. CASE q = 0 BY <2>1
  <2>2. CASE q # 0
    <3>1. q \in 1..q BY <2>2
    <3>2. PICK k \in 1..m : h[k] = q BY <1>1, <3>1
    <3>3. k = q BY <1>5, <3>2
    <3>4. QED BY <3>3
  <2>3. QED BY <2>1, <2>2
<1>8. QED BY <1>5, <1>6, <1>7

LEMMA KeptFirst ==
  ASSUME NEW A, NEW seq \in Seq(A), NEW q \in 0..Len(seq)
  PROVE  Kept(seq, 1..q) = SubSeq(seq, 1, q)
<1>1. PICK m \in Nat : \E h : KeepsAt(h, m, seq, 1..q) BY KeptIs
<1>2. PICK h : KeepsAt(h, m, seq, 1..q) BY <1>1
<1>3. q \in Nat /\ q <= Len(seq) /\ (1..q) \cap (1..Len(seq)) = 1..q
  <2>1. Len(seq) \in Nat
    OBVIOUS
  <2>2. QED BY <2>1
<1>4. Lists(h, m, 1..q) /\ Kept(seq, 1..q) = [k \in 1..m |-> seq[h[k]]] BY <1>2, <1>3 DEF KeepsAt
<1>5. m = q /\ \A i \in 1..m : h[i] = i BY <1>3, <1>4, ListsFirst
<1>6. Kept(seq, 1..q) = [k \in 1..q |-> seq[k]] BY <1>4, <1>5
<1>7. QED BY <1>3, <1>6, Starts

\* A search returns the first rows, so far as they are near enough.
LEMMA SearchIs ==
  ASSUME IndexInv, NEW rows, Scored(rows), Descending(rows)
  PROVE  \E m \in 0..Len(rows) :
           /\ Search(rows) = SubSeq(rows, 1, m)
           /\ \A k \in (m + 1)..Len(rows) : k > site.topK \/ rows[k].score < site.threshold
<1> DEFINE N == Len(rows)
           t == 2 * site.topK
           w == Min({N, t})
           window == SubSeq(rows, 1, w)
           P == {k \in DOMAIN window : window[k].score >= site.threshold}
           near == Kept(window, P)
<1>1. /\ N \in Nat /\ DOMAIN rows = 1..N /\ rows \in Seq(RetrievedChunk)
      /\ \A k \in 1..N : rows[k].score \in Int
  BY RowsAre DEF Scored
<1>2. site.topK \in Nat /\ site.threshold \in Int /\ t \in Nat /\ t >= site.topK
  <2>1. Settings(site) BY KnowledgeAssumption DEF IndexInv
  <2>2. QED BY <2>1 DEF Settings
<1>3. Search(rows) = SubSeq(near, 1, Min({Len(near), site.topK})) BY DEF Search
<1> HIDE DEF N, t
<1>4. w \in Nat /\ w <= N /\ (w = N \/ w >= site.topK)
  <2>1. N \in Int /\ t \in Int BY <1>1, <1>2
  <2>2. Min({N, t}) = IF N <= t THEN N ELSE t BY <2>1, OfTwo
  <2>3. w = IF N <= t THEN N ELSE t BY <2>2
  <2> HIDE DEF w
  <2>4. QED BY <1>1, <1>2, <2>3
<1> HIDE DEF w
<1>5. /\ window \in Seq(RetrievedChunk) /\ Len(window) = w /\ DOMAIN window = 1..w
      /\ \A k \in 1..w : window[k] = rows[k]
  BY <1>1, <1>4, Starts DEF N
<1> HIDE DEF window
<1>6. P \in SUBSET (1..w) /\ \A k \in 1..w : k \in P <=> rows[k].score >= site.threshold BY <1>5
<1> HIDE DEF P
<1>7. PICK q \in 0..w : P = 1..q
  <2>1. CASE P = {}
    <3>1. 0 \in 0..w /\ 1..0 = {} BY <1>4
    <3>2. QED BY <2>1, <3>1
  <2>2. CASE P # {}
    <3> DEFINE x == Max(P)
    <3>1. x \in P /\ \A y \in P : y <= x BY <1>4, <1>6, <2>2, Ends
    <3> HIDE DEF x
    <3>2. x \in 1..w /\ x \in Nat BY <1>6, <3>1
    <3>3. ASSUME NEW k \in 1..x PROVE k \in P
      <4>1. k \in 1..w /\ k \in 1..N /\ x \in 1..N BY <1>1, <1>4, <3>2
      <4>2. rows[k].score >= rows[x].score
        <5>1. CASE k = x BY <1>1, <4>1, <5>1
        <5>2. CASE k # x
          <6>1. k < x BY <3>2, <5>2
          <6>2. QED BY <1>1, <4>1, <6>1 DEF Descending
        <5>3. QED BY <5>1, <5>2
      <4>3. rows[x].score >= site.threshold BY <1>6, <3>1
      <4>4. rows[k].score >= site.threshold BY <1>1, <1>2, <4>1, <4>2, <4>3
      <4>5. QED BY <1>6, <4>1, <4>4
    <3>4. P = 1..x
      <4>1. ASSUME NEW y \in P PROVE y \in 1..x
        <5>1. y \in 1..w /\ y <= x BY <1>6, <3>1
        <5>2. QED BY <3>2, <5>1
      <4>2. QED BY <3>3, <4>1
    <3>5. x \in 0..w BY <3>2
    <3>6. QED BY <3>4, <3>5
  <2>3. QED BY <2>1, <2>2
<1>8. q \in Nat /\ q <= w BY <1>4, <1>7
<1>9. q <= N BY <1>1, <1>4, <1>8
<1>10. near = SubSeq(window, 1, q) BY <1>5, <1>7, KeptFirst
<1> HIDE DEF near
<1>11. /\ near \in Seq(RetrievedChunk) /\ Len(near) = q
       /\ \A k \in 1..q : near[k] = rows[k]
  <2>1. /\ near \in Seq(RetrievedChunk) /\ Len(near) = q
        /\ \A k \in 1..q : near[k] = window[k]
    BY <1>5, <1>8, <1>10, Starts
  <2>2. \A k \in 1..q : k \in 1..w BY <1>4, <1>8
  <2>3. QED BY <1>5, <2>1, <2>2
<1> DEFINE m == Min({q, site.topK})
<1>12. m = IF q <= site.topK THEN q ELSE site.topK
  <2> DEFINE k == site.topK
  <2>1. q \in Int /\ k \in Int BY <1>2, <1>8
  <2> HIDE DEF k
  <2>2. Min({q, k}) = IF q <= k THEN q ELSE k BY <2>1, OfTwo
  <2>3. QED BY <2>2 DEF k
<1>13. Search(rows) = SubSeq(near, 1, m) BY <1>3, <1>11
<1> HIDE DEF m
<1>14. m \in Nat /\ m <= q /\ m <= N /\ (m = q \/ m = site.topK) BY <1>1, <1>2, <1>8, <1>9, <1>12
<1>15. SubSeq(near, 1, m) = SubSeq(rows, 1, m)
  <2>1. SubSeq(near, 1, m) = [k \in 1..m |-> near[k]] BY <1>11, <1>14, Starts
  <2>2. m <= Len(rows) BY <1>14 DEF N
  <2>3. SubSeq(rows, 1, m) = [k \in 1..m |-> rows[k]] BY <1>1, <1>14, <2>2, Starts
  <2>4. \A k \in 1..m : k \in 1..q BY <1>8, <1>14
  <2>5. QED BY <1>11, <2>1, <2>3, <2>4
<1>16. ASSUME NEW k \in (m + 1)..N PROVE k > site.topK \/ rows[k].score < site.threshold
  <2>1. k \in 1..N /\ k > m /\ k \in Nat BY <1>1, <1>14
  <2>2. CASE m = site.topK BY <2>1, <2>2
  <2>3. CASE m = q
    <3>1. CASE k <= w
      <4>1. k \in 1..w /\ k \notin 1..q BY <1>4, <1>8, <2>1, <2>3, <3>1
      <4>2. ~ (rows[k].score >= site.threshold) BY <1>6, <1>7, <4>1
      <4>3. QED BY <1>1, <1>2, <2>1, <4>2
    <3>2. CASE ~ (k <= w)
      <4>1. w # N BY <1>1, <1>4, <2>1, <3>2
      <4>2. QED BY <1>2, <1>4, <2>1, <3>2, <4>1
    <3>3. QED BY <3>1, <3>2
  <2>4. QED BY <1>14, <2>2, <2>3
<1>17. m \in 0..N BY <1>1, <1>14
<1>18. QED BY <1>13, <1>15, <1>16, <1>17 DEF N

-----------------------------------------------------------------------------
(* Rows that are sorted, and their scores stretched.                       *)

LEMMA SortedIs ==
  ASSUME NEW rows, Scored(rows), NEW way \in {1, 0 - 1}
  PROVE  LET sorted == ByScore(rows, way)
         IN /\ Scored(sorted) /\ Descending(sorted) /\ Len(sorted) = Len(rows)
            /\ \A n \in 1..Len(rows) : \E k \in 1..Len(rows) : sorted[n] = rows[k]
<1> DEFINE sorted == ByScore(rows, way)
           N == Len(rows)
<1>1. N \in Nat /\ \A k \in 1..N : rows[k] \in RetrievedChunk BY RowsAre
<1>2. PICK o : PutAt(o, rows, sorted) BY ByScoreIs
<1> HIDE DEF sorted
<1>3. /\ o \in [1..N -> 1..N] /\ sorted = [n \in 1..N |-> rows[o[n]]]
      /\ \A i, j \in 1..N : i < j => rows[o[i]].score >= rows[o[j]].score
  BY <1>2 DEF PutAt
<1> HIDE DEF N
<1>4. sorted \in [1..N -> RetrievedChunk] /\ DOMAIN sorted = 1..N BY <1>1, <1>3
<1>5. Scored(sorted) /\ Len(sorted) = N
  <2>1. sorted \in Seq(RetrievedChunk) BY <1>1, <1>4, SeqDef
  <2>2. QED BY <1>1, <1>4, <2>1 DEF Scored
<1>6. Descending(sorted) BY <1>3, <1>4 DEF Descending
<1>7. QED BY <1>3, <1>5, <1>6 DEF sorted, N

LEMMA OrderedIs ==
  ASSUME NEW rows \in Seq(KnowledgeChunk), NEW near,
         \A k \in 1..Len(rows) : near[rows[k].vector] \in Int, NEW way \in {1, 0 - 1}
  PROVE  LET found == Ordered(rows, near, way)
         IN /\ Scored(found) /\ Descending(found)
            /\ \A n \in 1..Len(found) : \E k \in 1..Len(rows) :
                 found[n].text = rows[k].text /\ found[n].tokens = rows[k].tokens
<1> DEFINE N == Len(rows)
           K == KnowledgeChunk
           row(k) == [text |-> rows[k].text, tokens |-> rows[k].tokens, score |-> near[rows[k].vector]]
           plain == [k \in DOMAIN rows |-> row(k)]
           found == Ordered(rows, near, way)
<1>1. N \in Nat /\ DOMAIN rows = 1..N /\ \A k \in 1..N : rows[k] \in K
  <2> HIDE DEF K
  <2>1. rows \in Seq(K) BY DEF K
  <2>2. QED BY <2>1
<1>2. \A c \in K : c.text \in Seq(Nat) /\ c.tokens \in Nat BY DEF KnowledgeChunk
<1>3. found = ByScore(plain, way) BY DEF Ordered
<1> HIDE DEF found, K
<1>4. \A k \in 1..N : row(k) \in RetrievedChunk BY <1>1, <1>2 DEF RetrievedChunk
<1>5. \A k \in 1..N : row(k).text = rows[k].text /\ row(k).tokens = rows[k].tokens
  OBVIOUS
<1> HIDE DEF row, N
<1>6. plain \in [1..N -> RetrievedChunk] /\ \A k \in 1..N : plain[k] = row(k) BY <1>1, <1>4
<1>7. Scored(plain) /\ Len(plain) = N
  <2> HIDE DEF plain
  <2>1. plain \in Seq(RetrievedChunk) BY <1>1, <1>6, SeqDef
  <2>2. QED BY <1>1, <1>6, <2>1 DEF Scored
<1> HIDE DEF plain
<1>8. /\ Scored(found) /\ Descending(found) /\ Len(found) = N
      /\ \A n \in 1..N : \E k \in 1..N : found[n] = plain[k]
  BY <1>3, <1>7, SortedIs
<1>9. \A n \in 1..N : \E k \in 1..N :
        found[n].text = rows[k].text /\ found[n].tokens = rows[k].tokens
  <2>1. ASSUME NEW n \in 1..N
        PROVE  \E k \in 1..N : found[n].text = rows[k].text /\ found[n].tokens = rows[k].tokens
    <3>1. PICK k \in 1..N : found[n] = plain[k] BY <1>8
    <3>2. plain[k] = row(k) BY <1>6
    <3>3. plain[k].text = rows[k].text /\ plain[k].tokens = rows[k].tokens BY <1>5, <3>2
    <3>4. QED BY <3>1, <3>3
  <2>2. QED BY <2>1
<1>10. QED
  <2>1. /\ Scored(found) /\ Descending(found)
        /\ \A n \in 1..Len(found) : \E k \in 1..N :
             found[n].text = rows[k].text /\ found[n].tokens = rows[k].tokens
    BY <1>8, <1>9
  <2>2. QED BY <2>1 DEF found, N

LEMMA Divided ==
  ASSUME NEW a \in Int, NEW b \in Int, NEW d \in Nat \ {0}, a <= b
  PROVE  a \div d \in Int /\ b \div d \in Int /\ a \div d <= b \div d
OBVIOUS

\* Stretching the scores leaves the order, the texts and their lengths.
LEMMA NormalizedIs ==
  ASSUME NEW rows, Scored(rows), Descending(rows)
  PROVE  LET norm == NormalizedScores(rows)
         IN /\ Scored(norm) /\ Descending(norm) /\ Len(norm) = Len(rows)
            /\ \A k \in 1..Len(rows) : norm[k].text = rows[k].text /\ norm[k].tokens = rows[k].tokens
<1> DEFINE N == Len(rows)
           scores == {rows[k].score : k \in DOMAIN rows}
           score(k) == IF Cardinality(scores) = 1 THEN 100
                       ELSE ((rows[k].score - Min(scores)) * 100) \div (Max(scores) - Min(scores))
           norm == NormalizedScores(rows)
<1>1. /\ N \in Nat /\ DOMAIN rows = 1..N
      /\ \A k \in 1..N : rows[k] \in RetrievedChunk /\ rows[k].score \in Int
  BY RowsAre
<1>2. norm = [k \in DOMAIN rows |-> [rows[k] EXCEPT !.score = score(k)]] BY DEF NormalizedScores
<1> HIDE DEF norm, N
<1>3. ASSUME NEW k \in 1..N
      PROVE  score(k) \in Int /\ \A j \in 1..N : k < j => score(k) >= score(j)
  <2> DEFINE x == rows[N].score
             y == rows[1].score
  <2>1. 1 \in 1..N /\ N \in 1..N BY <1>1
  <2>2. \A z \in scores : z \in Int /\ x <= z /\ z <= y
    <3>1. ASSUME NEW j \in 1..N PROVE rows[j].score \in Int /\ x <= rows[j].score /\ rows[j].score <= y
      <4>1. j = N \/ j < N BY <1>1
      <4>2. j = 1 \/ 1 < j BY <1>1
      <4>3. (j < N => rows[j].score >= rows[N].score) /\ (1 < j => rows[1].score >= rows[j].score)
        BY <1>1, <2>1 DEF Descending
      <4>4. rows[j].score \in Int /\ x \in Int /\ y \in Int BY <1>1, <2>1
      <4>5. QED BY <4>1, <4>2, <4>3, <4>4
    <3>2. QED BY <1>1, <3>1
  <2>3. x \in scores /\ y \in scores BY <1>1, <2>1
  <2> HIDE DEF x, y
  <2>4. Min(scores) = x /\ Max(scores) = y
    <3> HIDE DEF scores
    <3>1. \E z \in scores : \A u \in scores : z =< u BY <2>2, <2>3
    <3>2. Min(scores) \in scores /\ \A u \in scores : Min(scores) =< u BY <3>1 DEF Min
    <3>3. \E z \in scores : \A u \in scores : z >= u BY <2>2, <2>3
    <3>4. Max(scores) \in scores /\ \A u \in scores : Max(scores) >= u BY <3>3 DEF Max
    <3>5. QED BY <2>2, <2>3, <3>2, <3>4
  <2>5. CASE Cardinality(scores) = 1 BY <2>5
  <2>6. CASE Cardinality(scores) # 1
    <3> DEFINE d == y - x
    <3>1. x # y
      <4>1. ASSUME x = y PROVE scores = {x}
        <5> HIDE DEF scores
        <5>1. QED BY <2>2, <2>3, <4>1
      <4>2. Cardinality({x}) = 1 BY FS_Singleton
      <4> HIDE DEF scores
      <4>3. QED BY <2>6, <4>1, <4>2
    <3>2. d \in Nat \ {0}
      <4>1. x \in Int /\ y \in Int /\ x <= y BY <2>2, <2>3
      <4> HIDE DEF scores, score
      <4>2. QED BY <3>1, <4>1
    <3>3. x \in Int BY <2>2, <2>3
    <3>4. ASSUME NEW j \in 1..N PROVE score(j) = ((rows[j].score - x) * 100) \div d BY <2>4, <2>6
    <3> HIDE DEF score, d, scores
    <3>5. ASSUME NEW j \in 1..N PROVE rows[j].score \in Int /\ (rows[j].score - x) * 100 \in Int
      BY <1>1, <3>3
    <3>6. score(k) \in Int
      <4> DEFINE a == (rows[k].score - x) * 100
      <4>1. a \in Int /\ a <= a BY <3>5
      <4> HIDE DEF a
      <4>2. a \div d \in Int BY <3>2, <4>1, Divided
      <4>3. QED BY <3>4, <4>2 DEF a
    <3>7. ASSUME NEW j \in 1..N, k < j PROVE score(k) >= score(j)
      <4> DEFINE a == (rows[j].score - x) * 100
                 b == (rows[k].score - x) * 100
      <4>1. rows[k].score >= rows[j].score BY <1>1, <3>7 DEF Descending
      <4>2. a \in Int /\ b \in Int /\ a <= b BY <3>3, <3>5, <4>1
      <4> HIDE DEF a, b
      <4>3. a \div d \in Int /\ b \div d \in Int /\ a \div d <= b \div d BY <3>2, <4>2, Divided
      <4>4. score(k) = b \div d /\ score(j) = a \div d BY <3>4 DEF a, b
      <4>5. QED BY <4>3, <4>4
    <3>8. QED BY <3>6, <3>7
  <2>7. QED BY <2>5, <2>6
<1> HIDE DEF score
<1>4. ASSUME NEW k \in 1..N
      PROVE  LET c == [rows[k] EXCEPT !.score = score(k)]
             IN /\ c \in RetrievedChunk /\ c.score = score(k)
                /\ c.text = rows[k].text /\ c.tokens = rows[k].tokens
  <2>1. rows[k] \in RetrievedChunk /\ score(k) \in Int BY <1>1, <1>3
  <2>2. QED BY <2>1 DEF RetrievedChunk
<1>5. /\ norm \in [1..N -> RetrievedChunk] /\ DOMAIN norm = 1..N
      /\ \A k \in 1..N : /\ norm[k].score = score(k)
                         /\ norm[k].text = rows[k].text /\ norm[k].tokens = rows[k].tokens
  BY <1>1, <1>2, <1>4
<1>6. Scored(norm) /\ Len(norm) = N
  <2>1. norm \in Seq(RetrievedChunk) BY <1>1, <1>5, SeqDef
  <2>2. QED BY <1>1, <1>5, <2>1 DEF Scored
<1>7. Descending(norm) BY <1>3, <1>5 DEF Descending
<1>8. QED BY <1>5, <1>6, <1>7 DEF norm, N

-----------------------------------------------------------------------------
(* The budget.                                                             *)

\* t sums up the tokens of rows.
Counts(t, rows) ==
  /\ t \in [0..Len(rows) -> Nat] /\ t[0] = 0
  /\ \A n \in 1..Len(rows) : t[n] = t[n - 1] + rows[n].tokens

LEMMA TokensAdd ==
  ASSUME NEW rows, Scored(rows)
  PROVE  \E t : Counts(t, rows) /\ Tokens(rows) = t[Len(rows)]
<1> DEFINE N == Len(rows)
           IsSum(f) == f = [n \in 0..N |-> IF n = 0 THEN 0 ELSE f[n - 1] + rows[n].tokens]
           sum == CHOOSE f : IsSum(f)
<1>1. N \in Nat /\ \A n \in 1..N : rows[n].tokens \in Nat BY RowsAre
<1>2. Tokens(rows) = sum[N] BY DEF Tokens
<1> HIDE DEF N
<1>3. PICK g \in [0..N -> Nat] : g[0] = 0 /\ \A n \in 1..N : g[n] = g[n - 1] + rows[n].tokens
  <2> DEFINE F == [x \in (1..N) \X Nat |-> x[2] + rows[x[1]].tokens]
  <2>1. F \in [(1..N) \X Nat -> Nat] /\ \A n \in 1..N, s \in Nat : F[<<n, s>>] = s + rows[n].tokens
    BY <1>1
  <2> HIDE DEF F
  <2>2. HasCourse(N, Nat, 0, F) BY <1>1, <2>1, StepByStep
  <2>3. PICK g \in [0..N -> Nat] : g[0] = 0 /\ \A n \in 1..N : g[n] = F[<<n, g[n - 1]>>]
    BY <2>2 DEF HasCourse, Course
  <2>4. \A n \in 1..N : n - 1 \in 0..N BY <1>1
  <2>5. \A n \in 1..N : g[n] = g[n - 1] + rows[n].tokens BY <2>1, <2>3, <2>4
  <2>6. QED BY <2>3, <2>5
<1>4. IsSum(g)
  <2>1. ASSUME NEW n \in 0..N PROVE g[n] = IF n = 0 THEN 0 ELSE g[n - 1] + rows[n].tokens
    <3>1. CASE n = 0 BY <1>3, <3>1
    <3>2. CASE n # 0
      <4>1. n \in 1..N BY <1>1, <3>2
      <4>2. QED BY <1>3, <3>2, <4>1
    <3>3. QED BY <3>1, <3>2
  <2>2. QED BY <1>3, <2>1
<1> HIDE DEF IsSum
<1>5. IsSum(sum) BY <1>4
<1> HIDE DEF sum
<1>6. /\ DOMAIN sum = 0..N
      /\ \A n \in 0..N : sum[n] = IF n = 0 THEN 0 ELSE sum[n - 1] + rows[n].tokens
      /\ sum = [n \in 0..N |-> sum[n]]
  BY <1>5 DEF IsSum
<1>7. sum[0] = 0 /\ \A n \in 1..N : sum[n] = sum[n - 1] + rows[n].tokens
  <2>1. 0 \in 0..N /\ \A n \in 1..N : n \in 0..N /\ n # 0 BY <1>1
  <2>2. QED BY <1>6, <2>1
<1>8. \A n \in 0..N : sum[n] \in Nat
  <2> DEFINE T == {n \in 0..N : sum[n] \in Nat}
  <2>1. 0 \in T BY <1>1, <1>7
  <2>2. ASSUME NEW n \in 1..N, n - 1 \in T PROVE n \in T
    <3>1. sum[n - 1] \in Nat /\ rows[n].tokens \in Nat /\ n \in 0..N BY <1>1, <2>2
    <3>2. sum[n] = sum[n - 1] + rows[n].tokens BY <1>7
    <3>3. sum[n] \in Nat BY <3>1, <3>2
    <3>4. QED BY <3>1, <3>3
  <2>3. 0..N \subseteq T
    <3> HIDE DEF T
    <3>1. QED BY <1>1, <2>1, <2>2, UpTo
  <2>4. QED BY <2>3
<1>9. sum \in [0..N -> Nat] BY <1>6, <1>8
<1>10. Counts(sum, rows) /\ Tokens(rows) = sum[Len(rows)] BY <1>2, <1>7, <1>9 DEF Counts, N
<1>11. QED BY <1>10

LEMMA TokensType ==
  ASSUME NEW rows, Scored(rows)
  PROVE  Tokens(rows) \in Nat
<1>1. PICK t : Counts(t, rows) /\ Tokens(rows) = t[Len(rows)] BY TokensAdd
<1>2. Len(rows) \in 0..Len(rows) BY RowsAre
<1>3. QED BY <1>1, <1>2 DEF Counts

LEMMA NoTokens == Scored(<<>>) /\ Tokens(<<>>) = 0
<1>1. Scored(<<>>) /\ Len(<<>>) = 0 BY EmptySeq DEF Scored
<1>2. QED BY <1>1, TokensAdd DEF Counts

LEMMA OneMore ==
  ASSUME NEW rows, Scored(rows), NEW c \in RetrievedChunk
  PROVE  Scored(Append(rows, c)) /\ Tokens(Append(rows, c)) = Tokens(rows) + c.tokens
<1> DEFINE N == Len(rows)
           more == Append(rows, c)
           R == RetrievedChunk
<1>1. /\ N \in Nat /\ more \in Seq(R) /\ Len(more) = N + 1 /\ more[N + 1] = c
      /\ \A k \in 1..N : more[k] = rows[k]
  <2>1. rows \in Seq(R) /\ c \in R BY DEF Scored
  <2> HIDE DEF R
  <2>2. QED BY <2>1
<1> HIDE DEF more
<1>2. Scored(more) BY <1>1 DEF Scored
<1>3. PICK t : Counts(t, rows) /\ Tokens(rows) = t[N] BY TokensAdd
<1>4. PICK u : Counts(u, more) /\ Tokens(more) = u[Len(more)] BY <1>2, TokensAdd
<1>5. t[0] = 0 /\ \A n \in 1..N : t[n] = t[n - 1] + rows[n].tokens BY <1>3 DEF Counts
<1>6. u[0] = 0 /\ \A n \in 1..(N + 1) : u[n] = u[n - 1] + more[n].tokens BY <1>1, <1>4 DEF Counts
<1> HIDE DEF N, R
<1> DEFINE T == {n \in 0..N : u[n] = t[n]}
<1>7. 0 \in T BY <1>1, <1>5, <1>6
<1>8. ASSUME NEW n \in 1..N, n - 1 \in T PROVE n \in T
  <2>1. n \in 1..(N + 1) /\ n \in 0..N BY <1>1
  <2>2. u[n] = u[n - 1] + more[n].tokens /\ t[n] = t[n - 1] + rows[n].tokens /\ more[n] = rows[n]
    BY <1>1, <1>5, <1>6, <2>1
  <2>3. QED BY <1>8, <2>1, <2>2
<1>9. 0..N \subseteq T
  <2> HIDE DEF T
  <2>1. QED BY <1>1, <1>7, <1>8, UpTo
<1>10. u[N] = t[N]
  <2>1. N \in 0..N BY <1>1
  <2>2. QED BY <1>9, <2>1
<1>11. u[N + 1] = u[N] + c.tokens
  <2>1. N + 1 \in 1..(N + 1) /\ (N + 1) - 1 = N BY <1>1
  <2>2. QED BY <1>1, <1>6, <2>1
<1>12. Tokens(more) = Tokens(rows) + c.tokens BY <1>1, <1>3, <1>4, <1>10, <1>11
<1>13. QED BY <1>2, <1>12 DEF more

\* The first n of a sequence are the first n - 1 and the one after.
LEMMA StartGrows ==
  ASSUME NEW A, NEW seq \in Seq(A), NEW n \in 1..Len(seq)
  PROVE  /\ SubSeq(seq, 1, n) = Append(SubSeq(seq, 1, n - 1), seq[n])
         /\ seq[n] \in A /\ SubSeq(seq, 1, n - 1) \in Seq(A)
<1>1. Len(seq) \in Nat /\ seq[n] \in A /\ n \in Nat /\ n - 1 \in Nat /\ n <= Len(seq) /\ n - 1 <= Len(seq)
  OBVIOUS
<1> DEFINE s == SubSeq(seq, 1, n)
           r == SubSeq(seq, 1, n - 1)
           a == Append(r, seq[n])
<1>2. s \in Seq(A) /\ Len(s) = n /\ \A k \in 1..n : s[k] = seq[k] BY <1>1, Starts
<1>3. r \in Seq(A) /\ Len(r) = n - 1 /\ \A k \in 1..(n - 1) : r[k] = seq[k] BY <1>1, Starts
<1> HIDE DEF s, r
<1>4. a \in Seq(A) /\ Len(a) = n /\ a[n] = seq[n] /\ \A k \in 1..(n - 1) : a[k] = r[k] BY <1>1, <1>3
<1> HIDE DEF a
<1>5. \A k \in 1..n : a[k] = s[k]
  <2>1. ASSUME NEW k \in 1..n PROVE a[k] = s[k]
    <3>1. k = n \/ k \in 1..(n - 1) BY <1>1
    <3>2. QED BY <1>2, <1>3, <1>4, <3>1
  <2>2. QED BY <2>1
<1>6. s = a BY <1>2, <1>4, <1>5, SeqEqual
<1>7. QED BY <1>1, <1>3, <1>6 DEF s, a, r

LEMMA NoStart ==
  ASSUME NEW A, NEW seq \in Seq(A)
  PROVE  SubSeq(seq, 1, 0) = <<>> /\ SubSeq(seq, 1, Len(seq)) = seq
<1>1. Len(seq) \in Nat
  OBVIOUS
<1>2. SubSeq(seq, 1, 0) \in Seq(A) /\ Len(SubSeq(seq, 1, 0)) = 0 BY <1>1, Starts
<1>3. /\ SubSeq(seq, 1, Len(seq)) \in Seq(A) /\ Len(SubSeq(seq, 1, Len(seq))) = Len(seq)
      /\ \A k \in 1..Len(seq) : SubSeq(seq, 1, Len(seq))[k] = seq[k]
  BY <1>1, Starts
<1>4. SubSeq(seq, 1, Len(seq)) = seq BY <1>3, SeqEqual
<1>5. QED BY <1>2, <1>4

\* What is kept of rows has no less tokens than what is kept at the start.
LEMMA KeptTokens ==
  ASSUME NEW taken, Scored(taken), NEW before, NEW l \in 0..Len(taken),
         \A x \in 1..l : x \in before
  PROVE  /\ Scored(Kept(taken, before)) /\ Scored(SubSeq(taken, 1, l))
         /\ Tokens(Kept(taken, before)) >= Tokens(SubSeq(taken, 1, l))
<1> DEFINE R == RetrievedChunk
           N == Len(taken)
           first(n) == SubSeq(taken, 1, n)
<1>1. taken \in Seq(R) /\ N \in Nat /\ l \in Nat /\ l <= N BY RowsAre DEF Scored
<1>2. PICK g : KeptAt(g, taken, before, R) BY <1>1, KeptUnfolds
<1>3. /\ \A n \in 0..N : Scored(g[n])
      /\ g[0] = <<>> /\ Kept(taken, before) = g[N]
      /\ \A n \in 1..N : g[n] = IF n \in before THEN Append(g[n - 1], taken[n]) ELSE g[n - 1]
  BY <1>2 DEF KeptAt, Scored
<1>4. \A n \in 1..N : /\ first(n) = Append(first(n - 1), taken[n])
                      /\ taken[n] \in R
  BY <1>1, StartGrows
<1>5. Scored(first(l)) /\ first(0) = <<>> BY <1>1, Starts, NoStart DEF Scored
<1>6. \A n \in 1..N : taken[n].tokens \in Nat BY RowsAre
<1> HIDE DEF R, N, first
<1> DEFINE Good(n) == /\ n <= l => g[n] = first(n)
                      /\ n >= l => Tokens(g[n]) >= Tokens(first(l))
           T == {n \in 0..N : Good(n)}
<1>7. Tokens(first(l)) \in Nat /\ \A n \in 0..N : Tokens(g[n]) \in Nat BY <1>3, <1>5, TokensType
<1>8. 0 \in T BY <1>1, <1>3, <1>5, <1>7
<1>9. ASSUME NEW n \in 1..N, n - 1 \in T PROVE n \in T
  <2>1. n \in Nat /\ n - 1 \in 0..N /\ n \in 0..N BY <1>1
  <2>2. CASE n <= l
    <3>1. n \in before BY <2>1, <2>2, <1>1
    <3>2. g[n] = Append(g[n - 1], taken[n]) /\ g[n - 1] = first(n - 1)
      <4>1. g[n] = Append(g[n - 1], taken[n]) BY <1>3, <3>1
      <4>2. n - 1 <= l BY <1>1, <2>1, <2>2
      <4>3. g[n - 1] = first(n - 1) BY <1>9, <4>2
      <4>4. QED BY <4>1, <4>3
    <3>3. g[n] = first(n) BY <1>4, <3>2
    <3>4. n >= l => n = l BY <1>1, <2>1, <2>2
    <3>5. QED BY <1>7, <2>1, <3>3, <3>4
  <2>3. CASE ~ (n <= l)
    <3>1. n - 1 >= l BY <1>1, <2>1, <2>3
    <3>2. Tokens(g[n - 1]) >= Tokens(first(l)) BY <1>9, <3>1
    <3>3. Tokens(g[n]) >= Tokens(g[n - 1])
      <4>1. CASE n \in before
        <5>1. g[n] = Append(g[n - 1], taken[n]) /\ Scored(g[n - 1]) /\ taken[n] \in RetrievedChunk
          BY <1>3, <1>4, <2>1, <4>1 DEF R
        <5>2. Tokens(g[n]) = Tokens(g[n - 1]) + taken[n].tokens BY <5>1, OneMore
        <5>3. QED BY <1>6, <1>7, <2>1, <5>2
      <4>2. CASE n \notin before BY <1>3, <1>7, <2>1, <4>2
      <4>3. QED BY <4>1, <4>2
    <3>4. Tokens(g[n]) >= Tokens(first(l)) BY <1>7, <2>1, <3>2, <3>3
    <3>5. QED BY <2>1, <2>3, <3>4
  <2>4. QED BY <2>2, <2>3
<1>10. 0..N \subseteq T
  <2> HIDE DEF T
  <2>1. QED BY <1>1, <1>8, <1>9, UpTo
<1>11. N \in 0..N BY <1>1
<1>12. Scored(g[N]) /\ Tokens(g[N]) >= Tokens(first(l)) BY <1>1, <1>3, <1>10, <1>11
<1>13. QED BY <1>3, <1>5, <1>12 DEF first

-----------------------------------------------------------------------------
(* What is taken.                                                          *)

\* What was taken of the first n rows is in the budget and in their order.
TakenAre(taken, q, rows, n) ==
  /\ Scored(taken) /\ Tokens(taken) <= site.budget
  /\ q \in [1..Len(taken) -> 1..n]
  /\ \A x, y \in 1..Len(taken) : x < y => q[x] < q[y]
  /\ \A x \in 1..Len(taken) : taken[x] = rows[q[x]]
\* What was left did not fit behind what had been taken before.
TooLong(i, taken, q, rows) ==
  \E l \in 0..Len(taken) :
    /\ Tokens(SubSeq(taken, 1, l)) + rows[i].tokens > site.budget
    /\ \A x \in 1..l : q[x] < i
Accounted(taken, q, rows, n) ==
  \A i \in 1..n : (\E x \in 1..Len(taken) : q[x] = i) \/ TooLong(i, taken, q, rows)

LEMMA FittingStep ==
  ASSUME site.budget \in Nat, NEW rows, Scored(rows), NEW n \in 1..Len(rows), NEW taken, NEW q,
         TakenAre(taken, q, rows, n - 1), Accounted(taken, q, rows, n - 1)
  PROVE  LET more == AddFitting(taken, rows[n])
         IN \E r : TakenAre(more, r, rows, n) /\ Accounted(more, r, rows, n)
<1> DEFINE t == Len(taken)
           c == rows[n]
           b == site.budget
           R == RetrievedChunk
<1>1. c \in R /\ c.tokens \in Nat /\ n \in Nat /\ n - 1 \in Nat BY RowsAre
<1>2. /\ Scored(taken) /\ Tokens(taken) <= b /\ t \in Nat /\ Tokens(taken) \in Nat
      /\ q \in [1..t -> 1..(n - 1)]
      /\ \A x, y \in 1..t : x < y => q[x] < q[y]
      /\ \A x \in 1..t : taken[x] = rows[q[x]]
  BY RowsAre, TokensType DEF TakenAre
<1>3. \A i \in 1..(n - 1) : (\E x \in 1..t : q[x] = i) \/ TooLong(i, taken, q, rows)
  BY DEF Accounted
<1>4. CASE Tokens(taken) + c.tokens > b
  <2>1. AddFitting(taken, c) = taken BY <1>4 DEF AddFitting
  <2>2. \A k \in 1..(n - 1) : k \in 1..n /\ k < n BY <1>1
  <2>3. q \in [1..t -> 1..n] /\ \A x \in 1..t : q[x] < n BY <1>2, <2>2
  <2>4. TakenAre(taken, q, rows, n) BY <1>2, <2>3 DEF TakenAre
  <2>5. SubSeq(taken, 1, t) = taken /\ t \in 0..t
    <3>1. taken \in Seq(R) BY <1>2 DEF Scored
    <3>2. SubSeq(taken, 1, Len(taken)) = taken BY <3>1, NoStart
    <3>3. QED BY <1>2, <3>2
  <2>6. TooLong(n, taken, q, rows) BY <1>4, <2>3, <2>5 DEF TooLong
  <2>7. Accounted(taken, q, rows, n)
    <3>1. \A i \in 1..n : i = n \/ i \in 1..(n - 1) BY <1>1
    <3>2. QED BY <1>3, <2>6, <3>1 DEF Accounted
  <2>8. QED BY <2>1, <2>4, <2>7
<1>5. CASE ~ (Tokens(taken) + c.tokens > b)
  <2> DEFINE more == Append(taken, c)
             r == [x \in 1..(t + 1) |-> IF x = t + 1 THEN n ELSE q[x]]
  <2>1. AddFitting(taken, c) = more BY <1>5 DEF AddFitting
  <2>2. Scored(more) /\ Tokens(more) = Tokens(taken) + c.tokens BY <1>1, <1>2, OneMore
  <2>3. /\ Len(more) = t + 1 /\ more[t + 1] = c /\ \A x \in 1..t : more[x] = taken[x]
        /\ taken \in Seq(R) /\ more \in Seq(R)
    <3>1. taken \in Seq(R) BY <1>2 DEF Scored
    <3> HIDE DEF R
    <3>2. QED BY <1>1, <3>1
  <2> HIDE DEF more, c, R
  <2>4. \A x \in 1..(t + 1) : x = t + 1 \/ x \in 1..t BY <1>2
  <2>5. \A x \in 1..t : q[x] \in 1..n /\ q[x] < n /\ x \in 1..(t + 1) /\ x # t + 1
    <3>1. ASSUME NEW x \in 1..t PROVE q[x] \in 1..n /\ q[x] < n /\ x \in 1..(t + 1) /\ x # t + 1
      <4>1. q[x] \in 1..(n - 1) /\ x \in Nat /\ x <= t BY <1>2
      <4>2. QED BY <1>1, <1>2, <4>1
    <3>2. QED BY <3>1
  <2>6. n \in 1..n /\ t + 1 \in 1..(t + 1) BY <1>1, <1>2
  <2>7. r[t + 1] = n /\ \A x \in 1..t : r[x] = q[x] BY <2>5, <2>6
  <2>8. r \in [1..(t + 1) -> 1..n] BY <2>4, <2>5, <2>6
  <2> HIDE DEF r, t
  <2>9. ASSUME NEW x \in 1..(t + 1), NEW y \in 1..(t + 1), x < y PROVE r[x] < r[y]
    <3>1. x \in 1..t BY <1>2, <2>9
    <3>2. CASE y = t + 1 BY <2>5, <2>7, <3>1, <3>2
    <3>3. CASE y # t + 1
      <4>1. y \in 1..t BY <2>4, <3>3
      <4>2. q[x] < q[y] BY <1>2, <2>9, <3>1, <4>1
      <4>3. QED BY <2>7, <3>1, <4>1, <4>2
    <3>4. QED BY <3>2, <3>3
  <2>10. \A x \in 1..(t + 1) : more[x] = rows[r[x]]
    <3>1. ASSUME NEW x \in 1..(t + 1) PROVE more[x] = rows[r[x]]
      <4>1. CASE x = t + 1 BY <2>3, <2>7, <4>1 DEF c
      <4>2. CASE x \in 1..t BY <1>2, <2>3, <2>7, <4>2
      <4>3. QED BY <2>4, <4>1, <4>2
    <3>2. QED BY <3>1
  <2>11. Tokens(more) <= b BY <1>1, <1>2, <1>5, <2>2
  <2>12. TakenAre(more, r, rows, n) BY <2>2, <2>3, <2>8, <2>9, <2>10, <2>11 DEF TakenAre
  <2>13. ASSUME NEW i \in 1..n PROVE (\E x \in 1..(t + 1) : r[x] = i) \/ TooLong(i, more, r, rows)
    <3>1. CASE i = n BY <2>6, <2>7, <3>1
    <3>2. CASE i # n
      <4>1. i \in 1..(n - 1) BY <1>1, <3>2
      <4>2. CASE \E x \in 1..t : q[x] = i
        <5>1. PICK x \in 1..t : q[x] = i BY <4>2
        <5>2. x \in 1..(t + 1) /\ r[x] = i BY <2>5, <2>7, <5>1
        <5>3. QED BY <5>2
      <4>3. CASE TooLong(i, taken, q, rows)
        <5>1. PICK l \in 0..t : /\ Tokens(SubSeq(taken, 1, l)) + rows[i].tokens > site.budget
                                /\ \A x \in 1..l : q[x] < i
          BY <4>3 DEF TooLong, t
        <5>2. l \in Nat /\ l <= t /\ l \in 0..(t + 1) /\ \A x \in 1..l : x \in 1..t BY <1>2
        <5>3. SubSeq(more, 1, l) = SubSeq(taken, 1, l)
          <6>1. l <= Len(taken) /\ l <= Len(more) BY <1>2, <2>3, <5>2 DEF t
          <6>2. /\ SubSeq(more, 1, l) = [k \in 1..l |-> more[k]]
                /\ SubSeq(taken, 1, l) = [k \in 1..l |-> taken[k]]
            BY <2>3, <5>2, <6>1, Starts
          <6>3. QED BY <2>3, <5>2, <6>2
        <5>4. \A x \in 1..l : r[x] < i BY <2>7, <5>1, <5>2
        <5>5. TooLong(i, more, r, rows) BY <2>3, <5>1, <5>2, <5>3, <5>4 DEF TooLong
        <5>6. QED BY <5>5
      <4>4. QED BY <1>3, <4>1, <4>2, <4>3
    <3>3. QED BY <3>1, <3>2
  <2>14. Accounted(more, r, rows, n) BY <2>3, <2>13 DEF Accounted
  <2>15. QED BY <2>1, <2>12, <2>14 DEF c
<1>6. QED BY <1>4, <1>5

LEMMA AssembleIs ==
  ASSUME site.budget \in Nat, NEW rows, Scored(rows)
  PROVE  \E q : /\ TakenAre(Assemble(rows), q, rows, Len(rows))
                /\ Accounted(Assemble(rows), q, rows, Len(rows))
<1> DEFINE N == Len(rows)
           A == Seq(RetrievedChunk)
           IsTaken(g) == g = [n \in 0..N |-> IF n = 0 THEN <<>> ELSE AddFitting(g[n - 1], rows[n])]
           taken == CHOOSE g : IsTaken(g)
<1>1. /\ N \in Nat /\ <<>> \in A
      /\ \A n \in 1..N, s \in A : AddFitting(s, rows[n]) \in A
  <2>1. N \in Nat /\ \A n \in 1..N : rows[n] \in RetrievedChunk BY RowsAre
  <2>2. <<>> \in A BY EmptySeq
  <2>3. \A s \in A, c \in RetrievedChunk : AddFitting(s, c) \in A
    <3> DEFINE R == RetrievedChunk
    <3>1. ASSUME NEW s \in A, NEW c \in R PROVE Append(s, c) \in A
      <4> HIDE DEF R
      <4>1. s \in Seq(R) BY DEF R
      <4>2. Append(s, c) \in Seq(R) BY <4>1
      <4>3. QED BY <4>2 DEF R
    <3>2. QED BY <3>1 DEF AddFitting
  <2>4. QED BY <2>1, <2>2, <2>3
<1>2. Assemble(rows) = taken[N] BY DEF Assemble
<1> HIDE DEF N, A
<1>3. PICK g \in [0..N -> A] : g[0] = <<>> /\ \A n \in 1..N : g[n] = AddFitting(g[n - 1], rows[n])
  <2> DEFINE F == [x \in (1..N) \X A |-> AddFitting(x[2], rows[x[1]])]
  <2>1. F \in [(1..N) \X A -> A] /\ \A n \in 1..N, s \in A : F[<<n, s>>] = AddFitting(s, rows[n])
    BY <1>1
  <2> HIDE DEF F
  <2>2. HasCourse(N, A, <<>>, F) BY <1>1, <2>1, StepByStep
  <2>3. PICK g \in [0..N -> A] : g[0] = <<>> /\ \A n \in 1..N : g[n] = F[<<n, g[n - 1]>>]
    BY <2>2 DEF HasCourse, Course
  <2>4. \A n \in 1..N : n - 1 \in 0..N BY <1>1
  <2>5. \A n \in 1..N : g[n] = AddFitting(g[n - 1], rows[n]) BY <2>1, <2>3, <2>4
  <2>6. QED BY <2>3, <2>5
<1>4. IsTaken(g)
  <2>1. ASSUME NEW n \in 0..N PROVE g[n] = IF n = 0 THEN <<>> ELSE AddFitting(g[n - 1], rows[n])
    <3>1. CASE n = 0 BY <1>3, <3>1
    <3>2. CASE n # 0
      <4>1. n \in 1..N BY <1>1, <3>2
      <4>2. QED BY <1>3, <3>2, <4>1
    <3>3. QED BY <3>1, <3>2
  <2>2. QED BY <1>3, <2>1
<1> HIDE DEF IsTaken
<1>5. IsTaken(taken) BY <1>4
<1> HIDE DEF taken
<1>6. taken[0] = <<>> /\ \A n \in 1..N : taken[n] = AddFitting(taken[n - 1], rows[n])
  <2>1. \A n \in 0..N : taken[n] = IF n = 0 THEN <<>> ELSE AddFitting(taken[n - 1], rows[n])
    BY <1>5 DEF IsTaken
  <2>2. 0 \in 0..N /\ \A n \in 1..N : n \in 0..N /\ n # 0 BY <1>1
  <2>3. QED BY <2>1, <2>2
<1> DEFINE Good(n) == \E q : TakenAre(taken[n], q, rows, n) /\ Accounted(taken[n], q, rows, n)
           T == {n \in 0..N : Good(n)}
<1>7. 0 \in T
  <2> DEFINE q == [x \in 1..0 |-> 1]
  <2>1. Scored(<<>>) /\ Tokens(<<>>) <= site.budget /\ Len(<<>>) = 0 BY NoTokens
  <2>2. q \in [1..0 -> 1..0]
    OBVIOUS
  <2> HIDE DEF q
  <2>3. TakenAre(<<>>, q, rows, 0) BY <2>1, <2>2 DEF TakenAre
  <2>4. Accounted(<<>>, q, rows, 0) BY DEF Accounted
  <2>5. 0 \in 0..N BY <1>1
  <2>6. Good(0) BY <1>6, <2>3, <2>4
  <2> HIDE DEF Good
  <2>7. QED BY <2>5, <2>6
<1>8. ASSUME NEW n \in 1..N, n - 1 \in T PROVE n \in T
  <2>1. PICK q : TakenAre(taken[n - 1], q, rows, n - 1) /\ Accounted(taken[n - 1], q, rows, n - 1)
    BY <1>8
  <2>2. n \in 1..Len(rows) BY DEF N
  <2>3. \E r : /\ TakenAre(AddFitting(taken[n - 1], rows[n]), r, rows, n)
               /\ Accounted(AddFitting(taken[n - 1], rows[n]), r, rows, n)
    BY <2>1, <2>2, FittingStep
  <2>4. Good(n) BY <1>6, <2>3
  <2>5. n \in 0..N BY <1>1
  <2> HIDE DEF Good
  <2>6. QED BY <2>4, <2>5
<1>9. 0..N \subseteq T
  <2> HIDE DEF T
  <2>1. QED BY <1>1, <1>7, <1>8, UpTo
<1>10. Good(N)
  <2>1. N \in 0..N BY <1>1
  <2>2. N \in T BY <1>9, <2>1
  <2> HIDE DEF Good
  <2>3. QED BY <2>2
<1>11. QED BY <1>2, <1>10 DEF N

-----------------------------------------------------------------------------
(* The context.                                                            *)

\* Equal texts are equally long.
Alike(rows) ==
  \A j, k \in 1..Len(rows) : rows[j].text = rows[k].text => rows[j].tokens = rows[k].tokens

\* Of the rows without those whose text came before.
DedupedAt(h, d, rows, m, norm) ==
  /\ h \in [1..d -> 1..m]
  /\ \A i, j \in 1..d : i < j => h[i] < h[j]
  /\ \A x \in 1..m : (\A j \in 1..(x - 1) : norm[j].text # norm[x].text) => \E i \in 1..d : h[i] = x
  /\ \A i \in 1..d : \A j \in 1..(h[i] - 1) : norm[j].text # norm[h[i]].text
  /\ rows = [i \in 1..d |-> norm[h[i]]]
LEMMA DedupedIs ==
  ASSUME NEW norm, Scored(norm)
  PROVE  LET rows == DeduplicateChunks(norm)
         IN Scored(rows) /\ \E h : DedupedAt(h, Len(rows), rows, Len(norm), norm)
<1> DEFINE m == Len(norm)
           P == {k \in DOMAIN norm : \A j \in 1..(k - 1) : norm[j].text # norm[k].text}
           rows == DeduplicateChunks(norm)
<1>1. /\ m \in Nat /\ DOMAIN norm = 1..m /\ norm \in Seq(RetrievedChunk)
      /\ \A k \in 1..m : norm[k] \in RetrievedChunk
  BY RowsAre DEF Scored
<1>2. rows = Kept(norm, P) BY DEF DeduplicateChunks
<1> HIDE DEF rows
<1>3. PICK d \in Nat : \E h : KeepsAt(h, d, norm, P) BY <1>1, KeptIs
<1>4. PICK h : KeepsAt(h, d, norm, P) BY <1>3
<1>5. P \cap (1..m) = P BY <1>1
<1> HIDE DEF m
<1>6. Lists(h, d, P) /\ rows = [i \in 1..d |-> norm[h[i]]] BY <1>2, <1>4, <1>5 DEF KeepsAt, m
<1>7. /\ h \in [1..d -> P]
      /\ \A i, j \in 1..d : i < j => h[i] < h[j]
      /\ \A x \in P : \E k \in 1..d : h[k] = x
  BY <1>6 DEF Lists
<1>8. \A k \in P : k \in 1..m /\ \A j \in 1..(k - 1) : norm[j].text # norm[k].text BY <1>1
<1>9. \A x \in 1..m : (\A j \in 1..(x - 1) : norm[j].text # norm[x].text) => x \in P BY <1>1
<1> HIDE DEF P
<1>10. h \in [1..d -> 1..m] /\ \A i \in 1..d : h[i] \in P BY <1>7, <1>8
<1>11. Scored(rows) /\ Len(rows) = d
  <2>1. rows \in [1..d -> RetrievedChunk] /\ DOMAIN rows = 1..d BY <1>1, <1>6, <1>10
  <2>2. rows \in Seq(RetrievedChunk) BY <2>1, SeqDef
  <2>3. QED BY <2>1, <2>2 DEF Scored
<1>12. DedupedAt(h, d, rows, m, norm) BY <1>6, <1>7, <1>8, <1>9, <1>10 DEF DedupedAt
<1>13. QED BY <1>11, <1>12 DEF rows, m

\* What the rows of a context are: rows near enough, in their order.
LEMMA ContextIs ==
  ASSUME IndexInv, NEW found, Scored(found), Descending(found), Alike(found)
  PROVE  LET taken == Assemble(DeduplicateChunks(RankChunks(NormalizedScores(Search(found)))))
         IN Scored(taken) /\ Best(taken, found) /\ TextsOf(taken) \subseteq TextsOf(found)
<1> DEFINE N == Len(found)
           norm == NormalizedScores(Search(found))
           rows == DeduplicateChunks(RankChunks(norm))
           taken == Assemble(rows)
<1>1. /\ N \in Nat /\ DOMAIN found = 1..N /\ found \in Seq(RetrievedChunk)
      /\ \A k \in 1..N : found[k].tokens \in Nat /\ found[k].score \in Int
  BY RowsAre DEF Scored
<1>2. site.budget \in Nat /\ site.topK \in Nat /\ site.threshold \in Int
  <2>1. Settings(site) BY KnowledgeAssumption DEF IndexInv
  <2>2. QED BY <2>1 DEF Settings
<1>3. PICK m \in 0..N : /\ Search(found) = SubSeq(found, 1, m)
                        /\ \A k \in (m + 1)..N : k > site.topK \/ found[k].score < site.threshold
  BY SearchIs
<1>4. m \in Nat /\ m <= N BY <1>1
<1> HIDE DEF N
<1>5. /\ Scored(Search(found)) /\ Len(Search(found)) = m
      /\ \A k \in 1..m : Search(found)[k] = found[k]
  BY <1>1, <1>3, <1>4, Starts DEF Scored, N
<1>6. Descending(Search(found))
  <2>1. DOMAIN Search(found) = 1..m BY <1>5, RowsAre
  <2>2. \A k \in 1..m : k \in DOMAIN found BY <1>1, <1>4
  <2>3. QED BY <1>5, <2>1, <2>2 DEF Descending
<1>7. /\ Scored(norm) /\ Descending(norm) /\ Len(norm) = m
      /\ \A k \in 1..m : norm[k].text = found[k].text /\ norm[k].tokens = found[k].tokens
  <2>1. /\ Scored(norm) /\ Descending(norm) /\ Len(norm) = m
        /\ \A k \in 1..m : /\ norm[k].text = Search(found)[k].text
                           /\ norm[k].tokens = Search(found)[k].tokens
    BY <1>5, <1>6, NormalizedIs
  <2>2. QED BY <1>5, <2>1
<1>8. RankChunks(norm) = norm BY <1>7, ByScoreSame DEF RankChunks
<1> HIDE DEF norm
<1> DEFINE d == Len(rows)
<1>9. Scored(rows) /\ \E h : DedupedAt(h, d, rows, m, norm) BY <1>7, <1>8, DedupedIs
<1>10. PICK h : DedupedAt(h, d, rows, m, norm) BY <1>9
<1>11. d \in Nat BY <1>9, RowsAre
<1>12. PICK q : TakenAre(taken, q, rows, d) /\ Accounted(taken, q, rows, d)
  BY <1>2, <1>9, AssembleIs
<1> HIDE DEF rows, taken
<1> DEFINE t == Len(taken)
<1>13. /\ Scored(taken) /\ Tokens(taken) <= site.budget /\ t \in Nat /\ DOMAIN taken = 1..t
  BY <1>12, RowsAre DEF TakenAre
<1>14. /\ q \in [1..t -> 1..d]
       /\ \A x, y \in 1..t : x < y => q[x] < q[y]
       /\ \A x \in 1..t : taken[x] = rows[q[x]]
  BY <1>12 DEF TakenAre
<1> HIDE DEF d, t
<1>15. /\ h \in [1..d -> 1..m]
       /\ \A i, j \in 1..d : i < j => h[i] < h[j]
       /\ \A x \in 1..m : (\A j \in 1..(x - 1) : norm[j].text # norm[x].text) => \E i \in 1..d : h[i] = x
       /\ \A i \in 1..d : \A j \in 1..(h[i] - 1) : norm[j].text # norm[h[i]].text
       /\ \A i \in 1..d : rows[i] = norm[h[i]]
  BY <1>10 DEF DedupedAt
<1> DEFINE place(x) == h[q[x]]
<1>16. ASSUME NEW x \in 1..t
       PROVE  /\ q[x] \in 1..d /\ place(x) \in 1..m /\ place(x) \in 1..N
              /\ taken[x] = norm[place(x)] /\ taken[x].text = found[place(x)].text
              /\ \A j \in 1..(place(x) - 1) : found[j].text # taken[x].text
  <2>1. q[x] \in 1..d /\ place(x) \in 1..m BY <1>14, <1>15
  <2>2. taken[x] = norm[place(x)] BY <1>14, <1>15, <2>1
  <2>3. place(x) \in 1..N BY <1>1, <1>4, <2>1
  <2>4. taken[x].text = found[place(x)].text BY <1>7, <2>1, <2>2
  <2>5. ASSUME NEW j \in 1..(place(x) - 1) PROVE found[j].text # taken[x].text
    <3>1. norm[j].text # norm[place(x)].text BY <1>15, <2>1
    <3>2. j \in 1..m BY <1>4, <2>1
    <3> HIDE DEF place
    <3>3. QED BY <1>7, <2>2, <3>1, <3>2
  <2>6. QED BY <2>1, <2>2, <2>3, <2>4, <2>5
<1>17. ASSUME NEW x \in 1..t, NEW y \in 1..t, x < y PROVE place(x) < place(y)
  BY <1>14, <1>15, <1>16, <1>17
<1> HIDE DEF place
<1>18. ASSUME NEW x \in 1..t PROVE Place(found, taken[x].text) = place(x)
  <2> DEFINE S == {k \in DOMAIN found : found[k].text = taken[x].text}
  <2>1. place(x) \in S /\ place(x) \in Nat BY <1>1, <1>16
  <2>2. ASSUME NEW y \in S PROVE place(x) <= y
    <3>1. y \in 1..N /\ found[y].text = taken[x].text BY <1>1
    <3>2. y \notin 1..(place(x) - 1) BY <1>16, <3>1
    <3>3. QED BY <1>1, <2>1, <3>1, <3>2
  <2>3. S \in SUBSET (1..N) /\ S # {} BY <1>1, <2>1
  <2> HIDE DEF S
  <2>4. Min(S) \in S /\ \A y \in S : Min(S) <= y BY <1>1, <2>3, Ends
  <2>5. Min(S) = place(x)
    <3>1. Min(S) <= place(x) /\ place(x) <= Min(S) BY <2>1, <2>2, <2>4
    <3>2. Min(S) \in Nat
      <4>1. \A y \in S : y \in Nat BY <2>3
      <4>2. QED BY <2>4, <4>1
    <3>3. QED BY <2>1, <3>1, <3>2
  <2>6. QED BY <2>5 DEF Place, S
<1>19. Descending(taken)
  <2>1. ASSUME NEW x \in 1..t, NEW y \in 1..t, x < y PROVE taken[x].score >= taken[y].score
    <3>1. place(x) \in DOMAIN norm /\ place(y) \in DOMAIN norm /\ place(x) < place(y)
      BY <1>7, <1>16, <1>17, <2>1, RowsAre
    <3>2. QED BY <1>7, <1>16, <3>1 DEF Descending
  <2>2. QED BY <1>13, <2>1 DEF Descending
<1>20. ASSUME NEW x \in 1..t, NEW y \in 1..t, taken[x].text = taken[y].text PROVE x = y
  <2>1. place(x) = place(y) BY <1>18, <1>20
  <2>2. ~ (x < y) /\ ~ (y < x)
    <3>1. place(x) \in Nat /\ place(y) \in Nat BY <1>16
    <3>2. (x < y => place(x) < place(y)) /\ (y < x => place(y) < place(x)) BY <1>17
    <3>3. QED BY <2>1, <3>1, <3>2
  <2>3. x \in Nat /\ y \in Nat
    OBVIOUS
  <2>4. QED BY <2>2, <2>3
<1>21. ASSUME NEW k \in 1..N
       PROVE  \/ found[k].score < site.threshold \/ k > site.topK
              \/ found[k].text \in TextsOf(taken)
              \/ LET before == {i \in DOMAIN taken : Place(found, taken[i].text) < k}
                 IN Tokens(Kept(taken, before)) + found[k].tokens > site.budget
  <2>1. CASE k > m
    <3>1. k \in (m + 1)..N BY <1>1, <1>4, <2>1
    <3>2. QED BY <1>3, <3>1 DEF N
  <2>2. CASE ~ (k > m)
    <3>1. k \in 1..m BY <1>1, <1>4, <2>2
    <3> DEFINE S == {j \in 1..m : norm[j].text = norm[k].text}
    <3>2. PICK f \in S : \A y \in S : f <= y
      <4>1. S \in SUBSET Nat /\ S # {} BY <3>1
      <4> HIDE DEF S
      <4>2. QED BY <4>1, LeastNumber
    <3>3. f \in 1..m /\ norm[f].text = norm[k].text /\ f <= k BY <3>1, <3>2
    <3>4. \A j \in 1..(f - 1) : norm[j].text # norm[f].text
      <4>1. ASSUME NEW j \in 1..(f - 1), norm[j].text = norm[f].text PROVE FALSE
        <5>1. j \in 1..m /\ j < f /\ j \in Nat /\ f \in Nat BY <1>4, <3>3
        <5>2. j \in S BY <3>3, <4>1, <5>1
        <5>3. f <= j BY <3>2, <5>2
        <5>4. QED BY <5>1, <5>3
      <4>2. QED BY <4>1
    <3>5. PICK i \in 1..d : h[i] = f BY <1>15, <3>3, <3>4
    <3>6. rows[i].tokens = found[k].tokens /\ rows[i].text = found[k].text
      <4>1. rows[i] = norm[f] BY <1>15, <3>5
      <4>2. norm[f].text = found[f].text /\ norm[f].tokens = found[f].tokens
            /\ norm[k].text = found[k].text
        BY <1>7, <3>1, <3>3
      <4>3. found[f].tokens = found[k].tokens
        <5>1. found[f].text = found[k].text BY <3>3, <4>2
        <5>2. f \in 1..N BY <1>1, <1>4, <3>3
        <5>3. QED BY <5>1, <5>2 DEF Alike, N
      <4>4. QED BY <3>3, <4>1, <4>2, <4>3
    <3>7. (\E x \in 1..t : q[x] = i) \/ TooLong(i, taken, q, rows) BY <1>12 DEF Accounted, t, d
    <3>8. CASE \E x \in 1..t : q[x] = i
      <4>1. PICK x \in 1..t : q[x] = i BY <3>8
      <4>2. taken[x].text = found[k].text /\ x \in DOMAIN taken BY <1>13, <1>14, <3>6, <4>1
      <4>3. QED BY <4>2 DEF TextsOf
    <3>9. CASE TooLong(i, taken, q, rows)
      <4>1. PICK l \in 0..t : /\ Tokens(SubSeq(taken, 1, l)) + rows[i].tokens > site.budget
                              /\ \A x \in 1..l : q[x] < i
        BY <3>9 DEF TooLong, t
      <4> DEFINE before == {x \in DOMAIN taken : Place(found, taken[x].text) < k}
      <4>2. ASSUME NEW x \in 1..l PROVE x \in before
        <5>1. x \in 1..t /\ q[x] \in 1..d /\ q[x] < i BY <1>13, <1>16, <4>1
        <5>2. place(x) < f /\ place(x) \in Nat BY <1>15, <1>16, <3>5, <5>1 DEF place
        <5>3. place(x) < k BY <1>4, <3>1, <3>3, <5>2
        <5>4. QED BY <1>13, <1>18, <5>1, <5>3
      <4> HIDE DEF before
      <4>3. /\ Scored(Kept(taken, before)) /\ Scored(SubSeq(taken, 1, l))
            /\ Tokens(Kept(taken, before)) >= Tokens(SubSeq(taken, 1, l))
        BY <1>13, <4>2, KeptTokens DEF t
      <4>4. Tokens(Kept(taken, before)) \in Nat /\ Tokens(SubSeq(taken, 1, l)) \in Nat
        BY <4>3, TokensType
      <4>5. found[k].tokens \in Nat BY <1>1
      <4>6. Tokens(Kept(taken, before)) + found[k].tokens > site.budget
        BY <1>2, <3>6, <4>1, <4>3, <4>4, <4>5
      <4>7. QED BY <4>6 DEF before
    <3>10. QED BY <3>7, <3>8, <3>9
  <2>3. QED BY <2>1, <2>2
<1>22. TextsOf(taken) \subseteq TextsOf(found)
  <2>1. ASSUME NEW x \in 1..t PROVE taken[x].text \in TextsOf(found) BY <1>1, <1>16 DEF TextsOf
  <2>2. QED BY <1>13, <2>1 DEF TextsOf
<1>23. Best(taken, found) BY <1>1, <1>13, <1>19, <1>20, <1>21 DEF Best
<1>24. QED BY <1>13, <1>22, <1>23 DEF taken, rows, norm

-----------------------------------------------------------------------------
(* What is retrieved.                                                      *)

\* All rows are passages of one edition of the article.
FromEdition(rows, a, st) ==
  \E e \in 1..st[a] : \A k \in 1..Len(rows) :
    \E d \in Range(Drafts(Content(a, e))) :
      rows[k].text = d.text /\ rows[k].tokens = d.tokens

\* A call has found nothing before it has searched, and what it has taken of it
\* is the best there is.
Reads(c, st) ==
  /\ c \in Call
  /\ c.pc \notin {"build", "done"} => c.found = <<>>
  /\ c.pc # "done" => c.context = <<>>
  /\ c.pc \in {"build", "done"} =>
       c.todo # <<>> /\ Descending(c.found) /\ FromEdition(c.found, Head(c.todo).article, st)
  /\ c.pc = "done" => Best(c.context, c.found) /\ TextsOf(c.context) \subseteq TextsOf(c.found)

ContextInv ==
  /\ document \in [Articles -> KnowledgeDocument] /\ call \in [Workers -> Call]
  /\ \A p \in Workers : Reads(call[p], stored)

LEMMA DraftsAre ==
  ASSUME site \in Sites, NEW a \in Articles, NEW e \in 1..Len(site.editions[a])
  PROVE  LET drafts == Drafts(Content(a, e))
         IN /\ Content(a, e) \in Seq(Seq(Nat))
            /\ drafts \in Seq([text : Seq(Nat), tokens : Nat])
            /\ \A d, f \in Range(drafts) : d.text = f.text => d.tokens = f.tokens
<1> DEFINE drafts == Drafts(Content(a, e))
           D == [text : Seq(Nat), tokens : Nat]
<1>1. Content(a, e) \in Seq(Seq(Nat)) /\ drafts \in Seq({MakeChunk(t) : t \in Seq(Nat)})
  BY ContentHolds DEF ParagraphLists
<1> HIDE DEF drafts
<1>2. ASSUME NEW t \in Seq(Nat) PROVE EstimateTokens(t) \in Nat
  <2> DEFINE text == Strip(t)
             words == {i \in DOMAIN text : text[i] # Blank /\ (i = 1 \/ text[i - 1] = Blank)}
             x == Cardinality(words)
             y == Len(text) \div 4
  <2>1. text \in Seq(Nat) BY Stripped
  <2> HIDE DEF text
  <2>2. Len(text) \in Nat /\ words \in SUBSET (1..Len(text)) BY <2>1
  <2>3. x \in Nat
    <3>1. IsFiniteSet(1..Len(text)) BY <2>2, FS_Interval
    <3> HIDE DEF words
    <3>2. IsFiniteSet(words) BY <2>2, <3>1, FS_Subset
    <3>3. QED BY <3>2, FS_CardinalityType
  <2>4. y \in Nat BY <2>2
  <2> HIDE DEF x, y
  <2>5. \E z \in {x, 1, y} : \A w \in {x, 1, y} : z >= w BY <2>3, <2>4
  <2>6. Max({x, 1, y}) \in {x, 1, y} BY <2>5 DEF Max
  <2>7. Max({x, 1, y}) \in Nat BY <2>3, <2>4, <2>6
  <2>8. EstimateTokens(t) = IF text = <<>> THEN 0 ELSE Max({x, 1, y})
    BY DEF EstimateTokens, text, words, x, y
  <2>9. QED BY <2>7, <2>8
<1>3. ASSUME NEW t \in Seq(Nat) PROVE MakeChunk(t) \in D BY <1>2, Stripped DEF MakeChunk
<1>4. drafts \in Seq(D)
  <2>1. \A c \in {MakeChunk(t) : t \in Seq(Nat)} : c \in D BY <1>3
  <2> HIDE DEF D
  <2>2. Len(drafts) \in Nat /\ drafts \in [1..Len(drafts) -> D] BY <1>1, <2>1
  <2>3. QED BY <2>2, SeqDef
<1>5. ASSUME NEW d \in Range(drafts), NEW f \in Range(drafts), d.text = f.text PROVE d.tokens = f.tokens
  <2>1. PICK t \in Seq(Nat) : d = MakeChunk(t) BY <1>1 DEF Range
  <2>2. PICK u \in Seq(Nat) : f = MakeChunk(u) BY <1>1 DEF Range
  <2>3. /\ d.text = Strip(t) /\ d.tokens = EstimateTokens(t)
        /\ f.text = Strip(u) /\ f.tokens = EstimateTokens(u)
    BY <2>1, <2>2 DEF MakeChunk
  <2>4. QED BY <1>5, <2>3 DEF EstimateTokens
<1>6. QED BY <1>1, <1>4, <1>5 DEF drafts

LEMMA ChunksAre ==
  ASSUME NEW d \in [text : Seq(Nat), tokens : Nat]
  PROVE  PendingChunk(d) \in KnowledgeChunk
  BY DEF PendingChunk, KnowledgeChunk, EmbeddingStatus, NoVector, Blank

LEMMA EmbeddedAre ==
  ASSUME NEW c \in KnowledgeChunk
  PROVE  /\ Embedded(c) \in KnowledgeChunk
         /\ Embedded(c).text = c.text /\ Embedded(c).tokens = c.tokens
  BY DEF Embedded, KnowledgeChunk, EmbeddingStatus

\* A call that has found nothing.
LEMMA PlainReads ==
  ASSUME NEW c \in Call, c.pc \notin {"build", "done"}, c.found = <<>>, c.context = <<>>, NEW st
  PROVE  Reads(c, st)
  BY DEF Reads

LEMMA FreshReads ==
  ASSUME NEW kind \in {"idle", "import", "script", "workflow"},
         NEW pc \in {"idle", "look", "search"},
         NEW todo \in Seq([article : Articles, edition : Nat]), NEW st
  PROVE  Reads([NoCall EXCEPT !.kind = kind, !.pc = pc, !.todo = todo], st)
<1> DEFINE c == [NoCall EXCEPT !.kind = kind, !.pc = pc, !.todo = todo]
           e == <<>>
           T == Seq([article : Articles, edition : Nat])
           K == Seq(KnowledgeChunk)
           R == Seq(RetrievedChunk)
<1>1. e \in K /\ e \in R /\ 0 \in Nat /\ 1 \in Nat BY EmptySeq
<1>2. todo \in T
  OBVIOUS
<1>3. NoCall = [kind |-> "idle", pc |-> "idle", todo |-> e, existing |-> 0, chunks |-> e,
                next |-> 1, attempts |-> 0, found |-> e, context |-> e]
  BY DEF NoCall
<1>4. Call = [kind : {"idle", "import", "script", "workflow"},
              pc : {"idle", "look", "create", "reindex", "embed", "search", "build", "done"},
              todo : T, existing : Nat, chunks : K, next : Nat, attempts : Nat,
              found : R, context : R]
  BY DEF Call
<1> HIDE DEF T, K, R, e
<1>5. c \in Call /\ c.pc = pc /\ c.found = e /\ c.context = e BY <1>1, <1>2, <1>3, <1>4
<1> HIDE DEF c
<1>6. Reads(c, st) BY <1>5, PlainReads DEF e
<1>7. QED BY <1>6 DEF c

LEMMA NoneReads ==
  ASSUME NEW st
  PROVE  Reads(NoCall, st)
<1> DEFINE e == <<>>
           T == Seq([article : Articles, edition : Nat])
           K == Seq(KnowledgeChunk)
           R == Seq(RetrievedChunk)
<1>1. e \in T /\ e \in K /\ e \in R /\ 0 \in Nat /\ 1 \in Nat BY EmptySeq
<1>2. NoCall = [kind |-> "idle", pc |-> "idle", todo |-> e, existing |-> 0, chunks |-> e,
                next |-> 1, attempts |-> 0, found |-> e, context |-> e]
  BY DEF NoCall
<1>3. Call = [kind : {"idle", "import", "script", "workflow"},
              pc : {"idle", "look", "create", "reindex", "embed", "search", "build", "done"},
              todo : T, existing : Nat, chunks : K, next : Nat, attempts : Nat,
              found : R, context : R]
  BY DEF Call
<1> HIDE DEF T, K, R, e
<1>4. NoCall \in Call /\ NoCall.pc = "idle" /\ NoCall.found = e /\ NoCall.context = e
  BY <1>1, <1>2, <1>3
<1>5. QED BY <1>4, PlainReads DEF e

\* What was retrieved of an article stays what it is, as editions are added.
LEMMA ReadsStay ==
  ASSUME IndexInv, NEW c, Reads(c, stored),
         site' = site, stored' \in [Articles -> Nat], \A a \in Articles : stored[a] <= stored'[a]
  PROVE  Reads(c, stored)'
<1>1. ASSUME c.pc \in {"build", "done"}, FromEdition(c.found, Head(c.todo).article, stored)
      PROVE  FromEdition(c.found, Head(c.todo).article, stored')
  <2> DEFINE S == [article : Articles, edition : Nat]
             a == Head(c.todo).article
  <2>1. a \in Articles
    <3>1. c.todo \in Seq(S) /\ c.todo # <<>> BY <1>1 DEF Reads, Call
    <3> HIDE DEF S
    <3>2. Head(c.todo) \in S BY <3>1
    <3>3. QED BY <3>2 DEF S
  <2> HIDE DEF a
  <2>2. stored[a] \in Nat /\ stored'[a] \in Nat /\ stored[a] <= stored'[a] BY <2>1 DEF IndexInv
  <2>3. \A e \in 1..stored[a] : e \in 1..stored'[a] BY <2>2
  <2>4. QED BY <1>1, <2>3 DEF FromEdition, a
<1>2. FromEdition(c.found, Head(c.todo).article, stored)' <=> FromEdition(c.found, Head(c.todo).article, stored')
  BY DEF FromEdition, Drafts, Content
<1>3. Best(c.context, c.found)' <=> Best(c.context, c.found) BY DEF Best
<1>4. QED BY <1>1, <1>2, <1>3 DEF Reads

LEMMA OneReadsOn ==
  ASSUME IndexInv, ContextInv, site' = site, stored' \in [Articles -> Nat],
         \A a \in Articles : stored[a] <= stored'[a],
         NEW q \in Workers, call'[q] = call[q]
  PROVE  Reads(call[q], stored)'
<1>1. PICK c : c = call[q]
  OBVIOUS
<1>2. Reads(c, stored) BY <1>1 DEF ContextInv
<1>3. Reads(c, stored)' BY <1>2, ReadsStay
<1>4. call'[q] = c BY <1>1
<1>5. QED BY <1>3, <1>4

LEMMA ReadsOn ==
  ASSUME IndexInv, ContextInv, NEW p \in Workers, NEW c, Goto(p, c), Reads(c, stored),
         site' = site, stored' \in [Articles -> Nat],
         \A a \in Articles : stored[a] <= stored'[a], document' \in [Articles -> KnowledgeDocument]
  PROVE  ContextInv'
<1>1. /\ call' = [call EXCEPT ![p] = c] /\ call \in [Workers -> Call]
      /\ call'[p] = c /\ \A q \in Workers : q # p => call'[q] = call[q]
  BY DEF Goto, ContextInv
<1>2. c \in Call BY DEF Reads
<1>3. call' \in [Workers -> Call] BY <1>1, <1>2
<1>4. ASSUME NEW q \in Workers PROVE Reads(call[q], stored)'
  <2>1. CASE q = p
    <3>1. PICK d : d = c
      OBVIOUS
    <3>2. Reads(d, stored)' BY <3>1, ReadsStay
    <3>3. QED BY <1>1, <2>1, <3>1, <3>2
  <2>2. CASE q # p BY <1>1, <2>2, OneReadsOn
  <2>3. QED BY <2>1, <2>2
<1>5. QED BY <1>3, <1>4 DEF ContextInv

LEMMA AllReadOn ==
  ASSUME IndexInv, ContextInv, call' = call, site' = site, stored' \in [Articles -> Nat],
         \A a \in Articles : stored[a] <= stored'[a], document' \in [Articles -> KnowledgeDocument]
  PROVE  ContextInv'
  BY OneReadsOn DEF ContextInv

\* As before, when articles and documents stay as they are.
LEMMA OnlyReads ==
  ASSUME IndexInv, ContextInv, NEW p \in Workers, NEW c, Goto(p, c), Reads(c, stored),
         site' = site, stored' = stored, document' = document
  PROVE  ContextInv'
  BY ReadsOn DEF IndexInv, ContextInv

\* However an indexing ends, its worker has nothing that it found.
LEMMA SettledReads ==
  ASSUME ContextInv, NEW p \in Workers, NEW indexed \in BOOLEAN, Settled(p, indexed)
  PROVE  \E c : Goto(p, c) /\ Reads(c, stored)
<1> DEFINE c == call[p]
           S == [article : Articles, edition : Nat]
<1>1. c.todo \in Seq(S) /\ c.kind \in {"idle", "import", "script", "workflow"}
  BY DEF ContextInv, Reads, Call
<1>2. CASE c.kind = "script" BY <1>1, <1>2, FreshReads DEF Settled
<1>3. CASE c.kind # "script" /\ indexed /\ Len(c.todo) > 1
  <2> DEFINE t == Tail(c.todo)
  <2>1. t \in Seq(S)
    <3> HIDE DEF S
    <3>1. c.todo # <<>> BY <1>1, <1>3
    <3>2. QED BY <1>1, <3>1
  <2>2. Goto(p, [NoCall EXCEPT !.kind = c.kind, !.pc = "look", !.todo = t])
    BY <1>3 DEF Settled, Begin
  <2> HIDE DEF t
  <2>3. Reads([NoCall EXCEPT !.kind = c.kind, !.pc = "look", !.todo = t], stored)
    BY <1>1, <2>1, FreshReads
  <2>4. QED BY <2>2, <2>3
<1>4. CASE c.kind # "script" /\ ~ (indexed /\ Len(c.todo) > 1) BY <1>4, NoneReads DEF Settled
<1>5. QED BY <1>2, <1>3, <1>4

LEMMA ImportReads ==
  ASSUME IndexInv, ContextInv, NEW p \in Workers, NEW a \in Articles, ImportArticle(p, a)
  PROVE  ContextInv'
<1>1. /\ site' = site /\ document' = document /\ stored' \in [Articles -> Nat]
      /\ \A b \in Articles : stored[b] <= stored'[b]
      /\ document' \in [Articles -> KnowledgeDocument]
  BY DEF ImportArticle, IndexInv, ContextInv
<1>2. CASE call' = call BY <1>1, <1>2, AllReadOn
<1>3. CASE Begin(p, "import", <<[article |-> a, edition |-> 1]>>)
  <2> DEFINE todo == <<[article |-> a, edition |-> 1]>>
             c == [NoCall EXCEPT !.kind = "import", !.pc = "look", !.todo = todo]
  <2>1. todo \in Seq([article : Articles, edition : Nat])
    OBVIOUS
  <2> HIDE DEF todo
  <2>2. Reads(c, stored) BY <2>1, FreshReads
  <2>3. Goto(p, c) BY <1>3 DEF Begin, todo
  <2> HIDE DEF c
  <2>4. QED BY <1>1, <2>2, <2>3, ReadsOn
<1>4. QED BY <1>2, <1>3 DEF ImportArticle

LEMMA ReviseReads ==
  ASSUME IndexInv, ContextInv, NEW a \in Articles, Revise(a)
  PROVE  ContextInv'
<1>1. /\ site' = site /\ document' = document /\ call' = call /\ stored' \in [Articles -> Nat]
      /\ \A b \in Articles : stored[b] <= stored'[b]
      /\ document' \in [Articles -> KnowledgeDocument]
  BY DEF Revise, IndexInv, ContextInv
<1>2. QED BY <1>1, AllReadOn

LEMMA EnrichReads ==
  ASSUME IndexInv, ContextInv, NEW p \in Workers, NEW a \in Articles, EnrichArticle(p, a)
  PROVE  ContextInv'
<1> DEFINE todo == <<[article |-> a, edition |-> stored[a]]>>
           c == [NoCall EXCEPT !.kind = "script", !.pc = "look", !.todo = todo]
<1>1. site' = site /\ document' = document /\ stored' = stored /\ Goto(p, c)
  BY DEF EnrichArticle, Begin
<1>2. todo \in Seq([article : Articles, edition : Nat]) BY DEF IndexInv
<1> HIDE DEF todo
<1>3. Reads(c, stored) BY <1>2, FreshReads
<1> HIDE DEF c
<1>4. QED BY <1>1, <1>3, OnlyReads

LEMMA DeleteReads ==
  ASSUME IndexInv, ContextInv, NEW a \in Articles, DeleteDocument(a)
  PROVE  ContextInv'
<1>1. NoDocument \in KnowledgeDocument BY EmptySeq DEF NoDocument, KnowledgeDocument
<1>2. /\ site' = site /\ stored' = stored /\ call' = call
      /\ document' = [document EXCEPT ![a] = NoDocument]
  BY DEF DeleteDocument
<1>3. document' \in [Articles -> KnowledgeDocument] BY <1>1, <1>2 DEF ContextInv
<1>4. stored' \in [Articles -> Nat] /\ \A b \in Articles : stored[b] <= stored'[b]
  BY <1>2 DEF IndexInv
<1>5. QED BY <1>2, <1>3, <1>4, AllReadOn

LEMMA CrashReads ==
  ASSUME IndexInv, ContextInv, NEW p \in Workers, Crash(p)
  PROVE  ContextInv'
  BY NoneReads, OnlyReads DEF Crash

LEMMA WorkflowStepReads ==
  ASSUME IndexInv, ContextInv, NEW p \in Workers, IndexKnowledge(p)
  PROVE  ContextInv'
<1> DEFINE todays == SetToSeq({a \in Articles : stored[a] > 0})
           todo == [k \in DOMAIN todays |-> [article |-> todays[k], edition |-> stored[todays[k]]]]
           c == [NoCall EXCEPT !.kind = "workflow", !.pc = "look", !.todo = todo]
<1>1. site' = site /\ document' = document /\ stored' = stored /\ Goto(p, c)
  BY DEF IndexKnowledge, Begin
<1>2. todo \in Seq([article : Articles, edition : Nat]) BY TodaysAre
<1> HIDE DEF todo
<1>3. Reads(c, stored) BY <1>2, FreshReads
<1> HIDE DEF c
<1>4. QED BY <1>1, <1>3, OnlyReads

\* A call that goes on indexing has still found nothing.
LEMMA CallsHold ==
  ASSUME ContextInv, NEW p \in Workers, call[p].pc \notin {"build", "done"},
         NEW pc \in {"look", "create", "reindex", "embed", "search"}, NEW existing \in Nat,
         NEW chunks \in Seq(KnowledgeChunk), NEW next \in Nat, NEW attempts \in Nat
  PROVE  /\ Reads([call[p] EXCEPT !.existing = existing, !.pc = pc], stored)
         /\ Reads([call[p] EXCEPT !.pc = pc, !.chunks = chunks], stored)
         /\ Reads([call[p] EXCEPT !.next = next, !.attempts = attempts, !.chunks = chunks], stored)
         /\ Reads([call[p] EXCEPT !.attempts = attempts], stored)
<1> DEFINE T == Seq([article : Articles, edition : Nat])
           K == Seq(KnowledgeChunk)
           R == Seq(RetrievedChunk)
           C == [kind : {"idle", "import", "script", "workflow"},
                 pc : {"idle", "look", "create", "reindex", "embed", "search", "build", "done"},
                 todo : T, existing : Nat, chunks : K, next : Nat, attempts : Nat,
                 found : R, context : R]
           c == call[p]
<1>1. C = Call BY DEF Call
<1>2. c \in C /\ c.found = <<>> /\ c.context = <<>> /\ c.pc \notin {"build", "done"}
  BY <1>1 DEF ContextInv, Reads
<1>3. chunks \in K
  OBVIOUS
<1> HIDE DEF T, K, R, c
<1>4. ASSUME NEW d \in C, d.pc \notin {"build", "done"}, d.found = <<>>, d.context = <<>>
      PROVE  Reads(d, stored)
  <2>1. d \in Call BY <1>1, <1>4
  <2> HIDE DEF C
  <2>2. QED BY <1>4, <2>1, PlainReads
<1>5. Reads([c EXCEPT !.existing = existing, !.pc = pc], stored)
  <2> DEFINE d == [c EXCEPT !.existing = existing, !.pc = pc]
  <2>1. d \in C /\ d.pc \notin {"build", "done"} /\ d.found = <<>> /\ d.context = <<>> BY <1>2
  <2> HIDE DEF d, C
  <2>2. Reads(d, stored) BY <1>4, <2>1
  <2>3. QED BY <2>2 DEF d
<1>6. Reads([c EXCEPT !.pc = pc, !.chunks = chunks], stored)
  <2> DEFINE d == [c EXCEPT !.pc = pc, !.chunks = chunks]
  <2>1. d \in C /\ d.pc \notin {"build", "done"} /\ d.found = <<>> /\ d.context = <<>> BY <1>2, <1>3
  <2> HIDE DEF d, C
  <2>2. Reads(d, stored) BY <1>4, <2>1
  <2>3. QED BY <2>2 DEF d
<1>7. Reads([c EXCEPT !.next = next, !.attempts = attempts, !.chunks = chunks], stored)
  <2> DEFINE d == [c EXCEPT !.next = next, !.attempts = attempts, !.chunks = chunks]
  <2>1. d \in C /\ d.pc \notin {"build", "done"} /\ d.found = <<>> /\ d.context = <<>> BY <1>2, <1>3
  <2> HIDE DEF d, C
  <2>2. Reads(d, stored) BY <1>4, <2>1
  <2>3. QED BY <2>2 DEF d
<1>8. Reads([c EXCEPT !.attempts = attempts], stored)
  <2> DEFINE d == [c EXCEPT !.attempts = attempts]
  <2>1. d \in C /\ d.pc \notin {"build", "done"} /\ d.found = <<>> /\ d.context = <<>> BY <1>2
  <2> HIDE DEF d, C
  <2>2. Reads(d, stored) BY <1>4, <2>1
  <2>3. QED BY <2>2 DEF d
<1>9. QED BY <1>5, <1>6, <1>7, <1>8 DEF c

LEMMA LookReads ==
  ASSUME IndexInv, ContextInv, NEW p \in Workers, Look(p)
  PROVE  ContextInv'
<1> DEFINE d == document[Subject(p)]
           c == [call[p] EXCEPT !.existing = d.id,
                   !.pc = IF d = NoDocument THEN "create" ELSE "reindex"]
<1>1. /\ site' = site /\ document' = document /\ stored' = stored
      /\ call[p].pc = "look" /\ ~ At(p, "idle")
  BY DEF Look, At
<1>2. CASE Settled(p, TRUE)
  <2>1. PICK x : Goto(p, x) /\ Reads(x, stored) BY <1>2, SettledReads
  <2>2. QED BY <1>1, <2>1, OnlyReads
<1>3. CASE Goto(p, c)
  <2>1. d.id \in Nat
    <3>1. Subject(p) \in Articles BY <1>1, SubjectKnown
    <3>2. d \in KnowledgeDocument BY <3>1 DEF ContextInv
    <3>3. QED BY <3>2 DEF KnowledgeDocument
  <2> DEFINE pc == IF d = NoDocument THEN "create" ELSE "reindex"
  <2>2. pc \in {"look", "create", "reindex", "embed", "search"}
    OBVIOUS
  <2>3. c = [call[p] EXCEPT !.existing = d.id, !.pc = pc]
    OBVIOUS
  <2> HIDE DEF d, pc
  <2>4. <<>> \in Seq(KnowledgeChunk) /\ 0 \in Nat BY EmptySeq
  <2> HIDE DEF c
  <2>5. Reads([call[p] EXCEPT !.existing = d.id, !.pc = pc], stored)
    BY <1>1, <2>1, <2>2, <2>4, CallsHold
  <2>6. Reads(c, stored) BY <2>3, <2>5
  <2>7. QED BY <1>1, <1>3, <2>6, OnlyReads
<1>4. QED BY <1>2, <1>3 DEF Look

\* The drafts of what a worker has read.
LEMMA CopyDrafts ==
  ASSUME IndexInv, NEW p \in Workers, ~ At(p, "idle")
  PROVE  /\ Copy(p) \in Seq(Seq(Nat))
         /\ Drafts(Copy(p)) \in Seq([text : Seq(Nat), tokens : Nat])
<1>1. PICK a, e : a = Subject(p) /\ e = Head(call[p].todo).edition
  OBVIOUS
<1>2. a \in Articles /\ e \in 1..Len(site.editions[a]) /\ Copy(p) = Content(a, e) /\ site \in Sites
  BY <1>1, SubjectKnown DEF IndexInv
<1>3. QED BY <1>2, DraftsAre

LEMMA OpenReads ==
  ASSUME IndexInv, ContextInv, NEW p \in Workers, call[p].pc \in {"create", "reindex"},
         OpenTransaction(p), UNCHANGED <<site, stored, document>>
  PROVE  ContextInv'
<1> DEFINE drafts == Drafts(Copy(p))
           chunks == [k \in DOMAIN drafts |-> PendingChunk(drafts[k])]
           D == [text : Seq(Nat), tokens : Nat]
<1>1. drafts \in Seq(D) BY CopyDrafts DEF At
<1>2. Goto(p, [call[p] EXCEPT !.pc = "embed", !.chunks = chunks]) BY DEF OpenTransaction
<1> HIDE DEF drafts
<1>3. Len(drafts) \in Nat /\ DOMAIN drafts = 1..Len(drafts) /\ \A k \in 1..Len(drafts) : drafts[k] \in D
  <2> HIDE DEF D
  <2>1. QED BY <1>1
<1>4. chunks \in [1..Len(drafts) -> KnowledgeChunk]
  <2>1. \A k \in 1..Len(drafts) : PendingChunk(drafts[k]) \in KnowledgeChunk BY <1>3, ChunksAre
  <2>2. QED BY <1>3, <2>1
<1>5. chunks \in Seq(KnowledgeChunk) BY <1>3, <1>4, SeqDef
<1> HIDE DEF chunks
<1>6. Reads([call[p] EXCEPT !.pc = "embed", !.chunks = chunks], stored)
  <2>1. 0 \in Nat
    OBVIOUS
  <2>2. QED BY <1>5, <2>1, CallsHold
<1>7. QED BY <1>2, <1>6, OnlyReads

LEMMA RollbackReads ==
  ASSUME IndexInv, ContextInv, NEW p \in Workers, Rollback(p)
  PROVE  ContextInv'
<1>1. PICK c : Goto(p, c) /\ Reads(c, stored) BY SettledReads DEF Rollback
<1>2. QED BY <1>1, OnlyReads DEF Rollback

LEMMA CreateReads ==
  ASSUME IndexInv, ContextInv, NEW p \in Workers, CreateAndIndex(p) \/ Reindex(p)
  PROVE  ContextInv'
<1>1. call[p].pc \in {"create", "reindex"} BY DEF CreateAndIndex, Reindex, At
<1>2. CASE OpenTransaction(p) /\ UNCHANGED <<site, stored, document>> BY <1>1, <1>2, OpenReads
<1>3. CASE Rollback(p) BY <1>3, RollbackReads
<1>4. QED BY <1>2, <1>3 DEF CreateAndIndex, Reindex

LEMMA BatchReads ==
  ASSUME IndexInv, ContextInv, NEW p \in Workers, EmbedBatch(p)
  PROVE  ContextInv'
<1> DEFINE c == call[p]
           K == KnowledgeChunk
<1>1. /\ c.pc = "embed" /\ c.chunks \in Seq(K) /\ c.next \in Nat /\ c.attempts \in Nat
      /\ site.batch \in Nat
  <2>1. c.chunks \in Seq(K) /\ c.next \in Nat /\ c.attempts \in Nat BY DEF ContextInv, Call
  <2>2. QED BY <2>1, KnowledgeAssumption DEF EmbedBatch, At, IndexInv, Settings
<1>2. CASE /\ Goto(p, [c EXCEPT !.next = @ + site.batch, !.attempts = 0,
                !.chunks = [k \in DOMAIN @ |-> IF k \in Batch(p) THEN Embedded(@[k]) ELSE @[k]]])
           /\ UNCHANGED <<site, stored, document, writer, gap, spent>>
  <2> DEFINE chunks == [k \in DOMAIN c.chunks |-> IF k \in Batch(p) THEN Embedded(c.chunks[k])
                                                  ELSE c.chunks[k]]
             n == Len(c.chunks)
             next == c.next + site.batch
             d == [c EXCEPT !.next = next, !.attempts = 0, !.chunks = chunks]
  <2>1. Goto(p, d) BY <1>2
  <2>2. n \in Nat /\ DOMAIN c.chunks = 1..n /\ \A k \in 1..n : c.chunks[k] \in K
    <3> HIDE DEF K
    <3>1. QED BY <1>1
  <2>3. \A k \in 1..n : Embedded(c.chunks[k]) \in K BY <2>2, EmbeddedAre
  <2> HIDE DEF K, n
  <2>4. chunks \in [1..n -> K] BY <2>2, <2>3
  <2>5. chunks \in Seq(K) BY <2>2, <2>4, SeqDef
  <2>6. next \in Nat /\ 0 \in Nat BY <1>1
  <2> HIDE DEF chunks, next
  <2>7. chunks \in Seq(KnowledgeChunk) BY <2>5 DEF K
  <2> HIDE DEF d
  <2>8. Reads([call[p] EXCEPT !.next = next, !.attempts = 0, !.chunks = chunks], stored)
    BY <1>1, <2>6, <2>7, CallsHold
  <2>9. Reads(d, stored) BY <2>8 DEF d
  <2>10. QED BY <1>2, <2>1, <2>9, OnlyReads
<1>3. CASE Goto(p, [c EXCEPT !.attempts = @ + 1]) /\ UNCHANGED <<site, stored, document, writer, gap>>
  <2> DEFINE more == c.attempts + 1
  <2>1. more \in Nat /\ 0 \in Nat BY <1>1
  <2>2. Goto(p, [call[p] EXCEPT !.attempts = more]) BY <1>3
  <2>3. <<>> \in Seq(KnowledgeChunk) BY EmptySeq
  <2> HIDE DEF more
  <2>4. Reads([call[p] EXCEPT !.attempts = more], stored) BY <1>1, <2>1, <2>3, CallsHold
  <2>5. QED BY <1>3, <2>2, <2>4, OnlyReads
<1>4. CASE Rollback(p) BY <1>4, RollbackReads
<1>5. QED BY <1>2, <1>3, <1>4 DEF EmbedBatch, BreakTransaction, Lost

LEMMA CommitReads ==
  ASSUME IndexInv, ContextInv, NEW p \in Workers, Commit(p)
  PROVE  ContextInv'
<1> DEFINE new == call[p].existing = 0
           id == IF new THEN spent.documents + 1 ELSE call[p].existing
           d == [id |-> id, content |-> Copy(p), chunks |-> call[p].chunks]
<1>1. /\ ~ At(p, "idle") /\ site' = site /\ stored' = stored
      /\ document' = [document EXCEPT ![Subject(p)] = d] /\ Settled(p, TRUE)
  BY DEF Commit, At
<1>2. PICK c : Goto(p, c) /\ Reads(c, stored) BY <1>1, SettledReads
<1>3. d \in KnowledgeDocument
  <2>1. id \in Nat BY DEF ContextInv, Call, IndexInv
  <2>2. call[p].chunks \in Seq(KnowledgeChunk) BY DEF ContextInv, Call
  <2>3. Copy(p) \in Seq(Seq(Nat)) BY <1>1, CopyDrafts
  <2> HIDE DEF id
  <2>4. QED BY <2>1, <2>2, <2>3 DEF KnowledgeDocument
<1> HIDE DEF d
<1>4. document' \in [Articles -> KnowledgeDocument] BY <1>1, <1>3 DEF ContextInv
<1>5. stored' \in [Articles -> Nat] /\ \A b \in Articles : stored[b] <= stored'[b]
  BY <1>1 DEF IndexInv
<1>6. QED BY <1>1, <1>2, <1>4, <1>5, ReadsOn

\* The passages of an article that can be found are the ones of an edition.
LEMMA SearchableAre ==
  ASSUME IndexInv, ContextInv, NEW a \in Articles, document[a] # NoDocument
  PROVE  /\ Searchable(a) \in Seq(KnowledgeChunk)
         /\ \E e \in 1..stored[a] : \A k \in 1..Len(Searchable(a)) :
              \E d \in Range(Drafts(Content(a, e))) :
                Searchable(a)[k].text = d.text /\ Searchable(a)[k].tokens = d.tokens
<1> DEFINE chunks == document[a].chunks
           P == {k \in DOMAIN chunks : chunks[k].status = "completed" /\ chunks[k].vector # NoVector}
           rows == Searchable(a)
           drafts == Drafts(document[a].content)
           D == [text : Seq(Nat), tokens : Nat]
<1>1. chunks \in Seq(KnowledgeChunk)
  <2>1. document[a] \in KnowledgeDocument BY DEF ContextInv
  <2>2. QED BY <2>1 DEF KnowledgeDocument
<1>2. rows = Kept(chunks, P) BY DEF Searchable
<1>3. PICK e \in 1..stored[a] : document[a].content = Content(a, e)
  BY DEF IndexInv, DocumentsAreWhole
<1>4. chunks = [k \in DOMAIN drafts |-> Embedded(PendingChunk(drafts[k]))]
  BY DEF IndexInv, DocumentsAreWhole
<1>5. drafts \in Seq(D)
  <2>1. e \in 1..Len(site.editions[a]) /\ site \in Sites
    <3>1. site.editions[a] \in Seq(Seq(Seq(Seq(Nat)))) /\ site \in Sites
      BY KnowledgeAssumption DEF IndexInv
    <3>2. Len(site.editions[a]) \in Nat /\ stored[a] \in Nat /\ stored[a] <= Len(site.editions[a])
      BY <3>1 DEF IndexInv
    <3>3. QED BY <3>1, <3>2
  <2>2. Drafts(Content(a, e)) \in Seq(D) BY <2>1, DraftsAre
  <2>3. QED BY <1>3, <2>2
<1> HIDE DEF rows, chunks, drafts, P
<1>6. Len(drafts) \in Nat /\ DOMAIN drafts = 1..Len(drafts) /\ \A k \in 1..Len(drafts) : drafts[k] \in D
  <2> HIDE DEF D
  <2>1. QED BY <1>5
<1>7. /\ DOMAIN chunks = 1..Len(drafts) /\ Len(chunks) = Len(drafts)
      /\ \A k \in 1..Len(drafts) : chunks[k].text = drafts[k].text /\ chunks[k].tokens = drafts[k].tokens
  <2>1. DOMAIN chunks = 1..Len(drafts)
        /\ \A k \in 1..Len(drafts) : chunks[k] = Embedded(PendingChunk(drafts[k]))
    BY <1>4, <1>6
  <2>2. Len(chunks) = Len(drafts) BY <1>1, <1>6, <2>1
  <2>3. ASSUME NEW k \in 1..Len(drafts)
        PROVE  chunks[k].text = drafts[k].text /\ chunks[k].tokens = drafts[k].tokens
    <3>1. PendingChunk(drafts[k]) \in KnowledgeChunk BY <1>6, ChunksAre
    <3>2. Embedded(PendingChunk(drafts[k])).text = PendingChunk(drafts[k]).text
          /\ Embedded(PendingChunk(drafts[k])).tokens = PendingChunk(drafts[k]).tokens
      BY <3>1, EmbeddedAre
    <3>3. QED BY <2>1, <3>2 DEF PendingChunk
  <2>4. QED BY <2>1, <2>2, <2>3
<1>8. PICK m \in Nat : \E h : KeepsAt(h, m, chunks, P) BY <1>1, KeptIs
<1>9. PICK h : KeepsAt(h, m, chunks, P) BY <1>8
<1>10. h \in [1..m -> 1..Len(chunks)] /\ rows = [k \in 1..m |-> chunks[h[k]]]
  BY <1>2, <1>9 DEF KeepsAt, Lists
<1>11. \A k \in 1..Len(chunks) : chunks[k] \in KnowledgeChunk BY <1>1
<1>12. rows \in [1..m -> KnowledgeChunk] BY <1>10, <1>11
<1>13. rows \in Seq(KnowledgeChunk) /\ Len(rows) = m BY <1>12, SeqDef
<1>14. ASSUME NEW k \in 1..m
       PROVE  \E d \in Range(drafts) : rows[k].text = d.text /\ rows[k].tokens = d.tokens
  <2>1. h[k] \in 1..Len(drafts) /\ rows[k] = chunks[h[k]] BY <1>7, <1>10
  <2>2. drafts[h[k]] \in Range(drafts) BY <1>6, <2>1 DEF Range
  <2>3. QED BY <1>7, <2>1, <2>2
<1>15. QED BY <1>3, <1>13, <1>14 DEF rows, drafts

LEMMA RetrieveReads ==
  ASSUME IndexInv, ContextInv, NEW p \in Workers, Retrieve(p)
  PROVE  ContextInv'
<1> DEFINE a == Subject(p)
           rows == Searchable(a)
           T == Seq([article : Articles, edition : Nat])
           K == Seq(KnowledgeChunk)
           R == Seq(RetrievedChunk)
           C == [kind : {"idle", "import", "script", "workflow"},
                 pc : {"idle", "look", "create", "reindex", "embed", "search", "build", "done"},
                 todo : T, existing : Nat, chunks : K, next : Nat, attempts : Nat,
                 found : R, context : R]
           c == call[p]
<1>1. /\ c.pc = "search" /\ ~ At(p, "idle") /\ site' = site /\ stored' = stored
      /\ document' = document
  BY DEF Retrieve, At
<1>2. /\ a \in Articles /\ Head(c.todo).article = a /\ \E e \in 1..stored[a] : TRUE
      /\ c.todo # <<>>
  BY <1>1, SubjectKnown DEF IndexInv, GoodCall
<1>3. c \in Call /\ c \in C /\ c.found = <<>> /\ c.context = <<>>
  BY <1>1 DEF ContextInv, Reads, Call
<1>4. Call = C BY DEF Call
<1>5. ASSUME NEW near \in [{rows[k].vector : k \in DOMAIN rows} -> site.scores],
             NEW way \in {1, 0 - 1},
             Goto(p, [c EXCEPT !.pc = "build", !.found = Ordered(rows, near, way)])
      PROVE  ContextInv'
  <2> DEFINE found == Ordered(rows, near, way)
             d == [c EXCEPT !.pc = "build", !.found = found]
  <2>1. /\ rows \in Seq(KnowledgeChunk)
        /\ \E e \in 1..stored[a] : \A k \in 1..Len(rows) :
              \E f \in Range(Drafts(Content(a, e))) :
                rows[k].text = f.text /\ rows[k].tokens = f.tokens
    <3>1. CASE document[a] # NoDocument BY <1>2, <3>1, SearchableAre
    <3>2. CASE document[a] = NoDocument
      <4> DEFINE P == {k \in DOMAIN <<>> : <<>>[k].status = "completed" /\ <<>>[k].vector # NoVector}
      <4>1. document[a].chunks = <<>> BY <3>2 DEF NoDocument
      <4>2. rows = Kept(<<>>, P) BY <4>1 DEF Searchable
      <4>3. <<>> \in Seq(KnowledgeChunk) /\ Len(<<>>) = 0 BY EmptySeq
      <4> HIDE DEF P
      <4>4. PICK m \in Nat : \E h : KeepsAt(h, m, <<>>, P) BY <4>3, KeptIs
      <4>5. PICK h : KeepsAt(h, m, <<>>, P) BY <4>4
      <4>6. h \in [1..m -> P \cap (1..0)] /\ rows = [k \in 1..m |-> <<>>[h[k]]]
        BY <4>2, <4>3, <4>5 DEF KeepsAt, Lists
      <4>7. m = 0
        <5>1. ASSUME 1 \in 1..m PROVE FALSE
          <6>1. h[1] \in 1..0 BY <4>6, <5>1
          <6>2. QED BY <6>1
        <5>2. QED BY <5>1
      <4> HIDE DEF rows
      <4>8. rows = <<>>
        <5>1. rows \in [1..0 -> KnowledgeChunk] BY <4>6, <4>7
        <5>2. rows \in Seq(KnowledgeChunk) /\ Len(rows) = 0 BY <5>1, SeqDef
        <5>3. QED BY <5>2
      <4>9. Len(rows) = 0 /\ rows \in Seq(KnowledgeChunk) BY <4>3, <4>8
      <4>10. QED BY <1>2, <4>9
    <3>3. QED BY <3>1, <3>2
  <2>2. \A k \in 1..Len(rows) : near[rows[k].vector] \in Int
    <3>1. site.scores \subseteq Int BY KnowledgeAssumption DEF IndexInv
    <3>2. DOMAIN rows = 1..Len(rows)
      <4> DEFINE L == KnowledgeChunk
      <4>1. rows \in Seq(L) BY <2>1
      <4> HIDE DEF L, rows
      <4>2. QED BY <4>1
    <3> HIDE DEF rows
    <3>3. QED BY <1>5, <3>1, <3>2
  <2> HIDE DEF rows
  <2>3. /\ Scored(found) /\ Descending(found)
        /\ \A n \in 1..Len(found) : \E k \in 1..Len(rows) :
             found[n].text = rows[k].text /\ found[n].tokens = rows[k].tokens
    BY <2>1, <2>2, OrderedIs
  <2> HIDE DEF found, a
  <2>4. FromEdition(found, a, stored) BY <2>1, <2>3 DEF FromEdition
  <2>5. found \in R BY <2>3 DEF Scored
  <2>6. Goto(p, d) BY <1>5 DEF found
  <2> HIDE DEF R, K, T, c
  <2>7. /\ d \in C /\ d.pc = "build" /\ d.found = found /\ d.todo = c.todo
        /\ d.context = <<>>
    BY <1>3, <2>5
  <2> HIDE DEF C, d
  <2>8. Reads(d, stored) BY <1>2, <1>4, <2>3, <2>4, <2>7 DEF Reads
  <2>9. QED BY <1>1, <2>6, <2>8, OnlyReads
<1>6. CASE Goto(p, [c EXCEPT !.pc = "done"])
  <2> DEFINE d == [c EXCEPT !.pc = "done"]
  <2> HIDE DEF a, rows, T, K, R, c
  <2>1. /\ d \in C /\ d.pc = "done" /\ d.found = <<>> /\ d.context = <<>> /\ d.todo = c.todo BY <1>3
  <2>2. Best(<<>>, <<>>)
    <3>1. Tokens(<<>>) = 0 BY NoTokens
    <3>2. site.budget \in Nat BY KnowledgeAssumption DEF IndexInv, Settings
    <3>3. DOMAIN <<>> = {}
      OBVIOUS
    <3>4. QED BY <3>1, <3>2, <3>3 DEF Best, Descending
  <2>3. FromEdition(<<>>, a, stored)
    <3>1. Len(<<>>) = 0
      OBVIOUS
    <3>2. QED BY <1>2, <3>1 DEF FromEdition
  <2>4. Descending(<<>>) BY DEF Descending
  <2> HIDE DEF C, d
  <2>5. Reads(d, stored) BY <1>2, <1>4, <2>1, <2>2, <2>3, <2>4 DEF Reads, TextsOf
  <2>6. Goto(p, d) BY <1>6 DEF d
  <2>7. QED BY <1>1, <2>5, <2>6, OnlyReads
<1>7. QED BY <1>5, <1>6 DEF Retrieve

\* Passages of one edition with the same text are equally long.
LEMMA OneEditionIsAlike ==
  ASSUME IndexInv, NEW rows, NEW a \in Articles, FromEdition(rows, a, stored)
  PROVE  Alike(rows)
<1>1. PICK e \in 1..stored[a] : \A k \in 1..Len(rows) :
        \E d \in Range(Drafts(Content(a, e))) :
          rows[k].text = d.text /\ rows[k].tokens = d.tokens
  BY DEF FromEdition
<1>2. e \in 1..Len(site.editions[a]) /\ site \in Sites
  <2>1. site.editions[a] \in Seq(Seq(Seq(Seq(Nat)))) /\ site \in Sites
    BY KnowledgeAssumption DEF IndexInv
  <2>2. Len(site.editions[a]) \in Nat /\ stored[a] \in Nat /\ stored[a] <= Len(site.editions[a])
    BY <2>1 DEF IndexInv
  <2>3. QED BY <2>1, <2>2
<1> DEFINE drafts == Drafts(Content(a, e))
<1>3. \A d, f \in Range(drafts) : d.text = f.text => d.tokens = f.tokens BY <1>2, DraftsAre
<1> HIDE DEF drafts
<1>4. \A k \in 1..Len(rows) : \E d \in Range(drafts) :
        rows[k].text = d.text /\ rows[k].tokens = d.tokens
  BY <1>1 DEF drafts
<1>5. QED BY <1>3, <1>4 DEF Alike

LEMMA BuildReads ==
  ASSUME IndexInv, ContextInv, NEW p \in Workers, BuildContext(p)
  PROVE  ContextInv'
<1> DEFINE T == Seq([article : Articles, edition : Nat])
           K == Seq(KnowledgeChunk)
           R == Seq(RetrievedChunk)
           C == [kind : {"idle", "import", "script", "workflow"},
                 pc : {"idle", "look", "create", "reindex", "embed", "search", "build", "done"},
                 todo : T, existing : Nat, chunks : K, next : Nat, attempts : Nat,
                 found : R, context : R]
           c == call[p]
           a == Head(c.todo).article
           taken == Assemble(DeduplicateChunks(RankChunks(NormalizedScores(Search(c.found)))))
           d == [c EXCEPT !.pc = "done", !.context = taken]
<1>1. /\ c.pc = "build" /\ ~ At(p, "idle") /\ Goto(p, d)
      /\ site' = site /\ stored' = stored /\ document' = document
  BY DEF BuildContext, At
<1>2. /\ c \in Call /\ c \in C /\ c.todo # <<>> /\ Descending(c.found)
      /\ FromEdition(c.found, a, stored)
  BY <1>1 DEF ContextInv, Reads, Call
<1>3. Call = C BY DEF Call
<1>4. a \in Articles BY <1>1, SubjectKnown
<1>5. Scored(c.found) BY <1>2 DEF Scored
<1>6. Alike(c.found)
  <2> HIDE DEF a
  <2>1. QED BY <1>2, <1>4, OneEditionIsAlike
<1>7. Scored(taken) /\ Best(taken, c.found) /\ TextsOf(taken) \subseteq TextsOf(c.found)
  BY <1>2, <1>5, <1>6, ContextIs
<1>8. taken \in R BY <1>7 DEF Scored
<1> HIDE DEF T, K, R, c, a, taken
<1>9. /\ d \in C /\ d.pc = "done" /\ d.todo = c.todo /\ d.found = c.found /\ d.context = taken
  BY <1>2, <1>8
<1> HIDE DEF C, d
<1>10. Reads(d, stored) BY <1>2, <1>3, <1>7, <1>9 DEF Reads, a
<1>11. QED BY <1>1, <1>10, OnlyReads

LEMMA UseReads ==
  ASSUME IndexInv, ContextInv, NEW p \in Workers, UseContext(p)
  PROVE  ContextInv'
  BY NoneReads, OnlyReads DEF UseContext

LEMMA ContextStarts ==
  ASSUME Init
  PROVE  ContextInv
<1>1. NoDocument \in KnowledgeDocument BY EmptySeq DEF NoDocument, KnowledgeDocument
<1>2. Reads(NoCall, stored) BY NoneReads
<1>3. NoCall \in Call BY <1>2 DEF Reads
<1>4. QED BY <1>1, <1>2, <1>3 DEF Init, ContextInv

LEMMA ContextStep ==
  ASSUME IndexInv, ContextInv, [Next]_vars
  PROVE  ContextInv'
<1>1. CASE UNCHANGED vars
  <2>1. /\ site' = site /\ stored' = stored /\ document' = document /\ call' = call BY <1>1 DEF vars
  <2>2. stored' \in [Articles -> Nat] /\ \A a \in Articles : stored[a] <= stored'[a]
    BY <2>1 DEF IndexInv
  <2>3. document' \in [Articles -> KnowledgeDocument] BY <2>1 DEF ContextInv
  <2>4. QED BY <2>1, <2>2, <2>3, AllReadOn
<1>2. CASE Imports BY <1>2, ImportReads DEF Imports
<1>3. CASE Revisions BY <1>3, ReviseReads DEF Revisions
<1>4. CASE Enrichments BY <1>4, EnrichReads DEF Enrichments
<1>5. CASE WorkflowSteps BY <1>5, WorkflowStepReads DEF WorkflowSteps
<1>6. CASE Deletions BY <1>6, DeleteReads DEF Deletions
<1>7. CASE Crashes BY <1>7, CrashReads DEF Crashes
<1>8. CASE AllWork
  BY <1>8, LookReads, CreateReads, BatchReads, CommitReads, RetrieveReads, BuildReads, UseReads DEF
     AllWork, Work
<1>9. QED BY <1>1, <1>2, <1>3, <1>4, <1>5, <1>6, <1>7, <1>8 DEF Next, Quiet

\* What was taken is of the edition that was found.
LEMMA ReadMeansBest ==
  ASSUME IndexInv, ContextInv
  PROVE  ContextIsBest
<1>1. ASSUME NEW p \in Workers, At(p, "done")
      PROVE  /\ Best(call[p].context, call[p].found)
             /\ \E e \in 1..stored[Subject(p)] :
                  TextsOf(call[p].context) \subseteq TextsOf(Drafts(Content(Subject(p), e)))
  <2> DEFINE found == call[p].found
             context == call[p].context
             a == Subject(p)
  <2>1. /\ Best(context, found) /\ TextsOf(context) \subseteq TextsOf(found)
        /\ FromEdition(found, a, stored) /\ found \in Seq(RetrievedChunk)
    BY <1>1 DEF ContextInv, Reads, At, Subject, Call
  <2> HIDE DEF found, context, a
  <2>2. DOMAIN found = 1..Len(found) BY <2>1, RowsAre DEF Scored
  <2>3. PICK e \in 1..stored[a] : \A k \in 1..Len(found) :
          \E d \in Range(Drafts(Content(a, e))) :
            found[k].text = d.text /\ found[k].tokens = d.tokens
    BY <2>1 DEF FromEdition
  <2>4. TextsOf(found) \subseteq TextsOf(Drafts(Content(a, e))) BY <2>2, <2>3 DEF TextsOf, Range
  <2>5. QED BY <2>1, <2>4 DEF found, context, a
<1>2. TypeOK BY DEF ContextInv, TypeOK
<1>3. QED BY <1>1, <1>2 DEF ContextIsBest

\* The context of every script is the best there is in what retrieval found, in
\* its budget, and of one edition of its article: however similar the texts are,
\* in whatever order the database answers and whatever is indexed meanwhile.
THEOREM ContextsAreBest == Spec => []ContextIsBest
<1>1. Init => IndexInv /\ ContextInv BY IndexStarts, ContextStarts
<1>2. IndexInv /\ ContextInv /\ [Next]_vars => (IndexInv /\ ContextInv)' BY IndexStep, ContextStep
<1>3. Spec => [](IndexInv /\ ContextInv) BY <1>1, <1>2, PTL DEF Spec
<1>4. IndexInv /\ ContextInv => ContextIsBest BY ReadMeansBest
<1>5. QED BY <1>3, <1>4, PTL

=============================================================================
