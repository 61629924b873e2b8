--------------------------- MODULE RecursionProofs ---------------------------
(***************************************************************************)
(* Induction and recursive functions, stated over sets and functions.  The *)
(* library's theorems take a predicate as a parameter; here a predicate is *)
(* the set of the numbers it holds of, and the right-hand side of a        *)
(* recursive definition is a function of the argument and of the function  *)
(* being defined.                                                          *)
(***************************************************************************)
EXTENDS Flatten, WellFoundedInduction, TLAPS

\* A set with 0 that has n + 1 whenever it has n holds every number.
LEMMA Induction ==
  ASSUME NEW S, 0 \in S, \A n \in Nat : n \in S => n + 1 \in S
  PROVE  \A n \in Nat : n \in S
<1> DEFINE T == {n \in Nat : n \notin S}
<1> SUFFICES ASSUME T # {} PROVE FALSE
  OBVIOUS
<1>1. \E x \in T : \A y \in T : ~(<<y, x>> \in OpToRel(<, Nat))
  <2>1. T \subseteq Nat
    OBVIOUS
  <2> HIDE DEF T
  <2> QED  BY <2>1, NatLessThanWellFounded, WFMin, Zenon
<1>2. PICK x \in T : \A y \in T : ~(y < x)
  BY <1>1 DEF OpToRel
<1>3. x - 1 \in Nat /\ x - 1 < x
  BY <1>2
<1> QED  BY <1>2, <1>3

\* A set that has n whenever it has all numbers below n holds every number.
LEMMA StrongInduction ==
  ASSUME NEW S, \A n \in Nat : (\A m \in Nat : m < n => m \in S) => n \in S
  PROVE  \A n \in Nat : n \in S
<1> DEFINE T == {n \in Nat : \A m \in Nat : m < n => m \in S}
<1>1. 0 \in T
  OBVIOUS
<1>2. \A n \in Nat : n \in T => n + 1 \in T
  OBVIOUS
<1>3. \A n \in Nat : n \in T
  <2> HIDE DEF T
  <2> QED  BY <1>1, <1>2, Induction
<1> QED  BY <1>3

-----------------------------------------------------------------------------
\* g and h agree on the arguments of D whose rank is below n.
Agree(D, rank, g, h, n) == \A y \in D : rank[y] < n => g[y] = h[y]

\* What G makes of an argument and a function only depends on the function's
\* values at arguments of smaller rank.
Descends(D, S, rank, G) ==
  \A x \in D, g \in [D -> S], h \in [D -> S] :
    Agree(D, rank, g, h, rank[x]) => G[<<x, g>>] = G[<<x, h>>]

\* f satisfies the recursive equation that G stands for.
Solves(D, G, f) == \A x \in D : f[x] = G[<<x, f>>]

\* f satisfies it at arguments of rank below n.
SolvesTo(D, rank, G, f, n) == \A x \in D : rank[x] < n => f[x] = G[<<x, f>>]

LEMMA SolutionsAgree ==
  ASSUME NEW D, NEW S, NEW rank \in [D -> Nat], NEW G, Descends(D, S, rank, G),
         NEW m \in Nat, NEW f \in [D -> S], SolvesTo(D, rank, G, f, m),
         NEW g \in [D -> S], SolvesTo(D, rank, G, g, m)
  PROVE  Agree(D, rank, f, g, m)
<1> DEFINE T == {n \in Nat : n <= m => Agree(D, rank, f, g, n)}
<1>1. 0 \in T
  BY DEF Agree
<1>2. ASSUME NEW n \in Nat, n \in T PROVE n + 1 \in T
  <2> SUFFICES ASSUME n + 1 <= m, NEW y \in D, rank[y] < n + 1 PROVE f[y] = g[y]
    BY DEF Agree
  <2>1. Agree(D, rank, f, g, rank[y])
    BY <1>2 DEF Agree
  <2>2. G[<<y, f>>] = G[<<y, g>>]
    BY <2>1 DEF Descends
  <2>3. rank[y] < m
    OBVIOUS
  <2> QED  BY <2>2, <2>3 DEF SolvesTo
<1>3. m \in T
  <2> HIDE DEF T
  <2> QED  BY <1>1, <1>2, Induction
<1> QED  BY <1>3

\* A recursive equation whose right-hand side descends has a solution.
THEOREM Recursion ==
  ASSUME NEW D, NEW S, S # {}, NEW rank \in [D -> Nat],
         NEW G \in [D \X [D -> S] -> S], Descends(D, S, rank, G)
  PROVE  \E f \in [D -> S] : Solves(D, G, f)
<1> DEFINE Solved(n) == \E f \in [D -> S] : SolvesTo(D, rank, G, f, n)
           T == {n \in Nat : Solved(n)}
<1>1. 0 \in T
  <2>1. PICK s \in S : TRUE
    OBVIOUS
  <2>2. [x \in D |-> s] \in [D -> S]
    OBVIOUS
  <2>3. SolvesTo(D, rank, G, [x \in D |-> s], 0)
    BY DEF SolvesTo
  <2> QED  BY <2>2, <2>3
<1>2. ASSUME NEW n \in Nat, n \in T PROVE n + 1 \in T
  <2>1. PICK f \in [D -> S] : SolvesTo(D, rank, G, f, n)
    BY <1>2
  <2> DEFINE g == [x \in D |-> G[<<x, f>>]]
  <2>2. g \in [D -> S]
    OBVIOUS
  <2>3. ASSUME NEW x \in D, rank[x] < n + 1 PROVE g[x] = G[<<x, g>>]
    <3>1. ASSUME NEW y \in D, rank[y] < rank[x] PROVE f[y] = g[y]
      <4>1. rank[y] < n
        BY <2>3, <3>1
      <4> QED  BY <2>1, <4>1 DEF SolvesTo
    <3>2. Agree(D, rank, f, g, rank[x])
      BY <3>1 DEF Agree
    <3> HIDE DEF g
    <3>3. G[<<x, f>>] = G[<<x, g>>]
      BY <2>2, <3>2 DEF Descends
    <3> QED  BY <3>3 DEF g
  <2> HIDE DEF g
  <2> QED  BY <2>2, <2>3 DEF SolvesTo
<1>3. \A n \in Nat : Solved(n)
  <2> HIDE DEF Solved
  <2>1. \A n \in Nat : n \in T
    <3> HIDE DEF T
    <3> QED  BY <1>1, <1>2, Induction
  <2> QED  BY <2>1
<1> DEFINE F == [n \in Nat |-> CHOOSE f \in [D -> S] : SolvesTo(D, rank, G, f, n)]
<1>4. ASSUME NEW n \in Nat PROVE F[n] \in [D -> S] /\ SolvesTo(D, rank, G, F[n], n)
  <2>1. \E f \in [D -> S] : SolvesTo(D, rank, G, f, n)
    BY <1>3
  <2> QED  BY <2>1
<1> HIDE DEF F
<1> DEFINE f == [x \in D |-> F[rank[x] + 1][x]]
<1>5. f \in [D -> S]
  BY <1>4
<1>6. ASSUME NEW x \in D PROVE f[x] = G[<<x, f>>]
  <2> DEFINE n == rank[x] + 1
  <2>1. n \in Nat /\ rank[x] < n
    OBVIOUS
  <2>2. F[n][x] = G[<<x, F[n]>>]
    <3> HIDE DEF n
    <3> QED  BY <1>4, <2>1 DEF SolvesTo
  <2>3. ASSUME NEW y \in D, rank[y] < rank[x] PROVE F[n][y] = f[y]
    <3> DEFINE k == rank[y] + 1
    <3>1. k \in Nat /\ rank[y] < k /\ k <= n
      BY <2>3
    <3> HIDE DEF k, n
    <3>2. SolvesTo(D, rank, G, F[n], k)
      <4>1. SolvesTo(D, rank, G, F[n], n)
        BY <1>4, <2>1
      <4>2. ASSUME NEW z \in D, rank[z] < k PROVE rank[z] < n
        BY <2>1, <3>1, <4>2
      <4> QED  BY <4>1, <4>2 DEF SolvesTo
    <3>3. Agree(D, rank, F[n], F[k], k)
      BY <1>4, <2>1, <3>1, <3>2, SolutionsAgree
    <3>4. F[n][y] = F[k][y]
      BY <3>1, <3>3 DEF Agree
    <3> QED  BY <3>4 DEF k
  <2>4. Agree(D, rank, F[n], f, rank[x])
    BY <2>3 DEF Agree
  <2>5. G[<<x, F[n]>>] = G[<<x, f>>]
    <3> HIDE DEF n, f
    <3> QED  BY <1>4, <1>5, <2>1, <2>4 DEF Descends
  <2> QED  BY <2>2, <2>5
<1> QED
  <2> HIDE DEF f
  <2> QED  BY <1>5, <1>6 DEF Solves

-----------------------------------------------------------------------------
(* Concatenation *)

LEMMA ConcatSeq ==
  ASSUME NEW S, NEW s \in Seq(S), NEW t \in Seq(S)
  PROVE  /\ s \o t \in Seq(S)
         /\ Len(s \o t) = Len(s) + Len(t)
         /\ \A i \in 1 .. Len(s) : (s \o t)[i] = s[i]
         /\ \A i \in 1 .. Len(t) : (s \o t)[Len(s) + i] = t[i]
  OBVIOUS

LEMMA ConcatAssociative ==
  ASSUME NEW S, NEW s \in Seq(S), NEW t \in Seq(S), NEW u \in Seq(S)
  PROVE  (s \o t) \o u = s \o (t \o u)
  OBVIOUS

LEMMA AppendIsConcat ==
  ASSUME NEW S, NEW s \in Seq(S), NEW e \in S
  PROVE  Append(s, e) = s \o <<e>>
  OBVIOUS

\* f holds the concatenations of the first sequences of ss.
Partials(ss, f) ==
  f = [n \in 0 .. Len(ss) |-> IF n = 0 THEN <<>> ELSE f[n - 1] \o ss[n]]

LEMMA PartialsValues ==
  ASSUME NEW ss, NEW f, Partials(ss, f), Len(ss) \in Nat
  PROVE  /\ f[0] = <<>>
         /\ \A n \in 1 .. Len(ss) : f[n] = f[n - 1] \o ss[n]
<1>1. \A n \in 0 .. Len(ss) : f[n] = IF n = 0 THEN <<>> ELSE f[n - 1] \o ss[n]
  BY Zenon DEF Partials
<1>2. f[0] = <<>>
  <2>1. 0 \in 0 .. Len(ss)
    OBVIOUS
  <2> QED  BY <1>1, <2>1, Zenon
<1>3. ASSUME NEW n \in 1 .. Len(ss) PROVE f[n] = f[n - 1] \o ss[n]
  <2>1. n \in 0 .. Len(ss) /\ n # 0
    OBVIOUS
  <2> QED  BY <1>1, <2>1, Zenon
<1> QED  BY <1>2, <1>3

LEMMA PartialsExist ==
  ASSUME NEW S, NEW ss \in Seq(Seq(S))
  PROVE  \E f \in [0 .. Len(ss) -> Seq(S)] : Partials(ss, f)
<1> DEFINE D == 0 .. Len(ss)
           rank == [n \in D |-> n]
           G == [p \in D \X [D -> Seq(S)] |-> IF p[1] = 0 THEN <<>> ELSE p[2][p[1] - 1] \o ss[p[1]]]
<1>1. rank \in [D -> Nat]
  OBVIOUS
<1>0. <<>> \in Seq(S)
  OBVIOUS
<1>2. G \in [D \X [D -> Seq(S)] -> Seq(S)]
  <2> SUFFICES ASSUME NEW n \in D, NEW f \in [D -> Seq(S)]
               PROVE  (IF n = 0 THEN <<>> ELSE f[n - 1] \o ss[n]) \in Seq(S)
    OBVIOUS
  <2>1. CASE n # 0
    <3>1. n - 1 \in D /\ ss[n] \in Seq(S)
      BY <2>1
    <3>2. f[n - 1] \in Seq(S)
      BY <3>1
    <3> QED  BY <2>1, <3>1, <3>2, ConcatSeq
  <2> QED  BY <1>0, <2>1
<1>3. Descends(D, Seq(S), rank, G)
  <2> SUFFICES ASSUME NEW n \in D, NEW g \in [D -> Seq(S)], NEW h \in [D -> Seq(S)], Agree(D, rank, g, h, n)
               PROVE  G[<<n, g>>] = G[<<n, h>>]
    <3>1. \A n \in D : rank[n] = n
      OBVIOUS
    <3> HIDE DEF D, G, rank
    <3> QED  BY <3>1 DEF Descends
  <2>1. n # 0 => g[n - 1] = h[n - 1]
    BY DEF Agree
  <2> QED  BY <2>1
<1>5. PICK f \in [D -> Seq(S)] : Solves(D, G, f)
  <2>1. Seq(S) # {}
    BY <1>0
  <2> HIDE DEF D, G, rank
  <2> QED  BY <1>1, <1>2, <1>3, <2>1, Recursion
<1>6. f = [n \in D |-> IF n = 0 THEN <<>> ELSE f[n - 1] \o ss[n]]
  BY <1>5 DEF Solves
<1> QED  BY <1>6 DEF Partials

\* Two functions that hold them agree, also when the second is about a longer
\* sequence.
LEMMA PartialsAgree ==
  ASSUME NEW ss, NEW tt, Len(ss) \in Nat, Len(tt) \in Nat, Len(ss) <= Len(tt),
         \A i \in 1 .. Len(ss) : ss[i] = tt[i],
         NEW f, Partials(ss, f), NEW g, Partials(tt, g)
  PROVE  \A n \in 0 .. Len(ss) : f[n] = g[n]
<1> DEFINE T == {n \in Nat : n <= Len(ss) => f[n] = g[n]}
<1>1. 0 \in T
  BY PartialsValues
<1>2. ASSUME NEW n \in Nat, n \in T PROVE n + 1 \in T
  <2> SUFFICES ASSUME n + 1 <= Len(ss) PROVE f[n + 1] = g[n + 1]
    OBVIOUS
  <2> DEFINE i == n + 1
  <2>1. i \in 1 .. Len(ss) /\ i \in 1 .. Len(tt) /\ i - 1 = n /\ n <= Len(ss)
    OBVIOUS
  <2>2. f[i - 1] = g[i - 1]
    BY <1>2, <2>1
  <2> HIDE DEF i
  <2>3. f[i] = f[i - 1] \o ss[i]
    BY <2>1, PartialsValues
  <2>4. g[i] = g[i - 1] \o tt[i]
    BY <2>1, PartialsValues
  <2>5. f[i] = g[i]
    BY <2>1, <2>2, <2>3, <2>4, Zenon
  <2> QED  BY <2>5 DEF i
<1>3. \A n \in Nat : n \in T
  <2> HIDE DEF T
  <2> QED  BY <1>1, <1>2, Induction
<1> QED  BY <1>3

\* FlattenSeq is the last of them.
LEMMA FlattenPartial ==
  ASSUME NEW S, NEW ss \in Seq(Seq(S)), NEW f, Partials(ss, f)
  PROVE  FlattenSeq(ss) = f[Len(ss)]
<1> DEFINE F == CHOOSE g : Partials(ss, g)
<1>1. Partials(ss, F)
  BY PartialsExist
<1>2. FlattenSeq(ss) = F[Len(ss)]
  BY DEF FlattenSeq, Partials
<1> HIDE DEF F
<1>3. Len(ss) \in Nat /\ Len(ss) \in 0 .. Len(ss)
  OBVIOUS
<1> QED  BY <1>1, <1>2, <1>3, PartialsAgree

LEMMA FlattenEmpty ==
  FlattenSeq(<<>>) = <<>>
<1>1. <<>> \in Seq(Seq({})) /\ Len(<<>>) = 0
  OBVIOUS
<1>2. PICK f : Partials(<<>>, f)
  BY <1>1, PartialsExist
<1>3. f[0] = <<>>
  BY <1>1, <1>2, PartialsValues
<1> QED  BY <1>1, <1>2, <1>3, FlattenPartial

LEMMA FlattenType ==
  ASSUME NEW S, NEW ss \in Seq(Seq(S))
  PROVE  FlattenSeq(ss) \in Seq(S)
<1>1. PICK f \in [0 .. Len(ss) -> Seq(S)] : Partials(ss, f)
  BY PartialsExist
<1>2. Len(ss) \in 0 .. Len(ss)
  OBVIOUS
<1> QED  BY <1>1, <1>2, FlattenPartial

LEMMA FlattenAppend ==
  ASSUME NEW S, NEW ss \in Seq(Seq(S)), NEW s \in Seq(S)
  PROVE  FlattenSeq(Append(ss, s)) = FlattenSeq(ss) \o s
<1> DEFINE tt == Append(ss, s)
           n == Len(ss)
<1>1. tt \in Seq(Seq(S)) /\ Len(tt) = n + 1 /\ n \in Nat
  OBVIOUS
<1>2. tt[n + 1] = s /\ \A i \in 1 .. n : ss[i] = tt[i]
  OBVIOUS
<1> HIDE DEF tt
<1>3. PICK f : Partials(ss, f)
  BY PartialsExist
<1>4. PICK g : Partials(tt, g)
  BY <1>1, PartialsExist
<1>5. FlattenSeq(ss) = f[n] /\ FlattenSeq(tt) = g[n + 1]
  BY <1>1, <1>3, <1>4, FlattenPartial
<1>6. f[n] = g[n]
  <2>1. Len(tt) \in Nat /\ Len(ss) <= Len(tt) /\ Len(ss) \in Nat
    BY <1>1
  <2>2. \A i \in 1 .. Len(ss) : ss[i] = tt[i]
    BY <1>2
  <2>3. \A i \in 0 .. Len(ss) : f[i] = g[i]
    <3> HIDE DEF n
    <3> QED  BY <1>3, <1>4, <2>1, <2>2, PartialsAgree
  <2> QED  BY <2>1, <2>3
<1>7. g[n + 1] = g[n] \o s
  <2> DEFINE i == n + 1
  <2>1. i \in 1 .. Len(tt) /\ Len(tt) \in Nat /\ i - 1 = n /\ tt[i] = s
    BY <1>1, <1>2
  <2>2. g[i] = g[i - 1] \o tt[i]
    <3> HIDE DEF i
    <3> QED  BY <1>4, <2>1, PartialsValues
  <2> QED  BY <2>1, <2>2
<1> QED  BY <1>5, <1>6, <1>7 DEF tt

-----------------------------------------------------------------------------
(* The recursive functions of the varint format *)

\* What is needed of division by the base.
LEMMA Division ==
  ASSUME NEW B \in Nat, B >= 2, NEW n \in Nat
  PROVE  /\ n \div B \in Nat /\ n % B \in 0 .. B - 1
         /\ n = (n \div B) * B + (n % B)
         /\ n \div B <= n
         /\ n > 0 => n \div B < n
         /\ n >= B => n \div B >= 1
<1>1. n \div B \in Nat /\ n % B \in 0 .. B - 1 /\ n = (n \div B) * B + (n % B)
  BY SMT
<1> DEFINE q == n \div B
           d == n % B
<1>2. q \in Nat /\ d \in 0 .. B - 1 /\ n = q * B + d
  BY <1>1
<1> HIDE DEF q, d
<1>3. q * B >= 2 * q
  BY <1>2, SMT
<1>4. q <= n /\ (n > 0 => q < n)
  BY <1>2, <1>3, SMT
<1>5. n >= B => q >= 1
  BY <1>2, SMT
<1> QED  BY <1>1, <1>4, <1>5 DEF q, d

\* f maps each word to its bytes in base B.
BytesOfWords(B, f) ==
  f = [v \in Nat |-> IF v > B - 1 THEN <<(v % B) + B>> \o f[v \div B] ELSE <<v>>]

LEMMA BytesOfWordsExist ==
  ASSUME NEW B \in Nat, B >= 2
  PROVE  \E f \in [Nat -> Seq(0 .. 2 * B - 1)] : BytesOfWords(B, f)
<1> DEFINE S == Seq(0 .. 2 * B - 1)
           rank == [v \in Nat |-> v]
           G == [p \in Nat \X [Nat -> S] |->
                  IF p[1] > B - 1 THEN <<(p[1] % B) + B>> \o p[2][p[1] \div B] ELSE <<p[1]>>]
<1>1. rank \in [Nat -> Nat]
  OBVIOUS
<1>2. G \in [Nat \X [Nat -> S] -> S]
  <2> SUFFICES ASSUME NEW v \in Nat, NEW f \in [Nat -> S]
               PROVE  (IF v > B - 1 THEN <<(v % B) + B>> \o f[v \div B] ELSE <<v>>) \in S
    OBVIOUS
  <2>1. v \div B \in Nat /\ (v % B) + B \in 0 .. 2 * B - 1
    <3>1. v \div B \in Nat /\ v % B \in 0 .. B - 1
      BY Division
    <3> QED  BY <3>1
  <2>2. f[v \div B] \in S
    BY <2>1
  <2>3. <<(v % B) + B>> \in S
    BY <2>1
  <2>4. <<(v % B) + B>> \o f[v \div B] \in S
    BY <2>2, <2>3, ConcatSeq
  <2>5. v <= B - 1 => <<v>> \in S
    OBVIOUS
  <2>6. v > B - 1 \/ v <= B - 1
    OBVIOUS
  <2> HIDE DEF S
  <2> QED  BY <2>4, <2>5, <2>6, Zenon
<1>3. Descends(Nat, S, rank, G)
  <2> SUFFICES ASSUME NEW v \in Nat, NEW g \in [Nat -> S], NEW h \in [Nat -> S], Agree(Nat, rank, g, h, v)
               PROVE  G[<<v, g>>] = G[<<v, h>>]
    <3>1. \A v \in Nat : rank[v] = v
      OBVIOUS
    <3> HIDE DEF S, G, rank
    <3> QED  BY <3>1 DEF Descends
  <2>1. v > B - 1 => g[v \div B] = h[v \div B]
    <3>1. v \div B \in Nat /\ (v > 0 => v \div B < v)
      BY Division
    <3>2. rank[v \div B] = v \div B
      BY <3>1
    <3>3. v > B - 1 => v > 0
      OBVIOUS
    <3> HIDE DEF rank
    <3> QED  BY <3>1, <3>2, <3>3 DEF Agree
  <2> QED  BY <2>1
<1>4. S # {}
  <2>1. <<>> \in S
    OBVIOUS
  <2> QED  BY <2>1
<1>5. PICK f \in [Nat -> S] : Solves(Nat, G, f)
  <2> HIDE DEF S, G, rank
  <2> QED  BY <1>1, <1>2, <1>3, <1>4, Recursion
<1>6. f = [v \in Nat |-> IF v > B - 1 THEN <<(v % B) + B>> \o f[v \div B] ELSE <<v>>]
  BY <1>5 DEF Solves
<1> QED  BY <1>6 DEF BytesOfWords

\* f reads a varint of base B in words of W from each position of data on.
VarintsOf(B, W, data, f) ==
  f = [k \in Nat \ {0} |->
         IF k > Len(data) THEN [value |-> 0, pos |-> k - 1]
         ELSE IF data[k] < B THEN [value |-> data[k], pos |-> k]
         ELSE [value |-> (data[k] % B) + B * (f[k + 1].value % (W \div B)), pos |-> f[k + 1].pos]]

\* A word takes one more digit without leaving its width.
LEMMA DigitFits ==
  ASSUME NEW B \in Nat, B >= 2, NEW W \in Nat, W >= B, NEW d \in Nat, NEW v \in Nat
  PROVE  (d % B) + B * (v % (W \div B)) \in 0 .. W - 1
<1> DEFINE m == W \div B
           e == d % B
           u == v % m
<1>1. m \in Nat /\ m >= 1 /\ m * B <= W
  <2>1. m \in Nat /\ m >= 1 /\ W = m * B + (W % B) /\ W % B \in Nat
    BY Division
  <2> HIDE DEF m
  <2>2. m * B \in Nat
    BY <2>1, SMT
  <2> QED  BY <2>1, <2>2
<1>2. e \in 0 .. B - 1
  BY Division
<1> HIDE DEF m, e
<1>3. u \in 0 .. m - 1
  BY <1>1, SMT
<1> HIDE DEF u
<1>4. B * u \in Nat /\ B * u + B <= m * B
  <2>1. B * (u + 1) <= B * m
    BY <1>1, <1>3, SMT
  <2>2. B * (u + 1) = B * u + B /\ B * m = m * B /\ B * u \in Nat
    BY <1>1, <1>3, SMT
  <2> QED  BY <2>1, <2>2
<1>5. e + B * u \in 0 .. W - 1
  BY <1>1, <1>2, <1>4
<1> QED  BY <1>5 DEF m, e, u

LEMMA VarintsExist ==
  ASSUME NEW B \in Nat, B >= 2, NEW W \in Nat, W >= B, NEW data \in Seq(Nat)
  PROVE  \E f \in [Nat \ {0} -> [value : 0 .. W - 1, pos : Nat]] : VarintsOf(B, W, data, f)
<1> DEFINE D == Nat \ {0}
           S == [value : 0 .. W - 1, pos : Nat]
           n == Len(data)
           rank == [k \in D |-> IF k > n THEN 0 ELSE n + 1 - k]
           G == [p \in D \X [D -> S] |->
                  IF p[1] > n THEN [value |-> 0, pos |-> p[1] - 1]
                  ELSE IF data[p[1]] < B THEN [value |-> data[p[1]], pos |-> p[1]]
                  ELSE [value |-> (data[p[1]] % B) + B * (p[2][p[1] + 1].value % (W \div B)),
                        pos |-> p[2][p[1] + 1].pos]]
<1>0. n \in Nat /\ \A k \in 1 .. n : data[k] \in Nat
  OBVIOUS
<1>1. rank \in [D -> Nat]
  BY <1>0
<1>2. G \in [D \X [D -> S] -> S]
  <2> SUFFICES ASSUME NEW k \in D, NEW f \in [D -> S]
               PROVE  (IF k > n THEN [value |-> 0, pos |-> k - 1]
                       ELSE IF data[k] < B THEN [value |-> data[k], pos |-> k]
                       ELSE [value |-> (data[k] % B) + B * (f[k + 1].value % (W \div B)),
                             pos |-> f[k + 1].pos]) \in S
    BY Zenon
  <2>1. k > n => [value |-> 0, pos |-> k - 1] \in S
    OBVIOUS
  <2>2. k <= n /\ data[k] < B => [value |-> data[k], pos |-> k] \in S
    BY <1>0
  <2>3. f[k + 1].value \in Nat /\ f[k + 1].pos \in Nat
    <3>1. k + 1 \in D
      OBVIOUS
    <3>2. f[k + 1] \in S
      BY <3>1
    <3> QED  BY <3>2
  <2>4. k <= n => (data[k] % B) + B * (f[k + 1].value % (W \div B)) \in 0 .. W - 1
    <3> SUFFICES ASSUME k <= n PROVE (data[k] % B) + B * (f[k + 1].value % (W \div B)) \in 0 .. W - 1
      OBVIOUS
    <3>1. data[k] \in Nat
      BY <1>0
    <3> QED  BY <2>3, <3>1, DigitFits, Zenon
  <2>5. k <= n => [value |-> (data[k] % B) + B * (f[k + 1].value % (W \div B)),
                   pos |-> f[k + 1].pos] \in S
    BY <2>3, <2>4, Zenon
  <2>6. k > n \/ k <= n
    BY <1>0
  <2> QED  BY <2>1, <2>2, <2>5, <2>6, Zenon
<1>3. Descends(D, S, rank, G)
  <2> SUFFICES ASSUME NEW k \in D, NEW g \in [D -> S], NEW h \in [D -> S],
                      Agree(D, rank, g, h, rank[k])
               PROVE  G[<<k, g>>] = G[<<k, h>>]
    <3> HIDE DEF D, S, G, rank
    <3> QED  BY DEF Descends
  <2>1. k <= n => g[k + 1] = h[k + 1]
    <3>1. k <= n => k + 1 \in D /\ rank[k + 1] < rank[k]
      <4> SUFFICES ASSUME k <= n PROVE k + 1 \in D /\ rank[k + 1] < rank[k]
        OBVIOUS
      <4>1. k + 1 \in D
        OBVIOUS
      <4>2. rank[k] = n + 1 - k
        BY <1>0
      <4>3. rank[k + 1] = IF k + 1 > n THEN 0 ELSE n + 1 - (k + 1)
        BY <4>1
      <4>4. n \in Nat /\ k \in Nat
        BY <1>0
      <4>5. rank[k + 1] < rank[k]
        <5> HIDE DEF rank, n, D
        <5>1. CASE k + 1 > n
          BY <4>2, <4>3, <4>4, <5>1
        <5>2. CASE ~(k + 1 > n)
          BY <4>2, <4>3, <4>4, <5>2
        <5> QED  BY <5>1, <5>2
      <4> QED  BY <4>1, <4>5
    <3> HIDE DEF rank
    <3> QED  BY <3>1 DEF Agree
  <2>2. k > n \/ k <= n
    BY <1>0
  <2> HIDE DEF D, S, n
  <2>3. /\ <<k, g>> \in D \X [D -> S] /\ <<k, g>>[1] = k /\ <<k, g>>[2] = g
        /\ <<k, h>> \in D \X [D -> S] /\ <<k, h>>[1] = k /\ <<k, h>>[2] = h
    OBVIOUS
  <2>4. k > n => G[<<k, g>>] = G[<<k, h>>]
    BY <2>3, Zenon
  <2>5. k <= n => G[<<k, g>>] = G[<<k, h>>]
    BY <2>1, <2>3, Zenon
  <2> QED  BY <2>2, <2>4, <2>5
<1>4. S # {}
  <2>1. [value |-> 0, pos |-> 0] \in S
    OBVIOUS
  <2> QED  BY <2>1
<1>5. PICK f \in [D -> S] : Solves(D, G, f)
  <2> HIDE DEF D, S, G, rank
  <2> QED  BY <1>1, <1>2, <1>3, <1>4, Recursion
<1>6. ASSUME NEW k \in D
      PROVE  f[k] = IF k > n THEN [value |-> 0, pos |-> k - 1]
                    ELSE IF data[k] < B THEN [value |-> data[k], pos |-> k]
                    ELSE [value |-> (data[k] % B) + B * (f[k + 1].value % (W \div B)),
                          pos |-> f[k + 1].pos]
  <2>1. f[k] = G[<<k, f>>]
    BY <1>5 DEF Solves
  <2> HIDE DEF D, S, n
  <2>2. <<k, f>> \in D \X [D -> S] /\ <<k, f>>[1] = k /\ <<k, f>>[2] = f
    OBVIOUS
  <2> QED  BY <2>1, <2>2, Zenon
<1>7. VarintsOf(B, W, data, f)
  <2> HIDE DEF S, G, rank
  <2> QED  BY <1>6, Zenon DEF VarintsOf
<1> QED  BY <1>7

-----------------------------------------------------------------------------
(* What every solution of the two equations is like *)

LEMMA BytesOfWordsValues ==
  ASSUME NEW B \in Nat, B >= 2, NEW f, BytesOfWords(B, f), NEW v \in Nat
  PROVE  /\ v > B - 1 => f[v] = <<(v % B) + B>> \o f[v \div B]
         /\ v <= B - 1 => f[v] = <<v>>
<1>1. f[v] = IF v > B - 1 THEN <<(v % B) + B>> \o f[v \div B] ELSE <<v>>
  BY DEF BytesOfWords
<1> QED  BY <1>1

LEMMA BytesOfWordsType ==
  ASSUME NEW B \in Nat, B >= 2, NEW f, BytesOfWords(B, f)
  PROVE  \A v \in Nat : f[v] \in Seq(0 .. 2 * B - 1)
<1> DEFINE S == Seq(0 .. 2 * B - 1)
           T == {v \in Nat : f[v] \in S}
<1>1. ASSUME NEW v \in Nat, \A u \in 0 .. v - 1 : u \in T PROVE v \in T
  <2>1. CASE v > B - 1
    <3>1. v \div B \in 0 .. v - 1 /\ v % B \in 0 .. B - 1
      <4>1. v \div B \in Nat /\ v \div B < v /\ v % B \in 0 .. B - 1
        <5>1. v > 0
          BY <2>1
        <5> QED  BY <5>1, Division
      <4> QED  BY <4>1
    <3>2. f[v \div B] \in S
      BY <1>1, <3>1
    <3>3. (v % B) + B \in 0 .. 2 * B - 1
      BY <3>1
    <3>4. <<(v % B) + B>> \in S
      BY <3>3
    <3>5. <<(v % B) + B>> \o f[v \div B] \in S
      BY <3>2, <3>4, ConcatSeq
    <3> QED  BY <2>1, <3>5, BytesOfWordsValues
  <2>2. CASE v <= B - 1
    <3>1. <<v>> \in S
      BY <2>2
    <3> QED  BY <2>2, <3>1, BytesOfWordsValues
  <2> QED  BY <2>1, <2>2
<1>2. \A v \in Nat : v \in T
  <2> HIDE DEF T
  <2> QED  BY <1>1, StrongInduction
<1> QED  BY <1>2

\* Past the data, at a byte without the high bit, and at a byte with it.
LEMMA VarintsEnd ==
  ASSUME NEW B, NEW W, NEW data, NEW f, VarintsOf(B, W, data, f), NEW k \in Nat \ {0}, k > Len(data)
  PROVE  f[k].value = 0 /\ f[k].pos = k - 1
<1>1. f[k] = [value |-> 0, pos |-> k - 1]
  BY Zenon DEF VarintsOf
<1> QED  BY <1>1

LEMMA VarintsLast ==
  ASSUME NEW B, NEW W, NEW data, NEW f, VarintsOf(B, W, data, f), NEW k \in Nat \ {0},
         ~(k > Len(data)), data[k] < B
  PROVE  f[k].value = data[k] /\ f[k].pos = k
<1>1. f[k] = [value |-> data[k], pos |-> k]
  BY Zenon DEF VarintsOf
<1> QED  BY <1>1

LEMMA VarintsMore ==
  ASSUME NEW B, NEW W, NEW data, NEW f, VarintsOf(B, W, data, f), NEW k \in Nat \ {0},
         ~(k > Len(data)), ~(data[k] < B)
  PROVE  /\ f[k].value = (data[k] % B) + B * (f[k + 1].value % (W \div B))
         /\ f[k].pos = f[k + 1].pos
<1>1. f[k] = [value |-> (data[k] % B) + B * (f[k + 1].value % (W \div B)), pos |-> f[k + 1].pos]
  BY Zenon DEF VarintsOf
<1> QED  BY <1>1

\* The value is a word; reading from inside the data moves on, and not beyond them.
LEMMA VarintsType ==
  ASSUME NEW B \in Nat, B >= 2, NEW W \in Nat, W >= B, NEW data \in Seq(Nat),
         NEW f, VarintsOf(B, W, data, f), NEW k \in 1 .. Len(data)
  PROVE  f[k].value \in 0 .. W - 1 /\ f[k].pos \in k .. Len(data)
<1> DEFINE n == Len(data)
           Good(j) == f[j].value \in 0 .. W - 1 /\ f[j].pos \in j .. n
           T == {i \in Nat : i < n => Good(n - i)}
<1>0. n \in Nat /\ \A j \in 1 .. n : data[j] \in Nat /\ j \in Nat \ {0} /\ ~(j > Len(data))
  OBVIOUS
<1>1. ASSUME NEW j \in 1 .. n, data[j] < B PROVE Good(j)
  <2>1. f[j].value = data[j] /\ f[j].pos = j
    BY <1>0, <1>1, VarintsLast
  <2>2. data[j] \in 0 .. W - 1
    BY <1>0, <1>1
  <2> QED  BY <1>0, <2>1, <2>2
<1>2. ASSUME NEW j \in 1 .. n, ~(data[j] < B), f[j + 1].value \in Nat, f[j + 1].pos \in j .. n PROVE Good(j)
  <2>1. /\ f[j].value = (data[j] % B) + B * (f[j + 1].value % (W \div B))
        /\ f[j].pos = f[j + 1].pos
    BY <1>0, <1>2, VarintsMore
  <2>2. data[j] \in Nat
    BY <1>0
  <2>3. (data[j] % B) + B * (f[j + 1].value % (W \div B)) \in 0 .. W - 1
    BY <1>2, <2>2, DigitFits, Zenon
  <2> QED  BY <1>2, <2>1, <2>3, Zenon
<1>3. 0 \in T
  <2> SUFFICES ASSUME 0 < n PROVE Good(n)
    BY <1>0
  <2>1. n + 1 \in Nat \ {0} /\ n + 1 > Len(data)
    BY <1>0
  <2>2. f[n + 1].value = 0 /\ f[n + 1].pos = (n + 1) - 1
    BY <2>1, VarintsEnd
  <2>3. f[n + 1].value \in Nat /\ f[n + 1].pos \in n .. n /\ n \in 1 .. n
    BY <1>0, <2>2
  <2> HIDE DEF Good, n
  <2> QED  BY <1>1, <1>2, <2>3, Zenon
<1>4. ASSUME NEW i \in Nat, i \in T PROVE i + 1 \in T
  <2> SUFFICES ASSUME i + 1 < n PROVE Good(n - (i + 1))
    OBVIOUS
  <2> DEFINE j == n - (i + 1)
  <2>1. j \in 1 .. n /\ j + 1 = n - i /\ i < n
    BY <1>0
  <2>2. Good(j + 1)
    BY <1>4, <2>1
  <2> HIDE DEF j
  <2>3. f[j + 1].value \in Nat /\ f[j + 1].pos \in j .. n
    <3>1. f[j + 1].value \in 0 .. W - 1 /\ f[j + 1].pos \in (j + 1) .. n
      BY <2>2
    <3> HIDE DEF n
    <3> QED  BY <1>0, <2>1, <3>1
  <2> HIDE DEF Good
  <2>4. Good(j)
    BY <1>1, <1>2, <2>1, <2>3
  <2> QED  BY <2>4 DEF j
<1>5. \A i \in Nat : i \in T
  <2> HIDE DEF T
  <2> QED  BY <1>3, <1>4, Induction
<1>6. n - k \in Nat /\ n - k < n /\ n - (n - k) = k
  BY <1>0
<1>7. Good(k)
  BY <1>5, <1>6
<1> QED  BY <1>7
=============================================================================
