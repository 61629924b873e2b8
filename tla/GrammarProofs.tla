---------------------------- MODULE GrammarProofs ----------------------------
(***************************************************************************)
(* The sentences of the grammar are the words that lead an automaton from  *)
(* its first state to "declarations", and the beginnings of sentences are  *)
(* the words that lead it anywhere.                                        *)
(***************************************************************************)
EXTENDS Grammar, RecursionProofs, TLAPS

-----------------------------------------------------------------------------
(* The parser without its data: an automaton over classes of tokens *)

Classes == Words \cup {"IDENTIFIER", "NUMBER", "END_OF_FILE", "modifier", "primitive"}

States == {"namespace", "namespace_name", "namespace_rest", "declarations",
           "enum_name", "enum_open", "enum_items", "enum_equals", "enum_number", "enum_semicolon",
           "model_name", "model_open", "model_items", "model_type", "model_item", "model_equals",
           "model_number", "model_semicolon"}

\* Where the automaton goes from p at a token of class c.
Edge(p, c, q) ==
  \/ p = "namespace" /\ c = "NAMESPACE" /\ q = "namespace_name"
  \/ p = "namespace_name" /\ c = "IDENTIFIER" /\ q = "namespace_rest"
  \/ p = "namespace_rest" /\ c = "DOT" /\ q = "namespace_name"
  \/ p = "namespace_rest" /\ c = "SEMICOLON" /\ q = "declarations"
  \/ p = "declarations" /\ c = "ENUM" /\ q = "enum_name"
  \/ p = "enum_name" /\ c = "IDENTIFIER" /\ q = "enum_open"
  \/ p = "enum_open" /\ c = "LBRACE" /\ q = "enum_items"
  \/ p = "enum_items" /\ c = "RBRACE" /\ q = "declarations"
  \/ p = "enum_items" /\ c = "IDENTIFIER" /\ q = "enum_equals"
  \/ p = "enum_equals" /\ c = "EQUALS" /\ q = "enum_number"
  \/ p = "enum_number" /\ c = "NUMBER" /\ q = "enum_semicolon"
  \/ p = "enum_semicolon" /\ c = "SEMICOLON" /\ q = "enum_items"
  \/ p = "declarations" /\ c = "MODEL" /\ q = "model_name"
  \/ p = "model_name" /\ c = "IDENTIFIER" /\ q = "model_open"
  \/ p = "model_open" /\ c = "LBRACE" /\ q = "model_items"
  \/ p = "model_items" /\ c = "RBRACE" /\ q = "declarations"
  \/ p \in {"model_items", "model_type"} /\ c = "modifier" /\ q = "model_type"
  \/ p \in {"model_items", "model_type"} /\ c \in {"primitive", "IDENTIFIER"} /\ q = "model_item"
  \/ p = "model_item" /\ c = "IDENTIFIER" /\ q = "model_equals"
  \/ p = "model_equals" /\ c = "EQUALS" /\ q = "model_number"
  \/ p = "model_number" /\ c = "NUMBER" /\ q = "model_semicolon"
  \/ p = "model_semicolon" /\ c = "SEMICOLON" /\ q = "model_items"

LEMMA EdgeType ==
  ASSUME NEW p, NEW c, NEW q, Edge(p, c, q)
  PROVE  p \in States /\ c \in Classes /\ q \in States
  BY Zenon DEF Edge, States, Classes, Words

LEMMA EdgesAgree ==
  ASSUME NEW p, NEW c, NEW q, NEW r, Edge(p, c, q), Edge(p, c, r)
  PROVE  q = r
  BY DEF Edge

\* r are the states the automaton goes through on w.
Through(w, r) ==
  /\ r \in [0 .. Len(w) -> States]
  /\ \A i \in 1 .. Len(w) : Edge(r[i - 1], w[i], r[i])

\* The word w leads from p to q.
Path(p, w, q) == \E r : Through(w, r) /\ r[0] = p /\ r[Len(w)] = q

LEMMA PathNone ==
  ASSUME NEW p \in States
  PROVE  Path(p, <<>>, p)
<1> DEFINE r == [i \in 0 .. 0 |-> p]
<1>1. Through(<<>>, r) /\ r[0] = p /\ r[Len(<<>>)] = p
  BY DEF Through
<1> QED  BY <1>1 DEF Path

LEMMA PathAppend ==
  ASSUME NEW p, NEW w \in Seq(Classes), NEW q, Path(p, w, q), NEW c, NEW s, Edge(q, c, s)
  PROVE  Append(w, c) \in Seq(Classes) /\ Path(p, Append(w, c), s)
<1>1. PICK r : Through(w, r) /\ r[0] = p /\ r[Len(w)] = q
  BY DEF Path
<1>2. c \in Classes /\ s \in States
  BY EdgeType
<1> DEFINE n == Len(w)
           v == Append(w, c)
           t == [i \in 0 .. n + 1 |-> IF i <= n THEN r[i] ELSE s]
<1>3. n \in Nat /\ v \in Seq(Classes) /\ Len(v) = n + 1 /\ v[n + 1] = c /\ \A i \in 1 .. n : v[i] = w[i]
  BY <1>2
<1>4. t \in [0 .. Len(v) -> States]
  BY <1>1, <1>2, <1>3 DEF Through
<1>5. ASSUME NEW i \in 1 .. n + 1 PROVE Edge(t[i - 1], v[i], t[i])
  <2>1. CASE i \in 1 .. n
    <3>1. t[i] = r[i] /\ t[i - 1] = r[i - 1] /\ v[i] = w[i]
      BY <2>1, <1>3
    <3>2. Edge(r[i - 1], w[i], r[i])
      BY <2>1, <1>1 DEF Through
    <3> QED  BY <3>1, <3>2
  <2>2. CASE i = n + 1
    <3>1. t[i] = s /\ t[i - 1] = q /\ v[i] = c
      BY <2>2, <1>1, <1>3
    <3> QED  BY <3>1
  <2> QED  BY <2>1, <2>2, <1>3
<1>6. t[0] = p /\ t[Len(v)] = s
  BY <1>1, <1>3
<1> HIDE DEF t
<1> QED  BY <1>3, <1>4, <1>5, <1>6, Zenon DEF Path, Through

LEMMA PathLast ==
  ASSUME NEW p, NEW w \in Seq(Classes), NEW c \in Classes, NEW q, Path(p, Append(w, c), q)
  PROVE  \E s : Path(p, w, s) /\ Edge(s, c, q)
<1> DEFINE n == Len(w)
           v == Append(w, c)
<1>1. n \in Nat /\ Len(v) = n + 1 /\ v[n + 1] = c /\ \A i \in 1 .. n : v[i] = w[i]
  OBVIOUS
<1>2. PICK r : Through(v, r) /\ r[0] = p /\ r[n + 1] = q
  BY <1>1 DEF Path
<1> HIDE DEF v
<1> DEFINE t == [i \in 0 .. n |-> r[i]]
<1>3. r \in [0 .. n + 1 -> States] /\ \A i \in 1 .. n + 1 : Edge(r[i - 1], v[i], r[i])
  BY <1>1, <1>2 DEF Through
<1>4. t \in [0 .. n -> States] /\ t[0] = p
  BY <1>1, <1>2, <1>3
<1>5. \A i \in 1 .. n : Edge(t[i - 1], w[i], t[i])
  <2> SUFFICES ASSUME NEW i \in 1 .. n PROVE Edge(t[i - 1], w[i], t[i])
    OBVIOUS
  <2>1. t[i] = r[i] /\ t[i - 1] = r[i - 1] /\ v[i] = w[i] /\ i \in 1 .. n + 1
    BY <1>1
  <2> QED  BY <1>3, <2>1
<1>6. Path(p, w, r[n])
  <2>1. t[n] = r[n]
    BY <1>1
  <2> HIDE DEF t
  <2> QED  BY <1>4, <1>5, <2>1 DEF Path, Through
<1>7. Edge(r[n], c, q)
  <2>1. n + 1 \in 1 .. n + 1 /\ (n + 1) - 1 = n
    BY <1>1
  <2>2. Edge(r[(n + 1) - 1], v[n + 1], r[n + 1])
    BY <1>3, <2>1
  <2> QED  BY <1>1, <1>2, <2>1, <2>2
<1> QED  BY <1>6, <1>7

LEMMA PathConcat ==
  ASSUME NEW p, NEW q, NEW s, NEW a \in Seq(Classes), NEW b \in Seq(Classes),
         Path(p, a, q), Path(q, b, s)
  PROVE  Path(p, a \o b, s)
<1>1. PICK r : Through(a, r) /\ r[0] = p /\ r[Len(a)] = q
  BY DEF Path
<1>2. PICK t : Through(b, t) /\ t[0] = q /\ t[Len(b)] = s
  BY DEF Path
<1> DEFINE n == Len(a)
           w == a \o b
           u == [i \in 0 .. n + Len(b) |-> IF i <= n THEN r[i] ELSE t[i - n]]
<1>3. /\ n \in Nat /\ Len(b) \in Nat /\ Len(w) = n + Len(b)
      /\ \A i \in 1 .. n : w[i] = a[i]
      /\ \A i \in n + 1 .. n + Len(b) : w[i] = b[i - n]
  OBVIOUS
<1>4. u \in [0 .. Len(w) -> States]
  BY <1>1, <1>2, <1>3 DEF Through
<1>7. ASSUME NEW j \in n .. n + Len(b) PROVE u[j] = t[j - n]
  <2>1. CASE j = n
    <3>1. u[j] = r[n] /\ j - n = 0
      BY <1>3, <2>1
    <3> QED  BY <1>1, <1>2, <3>1
  <2>2. CASE j # n
    BY <1>3, <2>2
  <2> QED  BY <2>1, <2>2
<1>5. ASSUME NEW i \in 1 .. n + Len(b) PROVE Edge(u[i - 1], w[i], u[i])
  <2>1. CASE i \in 1 .. n
    <3>1. u[i] = r[i] /\ u[i - 1] = r[i - 1] /\ w[i] = a[i]
      BY <2>1, <1>3
    <3>2. Edge(r[i - 1], a[i], r[i])
      BY <2>1, <1>1 DEF Through
    <3> QED  BY <3>1, <3>2
  <2>2. CASE i \in n + 1 .. n + Len(b)
    <3>1. u[i] = t[i - n] /\ u[i - 1] = t[(i - n) - 1] /\ w[i] = b[i - n]
      <4>1. i \in n .. n + Len(b) /\ i - 1 \in n .. n + Len(b) /\ (i - 1) - n = (i - n) - 1
        BY <2>2, <1>3
      <4>2. u[i] = t[i - n] /\ u[i - 1] = t[(i - 1) - n]
        BY <4>1, <1>7, Zenon
      <4> QED  BY <4>1, <4>2, <2>2, <1>3
    <3>2. i - n \in 1 .. Len(b)
      BY <2>2, <1>3
    <3>3. Edge(t[(i - n) - 1], b[i - n], t[i - n])
      BY <3>2, <1>2 DEF Through
    <3> QED  BY <3>1, <3>3
  <2> QED  BY <2>1, <2>2, <1>3
<1>6. u[0] = p /\ u[Len(w)] = s
  <2>1. u[0] = r[0]
    BY <1>3
  <2>2. u[n + Len(b)] = t[(n + Len(b)) - n] /\ (n + Len(b)) - n = Len(b)
    <3>1. n + Len(b) \in n .. n + Len(b) /\ (n + Len(b)) - n = Len(b)
      BY <1>3
    <3> HIDE DEF u, n
    <3> QED  BY <1>7, <3>1
  <2> QED  BY <1>1, <1>2, <1>3, <2>1, <2>2
<1> HIDE DEF u, w
<1> QED
  <2>1. Path(p, w, s)
    BY <1>3, <1>4, <1>5, <1>6, Zenon DEF Path, Through
  <2> QED  BY <2>1 DEF w

LEMMA PathPrefix ==
  ASSUME NEW p, NEW w \in Seq(Classes), NEW q, Path(p, w, q), NEW k \in 0 .. Len(w)
  PROVE  \E s : Path(p, SubSeq(w, 1, k), s)
<1>1. PICK r : Through(w, r) /\ r[0] = p
  BY DEF Path
<1> DEFINE v == SubSeq(w, 1, k)
           t == [i \in 0 .. k |-> r[i]]
<1>2. Len(v) = k /\ k \in Nat /\ \A i \in 1 .. k : v[i] = w[i]
  OBVIOUS
<1>3. t \in [0 .. k -> States] /\ t[0] = p
  BY <1>1 DEF Through
<1>4. ASSUME NEW i \in 1 .. k PROVE Edge(t[i - 1], v[i], t[i])
  <2>1. t[i] = r[i] /\ t[i - 1] = r[i - 1] /\ v[i] = w[i] /\ i \in 1 .. Len(w)
    BY <1>2
  <2> QED  BY <1>1, <2>1 DEF Through
<1> HIDE DEF t, v
<1>5. Path(p, v, t[k])
  BY <1>2, <1>3, <1>4, SMTT(20) DEF Path, Through
<1> QED  BY <1>5 DEF v

\* A word leads to one state only.
LEMMA PathsAgree ==
  ASSUME NEW p, NEW w, Len(w) \in Nat, NEW q, NEW s, Path(p, w, q), Path(p, w, s)
  PROVE  q = s
<1>1. PICK r : Through(w, r) /\ r[0] = p /\ r[Len(w)] = q
  BY DEF Path
<1>2. PICK t : Through(w, t) /\ t[0] = p /\ t[Len(w)] = s
  BY DEF Path
<1> DEFINE T == {n \in Nat : n <= Len(w) => r[n] = t[n]}
<1>3. 0 \in T
  BY <1>1, <1>2
<1>4. ASSUME NEW n \in Nat, n \in T PROVE n + 1 \in T
  <2> SUFFICES ASSUME n + 1 <= Len(w) PROVE r[n + 1] = t[n + 1]
    OBVIOUS
  <2>1. n + 1 \in 1 .. Len(w) /\ (n + 1) - 1 = n /\ r[n] = t[n]
    BY <1>4
  <2>2. Edge(r[(n + 1) - 1], w[n + 1], r[n + 1]) /\ Edge(t[(n + 1) - 1], w[n + 1], t[n + 1])
    BY <1>1, <1>2, <2>1 DEF Through
  <2> QED  BY <2>1, <2>2, EdgesAgree
<1>5. Len(w) \in T
  <2> HIDE DEF T
  <2> QED  BY <1>3, <1>4, Induction
<1> QED  BY <1>1, <1>2, <1>5
-----------------------------------------------------------------------------
(* Repetition *)

LEMMA MaxSentenceType == MaxSentence \in Nat /\ MaxTokens <= MaxSentence
  BY LengthAssumption DEF MaxSentence

\* The words of length n that begin with a word of A and go on as f says.
LongStep(A, f, n) ==
  IF n = 0 THEN {<<>>}
  ELSE UNION {{a \o s : s \in f[n - Len(a)]} : a \in {x \in A : Len(x) <= n}}

\* w is a word of A with one of f behind it, n classes long together.
Begins(A, f, n, w) == \E a \in A : Len(a) <= n /\ \E s \in f[n - Len(a)] : w = a \o s

LEMMA LongStepWords ==
  ASSUME NEW A, NEW f, NEW n, n # 0, NEW w
  PROVE  w \in LongStep(A, f, n) <=> Begins(A, f, n, w)
<1> DEFINE Behind(a) == {a \o s : s \in f[n - Len(a)]}
           B == {x \in A : Len(x) <= n}
<1>1. LongStep(A, f, n) = UNION {Behind(a) : a \in B}
  BY DEF LongStep
<1>2. \A a : w \in Behind(a) <=> \E s \in f[n - Len(a)] : w = a \o s
  OBVIOUS
<1>3. w \in UNION {Behind(a) : a \in B} <=> \E a \in B : w \in Behind(a)
  <2> HIDE DEF Behind, B
  <2> QED  OBVIOUS
<1> HIDE DEF Behind
<1> QED  BY <1>1, <1>2, <1>3, Zenon DEF Begins

\* f holds the repetitions of the words of A by their length.
Long(A, f) == f = [n \in 0 .. MaxSentence |-> LongStep(A, f, n)]

\* Words that are not empty.
Texts == {w \in Seq(Classes) : Len(w) > 0}

LEMMA LongExists ==
  ASSUME NEW A \in SUBSET Texts
  PROVE  \E f : Long(A, f)
<1> DEFINE D == 0 .. MaxSentence
           S == SUBSET Seq(Classes)
           rank == [n \in D |-> n]
           G == [p \in D \X [D -> S] |-> LongStep(A, p[2], p[1])]
<1>1. rank \in [D -> Nat] /\ \A n \in D : rank[n] = n
  BY MaxSentenceType
<1>2. ASSUME NEW n \in D, NEW f \in [D -> S] PROVE LongStep(A, f, n) \in S
  <2>1. CASE n = 0
    BY <2>1 DEF LongStep
  <2>2. CASE n # 0
    <3> SUFFICES ASSUME NEW w, w \in LongStep(A, f, n) PROVE w \in Seq(Classes)
      OBVIOUS
    <3>0. Begins(A, f, n, w)
      BY <2>2, LongStepWords
    <3>1. PICK a \in A : Len(a) <= n /\ \E s \in f[n - Len(a)] : w = a \o s
      BY <3>0, Zenon DEF Begins
    <3>2. n - Len(a) \in D /\ a \in Seq(Classes)
      BY <3>1, MaxSentenceType DEF Texts
    <3>3. PICK s \in f[n - Len(a)] : w = a \o s
      BY <3>1
    <3>4. s \in Seq(Classes)
      BY <3>2
    <3> QED  BY <3>2, <3>3, <3>4, ConcatSeq
  <2> QED  BY <2>1, <2>2
<1>3. G \in [D \X [D -> S] -> S]
  <2> HIDE DEF D, S
  <2> QED  BY <1>2
<1>4. ASSUME NEW n \in D, NEW g \in [D -> S], NEW h \in [D -> S], Agree(D, rank, g, h, n)
      PROVE  LongStep(A, g, n) = LongStep(A, h, n)
  <2>1. ASSUME NEW a \in A, Len(a) <= n PROVE g[n - Len(a)] = h[n - Len(a)]
    <3>1. n - Len(a) \in D /\ n - Len(a) < n
      BY <2>1, MaxSentenceType DEF Texts
    <3> DEFINE m == n - Len(a)
    <3> HIDE DEF m, D, S, rank
    <3>2. rank[m] < n
      BY <1>1, <3>1 DEF m
    <3>3. g[m] = h[m]
      BY <1>4, <3>1, <3>2 DEF Agree, m
    <3> QED  BY <3>3 DEF m
  <2>2. CASE n = 0
    BY <2>2 DEF LongStep
  <2>3. CASE n # 0
    <3>1. \A w : w \in LongStep(A, g, n) <=> w \in LongStep(A, h, n)
      <4> HIDE DEF D, S, rank
      <4>1. \A w : Begins(A, g, n, w) <=> Begins(A, h, n, w)
        BY <2>1, Zenon DEF Begins
      <4> QED  BY <2>3, <4>1, LongStepWords
    <3> QED  BY <3>1, Zenon
  <2> QED  BY <2>2, <2>3
<1>5. Descends(D, S, rank, G)
  <2>1. \A n \in D, f \in [D -> S] : G[<<n, f>>] = LongStep(A, f, n)
    <3> HIDE DEF D, S
    <3> QED  OBVIOUS
  <2> HIDE DEF D, S, G, rank
  <2> QED  BY <1>1, <1>4, <2>1 DEF Descends
<1>6. PICK f \in [D -> S] : Solves(D, G, f)
  <2>1. S # {}
    OBVIOUS
  <2> HIDE DEF D, S, G, rank
  <2> QED  BY <1>1, <1>3, <1>5, <2>1, Recursion, Zenon
<1>7. f = [n \in D |-> LongStep(A, f, n)]
  <2> HIDE DEF D, S
  <2>1. \A n \in D : f[n] = LongStep(A, f, n)
    BY <1>6, Zenon DEF Solves
  <2> QED  BY <2>1
<1> QED  BY <1>7 DEF Long

LEMMA LongValues ==
  ASSUME NEW A, NEW f, Long(A, f)
  PROVE  /\ f[0] = {<<>>}
         /\ \A n \in 1 .. MaxSentence : \A w :
              w \in f[n] <=> Begins(A, f, n, w)
<1>1. \A n \in 0 .. MaxSentence : f[n] = LongStep(A, f, n)
  BY Zenon DEF Long
<1>2. f[0] = {<<>>}
  <2>1. 0 \in 0 .. MaxSentence
    BY MaxSentenceType
  <2> QED  BY <1>1, <2>1, Zenon DEF LongStep
<1>3. ASSUME NEW n \in 1 .. MaxSentence, NEW w
      PROVE  w \in f[n] <=> Begins(A, f, n, w)
  <2>1. n \in 0 .. MaxSentence /\ n # 0
    BY MaxSentenceType
  <2> QED  BY <1>1, <2>1, LongStepWords
<1> QED  BY <1>2, <1>3

\* The repetitions are those of some length.
Repeats(A, f) ==
  /\ Long(A, f)
  /\ \A w : w \in Star(A) <=> \E n \in 0 .. MaxSentence : w \in f[n]
  /\ \A n \in 0 .. MaxSentence : \A w \in f[n] : w \in Seq(Classes) /\ Len(w) = n

LEMMA StarRepeats ==
  ASSUME NEW A \in SUBSET Texts
  PROVE  \E f : Repeats(A, f)
<1> DEFINE f == CHOOSE g : Long(A, g)
<1>1. Long(A, f)
  BY LongExists
<1>2. Star(A) = UNION {f[n] : n \in 0 .. MaxSentence}
  BY Zenon DEF Star, Long, LongStep
<1> HIDE DEF f
<1>3. \A w : w \in Star(A) <=> \E n \in 0 .. MaxSentence : w \in f[n]
  BY <1>2
<1> DEFINE T == {n \in Nat : n <= MaxSentence => \A w \in f[n] : w \in Seq(Classes) /\ Len(w) = n}
<1>4. ASSUME NEW n \in Nat, \A m \in Nat : m < n => m \in T PROVE n \in T
  <2> SUFFICES ASSUME n <= MaxSentence, NEW w \in f[n] PROVE w \in Seq(Classes) /\ Len(w) = n
    OBVIOUS
  <2>1. CASE n = 0
    <3>1. w = <<>>
      BY <1>1, <2>1, LongValues
    <3> QED  BY <2>1, <3>1
  <2>2. CASE n # 0
    <3>0. Begins(A, f, n, w)
      BY <1>1, <2>2, LongValues, MaxSentenceType
    <3>1. PICK a \in A : Len(a) <= n /\ \E s \in f[n - Len(a)] : w = a \o s
      BY <3>0, Zenon DEF Begins
    <3>2. PICK s \in f[n - Len(a)] : w = a \o s
      BY <3>1
    <3>3. n - Len(a) \in Nat /\ n - Len(a) < n /\ n - Len(a) <= MaxSentence /\ a \in Seq(Classes)
      BY <3>1, MaxSentenceType DEF Texts
    <3>4. s \in Seq(Classes) /\ Len(s) = n - Len(a)
      BY <1>4, <3>2, <3>3
    <3>5. a \o s \in Seq(Classes) /\ Len(a \o s) = Len(a) + Len(s)
      BY <3>3, <3>4, ConcatSeq
    <3> QED  BY <3>2, <3>3, <3>4, <3>5
  <2> QED  BY <2>1, <2>2
<1>5. \A n \in 0 .. MaxSentence : \A w \in f[n] : w \in Seq(Classes) /\ Len(w) = n
  <2>1. \A n \in Nat : n \in T
    <3> HIDE DEF T
    <3> QED  BY <1>4, StrongInduction
  <2> QED  BY <2>1, MaxSentenceType
<1> QED  BY <1>1, <1>3, <1>5 DEF Repeats

LEMMA StarWords ==
  ASSUME NEW A \in SUBSET Texts
  PROVE  /\ <<>> \in Star(A)
         /\ \A w \in Star(A) : w \in Seq(Classes) /\ Len(w) <= MaxSentence
<1>1. PICK f : Repeats(A, f)
  BY StarRepeats
<1>2. <<>> \in Star(A)
  <2>1. <<>> \in f[0] /\ 0 \in 0 .. MaxSentence
    BY <1>1, LongValues, MaxSentenceType DEF Repeats
  <2> QED  BY <1>1, <2>1 DEF Repeats
<1>3. ASSUME NEW w \in Star(A) PROVE w \in Seq(Classes) /\ Len(w) <= MaxSentence
  <2>1. PICK n \in 0 .. MaxSentence : w \in f[n]
    BY <1>1 DEF Repeats
  <2>2. w \in Seq(Classes) /\ Len(w) = n
    BY <1>1, <2>1 DEF Repeats
  <2> QED  BY <2>2, MaxSentenceType
<1> QED  BY <1>2, <1>3

\* One more word may also come last.
LEMMA StarAppend ==
  ASSUME NEW A \in SUBSET Texts, NEW w \in Star(A), NEW a \in A, Len(w) + Len(a) <= MaxSentence
  PROVE  w \o a \in Star(A)
<1>1. PICK f : Repeats(A, f)
  BY StarRepeats
<1>0. Len(a) \in Nat /\ Len(a) > 0 /\ a \in Seq(Classes)
  BY DEF Texts
<1> DEFINE T == {n \in Nat : n + Len(a) <= MaxSentence => \A v \in f[n] : v \o a \in f[n + Len(a)]}
<1>2. ASSUME NEW n \in Nat, \A m \in Nat : m < n => m \in T PROVE n \in T
  <2> SUFFICES ASSUME n + Len(a) <= MaxSentence, NEW v \in f[n] PROVE v \o a \in f[n + Len(a)]
    OBVIOUS
  <2> DEFINE k == n + Len(a)
  <2>1. k \in 1 .. MaxSentence
    BY <1>0, MaxSentenceType
  <2>2. Long(A, f)
    BY <1>1 DEF Repeats
  <2>3. \A u : Begins(A, f, k, u) => u \in f[k]
    <3> HIDE DEF k
    <3> QED  BY <2>1, <2>2, LongValues
  <2>4. CASE n = 0
    <3>1. v = <<>> /\ <<>> \in f[0]
      BY <2>2, <2>4, LongValues
    <3>2. v \o a = a /\ a = a \o <<>> /\ k - Len(a) = 0 /\ Len(a) <= k
      BY <1>0, <2>4, <3>1
    <3>3. Begins(A, f, k, a)
      <4> HIDE DEF k
      <4> QED  BY <3>1, <3>2, Zenon DEF Begins
    <3> QED  BY <2>3, <3>2, <3>3
  <2>5. CASE n # 0
    <3>0. Begins(A, f, n, v)
      BY <2>2, <2>5, <1>0, LongValues, MaxSentenceType
    <3>1. PICK b \in A : Len(b) <= n /\ \E s \in f[n - Len(b)] : v = b \o s
      BY <3>0, Zenon DEF Begins
    <3>2. PICK s \in f[n - Len(b)] : v = b \o s
      BY <3>1, SMTT(20)
    <3> DEFINE m == n - Len(b)
    <3>3. m \in Nat /\ m < n /\ m + Len(a) <= MaxSentence /\ m \in 0 .. MaxSentence /\ b \in Seq(Classes)
      BY <1>0, <3>1, MaxSentenceType DEF Texts
    <3>4. m + Len(a) = k - Len(b) /\ Len(b) <= k
      BY <1>0, <3>1, <3>3 DEF Texts
    <3> HIDE DEF m, k
    <3>5. s \in f[m]
      BY <3>2 DEF m
    <3>6. s \o a \in f[m + Len(a)]
      BY <1>2, <3>3, <3>5
    <3>7. s \in Seq(Classes)
      BY <1>1, <3>3, <3>5 DEF Repeats
    <3>8. v \o a = b \o (s \o a)
      <4>1. (b \o s) \o a = b \o (s \o a)
        <5>1. a \in Seq(Classes) /\ b \in Seq(Classes) /\ s \in Seq(Classes)
          BY <1>0, <3>3, <3>7
        <5> QED  BY <5>1, SMTT(20)
      <4> QED  BY <3>2, <4>1
    <3>9. Begins(A, f, k, b \o (s \o a))
      BY <3>4, <3>6, Zenon DEF Begins
    <3> QED  BY <2>3, <3>8, <3>9 DEF k
  <2> QED  BY <2>4, <2>5
<1>3. \A n \in Nat : n \in T
  <2> HIDE DEF T
  <2> QED  BY <1>2, StrongInduction
<1>4. PICK n \in 0 .. MaxSentence : w \in f[n]
  BY <1>1 DEF Repeats
<1>5. Len(w) = n /\ n \in Nat
  BY <1>1, <1>4, MaxSentenceType DEF Repeats
<1>6. w \o a \in f[n + Len(a)]
  BY <1>3, <1>4, <1>5
<1>7. n + Len(a) \in 0 .. MaxSentence
  BY <1>0, <1>5, MaxSentenceType
<1> QED  BY <1>1, <1>6, <1>7 DEF Repeats

\* Words that lead from a state back to it do so when they are repeated.
LEMMA StarPath ==
  ASSUME NEW A \in SUBSET Texts, NEW p \in States, \A a \in A : Path(p, a, p)
  PROVE  \A w \in Star(A) : Path(p, w, p)
<1>1. PICK f : Repeats(A, f)
  BY StarRepeats
<1> DEFINE T == {n \in Nat : n <= MaxSentence => \A v \in f[n] : Path(p, v, p)}
<1>2. ASSUME NEW n \in Nat, \A m \in Nat : m < n => m \in T PROVE n \in T
  <2> SUFFICES ASSUME n <= MaxSentence, NEW v \in f[n] PROVE Path(p, v, p)
    OBVIOUS
  <2>2. Long(A, f)
    BY <1>1 DEF Repeats
  <2>4. CASE n = 0
    <3>1. v = <<>>
      BY <2>2, <2>4, LongValues
    <3> QED  BY <3>1, PathNone
  <2>5. CASE n # 0
    <3>0. Begins(A, f, n, v)
      BY <2>2, <2>5, LongValues, MaxSentenceType
    <3>1. PICK b \in A : Len(b) <= n /\ \E s \in f[n - Len(b)] : v = b \o s
      BY <3>0, Zenon DEF Begins
    <3>2. PICK s \in f[n - Len(b)] : v = b \o s
      BY <3>1
    <3> DEFINE m == n - Len(b)
    <3>3. m \in Nat /\ m < n /\ m \in 0 .. MaxSentence /\ b \in Seq(Classes)
      BY <3>1, MaxSentenceType DEF Texts
    <3> HIDE DEF m
    <3>5. s \in f[m]
      BY <3>2 DEF m
    <3>6. Path(p, s, p)
      BY <1>2, <3>3, <3>5
    <3>7. s \in Seq(Classes)
      BY <1>1, <3>3, <3>5 DEF Repeats
    <3> QED  BY <3>2, <3>3, <3>6, <3>7, PathConcat
  <2> QED  BY <2>4, <2>5
<1>3. \A n \in Nat : n \in T
  <2> HIDE DEF T
  <2> QED  BY <1>2, StrongInduction
<1>4. ASSUME NEW w \in Star(A) PROVE Path(p, w, p)
  <2>1. PICK n \in 0 .. MaxSentence : w \in f[n]
    BY <1>1 DEF Repeats
  <2> QED  BY <1>3, <2>1, MaxSentenceType
<1> QED  BY <1>4

-----------------------------------------------------------------------------
(* Concatenation of sets of words *)

LEMMA CatHas ==
  ASSUME NEW A, NEW B, NEW a \in A, NEW b \in B, Len(a \o b) <= MaxSentence
  PROVE  a \o b \in Cat(A, B)
  BY DEF Cat

\* A word of A and one of B make up w.
MadeOf(A, B, w) == \E a \in A, b \in B : w = a \o b

LEMMA CatSplit ==
  ASSUME NEW A, NEW B, NEW w \in Cat(A, B)
  PROVE  MadeOf(A, B, w)
  BY DEF Cat, MadeOf

LEMMA CatWords ==
  ASSUME NEW A \in SUBSET Seq(Classes), NEW B \in SUBSET Seq(Classes)
  PROVE  Cat(A, B) \in SUBSET Seq(Classes)
<1> SUFFICES ASSUME NEW w \in Cat(A, B) PROVE w \in Seq(Classes)
  OBVIOUS
<1>1. PICK a \in A, b \in B : w = a \o b
  BY CatSplit DEF MadeOf
<1>2. a \in Seq(Classes) /\ b \in Seq(Classes)
  OBVIOUS
<1>3. a \o b \in Seq(Classes)
  BY <1>2
<1> QED  BY <1>1, <1>3

LEMMA CatTexts ==
  ASSUME NEW A \in SUBSET Seq(Classes), NEW B \in SUBSET Texts
  PROVE  Cat(A, B) \in SUBSET Texts
<1> SUFFICES ASSUME NEW w \in Cat(A, B) PROVE w \in Texts
  OBVIOUS
<1>1. PICK a \in A, b \in B : w = a \o b
  BY CatSplit DEF MadeOf
<1>2. a \in Seq(Classes) /\ b \in Seq(Classes) /\ Len(b) > 0
  BY DEF Texts
<1>3. a \o b \in Seq(Classes) /\ Len(a \o b) = Len(a) + Len(b)
  BY <1>2, ConcatSeq
<1>4. Len(a) \in Nat /\ Len(b) \in Nat
  BY <1>2
<1> QED  BY <1>1, <1>2, <1>3, <1>4 DEF Texts

LEMMA CatPath ==
  ASSUME NEW A \in SUBSET Seq(Classes), NEW B \in SUBSET Seq(Classes), NEW p, NEW q, NEW s,
         \A a \in A : Path(p, a, q), \A b \in B : Path(q, b, s)
  PROVE  \A w \in Cat(A, B) : Path(p, w, s)
<1> SUFFICES ASSUME NEW w \in Cat(A, B) PROVE Path(p, w, s)
  OBVIOUS
<1>1. PICK a \in A, b \in B : w = a \o b
  BY CatSplit DEF MadeOf
<1>2. a \in Seq(Classes) /\ b \in Seq(Classes) /\ Path(p, a, q) /\ Path(q, b, s)
  OBVIOUS
<1>3. Path(p, a \o b, s)
  BY <1>2, PathConcat
<1> QED  BY <1>1, <1>3

-----------------------------------------------------------------------------
(* Words of a few classes *)

LEMMA PathOne ==
  ASSUME NEW p, NEW q, NEW c, Edge(p, c, q)
  PROVE  <<c>> \in Texts /\ Path(p, <<c>>, q)
<1>1. <<>> \in Seq(Classes) /\ Append(<<>>, c) = <<c>> /\ Len(<<c>>) = 1
  OBVIOUS
<1>2. Path(p, <<>>, p)
  BY EdgeType, PathNone
<1>3. Append(<<>>, c) \in Seq(Classes) /\ Path(p, Append(<<>>, c), q)
  BY <1>1, <1>2, PathAppend, Zenon
<1> QED  BY <1>1, <1>3 DEF Texts

LEMMA PathTwo ==
  ASSUME NEW p, NEW q, NEW s, NEW c, NEW d, Edge(p, c, q), Edge(q, d, s)
  PROVE  <<c>> \o <<d>> \in Texts /\ Path(p, <<c>> \o <<d>>, s)
<1>1. <<c>> \in Seq(Classes) /\ Path(p, <<c>>, q) /\ <<d>> \in Seq(Classes) /\ Path(q, <<d>>, s)
  BY PathOne DEF Texts
<1>2. <<c>> \o <<d>> \in Seq(Classes) /\ Len(<<c>> \o <<d>>) > 0
  BY <1>1
<1>3. Path(p, <<c>> \o <<d>>, s)
  BY <1>1, PathConcat
<1> QED  BY <1>2, <1>3 DEF Texts

LEMMA PathThree ==
  ASSUME NEW p, NEW q, NEW s, NEW t, NEW c, NEW d, NEW e, Edge(p, c, q), Edge(q, d, s), Edge(s, e, t)
  PROVE  <<c>> \o <<d>> \o <<e>> \in Texts /\ Path(p, <<c>> \o <<d>> \o <<e>>, t)
<1> DEFINE v == <<c>> \o <<d>>
<1>1. v \in Seq(Classes) /\ Path(p, v, s) /\ <<e>> \in Seq(Classes) /\ Len(<<e>>) = 1 /\ Path(s, <<e>>, t)
  BY PathOne, PathTwo DEF Texts
<1> HIDE DEF v
<1>2. v \o <<e>> \in Seq(Classes) /\ Len(v \o <<e>>) > 0
  BY <1>1
<1>3. Path(p, v \o <<e>>, t)
  BY <1>1, PathConcat, Zenon
<1> QED  BY <1>2, <1>3 DEF Texts, v

LEMMA SettingTexts ==
  /\ Setting \in SUBSET Texts
  /\ \A w \in Setting : Path("enum_items", w, "enum_items") /\ Path("model_item", w, "model_items")
<1> DEFINE v == Name \o <<"EQUALS">> \o <<"NUMBER">>
           w == v \o <<"SEMICOLON">>
<1>1. v \in Seq(Classes) /\ Path("enum_items", v, "enum_semicolon") /\ Path("model_item", v, "model_semicolon")
  <2>1. /\ Edge("enum_items", "IDENTIFIER", "enum_equals") /\ Edge("enum_equals", "EQUALS", "enum_number")
        /\ Edge("enum_number", "NUMBER", "enum_semicolon")
    BY DEF Edge
  <2>2. /\ Edge("model_item", "IDENTIFIER", "model_equals") /\ Edge("model_equals", "EQUALS", "model_number")
        /\ Edge("model_number", "NUMBER", "model_semicolon")
    BY DEF Edge
  <2> QED  BY <2>1, <2>2, PathThree DEF Texts, Name
<1>2. Edge("enum_semicolon", "SEMICOLON", "enum_items") /\ Edge("model_semicolon", "SEMICOLON", "model_items")
  BY DEF Edge
<1>3. /\ <<"SEMICOLON">> \in Seq(Classes) /\ Len(<<"SEMICOLON">>) = 1
      /\ Path("enum_semicolon", <<"SEMICOLON">>, "enum_items")
      /\ Path("model_semicolon", <<"SEMICOLON">>, "model_items")
  BY <1>2, PathOne DEF Texts
<1>4. Setting = {w}
  BY DEF Setting
<1> HIDE DEF v
<1>5. Path("enum_items", w, "enum_items") /\ Path("model_item", w, "model_items")
  BY <1>1, <1>3, PathConcat, Zenon
<1>6. w \in Texts
  BY <1>1, <1>3 DEF Texts
<1> HIDE DEF w
<1> QED  BY <1>4, <1>5, <1>6

\* A repetition is empty or begins with a word.
LEMMA StarSplit ==
  ASSUME NEW A \in SUBSET Texts, NEW w \in Star(A), w # <<>>
  PROVE  \E a \in A, s \in Star(A) : w = a \o s
<1>1. PICK f : Repeats(A, f)
  BY StarRepeats, Zenon
<1>2. PICK n \in 0 .. MaxSentence : w \in f[n]
  BY <1>1 DEF Repeats
<1>3. Long(A, f)
  BY <1>1 DEF Repeats
<1>4. n # 0
  BY <1>2, <1>3, LongValues
<1>5. Begins(A, f, n, w)
  BY <1>2, <1>3, <1>4, LongValues, MaxSentenceType
<1>6. PICK a \in A : Len(a) <= n /\ \E s \in f[n - Len(a)] : w = a \o s
  BY <1>5, Zenon DEF Begins
<1>7. PICK s \in f[n - Len(a)] : w = a \o s
  BY <1>6
<1>8. n - Len(a) \in 0 .. MaxSentence
  BY <1>6, MaxSentenceType DEF Texts
<1>9. s \in Star(A)
  BY <1>1, <1>7, <1>8 DEF Repeats
<1> QED  BY <1>7, <1>9, Zenon

LEMMA FieldTexts ==
  /\ FieldText \in SUBSET Texts
  /\ {<<"modifier">>} \in SUBSET Texts
  /\ {<<"primitive">>, Name} \in SUBSET Texts
  /\ \A w \in FieldText : Path("model_items", w, "model_items")
<1> DEFINE M == {<<"modifier">>}
           P == {<<"primitive">>, Name}
           R == Cat(P, Setting)
<1>1. M \in SUBSET Texts /\ \A w \in M : Path("model_type", w, "model_type") /\ Path("model_items", w, "model_type")
  <2>1. Edge("model_type", "modifier", "model_type") /\ Edge("model_items", "modifier", "model_type")
    BY DEF Edge
  <2> QED  BY <2>1, PathOne
<1>2. P \in SUBSET Texts /\ \A w \in P : Path("model_type", w, "model_item") /\ Path("model_items", w, "model_item")
  <2>1. /\ Edge("model_type", "primitive", "model_item") /\ Edge("model_items", "primitive", "model_item")
        /\ Edge("model_type", "IDENTIFIER", "model_item") /\ Edge("model_items", "IDENTIFIER", "model_item")
    BY DEF Edge
  <2> QED  BY <2>1, PathOne DEF Name
<1> HIDE DEF M, P
<1>3. Texts \in SUBSET Seq(Classes)
  BY DEF Texts
<1>4. /\ R \in SUBSET Texts
      /\ \A w \in R : Path("model_type", w, "model_items") /\ Path("model_items", w, "model_items")
  BY <1>2, <1>3, SettingTexts, CatTexts, CatPath, Zenon
<1> HIDE DEF R
<1>5. Star(M) \in SUBSET Seq(Classes)
  BY <1>1, StarWords
<1>6. FieldText \in SUBSET Texts
  <2>1. Cat(Star(M), R) \in SUBSET Texts
    BY <1>4, <1>5, CatTexts
  <2> QED  BY <2>1 DEF FieldText, M, P, R
<1>7. ASSUME NEW w \in Cat(Star(M), R) PROVE Path("model_items", w, "model_items")
  <2>1. PICK m \in Star(M), r \in R : w = m \o r
    BY CatSplit DEF MadeOf
  <2>2. m \in Seq(Classes) /\ r \in Seq(Classes)
    BY <1>3, <1>4, <1>5
  <2>3. CASE m = <<>>
    <3>1. w = r
      BY <2>1, <2>2, <2>3
    <3> QED  BY <1>4, <3>1
  <2>4. CASE m # <<>>
    <3>1. PICK a \in M, s \in Star(M) : m = a \o s
      BY <1>1, <2>4, StarSplit
    <3>2. Path("model_items", a, "model_type")
      BY <1>1
    <3>3. Path("model_type", s, "model_type")
      <4>1. "model_type" \in States
        BY DEF States
      <4> QED  BY <1>1, <4>1, StarPath
    <3>4. a \in Seq(Classes) /\ s \in Seq(Classes)
      BY <1>1, <1>3, <1>5
    <3>5. Path("model_items", m, "model_type")
      BY <3>1, <3>2, <3>3, <3>4, PathConcat
    <3>6. Path("model_type", r, "model_items")
      BY <1>4
    <3>7. Path("model_items", m \o r, "model_items")
      BY <2>2, <3>5, <3>6, PathConcat
    <3> QED  BY <2>1, <3>7
  <2> QED  BY <2>3, <2>4
<1> QED  BY <1>1, <1>2, <1>6, <1>7 DEF FieldText, M, P, R

-----------------------------------------------------------------------------
(* Every sentence leads to the end of a schema *)

LEMMA BracedPath ==
  ASSUME NEW c, NEW A \in SUBSET Texts, NEW n, NEW o, NEW i,
         Edge("declarations", c, n), Edge(n, "IDENTIFIER", o), Edge(o, "LBRACE", i),
         Edge(i, "RBRACE", "declarations"), \A a \in A : Path(i, a, i)
  PROVE  /\ Braced(<<c>>, A) \in SUBSET Texts
         /\ \A w \in Braced(<<c>>, A) : Path("declarations", w, "declarations")
<1> DEFINE h == <<c>> \o <<"IDENTIFIER">> \o <<"LBRACE">>
           R == {<<"RBRACE">>}
<1>1. {h} \in SUBSET Texts /\ \A w \in {h} : Path("declarations", w, i)
  BY PathThree
<1>2. R \in SUBSET Texts /\ \A w \in R : Path(i, w, "declarations")
  BY PathOne
<1>3. Texts \in SUBSET Seq(Classes)
  BY DEF Texts
<1>4. i \in States
  BY EdgeType
<1>5. Star(A) \in SUBSET Seq(Classes) /\ \A w \in Star(A) : Path(i, w, i)
  BY <1>4, StarWords, StarPath
<1>6. Braced(<<c>>, A) = Cat(Cat({h}, Star(A)), R)
  BY DEF Braced, Name
<1> HIDE DEF h, R
<1> DEFINE B == Cat({h}, Star(A))
<1>7. B \in SUBSET Seq(Classes)
  <2>1. {h} \in SUBSET Seq(Classes)
    BY <1>1, <1>3
  <2> QED  BY <1>5, <2>1, CatWords
<1>8. \A w \in B : Path("declarations", w, i)
  <2>1. {h} \in SUBSET Seq(Classes)
    BY <1>1, <1>3
  <2> QED  BY <1>1, <1>5, <2>1, CatPath, Zenon
<1> HIDE DEF B
<1>9. Cat(B, R) \in SUBSET Texts
  BY <1>2, <1>7, CatTexts
<1>10. \A w \in Cat(B, R) : Path("declarations", w, "declarations")
  <2>1. R \in SUBSET Seq(Classes)
    BY <1>2, <1>3
  <2> QED  BY <1>2, <1>7, <1>8, <2>1, CatPath, Zenon
<1> QED  BY <1>6, <1>9, <1>10 DEF B

LEMMA DeclarationTexts ==
  /\ DeclarationText \in SUBSET Texts
  /\ \A w \in DeclarationText : Path("declarations", w, "declarations")
<1>1. /\ Braced(<<"ENUM">>, Setting) \in SUBSET Texts
      /\ \A w \in Braced(<<"ENUM">>, Setting) : Path("declarations", w, "declarations")
  <2>1. /\ Edge("declarations", "ENUM", "enum_name") /\ Edge("enum_name", "IDENTIFIER", "enum_open")
        /\ Edge("enum_open", "LBRACE", "enum_items") /\ Edge("enum_items", "RBRACE", "declarations")
    BY DEF Edge
  <2> QED  BY <2>1, SettingTexts, BracedPath
<1>2. /\ Braced(<<"MODEL">>, FieldText) \in SUBSET Texts
      /\ \A w \in Braced(<<"MODEL">>, FieldText) : Path("declarations", w, "declarations")
  <2>1. /\ Edge("declarations", "MODEL", "model_name") /\ Edge("model_name", "IDENTIFIER", "model_open")
        /\ Edge("model_open", "LBRACE", "model_items") /\ Edge("model_items", "RBRACE", "declarations")
    BY DEF Edge
  <2> QED  BY <2>1, FieldTexts, BracedPath
<1> QED  BY <1>1, <1>2 DEF DeclarationText

\* The parts of a namespace, without its semicolon.
NamesText == Cat({<<"NAMESPACE">> \o Name}, Star({<<"DOT">> \o Name}))

LEMMA NamespaceTexts ==
  /\ {<<"NAMESPACE">> \o Name} \in SUBSET Texts
  /\ {<<"DOT">> \o Name} \in SUBSET Texts
  /\ NamesText \in SUBSET Seq(Classes)
  /\ NamespaceText \in SUBSET Texts
  /\ \A w \in NamespaceText : Path("namespace", w, "declarations")
<1> DEFINE H == {<<"NAMESPACE">> \o Name}
           D == {<<"DOT">> \o Name}
           E == {<<"SEMICOLON">>}
<1>0. Texts \in SUBSET Seq(Classes)
  BY DEF Texts
<1>1. H \in SUBSET Texts /\ \A w \in H : Path("namespace", w, "namespace_rest")
  <2>1. Edge("namespace", "NAMESPACE", "namespace_name") /\ Edge("namespace_name", "IDENTIFIER", "namespace_rest")
    BY DEF Edge
  <2> QED  BY <2>1, PathTwo DEF Name
<1>2. D \in SUBSET Texts /\ \A w \in D : Path("namespace_rest", w, "namespace_rest")
  <2>1. Edge("namespace_rest", "DOT", "namespace_name") /\ Edge("namespace_name", "IDENTIFIER", "namespace_rest")
    BY DEF Edge
  <2> QED  BY <2>1, PathTwo DEF Name
<1>3. E \in SUBSET Texts /\ \A w \in E : Path("namespace_rest", w, "declarations")
  <2>1. Edge("namespace_rest", "SEMICOLON", "declarations")
    BY DEF Edge
  <2> QED  BY <2>1, PathOne
<1>4. NamesText = Cat(H, Star(D)) /\ NamespaceText = Cat(NamesText, E)
  BY DEF NamesText, NamespaceText
<1> HIDE DEF H, D, E
<1>5. Star(D) \in SUBSET Seq(Classes) /\ \A w \in Star(D) : Path("namespace_rest", w, "namespace_rest")
  <2>1. "namespace_rest" \in States
    BY DEF States
  <2> QED  BY <1>2, <2>1, StarWords, StarPath
<1>6. NamesText \in SUBSET Seq(Classes)
  <2>1. H \in SUBSET Seq(Classes)
    BY <1>0, <1>1
  <2> QED  BY <1>4, <1>5, <2>1, CatWords
<1>7. \A w \in NamesText : Path("namespace", w, "namespace_rest")
  <2>1. H \in SUBSET Seq(Classes)
    BY <1>0, <1>1
  <2> QED  BY <1>1, <1>4, <1>5, <2>1, CatPath, Zenon
<1>8. NamespaceText \in SUBSET Texts
  BY <1>3, <1>4, <1>6, CatTexts
<1>9. \A w \in NamespaceText : Path("namespace", w, "declarations")
  <2>1. E \in SUBSET Seq(Classes)
    BY <1>0, <1>3
  <2> QED  BY <1>3, <1>4, <1>6, <1>7, <2>1, CatPath, Zenon
<1> QED  BY <1>1, <1>2, <1>6, <1>8, <1>9 DEF H, D

LEMMA SentencePath ==
  /\ Sentences \in SUBSET Seq(Classes)
  /\ \A w \in Sentences : Path("namespace", w, "declarations")
<1>0. Texts \in SUBSET Seq(Classes)
  BY DEF Texts
<1>1. Star(DeclarationText) \in SUBSET Seq(Classes)
  BY DeclarationTexts, StarWords
<1>2. \A w \in Star(DeclarationText) : Path("declarations", w, "declarations")
  <2>1. "declarations" \in States
    BY DEF States
  <2> QED  BY <2>1, DeclarationTexts, StarPath
<1>3. NamespaceText \in SUBSET Seq(Classes)
  BY <1>0, NamespaceTexts
<1>4. \A w \in Sentences : Path("namespace", w, "declarations")
  BY <1>1, <1>2, <1>3, NamespaceTexts, CatPath, Zenon DEF Sentences
<1>5. Sentences \in SUBSET Seq(Classes)
  BY <1>1, <1>3, CatWords DEF Sentences
<1> QED  BY <1>4, <1>5

-----------------------------------------------------------------------------
(* Every word the automaton accepts so far is one of the grammar's *)

\* A word of X with a class c behind it is one of Y.
Then(X, c, Y) == \A x \in X : Len(x) + 1 <= MaxSentence => x \o <<c>> \in Y

LEMMA ThenMore ==
  ASSUME NEW X, NEW c, NEW Y, Then(X, c, Y), NEW Z, Y \subseteq Z
  PROVE  Then(X, c, Z)
  BY DEF Then

LEMMA ThenSpelled ==
  ASSUME NEW x, NEW c
  PROVE  Then({x}, c, {x \o <<c>>})
  BY DEF Then

LEMMA ThenFirst ==
  ASSUME NEW X \in SUBSET Seq(Classes), NEW c \in Classes
  PROVE  Then(X, c, Cat(X, {<<c>>}))
<1> SUFFICES ASSUME NEW x \in X, Len(x) + 1 <= MaxSentence PROVE x \o <<c>> \in Cat(X, {<<c>>})
  BY Zenon DEF Then
<1>1. x \in Seq(Classes) /\ <<c>> \in Seq(Classes) /\ Len(<<c>>) = 1
  OBVIOUS
<1>2. Len(x \o <<c>>) <= MaxSentence
  BY <1>1, ConcatSeq
<1>3. <<c>> \in {<<c>>}
  OBVIOUS
<1> QED  BY <1>2, <1>3, CatHas, Zenon

LEMMA ThenCat ==
  ASSUME NEW A \in SUBSET Seq(Classes), NEW X \in SUBSET Seq(Classes), NEW c \in Classes, NEW Y,
         Then(X, c, Y)
  PROVE  Then(Cat(A, X), c, Cat(A, Y))
<1> SUFFICES ASSUME NEW w \in Cat(A, X), Len(w) + 1 <= MaxSentence PROVE w \o <<c>> \in Cat(A, Y)
  BY DEF Then
<1>1. PICK a \in A, x \in X : w = a \o x
  BY CatSplit DEF MadeOf
<1>2. a \in Seq(Classes) /\ x \in Seq(Classes) /\ <<c>> \in Seq(Classes) /\ Len(<<c>>) = 1
  OBVIOUS
<1>3. Len(a) \in Nat /\ Len(x) \in Nat /\ Len(a \o x) = Len(a) + Len(x)
  BY <1>2
<1>4. x \o <<c>> \in Y
  BY <1>1, <1>3, MaxSentenceType DEF Then
<1>5. w \o <<c>> = a \o (x \o <<c>>)
  BY <1>1, <1>2
<1>6. Len(w \o <<c>>) <= MaxSentence
  <2>1. w \in Seq(Classes)
    BY <1>1, <1>2
  <2> QED  BY <1>2, <2>1, ConcatSeq
<1> QED  BY <1>4, <1>5, <1>6, CatHas, Zenon

\* Words are taken into the repetition behind A.
LEMMA CatStar ==
  ASSUME NEW A \in SUBSET Seq(Classes), NEW B \in SUBSET Texts
  PROVE  Cat(Cat(A, Star(B)), B) \subseteq Cat(A, Star(B))
<1> SUFFICES ASSUME NEW w \in Cat(Cat(A, Star(B)), B) PROVE w \in Cat(A, Star(B))
  OBVIOUS
<1> DEFINE S == Star(B)
           C == Cat(A, S)
<1>0. w \in Cat(C, B)
  OBVIOUS
<1> HIDE DEF S, C
<1>1. PICK u \in C, b \in B : w = u \o b
  <2>1. MadeOf(C, B, w)
    BY <1>0, CatSplit
  <2> QED  BY <2>1, Zenon DEF MadeOf
<1>8. u \in Cat(A, S)
  BY DEF C
<1>9. PICK a \in A, t \in S : u = a \o t
  <2>1. MadeOf(A, S, u)
    BY <1>8, CatSplit
  <2> QED  BY <2>1, Zenon DEF MadeOf
<1>2. t \in Star(B) /\ u = a \o t
  BY <1>9 DEF S
<1>3. a \in Seq(Classes) /\ t \in Seq(Classes) /\ b \in Seq(Classes)
  BY <1>2, StarWords DEF Texts
<1>4. w = a \o (t \o b)
  BY <1>1, <1>2, <1>3
<1>5. Len(w) <= MaxSentence
  BY DEF Cat
<1>6. Len(t) + Len(b) <= MaxSentence
  <2>1. Len(w) = Len(a) + (Len(t) + Len(b)) /\ Len(a) \in Nat /\ Len(t) \in Nat /\ Len(b) \in Nat
    BY <1>3, <1>4
  <2> QED  BY <1>5, <2>1, MaxSentenceType
<1>7. t \o b \in Star(B)
  BY <1>2, <1>6, StarAppend
<1> QED  BY <1>4, <1>5, <1>7, CatHas, Zenon

LEMMA CatMore ==
  ASSUME NEW A, NEW X, NEW Y, X \subseteq Y
  PROVE  Cat(A, X) \subseteq Cat(A, Y)
  BY DEF Cat

\* Behind A, words of B are taken into Y.
LEMMA CatInto ==
  ASSUME NEW A \in SUBSET Seq(Classes), NEW Y \in SUBSET Seq(Classes), NEW B \in SUBSET Texts,
         Cat(Y, B) \subseteq Y
  PROVE  Cat(Cat(A, Y), B) \subseteq Cat(A, Y)
<1> DEFINE C == Cat(A, Y)
<1> SUFFICES ASSUME NEW w \in Cat(C, B) PROVE w \in Cat(A, Y)
  OBVIOUS
<1> HIDE DEF C
<1>1. PICK u \in C, b \in B : w = u \o b
  <2>1. MadeOf(C, B, w)
    BY CatSplit
  <2> QED  BY <2>1, Zenon DEF MadeOf
<1>2. PICK a \in A, y \in Y : u = a \o y
  <2>1. MadeOf(A, Y, u)
    BY CatSplit DEF C
  <2> QED  BY <2>1, Zenon DEF MadeOf
<1>3. a \in Seq(Classes) /\ y \in Seq(Classes) /\ b \in Seq(Classes)
  BY DEF Texts
<1>4. w = a \o (y \o b)
  BY <1>1, <1>2, <1>3
<1>5. Len(w) <= MaxSentence
  BY DEF Cat
<1>6. Len(y \o b) <= MaxSentence
  <2>1. Len(w) = Len(a) + Len(y \o b) /\ Len(a) \in Nat /\ Len(y \o b) \in Nat
    BY <1>3, <1>4
  <2> QED  BY <1>5, <2>1, MaxSentenceType
<1>7. y \o b \in Y
  BY <1>6, CatHas
<1> QED  BY <1>4, <1>5, <1>7, CatHas, Zenon

\* The repetition may still be empty.
LEMMA ThenAlone ==
  ASSUME NEW X \in SUBSET Seq(Classes), NEW c \in Classes, NEW A \in SUBSET Seq(Classes), NEW B \in SUBSET Texts,
         Then(X, c, A)
  PROVE  Then(X, c, Cat(A, Star(B)))
<1> SUFFICES ASSUME NEW x \in X, Len(x) + 1 <= MaxSentence PROVE x \o <<c>> \in Cat(A, Star(B))
  BY DEF Then
<1> DEFINE w == x \o <<c>>
<1>1. w \in A
  BY DEF Then
<1>2. Len(w) <= MaxSentence
  <2>1. x \in Seq(Classes) /\ <<c>> \in Seq(Classes) /\ Len(<<c>>) = 1
    OBVIOUS
  <2> QED  BY <2>1, ConcatSeq
<1> HIDE DEF w
<1>3. w \o <<>> = w
  <2>1. w \in Seq(Classes)
    BY <1>1
  <2> QED  BY <2>1
<1>4. <<>> \in Star(B)
  BY StarWords
<1>5. w \in Cat(A, Star(B))
  BY <1>1, <1>2, <1>3, <1>4, CatHas, Zenon
<1> QED  BY <1>5 DEF w

\* The words of the grammar that lead to a state, begun declarations and items
\* included.
EnumBody == Cat({<<"ENUM">> \o Name \o <<"LBRACE">>}, Star(Setting))
ModelBody == Cat({<<"MODEL">> \o Name \o <<"LBRACE">>}, Star(FieldText))
InEnum == Cat(Sentences, EnumBody)
InModel == Cat(Sentences, ModelBody)
TypeText == {<<"primitive">>, Name}
ModifierTexts == Star({<<"modifier">>})
InField(X) == Cat(InModel, Cat(ModifierTexts, Cat(TypeText, X)))

Text ==
  [namespace       |-> {<<>>},
   namespace_name  |-> {<<"NAMESPACE">>} \cup Cat(NamesText, {<<"DOT">>}),
   namespace_rest  |-> NamesText,
   declarations    |-> Sentences,
   enum_name       |-> Cat(Sentences, {<<"ENUM">>}),
   enum_open       |-> Cat(Sentences, {<<"ENUM">> \o Name}),
   enum_items      |-> InEnum,
   enum_equals     |-> Cat(InEnum, {Name}),
   enum_number     |-> Cat(InEnum, {Name \o <<"EQUALS">>}),
   enum_semicolon  |-> Cat(InEnum, {Name \o <<"EQUALS">> \o <<"NUMBER">>}),
   model_name      |-> Cat(Sentences, {<<"MODEL">>}),
   model_open      |-> Cat(Sentences, {<<"MODEL">> \o Name}),
   model_items     |-> InModel,
   model_type      |-> Cat(InModel, ModifierTexts),
   model_item      |-> Cat(InModel, Cat(ModifierTexts, TypeText)),
   model_equals    |-> InField({Name}),
   model_number    |-> InField({Name \o <<"EQUALS">>}),
   model_semicolon |-> InField({Name \o <<"EQUALS">> \o <<"NUMBER">>})]

LEMMA WordsBegun ==
  /\ Name \in Seq(Classes) /\ Name \o <<"EQUALS">> \in Seq(Classes)
  /\ Name \o <<"EQUALS">> \o <<"NUMBER">> \in Seq(Classes)
  /\ <<"ENUM">> \in Seq(Classes) /\ <<"ENUM">> \o Name \in Seq(Classes)
  /\ <<"ENUM">> \o Name \o <<"LBRACE">> \in Seq(Classes)
  /\ <<"MODEL">> \in Seq(Classes) /\ <<"MODEL">> \o Name \in Seq(Classes)
  /\ <<"MODEL">> \o Name \o <<"LBRACE">> \in Seq(Classes)
  /\ <<"NAMESPACE">> \in Seq(Classes) /\ <<"DOT">> \in Seq(Classes)
  /\ \A c \in {"NAMESPACE", "IDENTIFIER", "DOT", "SEMICOLON", "ENUM", "MODEL", "LBRACE", "RBRACE",
               "EQUALS", "NUMBER", "modifier", "primitive"} : c \in Classes
<1>1. \A c \in {"NAMESPACE", "IDENTIFIER", "DOT", "SEMICOLON", "ENUM", "MODEL", "LBRACE", "RBRACE",
                "EQUALS", "NUMBER", "modifier", "primitive"} : c \in Classes
  BY DEF Classes, Words
<1>2. \A c \in Classes : <<c>> \in Seq(Classes)
  OBVIOUS
<1>3. /\ Name \in Seq(Classes) /\ <<"EQUALS">> \in Seq(Classes) /\ <<"NUMBER">> \in Seq(Classes)
      /\ <<"ENUM">> \in Seq(Classes) /\ <<"MODEL">> \in Seq(Classes) /\ <<"LBRACE">> \in Seq(Classes)
      /\ <<"NAMESPACE">> \in Seq(Classes) /\ <<"DOT">> \in Seq(Classes)
  BY <1>1, <1>2 DEF Name
<1>4. \A s, t \in Seq(Classes) : s \o t \in Seq(Classes)
  OBVIOUS
<1>5. Name \o <<"EQUALS">> \in Seq(Classes) /\ <<"ENUM">> \o Name \in Seq(Classes) /\ <<"MODEL">> \o Name \in Seq(Classes)
  BY <1>3, <1>4, Zenon
<1> QED  BY <1>1, <1>3, <1>4, <1>5, Zenon

LEMMA TextsBegun ==
  /\ Setting \in SUBSET Texts /\ FieldText \in SUBSET Texts /\ DeclarationText \in SUBSET Texts
  /\ Sentences \in SUBSET Seq(Classes) /\ NamesText \in SUBSET Seq(Classes)
  /\ EnumBody \in SUBSET Seq(Classes) /\ ModelBody \in SUBSET Seq(Classes)
  /\ InEnum \in SUBSET Seq(Classes) /\ InModel \in SUBSET Seq(Classes)
  /\ ModifierTexts \in SUBSET Seq(Classes) /\ TypeText \in SUBSET Seq(Classes)
<1>1. /\ Setting \in SUBSET Texts /\ FieldText \in SUBSET Texts /\ DeclarationText \in SUBSET Texts
      /\ Sentences \in SUBSET Seq(Classes) /\ NamesText \in SUBSET Seq(Classes)
      /\ TypeText \in SUBSET Seq(Classes) /\ {<<"modifier">>} \in SUBSET Texts
  BY SettingTexts, FieldTexts, DeclarationTexts, SentencePath, NamespaceTexts DEF TypeText, Texts
<1>2. /\ Star(Setting) \in SUBSET Seq(Classes) /\ Star(FieldText) \in SUBSET Seq(Classes)
      /\ ModifierTexts \in SUBSET Seq(Classes)
  BY <1>1, StarWords DEF ModifierTexts
<1>3. {<<"ENUM">> \o Name \o <<"LBRACE">>} \in SUBSET Seq(Classes)
  BY WordsBegun
<1>4. {<<"MODEL">> \o Name \o <<"LBRACE">>} \in SUBSET Seq(Classes)
  BY WordsBegun
<1>5. EnumBody \in SUBSET Seq(Classes) /\ ModelBody \in SUBSET Seq(Classes)
  BY <1>2, <1>3, <1>4, CatWords, Zenon DEF EnumBody, ModelBody
<1>6. InEnum \in SUBSET Seq(Classes) /\ InModel \in SUBSET Seq(Classes)
  BY <1>1, <1>5, CatWords DEF InEnum, InModel
<1> QED  BY <1>1, <1>2, <1>5, <1>6

\* The edges inside a namespace.
LEMMA NamespaceEdges ==
  /\ Then(Text.namespace, "NAMESPACE", Text.namespace_name)
  /\ Then(Text.namespace_name, "IDENTIFIER", Text.namespace_rest)
  /\ Then(Text.namespace_rest, "DOT", Text.namespace_name)
  /\ Then(Text.namespace_rest, "SEMICOLON", Text.declarations)
<1> DEFINE H == {<<"NAMESPACE">> \o Name}
           D == {<<"DOT">> \o Name}
<1>0. /\ H \in SUBSET Seq(Classes) /\ D \in SUBSET Texts /\ NamesText \in SUBSET Seq(Classes)
      /\ "DOT" \in Classes /\ "SEMICOLON" \in Classes /\ "IDENTIFIER" \in Classes
  BY NamespaceTexts, WordsBegun DEF Texts
<1>1. Text.namespace = {<<>>} /\ Text.namespace_rest = NamesText /\ Text.declarations = Sentences
  BY SMTT(20) DEF Text
<1>2. Text.namespace_name = {<<"NAMESPACE">>} \cup Cat(NamesText, {<<"DOT">>})
  BY DEF Text
<1>3. Then({<<>>}, "NAMESPACE", {<<"NAMESPACE">>})
  <2>1. <<>> \o <<"NAMESPACE">> = <<"NAMESPACE">>
    BY WordsBegun
  <2> QED  BY <2>1, ThenSpelled, Zenon
<1>4. Then(NamesText, "DOT", Cat(NamesText, {<<"DOT">>}))
  BY <1>0, ThenFirst
<1>5. Then({<<"NAMESPACE">>}, "IDENTIFIER", NamesText)
  <2>1. Then({<<"NAMESPACE">>}, "IDENTIFIER", H)
    BY ThenSpelled, Zenon DEF Name
  <2> QED  BY <1>0, <2>1, WordsBegun, ThenAlone, Zenon DEF NamesText
<1>6. Then(Cat(NamesText, {<<"DOT">>}), "IDENTIFIER", NamesText)
  <2>1. Then({<<"DOT">>}, "IDENTIFIER", D)
    BY ThenSpelled, Zenon DEF Name
  <2>2. {<<"DOT">>} \in SUBSET Seq(Classes)
    BY WordsBegun
  <2>3. Then(Cat(NamesText, {<<"DOT">>}), "IDENTIFIER", Cat(NamesText, D))
    BY <1>0, <2>1, <2>2, ThenCat, Zenon
  <2>4. Cat(NamesText, D) \subseteq NamesText
    <3> HIDE DEF D, H
    <3>1. NamesText = Cat(H, Star(D))
      BY DEF NamesText, H, D
    <3> QED  BY <1>0, <3>1, CatStar
  <2> QED  BY <2>3, <2>4, ThenMore, Zenon
<1>7. Then(NamesText, "SEMICOLON", Sentences)
  <2>1. Then(NamesText, "SEMICOLON", NamespaceText)
    BY <1>0, ThenFirst, Zenon DEF NamespaceText, NamesText
  <2>2. NamespaceText \in SUBSET Seq(Classes) /\ DeclarationText \in SUBSET Texts
    BY NamespaceTexts, TextsBegun DEF Texts
  <2> QED  BY <1>0, <2>1, <2>2, ThenAlone DEF Sentences
<1> QED
  <2>1. Then(NamesText, "DOT", Text.namespace_name) /\ Then({<<>>}, "NAMESPACE", Text.namespace_name)
    BY <1>2, <1>3, <1>4, ThenMore
  <2>2. Then(Text.namespace_name, "IDENTIFIER", NamesText)
    BY <1>2, <1>5, <1>6, Zenon DEF Then
  <2> QED  BY <1>1, <1>7, <2>1, <2>2

\* The edges from a keyword to the items, and over the closing brace.
LEMMA BodyEdges ==
  ASSUME NEW c \in Classes, NEW A \in SUBSET Texts, Braced(<<c>>, A) \subseteq DeclarationText,
         NEW Body, Body = Cat({<<c>> \o Name \o <<"LBRACE">>}, Star(A))
  PROVE  /\ Then(Sentences, c, Cat(Sentences, {<<c>>}))
         /\ Then(Cat(Sentences, {<<c>>}), "IDENTIFIER", Cat(Sentences, {<<c>> \o Name}))
         /\ Then(Cat(Sentences, {<<c>> \o Name}), "LBRACE", Cat(Sentences, Body))
         /\ Then(Cat(Sentences, Body), "RBRACE", Sentences)
<1>0. /\ Sentences \in SUBSET Seq(Classes) /\ DeclarationText \in SUBSET Texts
      /\ "IDENTIFIER" \in Classes /\ "LBRACE" \in Classes /\ "RBRACE" \in Classes
  BY TextsBegun, WordsBegun
<1> DEFINE k == <<c>>
           kn == k \o Name
           h == kn \o <<"LBRACE">>
<1>1. k \in Seq(Classes) /\ kn \in Seq(Classes) /\ h \in Seq(Classes)
  <2>1. Name \in Seq(Classes) /\ <<"LBRACE">> \in Seq(Classes) /\ k \in Seq(Classes)
    BY <1>0, WordsBegun
  <2>2. \A s, t \in Seq(Classes) : s \o t \in Seq(Classes)
    OBVIOUS
  <2> QED  BY <2>1, <2>2, Zenon
<1>2. Then(Sentences, c, Cat(Sentences, {k}))
  BY <1>0, ThenFirst
<1>3. Then(Cat(Sentences, {k}), "IDENTIFIER", Cat(Sentences, {kn}))
  <2>1. Then({k}, "IDENTIFIER", {kn})
    BY ThenSpelled, Zenon DEF Name
  <2> HIDE DEF k, kn
  <2> QED  BY <1>0, <1>1, <2>1, ThenCat
<1>4. Then(Cat(Sentences, {kn}), "LBRACE", Cat(Sentences, Body))
  <2>1. Then({kn}, "LBRACE", {h})
    BY ThenSpelled, Zenon
  <2>2. Body = Cat({h}, Star(A))
    OBVIOUS
  <2> HIDE DEF kn, h
  <2>3. Then({kn}, "LBRACE", Body)
    BY <1>0, <1>1, <2>1, <2>2, ThenAlone
  <2> QED  BY <1>0, <1>1, <2>3, ThenCat
<1>5. Then(Cat(Sentences, Body), "RBRACE", Sentences)
  <2>1. Body = Cat({h}, Star(A)) /\ Braced(<<c>>, A) = Cat(Body, {<<"RBRACE">>})
    BY DEF Braced
  <2>2. Body \in SUBSET Seq(Classes)
    <3>1. Star(A) \in SUBSET Seq(Classes)
      BY StarWords
    <3> HIDE DEF h
    <3> QED  BY <1>1, <2>1, <3>1, CatWords
  <2>3. Then(Body, "RBRACE", DeclarationText)
    <3>1. Then(Body, "RBRACE", Cat(Body, {<<"RBRACE">>}))
      BY <1>0, <2>2, ThenFirst, Zenon
    <3>2. Cat(Body, {<<"RBRACE">>}) \subseteq DeclarationText
      BY <2>1
    <3> HIDE DEF h
    <3> QED  BY <3>1, <3>2, ThenMore, Zenon
  <2>4. Then(Cat(Sentences, Body), "RBRACE", Cat(Sentences, DeclarationText))
    BY <1>0, <2>2, <2>3, ThenCat, Zenon
  <2>5. Cat(Sentences, DeclarationText) \subseteq Sentences
    <3>1. NamespaceText \in SUBSET Seq(Classes)
      BY NamespaceTexts DEF Texts
    <3> QED  BY <1>0, <3>1, CatStar DEF Sentences
  <2> QED  BY <2>4, <2>5, ThenMore
<1> QED  BY <1>2, <1>3, <1>4, <1>5

\* The edges of a name with its number, behind words of X.
LEMMA SettingEdges ==
  ASSUME NEW X \in SUBSET Seq(Classes)
  PROVE  /\ Then(X, "IDENTIFIER", Cat(X, {Name}))
         /\ Then(Cat(X, {Name}), "EQUALS", Cat(X, {Name \o <<"EQUALS">>}))
         /\ Then(Cat(X, {Name \o <<"EQUALS">>}), "NUMBER", Cat(X, {Name \o <<"EQUALS">> \o <<"NUMBER">>}))
         /\ Then(Cat(X, {Name \o <<"EQUALS">> \o <<"NUMBER">>}), "SEMICOLON", Cat(X, Setting))
<1> DEFINE e == Name \o <<"EQUALS">>
           n == e \o <<"NUMBER">>
<1>0. /\ Name \in Seq(Classes) /\ e \in Seq(Classes) /\ n \in Seq(Classes)
      /\ "IDENTIFIER" \in Classes /\ "EQUALS" \in Classes /\ "NUMBER" \in Classes /\ "SEMICOLON" \in Classes
  BY WordsBegun
<1>1. Setting = {n \o <<"SEMICOLON">>}
  BY DEF Setting
<1>2. Then(X, "IDENTIFIER", Cat(X, {Name}))
  BY <1>0, ThenFirst DEF Name
<1>3. Then({Name}, "EQUALS", {e}) /\ Then({e}, "NUMBER", {n}) /\ Then({n}, "SEMICOLON", Setting)
  BY <1>1, ThenSpelled, Zenon
<1> HIDE DEF e, n
<1>4. /\ Then(Cat(X, {Name}), "EQUALS", Cat(X, {e})) /\ Then(Cat(X, {e}), "NUMBER", Cat(X, {n}))
      /\ Then(Cat(X, {n}), "SEMICOLON", Cat(X, Setting))
  BY <1>0, <1>3, ThenCat
<1> QED  BY <1>2, <1>4 DEF e, n

LEMMA EnumEdges ==
  /\ Then(Text.declarations, "ENUM", Text.enum_name)
  /\ Then(Text.enum_name, "IDENTIFIER", Text.enum_open)
  /\ Then(Text.enum_open, "LBRACE", Text.enum_items)
  /\ Then(Text.enum_items, "RBRACE", Text.declarations)
  /\ Then(Text.enum_items, "IDENTIFIER", Text.enum_equals)
  /\ Then(Text.enum_equals, "EQUALS", Text.enum_number)
  /\ Then(Text.enum_number, "NUMBER", Text.enum_semicolon)
  /\ Then(Text.enum_semicolon, "SEMICOLON", Text.enum_items)
<1>0. "ENUM" \in Classes /\ Setting \in SUBSET Texts /\ InEnum \in SUBSET Seq(Classes) /\ Sentences \in SUBSET Seq(Classes)
  BY WordsBegun, TextsBegun
<1>1. /\ Then(Sentences, "ENUM", Cat(Sentences, {<<"ENUM">>}))
      /\ Then(Cat(Sentences, {<<"ENUM">>}), "IDENTIFIER", Cat(Sentences, {<<"ENUM">> \o Name}))
      /\ Then(Cat(Sentences, {<<"ENUM">> \o Name}), "LBRACE", InEnum)
      /\ Then(InEnum, "RBRACE", Sentences)
  <2>1. Braced(<<"ENUM">>, Setting) \subseteq DeclarationText
    BY DEF DeclarationText
  <2> QED  BY <1>0, <2>1, BodyEdges, Zenon DEF InEnum, EnumBody
<1>2. Cat(InEnum, Setting) \subseteq InEnum
  <2>1. {<<"ENUM">> \o Name \o <<"LBRACE">>} \in SUBSET Seq(Classes)
    BY WordsBegun
  <2>2. Cat(EnumBody, Setting) \subseteq EnumBody
    BY <1>0, <2>1, CatStar, Zenon DEF EnumBody
  <2> QED  BY <1>0, <2>2, CatInto, TextsBegun DEF InEnum
<1>3. Then(Cat(InEnum, {Name \o <<"EQUALS">> \o <<"NUMBER">>}), "SEMICOLON", InEnum)
  BY <1>0, <1>2, SettingEdges, ThenMore, Zenon
<1>4. /\ Text.declarations = Sentences /\ Text.enum_name = Cat(Sentences, {<<"ENUM">>})
      /\ Text.enum_open = Cat(Sentences, {<<"ENUM">> \o Name}) /\ Text.enum_items = InEnum
  BY Zenon DEF Text
<1>5. /\ Text.enum_equals = Cat(InEnum, {Name}) /\ Text.enum_number = Cat(InEnum, {Name \o <<"EQUALS">>})
      /\ Text.enum_semicolon = Cat(InEnum, {Name \o <<"EQUALS">> \o <<"NUMBER">>})
  BY Zenon DEF Text
<1> QED  BY <1>0, <1>1, <1>3, <1>4, <1>5, SettingEdges, Zenon

LEMMA ModelEdges ==
  /\ Then(Text.declarations, "MODEL", Text.model_name)
  /\ Then(Text.model_name, "IDENTIFIER", Text.model_open)
  /\ Then(Text.model_open, "LBRACE", Text.model_items)
  /\ Then(Text.model_items, "RBRACE", Text.declarations)
<1>0. "MODEL" \in Classes /\ FieldText \in SUBSET Texts
  BY WordsBegun, TextsBegun
<1>1. /\ Then(Sentences, "MODEL", Cat(Sentences, {<<"MODEL">>}))
      /\ Then(Cat(Sentences, {<<"MODEL">>}), "IDENTIFIER", Cat(Sentences, {<<"MODEL">> \o Name}))
      /\ Then(Cat(Sentences, {<<"MODEL">> \o Name}), "LBRACE", InModel)
      /\ Then(InModel, "RBRACE", Sentences)
  <2>1. Braced(<<"MODEL">>, FieldText) \subseteq DeclarationText
    BY DEF DeclarationText
  <2> QED  BY <1>0, <2>1, BodyEdges, Zenon DEF InModel, ModelBody
<1>2. /\ Text.declarations = Sentences /\ Text.model_name = Cat(Sentences, {<<"MODEL">>})
      /\ Text.model_open = Cat(Sentences, {<<"MODEL">> \o Name}) /\ Text.model_items = InModel
  BY Zenon DEF Text
<1> QED  BY <1>1, <1>2, SMTT(20)

LEMMA TypeEdges ==
  /\ Then(Text.model_items, "modifier", Text.model_type)
  /\ Then(Text.model_type, "modifier", Text.model_type)
  /\ \A c \in {"primitive", "IDENTIFIER"} :
       Then(Text.model_items, c, Text.model_item) /\ Then(Text.model_type, c, Text.model_item)
<1> DEFINE M == {<<"modifier">>}
<1>0. /\ M \in SUBSET Texts /\ InModel \in SUBSET Seq(Classes) /\ ModifierTexts \in SUBSET Seq(Classes)
      /\ TypeText \in SUBSET Seq(Classes) /\ "modifier" \in Classes
  BY FieldTexts, TextsBegun, WordsBegun, SMTT(20)
<1>1. /\ Text.model_items = InModel /\ Text.model_type = Cat(InModel, ModifierTexts)
      /\ Text.model_item = Cat(InModel, Cat(ModifierTexts, TypeText))
  BY Zenon DEF Text
<1>2. <<>> \in ModifierTexts
  BY <1>0, StarWords DEF ModifierTexts
<1>3. Then(ModifierTexts, "modifier", ModifierTexts)
  <2> SUFFICES ASSUME NEW x \in ModifierTexts, Len(x) + 1 <= MaxSentence PROVE x \o <<"modifier">> \in ModifierTexts
    BY DEF Then
  <2>1. <<"modifier">> \in M /\ Len(<<"modifier">>) = 1
    OBVIOUS
  <2> QED  BY <1>0, <2>1, StarAppend, Zenon DEF ModifierTexts
<1>4. Then(Cat(InModel, ModifierTexts), "modifier", Cat(InModel, ModifierTexts))
  BY <1>0, <1>3, ThenCat
<1>5. ASSUME NEW c \in {"primitive", "IDENTIFIER"}
      PROVE  Then(Cat(InModel, ModifierTexts), c, Cat(InModel, Cat(ModifierTexts, TypeText)))
  <2>1. c \in Classes /\ {<<c>>} \subseteq TypeText
    BY WordsBegun DEF TypeText, Name
  <2>2. Then(ModifierTexts, c, Cat(ModifierTexts, {<<c>>}))
    BY <1>0, <2>1, ThenFirst
  <2>3. Then(ModifierTexts, c, Cat(ModifierTexts, TypeText))
    BY <2>1, <2>2, CatMore, ThenMore
  <2> QED  BY <1>0, <2>1, <2>3, ThenCat
<1>6. ASSUME NEW w \in InModel PROVE Len(w) <= MaxSentence => w \in Cat(InModel, ModifierTexts)
  <2>1. w \o <<>> = w
    <3>1. w \in Seq(Classes)
      BY <1>0
    <3> QED  BY <3>1
  <2> QED  BY <1>2, <2>1, CatHas, Zenon
<1>7. ASSUME NEW c \in Classes, NEW Y, Then(Cat(InModel, ModifierTexts), c, Y) PROVE Then(InModel, c, Y)
  <2> SUFFICES ASSUME NEW w \in InModel, Len(w) + 1 <= MaxSentence PROVE w \o <<c>> \in Y
    BY DEF Then
  <2>1. Len(w) \in Nat
    BY <1>0
  <2>2. w \in Cat(InModel, ModifierTexts)
    BY <1>6, <2>1, MaxSentenceType
  <2> QED  BY <1>7, <2>2 DEF Then
<1>8. Then(InModel, "modifier", Cat(InModel, ModifierTexts))
  BY <1>0, <1>4, <1>7
<1>9. ASSUME NEW c \in {"primitive", "IDENTIFIER"}
      PROVE  Then(InModel, c, Cat(InModel, Cat(ModifierTexts, TypeText)))
  <2>1. c \in Classes
    BY WordsBegun
  <2> QED  BY <1>5, <1>7, <2>1
<1> QED  BY <1>1, <1>4, <1>5, <1>8, <1>9, Zenon

LEMMA FieldEdges ==
  /\ Then(Text.model_item, "IDENTIFIER", Text.model_equals)
  /\ Then(Text.model_equals, "EQUALS", Text.model_number)
  /\ Then(Text.model_number, "NUMBER", Text.model_semicolon)
  /\ Then(Text.model_semicolon, "SEMICOLON", Text.model_items)
<1> DEFINE e == Name \o <<"EQUALS">>
           n == e \o <<"NUMBER">>
<1>0. /\ InModel \in SUBSET Seq(Classes) /\ ModifierTexts \in SUBSET Seq(Classes)
      /\ TypeText \in SUBSET Seq(Classes)
      /\ Name \in Seq(Classes) /\ e \in Seq(Classes) /\ n \in Seq(Classes)
      /\ "IDENTIFIER" \in Classes /\ "EQUALS" \in Classes /\ "NUMBER" \in Classes /\ "SEMICOLON" \in Classes
  BY TextsBegun, WordsBegun
<1>1. /\ Text.model_item = Cat(InModel, Cat(ModifierTexts, TypeText)) /\ Text.model_equals = InField({Name})
      /\ Text.model_number = InField({e}) /\ Text.model_semicolon = InField({n}) /\ Text.model_items = InModel
  BY Zenon DEF Text
<1>2. /\ Then(TypeText, "IDENTIFIER", Cat(TypeText, {Name}))
      /\ Then(Cat(TypeText, {Name}), "EQUALS", Cat(TypeText, {e}))
      /\ Then(Cat(TypeText, {e}), "NUMBER", Cat(TypeText, {n}))
      /\ Then(Cat(TypeText, {n}), "SEMICOLON", Cat(TypeText, Setting))
  BY <1>0, SettingEdges, Zenon
<1> HIDE DEF e, n
<1>3. /\ Cat(TypeText, {Name}) \in SUBSET Seq(Classes) /\ Cat(TypeText, {e}) \in SUBSET Seq(Classes)
      /\ Cat(TypeText, {n}) \in SUBSET Seq(Classes)
  BY <1>0, CatWords
<1>4. ASSUME NEW X \in SUBSET Seq(Classes), NEW c \in Classes, NEW Y, Then(X, c, Y)
      PROVE  Then(Cat(InModel, Cat(ModifierTexts, X)), c, Cat(InModel, Cat(ModifierTexts, Y)))
  <2>1. Then(Cat(ModifierTexts, X), c, Cat(ModifierTexts, Y))
    BY <1>0, <1>4, ThenCat
  <2>2. Cat(ModifierTexts, X) \in SUBSET Seq(Classes)
    BY <1>0, CatWords
  <2> QED  BY <1>0, <2>1, <2>2, ThenCat
<1>5. /\ Then(Cat(InModel, Cat(ModifierTexts, TypeText)), "IDENTIFIER", InField({Name}))
      /\ Then(InField({Name}), "EQUALS", InField({e})) /\ Then(InField({e}), "NUMBER", InField({n}))
      /\ Then(InField({n}), "SEMICOLON", InField(Setting))
  BY <1>0, <1>2, <1>3, <1>4, Zenon DEF InField
<1>6. InField(Setting) \subseteq InModel
  <2>1. FieldText = Cat(ModifierTexts, Cat(TypeText, Setting)) /\ FieldText \in SUBSET Texts
    BY TextsBegun, Zenon DEF FieldText, ModifierTexts, TypeText
  <2>2. {<<"MODEL">> \o Name \o <<"LBRACE">>} \in SUBSET Seq(Classes)
    BY WordsBegun
  <2>3. Cat(ModelBody, FieldText) \subseteq ModelBody
    BY <2>1, <2>2, CatStar, Zenon DEF ModelBody
  <2>4. Cat(InModel, FieldText) \subseteq InModel
    BY <2>1, <2>3, CatInto, TextsBegun DEF InModel
  <2> QED  BY <2>1, <2>4 DEF InField
<1>7. Then(InField({n}), "SEMICOLON", InModel)
  BY <1>5, <1>6, ThenMore
<1> QED  BY <1>1, <1>5, <1>7, SMTT(20)

LEMMA EdgesSpell ==
  ASSUME NEW p, NEW c, NEW q, Edge(p, c, q)
  PROVE  Then(Text[p], c, Text[q])
  BY NamespaceEdges, EnumEdges, ModelEdges, TypeEdges, FieldEdges, SMTT(20) DEF Edge

LEMMA WordsRead ==
  \A w \in Seq(Classes) : \A q : Len(w) <= MaxSentence /\ Path("namespace", w, q) => w \in Text[q]
<1> DEFINE T == {n \in Nat : n <= MaxSentence =>
                   \A w \in Seq(Classes) : \A q : Len(w) = n /\ Path("namespace", w, q) => w \in Text[q]}
<1>1. 0 \in T
  <2> SUFFICES ASSUME NEW w \in Seq(Classes), NEW q, Len(w) = 0, Path("namespace", w, q) PROVE w \in Text[q]
    OBVIOUS
  <2>1. w = <<>>
    OBVIOUS
  <2>2. q = "namespace"
    BY DEF Path
  <2>3. Text["namespace"] = {<<>>}
    BY SMTT(20) DEF Text
  <2> QED  BY <2>1, <2>2, <2>3
<1>2. ASSUME NEW n \in Nat, n \in T PROVE n + 1 \in T
  <2> SUFFICES ASSUME n + 1 <= MaxSentence, NEW w \in Seq(Classes), NEW q, Len(w) = n + 1, Path("namespace", w, q)
               PROVE  w \in Text[q]
    OBVIOUS
  <2> DEFINE v == SubSeq(w, 1, n)
             c == w[n + 1]
  <2>1. v \in Seq(Classes) /\ Len(v) = n /\ c \in Classes /\ w = Append(v, c) /\ w = v \o <<c>>
    OBVIOUS
  <2> HIDE DEF v, c
  <2>2. PICK p : Path("namespace", v, p) /\ Edge(p, c, q)
    <3>1. Path("namespace", Append(v, c), q)
      BY <2>1
    <3> QED  BY <2>1, <3>1, PathLast, Zenon
  <2>3. v \in Text[p]
    BY <1>2, <2>1, <2>2, MaxSentenceType
  <2>4. Then(Text[p], c, Text[q])
    BY <2>2, EdgesSpell
  <2> QED  BY <2>1, <2>3, <2>4 DEF Then
<1>3. \A n \in Nat : n \in T
  <2> HIDE DEF T
  <2> QED  BY <1>1, <1>2, Induction
<1> QED
  <2> SUFFICES ASSUME NEW w \in Seq(Classes), NEW q, Len(w) <= MaxSentence, Path("namespace", w, q)
               PROVE  w \in Text[q]
    OBVIOUS
  <2>1. Len(w) \in T /\ Len(w) \in Nat
    BY <1>3
  <2> QED  BY <2>1, SMTT(20)

\* At most n classes lead from q to the end of a schema.
Near(q, n) == \E t \in Seq(Classes) : Len(t) <= n /\ Path(q, t, "declarations")

LEMMA NearStep ==
  ASSUME NEW q, NEW c, NEW s, Edge(q, c, s), NEW n \in Nat, Near(s, n)
  PROVE  Near(q, n + 1)
<1>1. PICK t \in Seq(Classes) : Len(t) <= n /\ Path(s, t, "declarations")
  BY DEF Near
<1>2. <<c>> \in Seq(Classes) /\ Path(q, <<c>>, s) /\ Len(<<c>>) = 1
  BY PathOne DEF Texts
<1>3. Path(q, <<c>> \o t, "declarations")
  BY <1>1, <1>2, PathConcat, Zenon
<1>4. <<c>> \o t \in Seq(Classes) /\ Len(<<c>> \o t) = 1 + Len(t) /\ Len(t) \in Nat
  BY <1>1, <1>2, ConcatSeq
<1>5. Len(<<c>> \o t) <= n + 1
  BY <1>1, <1>4
<1> QED  BY <1>3, <1>4, <1>5, Zenon DEF Near

LEMMA NearMore ==
  ASSUME NEW q, NEW m \in Nat, NEW n \in Nat, m <= n, Near(q, m)
  PROVE  Near(q, n)
  BY DEF Near

LEMMA AllNear == \A q \in States : Near(q, 6)
<1>0. Near("declarations", 0)
  <2>1. "declarations" \in States /\ <<>> \in Seq(Classes) /\ Len(<<>>) <= 0
    BY DEF States
  <2>2. Path("declarations", <<>>, "declarations")
    BY <2>1, PathNone
  <2> QED  BY <2>1, <2>2, Zenon DEF Near
<1>1. Near("namespace_rest", 1) /\ Near("enum_items", 1) /\ Near("model_items", 1)
  <2>1. /\ Edge("namespace_rest", "SEMICOLON", "declarations") /\ Edge("enum_items", "RBRACE", "declarations")
        /\ Edge("model_items", "RBRACE", "declarations")
    BY SMTT(20) DEF Edge
  <2>2. Near("namespace_rest", 0 + 1) /\ Near("enum_items", 0 + 1) /\ Near("model_items", 0 + 1)
    BY <1>0, <2>1, NearStep
  <2> QED  BY <2>2
<1>2. /\ Near("namespace_name", 2) /\ Near("enum_open", 2) /\ Near("model_open", 2)
      /\ Near("enum_semicolon", 2) /\ Near("model_semicolon", 2)
  <2>1. /\ Edge("namespace_name", "IDENTIFIER", "namespace_rest") /\ Edge("enum_open", "LBRACE", "enum_items")
        /\ Edge("model_open", "LBRACE", "model_items") /\ Edge("enum_semicolon", "SEMICOLON", "enum_items")
        /\ Edge("model_semicolon", "SEMICOLON", "model_items")
    BY Zenon DEF Edge
  <2>2. /\ Near("namespace_name", 1 + 1) /\ Near("enum_open", 1 + 1) /\ Near("model_open", 1 + 1)
        /\ Near("enum_semicolon", 1 + 1) /\ Near("model_semicolon", 1 + 1)
    BY <1>1, <2>1, NearStep
  <2> QED  BY <2>2
<1>3. /\ Near("namespace", 3) /\ Near("enum_name", 3) /\ Near("model_name", 3)
      /\ Near("enum_number", 3) /\ Near("model_number", 3)
  <2>1. /\ Edge("namespace", "NAMESPACE", "namespace_name") /\ Edge("enum_name", "IDENTIFIER", "enum_open")
        /\ Edge("model_name", "IDENTIFIER", "model_open") /\ Edge("enum_number", "NUMBER", "enum_semicolon")
        /\ Edge("model_number", "NUMBER", "model_semicolon")
    BY SMTT(20) DEF Edge
  <2>2. /\ Near("namespace", 2 + 1) /\ Near("enum_name", 2 + 1) /\ Near("model_name", 2 + 1)
        /\ Near("enum_number", 2 + 1) /\ Near("model_number", 2 + 1)
    BY <1>2, <2>1, NearStep
  <2> QED  BY <2>2
<1>4. Near("enum_equals", 4) /\ Near("model_equals", 4)
  <2>1. Edge("enum_equals", "EQUALS", "enum_number") /\ Edge("model_equals", "EQUALS", "model_number")
    BY DEF Edge
  <2>2. Near("enum_equals", 3 + 1) /\ Near("model_equals", 3 + 1)
    BY <1>3, <2>1, NearStep
  <2> QED  BY <2>2
<1>5. Near("model_item", 5)
  <2>1. Edge("model_item", "IDENTIFIER", "model_equals")
    BY DEF Edge
  <2>2. Near("model_item", 4 + 1)
    BY <1>4, <2>1, NearStep
  <2> QED  BY <2>2
<1>6. Near("model_type", 6)
  <2>1. Edge("model_type", "primitive", "model_item")
    BY DEF Edge
  <2>2. Near("model_type", 5 + 1)
    BY <1>5, <2>1, NearStep
  <2> QED  BY <2>2
<1>7. \A q, m : m \in 0 .. 6 /\ Near(q, m) => Near(q, 6)
  BY NearMore
<1> QED
  <2>1. \A m \in {0, 1, 2, 3, 4, 5, 6} : m \in 0 .. 6
    OBVIOUS
  <2> QED  BY <1>0, <1>1, <1>2, <1>3, <1>4, <1>5, <1>6, <1>7, <2>1, Zenon DEF States

\* The automaton accepts the beginnings of sentences and no other words.
LEMMA AcceptedBegins ==
  ASSUME NEW w \in Seq(Classes), Len(w) <= MaxTokens, NEW q, Path("namespace", w, q)
  PROVE  w \in Prefixes
<1>1. q \in States
  BY DEF Path, Through
<1>2. PICK t \in Seq(Classes) : Len(t) <= 6 /\ Path(q, t, "declarations")
  BY <1>1, AllNear DEF Near
<1> DEFINE s == w \o t
<1>3. /\ s \in Seq(Classes) /\ Len(s) = Len(w) + Len(t) /\ Len(w) \in Nat /\ Len(t) \in Nat
      /\ \A i \in 1 .. Len(w) : s[i] = w[i]
  BY <1>2, ConcatSeq
<1>4. Path("namespace", s, "declarations")
  BY <1>2, PathConcat
<1> HIDE DEF s
<1>5. Len(s) <= MaxSentence
  BY <1>2, <1>3, LengthAssumption DEF MaxSentence
<1>6. s \in Sentences
  <2>1. s \in Text["declarations"]
    BY <1>3, <1>4, <1>5, WordsRead, SMTT(20)
  <2> QED  BY <2>1, Zenon DEF Text
<1>7. SubSeq(s, 1, Len(w)) = w /\ Len(w) \in 0 .. Len(s)
  BY <1>3
<1>8. w \in {SubSeq(s, 1, k) : k \in 0 .. Len(s)}
  BY <1>7, Zenon
<1> QED  BY <1>6, <1>8, Zenon DEF Prefixes

LEMMA BeginsAccepted ==
  ASSUME NEW w \in Prefixes
  PROVE  \E q : Path("namespace", w, q)
<1>1. PICK s \in Sentences : \E k \in 0 .. Len(s) : w = SubSeq(s, 1, k)
  BY Zenon DEF Prefixes
<1>2. PICK k \in 0 .. Len(s) : w = SubSeq(s, 1, k)
  BY <1>1
<1> QED  BY <1>2, SentencePath, PathPrefix
=============================================================================
