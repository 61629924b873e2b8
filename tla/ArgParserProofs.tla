-------------------------- MODULE ArgParserProofs --------------------------
(***************************************************************************)
(* For all options, all argument lists and any number of calls of parse(): *)
(* parse() gives every argument its one meaning, or throws at the first    *)
(* one that has none.                                                      *)
(*                                                                         *)
(* ParseExact speaks of finished calls.  Inside a call the invariant says  *)
(* that the arguments before the index of the loop have been understood.   *)
(***************************************************************************)
EXTENDS ArgParser, SequenceTheorems, TLAPS

Parsing ==
  state = "parsing" => \E heads \in SUBSET (1 .. Len(argv) + 1) : Understood(heads, i)

IInv == TypeOK /\ Parsing /\ ParseExact

-----------------------------------------------------------------------------
(* What the options and the arguments alone decide stays *)

LEMMA OptionsStay ==
  ASSUME UNCHANGED options
  PROVE  /\ \A c : IsFlag(c)' <=> IsFlag(c)
         /\ \A c : TakesValue(c)' <=> TakesValue(c)
         /\ \A c : OptionOf(c)' = OptionOf(c)
         /\ \A a, j : Reached(a, j)' <=> Reached(a, j)
         /\ \A a : WantsNext(a)' <=> WantsNext(a)
         /\ \A a, o : Names(a, o)' <=> Names(a, o)
         /\ \A a : Malformed(a)' <=> Malformed(a)
<1>1. \A c : OptionOf(c)' = OptionOf(c)
  BY DEF OptionOf
<1>2. \A c : (IsFlag(c)' <=> IsFlag(c)) /\ (TakesValue(c)' <=> TakesValue(c))
  BY <1>1, Zenon DEF IsFlag, TakesValue
<1>3. \A a, j : Reached(a, j)' <=> Reached(a, j)
  BY <1>2, Zenon DEF Reached
<1>4. \A a : WantsNext(a)' <=> WantsNext(a)
  BY <1>2, <1>3, Zenon DEF WantsNext, IsLong, IsShort, IsEnd
<1>5. \A a, o : Names(a, o)' <=> Names(a, o)
  BY <1>3, Zenon DEF Names, IsLong, IsShort, IsEnd
<1>6. \A a : Malformed(a)' <=> Malformed(a)
  BY <1>1, <1>3, <1>5, Zenon DEF Malformed, IsShort
<1> QED
  BY <1>1, <1>2, <1>3, <1>4, <1>5, <1>6, Zenon

LEMMA ArgumentsStay ==
  ASSUME UNCHANGED <<options, argv>>
  PROVE  /\ \A h, e : Heads(h, e)' <=> Heads(h, e)
         /\ \A k : Wrong(k)' <=> Wrong(k)
         /\ \A h, e : Words(h, e)' = Words(h, e)
         /\ \A s, places : InOrder(s, places)' <=> InOrder(s, places)
         /\ \A h, e, o : Naming(h, e, o)' = Naming(h, e, o)
         /\ \A k, o, v : Gives(k, o, v)' <=> Gives(k, o, v)
<1>1. \A k : After(k)' = After(k)
  BY OptionsStay, Zenon DEF After, IsEnd
<1>2. \A h, e : Heads(h, e)' <=> Heads(h, e)
  BY <1>1, Zenon DEF Heads
<1>3. \A k : Wrong(k)' <=> Wrong(k)
  BY OptionsStay, Zenon DEF Wrong, IsOption, IsLong, IsShort, IsEnd
<1>4. \A h, e : Words(h, e)' = Words(h, e)
  BY DEF Words, IsOption, IsLong, IsShort, IsEnd
<1>5. \A s, places : InOrder(s, places)' <=> InOrder(s, places)
  BY Zenon DEF InOrder
<1>6. \A h, e, o : Naming(h, e, o)' = Naming(h, e, o)
  BY OptionsStay DEF Naming, IsOption, IsLong, IsShort, IsEnd
<1>7. \A k, o, v : Gives(k, o, v)' <=> Gives(k, o, v)
  <2>1. (\A a : WantsNext(a)' <=> WantsNext(a)) /\ \A a, j : Reached(a, j)' <=> Reached(a, j)
    BY OptionsStay, Zenon
  <2> SUFFICES ASSUME NEW k, NEW o, NEW v
               PROVE  Gives(k, o, v)' <=> Gives(k, o, v)
    BY Zenon
  <2>2. PICK a : a = argv[k]
    BY Zenon
  <2>3. \A j : Reached(a, j)' <=> Reached(a, j)
    BY <2>1, Zenon
  <2>4. WantsNext(a)' <=> WantsNext(a)
    BY <2>1, Zenon
  <2>5. a = argv'[k] /\ argv'[k + 1] = argv[k + 1]
    BY <2>2
  <2> QED
    BY <2>2, <2>3, <2>4, <2>5 DEF Gives, Word
<1> QED
  BY <1>2, <1>3, <1>4, <1>5, <1>6, <1>7, Zenon

-----------------------------------------------------------------------------
(* One argument more *)

LEMMA HeadsMore ==
  ASSUME NEW e \in Nat, NEW h, Heads(h, e), NEW n \in Nat, n = After(e), e < n
  PROVE  Heads(h \cup {n}, n)
<1>1. h \in SUBSET (1 .. e) /\ 1 \in h /\ e \in h
  BY DEF Heads
<1>2. h \cup {n} \in SUBSET (1 .. n) /\ (h \cup {n}) \ {n} = h
  <2>1. \A k \in 1 .. e : k \in 1 .. n /\ k # n
    OBVIOUS
  <2>2. n \in 1 .. n
    OBVIOUS
  <2> QED
    BY <1>1, <2>1, <2>2, Zenon
<1>3. \A k \in h : After(k) \in h \cup {n}
  BY DEF Heads
<1>4. ASSUME NEW k \in (h \cup {n}) \ {1}
      PROVE  \E m \in h \cup {n} : m < k /\ After(m) = k
  BY <1>1 DEF Heads
<1> QED
  BY <1>1, <1>2, <1>3, <1>4 DEF Heads

\* What lies before the loop has no "--".
LEMMA NoEnd ==
  ASSUME NEW e \in Nat, NEW h, Heads(h, e), Len(argv) \in Nat, e <= Len(argv)
  PROVE  \A k \in h \ {e} : ~IsEnd(argv[k])
<1>1. Len(argv) + 1 \notin h
  BY DEF Heads
<1>2. \A k \in h \ {e} : After(k) \in h
  BY DEF Heads
<1> QED
  BY <1>1, <1>2 DEF After

LEMMA NamingSame ==
  ASSUME NEW e \in Nat, NEW h, Heads(h, e), NEW n \in Nat, e < n, NEW o,
         ~(IsOption(argv[e]) /\ Names(argv[e], o))
  PROVE  Naming(h \cup {n}, n, o) = Naming(h, e, o)
<1>1. h \in SUBSET (1 .. e) /\ e \in h
  BY DEF Heads
<1>2. \A k : k \in h \cup {n} /\ k < n <=> k \in h
  <2>1. (\A k \in 1 .. e : k < n) /\ ~(n < n)
    OBVIOUS
  <2> QED
    BY <1>1, <2>1, Zenon
<1>3. \A k \in h : k < e <=> k # e
  BY <1>1
<1>4. \A k : k \in Naming(h \cup {n}, n, o) <=> k \in Naming(h, e, o)
  BY <1>2, <1>3, Zenon DEF Naming
<1> QED
  BY <1>4, Zenon

LEMMA NamingMore ==
  ASSUME NEW e \in Nat, NEW h, Heads(h, e), NEW n \in Nat, e < n, NEW o,
         IsOption(argv[e]), Names(argv[e], o)
  PROVE  Naming(h \cup {n}, n, o) = Naming(h, e, o) \cup {e}
<1>1. h \in SUBSET (1 .. e) /\ e \in h
  BY DEF Heads
<1>2. \A k : k \in h \cup {n} /\ k < n <=> k \in h
  <2>1. (\A k \in 1 .. e : k < n) /\ ~(n < n)
    OBVIOUS
  <2> QED
    BY <1>1, <2>1, Zenon
<1>3. \A k \in h : k < e <=> k # e
  BY <1>1
<1>4. \A k : k \in Naming(h \cup {n}, n, o) <=> k \in Naming(h, e, o) \cup {e}
  BY <1>1, <1>2, <1>3, Zenon DEF Naming
<1> QED
  BY <1>4, Zenon

LEMMA WordsStay ==
  ASSUME NEW e \in Nat, NEW h, Heads(h, e), Len(argv) \in Nat, e <= Len(argv), IsOption(argv[e]),
         ~IsEnd(argv[e]), NEW n \in {e + 1, e + 2}
  PROVE  Words(h \cup {n}, n) = Words(h, e)
<1>1. h \in SUBSET (1 .. e) /\ e \in h
  BY DEF Heads
<1>2. \A k \in h : ~IsEnd(argv[k])
  BY NoEnd
<1>3. \A k : (\E m \in h : m < k /\ IsEnd(argv[m])) <=> FALSE
  BY <1>2
<1>4. ASSUME NEW k \in 1 .. n - 1
      PROVE  ~\E m \in h \cup {n} : m < k /\ IsEnd(argv[m])
  BY <1>1, <1>2
<1>5. Words(h \cup {n}, n)
        = {k \in 1 .. n - 1 : k \in h \cup {n} /\ ~IsEnd(argv[k]) /\ ~IsOption(argv[k])}
  BY <1>4 DEF Words
<1>6. Words(h, e) = {k \in 1 .. e - 1 : k \in h /\ ~IsEnd(argv[k]) /\ ~IsOption(argv[k])}
  BY <1>3 DEF Words
<1>7. ASSUME NEW k
      PROVE  k \in Words(h \cup {n}, n) <=> k \in Words(h, e)
  <2>1. k \in 1 .. n - 1 /\ k \in h \cup {n} /\ k # e <=> k \in 1 .. e - 1 /\ k \in h
    BY <1>1
  <2> QED
    BY <1>5, <1>6, <2>1, Zenon
<1> QED
  BY <1>7, Zenon

LEMMA WordsWord ==
  ASSUME NEW e \in Nat, NEW h, Heads(h, e), Len(argv) \in Nat, e <= Len(argv), ~IsOption(argv[e]),
         ~IsEnd(argv[e])
  PROVE  Words(h \cup {e + 1}, e + 1) = Words(h, e) \cup {e}
<1>1. h \in SUBSET (1 .. e) /\ e \in h
  BY DEF Heads
<1>2. \A k \in h : ~IsEnd(argv[k])
  BY NoEnd
<1>3. \A k : (\E m \in h : m < k /\ IsEnd(argv[m])) <=> FALSE
  BY <1>2
<1>4. ASSUME NEW k \in 1 .. e + 1 - 1
      PROVE  ~\E m \in h \cup {e + 1} : m < k /\ IsEnd(argv[m])
  BY <1>1, <1>2
<1>5. Words(h \cup {e + 1}, e + 1)
        = {k \in 1 .. e + 1 - 1 : k \in h \cup {e + 1} /\ ~IsEnd(argv[k]) /\ ~IsOption(argv[k])}
  BY <1>4 DEF Words
<1>6. Words(h, e) = {k \in 1 .. e - 1 : k \in h /\ ~IsEnd(argv[k]) /\ ~IsOption(argv[k])}
  BY <1>3 DEF Words
<1>7. ASSUME NEW k
      PROVE  k \in Words(h \cup {e + 1}, e + 1) <=> k \in Words(h, e) \cup {e}
  <2>1. /\ k \in 1 .. e + 1 - 1 /\ k \in h \cup {e + 1} /\ k # e <=> k \in 1 .. e - 1 /\ k \in h
        /\ e \in 1 .. e + 1 - 1 /\ e \in h \cup {e + 1}
    BY <1>1
  <2> QED
    BY <1>5, <1>6, <2>1, Zenon
<1> QED
  BY <1>7, Zenon

LEMMA WordsRest ==
  ASSUME NEW e \in Nat, NEW h, Heads(h, e), Len(argv) \in Nat, e <= Len(argv), IsEnd(argv[e])
  PROVE  Words(h \cup {Len(argv) + 1}, Len(argv) + 1) = Words(h, e) \cup (e + 1 .. Len(argv))
<1> PICK l \in Nat : l = Len(argv)
  OBVIOUS
<1>1. h \in SUBSET (1 .. e) /\ e \in h
  BY DEF Heads
<1>2. \A k \in h \ {e} : ~IsEnd(argv[k])
  BY NoEnd
<1>3. ASSUME NEW k \in 1 .. l + 1 - 1
      PROVE  (\E m \in h \cup {l + 1} : m < k /\ IsEnd(argv[m])) <=> e < k
  BY <1>1, <1>2
<1>4. ASSUME NEW k \in 1 .. e - 1
      PROVE  (\E m \in h : m < k /\ IsEnd(argv[m])) <=> FALSE
  BY <1>1, <1>2
<1>5. Words(h \cup {l + 1}, l + 1)
        = {k \in 1 .. l + 1 - 1 : (k \in h \cup {l + 1} /\ ~IsEnd(argv[k]) /\ ~IsOption(argv[k])) \/ e < k}
  BY <1>3 DEF Words
<1>6. Words(h, e) = {k \in 1 .. e - 1 : k \in h /\ ~IsEnd(argv[k]) /\ ~IsOption(argv[k])}
  BY <1>4 DEF Words
<1>7. ASSUME NEW k
      PROVE  k \in Words(h \cup {l + 1}, l + 1) <=> k \in Words(h, e) \cup (e + 1 .. l)
  <2>1. k \in 1 .. l + 1 - 1 /\ e < k <=> k \in e + 1 .. l
    OBVIOUS
  <2>2. k \in 1 .. l + 1 - 1 /\ k \in h \cup {l + 1} /\ k # e <=> k \in 1 .. e - 1 /\ k \in h
    BY <1>1
  <2> QED
    BY <1>5, <1>6, <2>1, <2>2, Zenon
<1> QED
  BY <1>7, Zenon

LEMMA InOrderNone == InOrder(<<>>, {})
<1> DEFINE f == [n \in 1 .. 0 |-> n]
<1>1. f \in [1 .. 0 -> {}] /\ Len(<<>>) = 0 /\ 1 .. 0 = {}
  OBVIOUS
<1> HIDE DEF f
<1> QED
  BY <1>1, Zenon DEF InOrder

LEMMA InOrderAppend ==
  ASSUME NEW s \in Seq(Texts), NEW e \in Nat, NEW P \in SUBSET (1 .. e - 1), argv[e] \in Texts, InOrder(s, P)
  PROVE  InOrder(Append(s, argv[e]), P \cup {e})
<1> PICK r : r = Append(s, argv[e])
  BY Zenon
<1> PICK l \in Nat : l = Len(s)
  OBVIOUS
<1>1. PICK place \in [1 .. l -> P] :
        /\ \A m, n \in 1 .. l : m < n => place[m] < place[n]
        /\ \A k \in P : \E n \in 1 .. l : place[n] = k
        /\ \A n \in 1 .. l : s[n] = argv[place[n]]
  BY DEF InOrder
<1>2. Len(r) = l + 1 /\ r[l + 1] = argv[e] /\ \A n \in 1 .. l : r[n] = s[n]
  OBVIOUS
<1> DEFINE f == [n \in 1 .. l + 1 |-> IF n = l + 1 THEN e ELSE place[n]]
<1>3. f \in [1 .. l + 1 -> P \cup {e}] /\ f[l + 1] = e /\ \A n \in 1 .. l : f[n] = place[n]
  BY <1>1
<1> HIDE DEF f
<1>4. ASSUME NEW m \in 1 .. l + 1, NEW n \in 1 .. l + 1, m < n
      PROVE  f[m] < f[n]
  <2>1. m \in 1 .. l
    BY <1>4
  <2>2. f[m] = place[m] /\ f[m] \in 1 .. e - 1
    BY <1>1, <1>3, <2>1, Zenon
  <2>3. CASE n \in 1 .. l
    BY <1>1, <1>3, <1>4, <2>1, <2>2, <2>3
  <2>4. CASE n = l + 1
    <3>1. f[n] = e
      BY <1>3, <2>4
    <3> QED
      BY <2>2, <3>1
  <2> QED
    BY <2>3, <2>4
<1>5. \A k \in P \cup {e} : \E n \in 1 .. l + 1 : f[n] = k
  BY <1>1, <1>3
<1>6. \A n \in 1 .. l + 1 : r[n] = argv[f[n]]
  BY <1>1, <1>2, <1>3
<1>7. InOrder(r, P \cup {e})
  <2>1. /\ f \in [1 .. Len(r) -> P \cup {e}]
        /\ \A m, n \in 1 .. Len(r) : m < n => f[m] < f[n]
        /\ \A k \in P \cup {e} : \E n \in 1 .. Len(r) : f[n] = k
        /\ \A n \in 1 .. Len(r) : r[n] = argv[f[n]]
    BY <1>2, <1>3, <1>4, <1>5, <1>6
  <2> QED
    BY <2>1, Zenon DEF InOrder
<1> QED
  BY <1>7

LEMMA TextsConcat ==
  ASSUME NEW s \in Seq(Texts), NEW t \in Seq(Texts)
  PROVE  /\ Len(s \o t) = Len(s) + Len(t)
         /\ \A n \in 1 .. Len(s) + Len(t) : (s \o t)[n] = IF n <= Len(s) THEN s[n] ELSE t[n - Len(s)]
  BY ConcatProperties

LEMMA InOrderRest ==
  ASSUME NEW s \in Seq(Texts), NEW e \in Nat, NEW P \in SUBSET (1 .. e - 1), argv \in Seq(Texts),
         e <= Len(argv), InOrder(s, P)
  PROVE  InOrder(s \o SubSeq(argv, e + 1, Len(argv)), P \cup (e + 1 .. Len(argv)))
<1> PICK r : r = s \o SubSeq(argv, e + 1, Len(argv))
  BY Zenon
<1> PICK l \in Nat : l = Len(s)
  OBVIOUS
<1> PICK d \in Nat : Len(argv) = e + d
  <2>1. Len(argv) - e \in Nat /\ Len(argv) = e + (Len(argv) - e)
    OBVIOUS
  <2> QED
    BY <2>1, Zenon
<1> PICK Q : Q = P \cup (e + 1 .. e + d)
  BY Zenon
<1>1. PICK place \in [1 .. l -> P] :
        /\ \A m, n \in 1 .. l : m < n => place[m] < place[n]
        /\ \A k \in P : \E n \in 1 .. l : place[n] = k
        /\ \A n \in 1 .. l : s[n] = argv[place[n]]
  BY Zenon DEF InOrder
<1>2. Len(r) = l + d /\ (\A n \in 1 .. l : r[n] = s[n]) /\ \A n \in 1 .. d : r[l + n] = argv[e + n]
  <2>1. PICK t : t = SubSeq(argv, e + 1, e + d)
    BY Zenon
  <2>2. t \in Seq(Texts) /\ Len(t) = d /\ \A n \in 1 .. d : t[n] = argv[e + n]
    <3>1. /\ e + 1 \in Int /\ e + d \in Int /\ \A k \in e + 1 .. e + d : argv[k] \in Texts
          /\ (e + d) - (e + 1) + 1 = d /\ (~(e + 1 <= e + d) => d = 0)
      OBVIOUS
    <3>2. /\ t \in Seq(Texts) /\ Len(t) = IF e + 1 <= e + d THEN (e + d) - (e + 1) + 1 ELSE 0
          /\ \A n \in 1 .. (e + d) - (e + 1) + 1 : t[n] = argv[e + 1 + n - 1]
      BY <2>1, <3>1, SubSeqProperties
    <3>3. Len(t) = d /\ \A n \in 1 .. d : e + 1 + n - 1 = e + n
      BY <3>1, <3>2
    <3>4. \A n \in 1 .. d : t[n] = argv[e + n]
      BY <3>1, <3>2, <3>3
    <3> QED
      BY <3>2, <3>3, <3>4
  <2>3. r = s \o t
    BY <2>1
  <2>4. Len(r) = l + d /\ \A n \in 1 .. l + d : r[n] = IF n <= l THEN s[n] ELSE t[n - l]
    <3>1. /\ Len(s \o t) = Len(s) + Len(t)
          /\ \A n \in 1 .. Len(s) + Len(t) : (s \o t)[n] = IF n <= Len(s) THEN s[n] ELSE t[n - Len(s)]
      BY <2>2, TextsConcat, Zenon
    <3> QED
      BY <2>2, <2>3, <3>1, Zenon
  <2>5. \A n \in 1 .. l : n \in 1 .. l + d /\ n <= l
    OBVIOUS
  <2>6. \A n \in 1 .. d : l + n \in 1 .. l + d /\ ~(l + n <= l) /\ (l + n) - l = n
    OBVIOUS
  <2>7. \A n \in 1 .. d : r[l + n] = t[n]
    BY <2>4, <2>6, Zenon
  <2> QED
    BY <2>2, <2>4, <2>5, <2>7, Zenon
<1> DEFINE f == [n \in 1 .. l + d |-> IF n <= l THEN place[n] ELSE e + (n - l)]
<1>3. f = [n \in 1 .. l + d |-> f[n]] /\ \A n \in 1 .. l + d : f[n] = IF n <= l THEN place[n] ELSE e + (n - l)
  OBVIOUS
<1> HIDE DEF f
<1>4. ASSUME NEW n \in 1 .. l
      PROVE  f[n] = place[n] /\ f[n] \in 1 .. e - 1 /\ f[n] \in Q
  <2>1. f[n] = place[n]
    BY <1>3
  <2>2. place[n] \in P
    BY <1>1
  <2> QED
    BY <2>1, <2>2, Zenon
<1>5. ASSUME NEW n \in 1 .. d
      PROVE  f[l + n] = e + n /\ f[l + n] \in Q
  <2>1. l + n \in 1 .. l + d /\ ~(l + n <= l) /\ (l + n) - l = n
    OBVIOUS
  <2>2. f[l + n] = e + n
    BY <1>3, <2>1, Zenon
  <2> QED
    BY <2>2
<1>6. \A n \in 1 .. l + d : n \in 1 .. l \/ \E m \in 1 .. d : n = l + m
  <2>1. ASSUME NEW n \in 1 .. l + d, n \notin 1 .. l
        PROVE  n - l \in 1 .. d /\ n = l + (n - l)
    BY <2>1
  <2> QED
    BY <2>1, Zenon
<1>7. f \in [1 .. l + d -> Q]
  <2>1. \A n \in 1 .. l + d : f[n] \in Q
    BY <1>4, <1>5, <1>6, Zenon
  <2> QED
    BY <1>3, <2>1
<1>8. ASSUME NEW m \in 1 .. l + d, NEW n \in 1 .. l + d, m < n
      PROVE  f[m] < f[n]
  <2>1. CASE m \in 1 .. l /\ n \in 1 .. l
    BY <1>1, <1>4, <1>8, <2>1
  <2>2. CASE m \in 1 .. l /\ n \notin 1 .. l
    <3>1. PICK b \in 1 .. d : n = l + b
      BY <1>6, <2>2, Zenon
    <3>2. f[n] = e + b /\ f[m] \in 1 .. e - 1
      BY <1>4, <1>5, <2>2, <3>1
    <3> QED
      BY <3>2
  <2>3. CASE m \notin 1 .. l
    <3>1. PICK a \in 1 .. d : m = l + a
      BY <1>6, <2>3, Zenon
    <3>2. n \notin 1 .. l
      BY <1>8, <2>3
    <3>3. PICK b \in 1 .. d : n = l + b
      BY <1>6, <3>2, Zenon
    <3>4. f[m] = e + a /\ f[n] = e + b
      BY <1>5, <3>1, <3>3, Zenon
    <3> QED
      BY <1>8, <3>1, <3>3, <3>4
  <2> QED
    BY <2>1, <2>2, <2>3
<1>9. ASSUME NEW k \in Q
      PROVE  \E n \in 1 .. l + d : f[n] = k
  <2>1. CASE k \in P
    <3>1. PICK n \in 1 .. l : place[n] = k
      BY <1>1, <2>1
    <3> QED
      BY <1>4, <3>1
  <2>2. CASE k \in e + 1 .. e + d
    <3>1. k - e \in 1 .. d /\ e + (k - e) = k /\ l + (k - e) \in 1 .. l + d
      BY <2>2
    <3> QED
      BY <1>5, <3>1, Zenon
  <2> QED
    BY <2>1, <2>2
<1>10. ASSUME NEW n \in 1 .. l + d
      PROVE  r[n] = argv[f[n]]
  <2>1. CASE n \in 1 .. l
    BY <1>1, <1>2, <1>4, <2>1
  <2>2. CASE n \notin 1 .. l
    <3>1. PICK b \in 1 .. d : n = l + b
      BY <1>6, <2>2, Zenon
    <3> QED
      BY <1>2, <1>5, <3>1
  <2> QED
    BY <2>1, <2>2
<1>11. InOrder(r, Q)
  <2>1. /\ f \in [1 .. Len(r) -> Q]
        /\ \A m, n \in 1 .. Len(r) : m < n => f[m] < f[n]
        /\ \A k \in Q : \E n \in 1 .. Len(r) : f[n] = k
        /\ \A n \in 1 .. Len(r) : r[n] = argv[f[n]]
    BY <1>2, <1>7, <1>8, <1>9, <1>10
  <2> QED
    BY <2>1, Zenon DEF InOrder
<1> QED
  BY <1>11

\* An option that the argument does not name stays as it is.
LEMMA NotNamed ==
  ASSUME NEW e \in Nat, NEW h, Heads(h, e), NEW n \in Nat, e < n, NEW o, OptionRight(h, e, o),
         UNCHANGED <<options, argv>>, ~(IsOption(argv[e]) /\ Names(argv[e], o)),
         o.key \in set' <=> o.key \in set, o.has_arg => value'[o.key] = value[o.key]
  PROVE  OptionRight(h \cup {n}, n, o)'
<1>1. Naming(h \cup {n}, n, o)' = Naming(h, e, o)
  <2>1. Naming(h \cup {n}, n, o) = Naming(h, e, o)
    BY NamingSame
  <2> QED
    BY <2>1, ArgumentsStay, Zenon
<1> PICK N : N = Naming(h, e, o)
  BY Zenon
<1>2. /\ o.key \in set <=> N # {}
      /\ o.has_arg => \/ N = {} /\ value[o.key] = o.default
                      \/ \E k \in N : (\A m \in N : m <= k) /\ Gives(k, o, value[o.key])
  BY Zenon DEF OptionRight
<1> PICK v : v = value[o.key]
  OBVIOUS
<1>3. \A k : Gives(k, o, v)' <=> Gives(k, o, v)
  BY ArgumentsStay, Zenon
<1>4. o.has_arg => \/ N = {} /\ v = o.default
                   \/ \E k \in N : (\A m \in N : m <= k) /\ Gives(k, o, v)'
  BY <1>2, <1>3, Zenon
<1> QED
  BY <1>1, <1>2, <1>4, Zenon DEF OptionRight

\* An option that the argument names is set and has the value given.
LEMMA Named ==
  ASSUME NEW e \in Nat, NEW h, Heads(h, e), NEW n \in Nat, e < n, NEW o,
         UNCHANGED <<options, argv>>, IsOption(argv[e]), Names(argv[e], o),
         o.key \in set', o.has_arg => Gives(e, o, value'[o.key])
  PROVE  OptionRight(h \cup {n}, n, o)'
<1>1. Naming(h \cup {n}, n, o)' = Naming(h, e, o) \cup {e}
  <2>1. Naming(h \cup {n}, n, o) = Naming(h, e, o) \cup {e}
    BY NamingMore
  <2> QED
    BY <2>1, ArgumentsStay, Zenon
<1> PICK N : N = Naming(h, e, o) \cup {e}
  BY Zenon
<1>2. e \in N /\ \A m \in N : m <= e
  <2>1. h \in SUBSET (1 .. e)
    BY Zenon DEF Heads
  <2>2. \A m \in Naming(h, e, o) : m \in h
    BY Zenon DEF Naming
  <2>3. \A m \in 1 .. e : m <= e
    OBVIOUS
  <2>4. e <= e
    OBVIOUS
  <2> QED
    BY <2>1, <2>2, <2>3, <2>4, Zenon
<1> PICK v : v = value'[o.key]
  OBVIOUS
<1>3. o.has_arg => Gives(e, o, v)'
  BY ArgumentsStay, Zenon
<1> QED
  BY <1>1, <1>2, <1>3, Zenon DEF OptionRight

-----------------------------------------------------------------------------
(* The argument the loop is at *)

LEMMA ArgFacts ==
  ASSUME TypeOK, Looping
  PROVE  /\ argv \in Seq(Texts) /\ Len(argv) \in Nat /\ i \in Nat /\ i \in 1 .. Len(argv)
         /\ Arg = argv[i] /\ Arg \in Texts /\ Arg.letters \in Seq(Letters) /\ Arg.value \in Seq(Letters)
         /\ Len(Arg.letters) \in Nat /\ DOMAIN Arg.letters = 1 .. Len(Arg.letters)
         /\ Arg.eq \in BOOLEAN
<1>1. argv \in Seq(Texts) /\ Len(argv) \in Nat /\ i \in Nat /\ i \in 1 .. Len(argv)
  BY DEF TypeOK, Looping
<1>2. Arg = argv[i] /\ Arg \in Texts
  BY <1>1 DEF Arg
<1>3. Arg.letters \in Seq(Letters) /\ Arg.value \in Seq(Letters) /\ Arg.eq \in BOOLEAN
  BY <1>2 DEF Texts
<1> QED
  BY <1>1, <1>2, <1>3

\* An option is known by its key, and by its letter.
LEMMA SameOption ==
  ASSUME TypeOK, NEW o \in options, NEW p \in options
  PROVE  /\ o.key = p.key => o = p
         /\ o.short = p.short /\ o.short \in Letters => o = p
  BY LettersAssumption DEF TypeOK

LEMMA WordType ==
  ASSUME NEW letters \in Seq(Letters)
  PROVE  Word(letters) \in Texts
<1>1. <<>> \in Seq(Letters)
  OBVIOUS
<1> QED
  BY <1>1 DEF Word, Texts

\* The loop goes on behind an option.
LEMMA Proceeds ==
  ASSUME IInv, Looping, UNCHANGED <<options, calls, argv, positional, state>>,
         IsOption(Arg), ~IsEnd(Arg), ~Wrong(i), i' = After(i), i' \in {i + 1, i + 2}, i' <= Len(argv) + 1,
         set' \subseteq Keys, value' \in [ValueKeys -> Texts],
         \A o \in options : Names(Arg, o) =>
           o.key \in set' /\ (o.has_arg => Gives(i, o, value'[o.key])),
         \A o \in options : ~Names(Arg, o) =>
           (o.key \in set' <=> o.key \in set) /\ (o.has_arg => value'[o.key] = value[o.key])
  PROVE  IInv'
<1> PICK e : e = i
  OBVIOUS
<1> PICK n : n = i'
  OBVIOUS
<1>1. /\ argv \in Seq(Texts) /\ Len(argv) \in Nat /\ e \in Nat /\ e \in 1 .. Len(argv) /\ Arg = argv[e]
      /\ n \in Nat /\ e < n /\ n \in 1 .. Len(argv) + 1 /\ n \in {e + 1, e + 2} /\ n = After(e)
      /\ state = "parsing"
  BY ArgFacts DEF IInv, Looping
<1>2. PICK h \in SUBSET (1 .. Len(argv) + 1) : Understood(h, e)
  BY <1>1 DEF IInv, Parsing
<1>3. Heads(h \cup {n}, n)'
  <2>1. Heads(h, e)
    BY <1>2 DEF Understood
  <2>2. Heads(h \cup {n}, n)
    BY <1>1, <2>1, HeadsMore
  <2> QED
    BY <2>2, ArgumentsStay
<1>4. \A k \in (h \cup {n}) \ {n} : ~Wrong(k)'
  BY <1>2, ArgumentsStay DEF Understood
<1>5. InOrder(positional, Words(h \cup {n}, n))'
  <2>1. Words(h \cup {n}, n) = Words(h, e)
    <3>1. Heads(h, e) /\ IsOption(argv[e]) /\ ~IsEnd(argv[e]) /\ e <= Len(argv)
      BY <1>1, <1>2 DEF Understood
    <3> QED
      BY <1>1, <3>1, WordsStay, Zenon
  <2> PICK P : P = Words(h, e)
    OBVIOUS
  <2> PICK s : s = positional
    OBVIOUS
  <2>2. InOrder(s, P)'
    BY <1>2, ArgumentsStay DEF Understood
  <2>3. Words(h \cup {n}, n)' = P
    BY <2>1, ArgumentsStay
  <2> QED
    BY <2>2, <2>3
<1>6. ASSUME NEW o \in options
      PROVE  OptionRight(h \cup {n}, n, o)'
  <2>1. Heads(h, e) /\ OptionRight(h, e, o)
    BY <1>2 DEF Understood
  <2>2. CASE Names(Arg, o)
    <3>1. IsOption(argv[e]) /\ Names(argv[e], o) /\ o.key \in set' /\ (o.has_arg => Gives(e, o, value'[o.key]))
      BY <1>1, <2>2
    <3> QED
      BY <1>1, <2>1, <3>1, Named
  <2>3. CASE ~Names(Arg, o)
    <3>1. /\ ~Names(argv[e], o) /\ (o.key \in set' <=> o.key \in set)
          /\ o.has_arg => value'[o.key] = value[o.key]
      BY <1>1, <2>3
    <3> QED
      BY <1>1, <2>1, <3>1, NotNamed
  <2> QED
    BY <2>2, <2>3
<1>7. Understood(h \cup {n}, n)'
  BY <1>3, <1>4, <1>5, <1>6, Zenon DEF Understood
<1>8. Parsing'
  <2>1. h \cup {n} \in SUBSET (1 .. Len(argv) + 1)
    BY <1>1, <1>2, Zenon
  <2> QED
    BY <1>7, <2>1 DEF Parsing
<1>9. TypeOK'
  BY <1>1 DEF IInv, TypeOK, Keys, ValueKeys
<1>10. ParseExact'
  BY <1>1 DEF ParseExact
<1> QED
  BY <1>8, <1>9, <1>10 DEF IInv

\* The call ends at an option that is wrong.
LEMMA Throws ==
  ASSUME IInv, Looping, UNCHANGED <<options, calls, argv, positional, i, value>>, state' = "error",
         Wrong(i), set' \subseteq Keys
  PROVE  IInv'
<1> PICK e : e = i
  OBVIOUS
<1>1. /\ Len(argv) \in Nat /\ e \in Nat /\ e \in 1 .. Len(argv) /\ state = "parsing" /\ Wrong(e)
  BY ArgFacts DEF IInv, Looping
<1>2. PICK h \in SUBSET (1 .. Len(argv) + 1) : Understood(h, e)
  BY <1>1 DEF IInv, Parsing
<1>3. Heads(h, e)' /\ Wrong(e)' /\ \A k \in h \ {e} : ~Wrong(k)'
  BY <1>1, <1>2, ArgumentsStay DEF Understood
<1>4. h \in SUBSET (1 .. Len(argv))
  BY <1>1, <1>2 DEF Understood, Heads
<1>5. ParseExact'
  BY <1>1, <1>3, <1>4 DEF ParseExact
<1>6. TypeOK'
  BY <1>1 DEF IInv, TypeOK, Keys, ValueKeys
<1>7. Parsing'
  BY DEF Parsing
<1> QED
  BY <1>5, <1>6, <1>7 DEF IInv

-----------------------------------------------------------------------------
(* The steps of a call *)

LEMMA GiveFacts ==
  ASSUME TypeOK, state = "parsing", NEW o \in options, o.has_arg, NEW v \in Texts, set_value(o, v)
  PROVE  /\ value' \in [ValueKeys -> Texts] /\ value'[o.key] = v
         /\ \A p \in options : p # o /\ p.has_arg => value'[p.key] = value[p.key]
<1>1. value \in [ValueKeys -> Texts] /\ value' = [value EXCEPT ![o.key] = v]
  BY DEF TypeOK, set_value
<1>2. o.key \in ValueKeys
  BY Zenon DEF ValueKeys
<1>3. ASSUME NEW p \in options, p # o, p.has_arg
      PROVE  p.key \in ValueKeys /\ p.key # o.key
  <2>1. p.key \in ValueKeys
    BY <1>3, Zenon DEF ValueKeys
  <2> QED
    BY <1>3, <2>1, SameOption
<1> QED
  BY <1>1, <1>2, <1>3

LEMMA ValueStays ==
  ASSUME TypeOK, state = "parsing"
  PROVE  value \in [ValueKeys -> Texts] /\ set \subseteq Keys /\ \A o \in options : o.key \in Keys
<1>1. \A o \in options : o.key \in Keys
  BY Zenon DEF Keys
<1> QED
  BY <1>1 DEF TypeOK

\* The argument gives the option o the value v, and sets the flags among keys.
LEMMA GivesValue ==
  ASSUME IInv, Looping, UNCHANGED <<options, calls, argv, positional, state>>,
         IsOption(Arg), ~IsEnd(Arg), ~Wrong(i), i' = After(i), i' \in {i + 1, i + 2}, i' <= Len(argv) + 1,
         NEW keys \in SUBSET Keys, set' = set \cup keys,
         \A p \in options : Names(Arg, p) <=> p.key \in keys,
         NEW o \in options, o.has_arg, Names(Arg, o), \A p \in options : Names(Arg, p) /\ p.has_arg => p = o,
         NEW v \in Texts, set_value(o, v), Gives(i, o, v)
  PROVE  IInv'
<1>1. set' \subseteq Keys /\ state = "parsing"
  BY ValueStays DEF IInv, Looping
<1>2. /\ value' \in [ValueKeys -> Texts] /\ value'[o.key] = v
      /\ \A p \in options : p # o /\ p.has_arg => value'[p.key] = value[p.key]
  BY <1>1, GiveFacts DEF IInv
<1>3. \A p \in options : Names(Arg, p) =>
        p.key \in set' /\ (p.has_arg => Gives(i, p, value'[p.key]))
  BY <1>2, Zenon
<1>4. \A p \in options : ~Names(Arg, p) =>
        (p.key \in set' <=> p.key \in set) /\ (p.has_arg => value'[p.key] = value[p.key])
  BY <1>2, Zenon
<1> QED
  BY <1>1, <1>2, <1>3, <1>4, Proceeds

\* The argument sets the flags with these keys.
LEMMA SetsFlags ==
  ASSUME IInv, Looping, UNCHANGED <<options, calls, argv, positional, state, value>>,
         IsOption(Arg), ~IsEnd(Arg), ~Wrong(i), i' = After(i), i' \in {i + 1, i + 2}, i' <= Len(argv) + 1,
         NEW keys \in SUBSET Keys, set' = set \cup keys,
         \A p \in options : Names(Arg, p) <=> p.key \in keys,
         \A p \in options : Names(Arg, p) => ~p.has_arg
  PROVE  IInv'
<1>1. set' \subseteq Keys /\ value' \in [ValueKeys -> Texts]
  BY ValueStays DEF IInv, Looping
<1>2. \A p \in options : Names(Arg, p) =>
        p.key \in set' /\ (p.has_arg => Gives(i, p, value'[p.key]))
  BY Zenon
<1>3. \A p \in options : ~Names(Arg, p) =>
        (p.key \in set' <=> p.key \in set) /\ (p.has_arg => value'[p.key] = value[p.key])
  BY Zenon
<1> QED
  BY <1>1, <1>2, <1>3, Proceeds

LEMMA parse_long_optionInv == IInv /\ parse_long_option => IInv'
<1> SUFFICES ASSUME IInv, parse_long_option PROVE IInv'
  OBVIOUS
<1>1. /\ Looping /\ state = "parsing" /\ IsLong(Arg) /\ ~IsShort(Arg) /\ ~IsEnd(Arg) /\ IsOption(Arg)
      /\ UNCHANGED <<options, calls, argv, positional>>
  BY DEF parse_long_option, IsLong, IsShort, IsOption, Looping, fixed
<1>2. /\ Len(argv) \in Nat /\ i \in Nat /\ i \in 1 .. Len(argv) /\ Arg = argv[i] /\ Arg.eq \in BOOLEAN
      /\ Arg.value \in Seq(Letters) /\ argv \in Seq(Texts)
  BY <1>1, ArgFacts DEF IInv
<1>3. \A o : Names(Arg, o) <=> Arg.letters = o.key
  BY <1>1 DEF Names
<1>4. /\ value \in [ValueKeys -> Texts] /\ set \subseteq Keys /\ \A o \in options : o.key \in Keys
  BY <1>1, ValueStays DEF IInv
<1>5. CASE /\ \A o \in options : o.key # Arg.letters
           /\ throw /\ UNCHANGED set
  <2>1. Wrong(i)
    BY <1>1, <1>2, <1>3, <1>5 DEF Wrong, Malformed
  <2> QED
    BY <1>1, <1>4, <1>5, <2>1, Throws DEF throw
<1>6. ASSUME NEW o \in options, o.key = Arg.letters,
             \/ o.has_arg /\ Arg.eq /\ Give(o, Word(Arg.value), 1) /\ set_flags({o.key})
             \/ o.has_arg /\ ~Arg.eq /\ GiveNext(o, {})
             \/ ~o.has_arg /\ Arg.eq /\ throw /\ UNCHANGED set
             \/ ~o.has_arg /\ ~Arg.eq /\ Flags({o.key})
      PROVE  IInv'
  <2>1. \A p \in options : (Names(Arg, p) <=> p = o) /\ (Names(Arg, p) <=> p.key \in {o.key})
    BY <1>3, <1>6, SameOption DEF IInv
  <2>2. Malformed(Arg) <=> Arg.eq /\ ~o.has_arg
    BY <1>1, <2>1 DEF Malformed
  <2>3. WantsNext(Arg) <=> ~Arg.eq /\ o.has_arg
    <3>1. (\E p \in options : p.key = Arg.letters /\ p.has_arg) <=> o.has_arg
      BY <1>6, SameOption DEF IInv
    <3> QED
      BY <1>1, <3>1 DEF WantsNext
  <2>4. {o.key} \in SUBSET Keys
    BY <1>4
  <2>5. CASE o.has_arg /\ Arg.eq /\ Give(o, Word(Arg.value), 1) /\ set_flags({o.key})
    <3>1. ~Wrong(i) /\ After(i) = i + 1 /\ i' = i + 1 /\ state' = state /\ set' = set \cup {o.key}
      BY <1>1, <1>2, <2>2, <2>3, <2>5 DEF Wrong, After, Give, set_flags
    <3>2. Word(Arg.value) \in Texts /\ set_value(o, Word(Arg.value))
      BY <1>2, <2>5, WordType DEF Give
    <3>3. Gives(i, o, Word(Arg.value))
      BY <1>2, <2>5 DEF Gives
    <3>4. i' = After(i) /\ i' \in {i + 1, i + 2} /\ i' <= Len(argv) + 1
      BY <1>2, <3>1
    <3> QED
      BY <1>1, <2>1, <2>4, <2>5, <3>1, <3>2, <3>3, <3>4, GivesValue, Zenon
  <2>6. CASE o.has_arg /\ ~Arg.eq /\ GiveNext(o, {}) /\ i < Len(argv)
    <3>1. /\ ~Wrong(i) /\ After(i) = i + 2 /\ i' = i + 2 /\ state' = state /\ set' = set \cup {o.key}
          /\ WantsNext(Arg) /\ set_value(o, argv[i + 1])
      BY <1>1, <1>2, <2>2, <2>3, <2>6 DEF Wrong, After, GiveNext, Give, set_flags
    <3>2. argv[i + 1] \in Texts
      BY <1>2, <2>6
    <3>3. Gives(i, o, argv[i + 1])
      BY <1>2, <3>1 DEF Gives
    <3>4. i' = After(i) /\ i' \in {i + 1, i + 2} /\ i' <= Len(argv) + 1
      BY <1>2, <2>6, <3>1
    <3> QED
      BY <1>1, <2>1, <2>4, <2>6, <3>1, <3>2, <3>3, <3>4, GivesValue, Zenon
  <2>7. CASE o.has_arg /\ ~Arg.eq /\ GiveNext(o, {}) /\ ~(i < Len(argv))
    <3>1. i = Len(argv)
      BY <1>2, <2>7
    <3>2. Wrong(i)
      BY <1>1, <1>2, <2>3, <2>7, <3>1 DEF Wrong
    <3>3. throw /\ set' = set
      BY <2>7 DEF GiveNext, set_flags
    <3> QED
      BY <1>1, <1>4, <3>2, <3>3, Throws DEF throw
  <2>8. CASE ~o.has_arg /\ Arg.eq /\ throw /\ UNCHANGED set
    <3>1. Wrong(i)
      BY <1>1, <1>2, <2>2, <2>8 DEF Wrong
    <3> QED
      BY <1>1, <1>4, <2>8, <3>1, Throws DEF throw
  <2>9. CASE ~o.has_arg /\ ~Arg.eq /\ Flags({o.key})
    <3>1. ~Wrong(i) /\ After(i) = i + 1 /\ i' = i + 1 /\ UNCHANGED <<state, value>> /\ set' = set \cup {o.key}
      BY <1>1, <1>2, <2>2, <2>3, <2>9 DEF Wrong, After, Flags, set_flags
    <3>2. i' = After(i) /\ i' \in {i + 1, i + 2} /\ i' <= Len(argv) + 1
      BY <1>2, <3>1
    <3> QED
      BY <1>1, <2>1, <2>4, <2>9, <3>1, <3>2, SetsFlags
  <2> QED
    BY <1>6, <2>5, <2>6, <2>7, <2>8, <2>9
<1> QED
  BY <1>1, <1>5, <1>6, Zenon DEF parse_long_option

LEMMA ShortFacts ==
  ASSUME IInv, Looping, IsShort(Arg)
  PROVE  /\ ~IsLong(Arg) /\ ~IsEnd(Arg) /\ IsOption(Arg) /\ Reached(Arg, 1)
         /\ ~Arg.eq => Len(Arg.letters) > 0
         /\ \A j \in 1 .. Len(Arg.letters) : Arg.letters[j] \in Letters
         /\ \A p : Names(Arg, p) <=>
              \E j \in 1 .. Len(Arg.letters) : Arg.letters[j] = p.short /\ Reached(Arg, j)
<1>1. ~IsLong(Arg) /\ ~IsEnd(Arg) /\ IsOption(Arg)
  BY DEF IsLong, IsShort, IsEnd, IsOption
<1>2. Reached(Arg, 1)
  BY DEF Reached
<1>3. /\ Arg.letters \in Seq(Letters) /\ Len(Arg.letters) \in Nat
      /\ DOMAIN Arg.letters = 1 .. Len(Arg.letters)
  BY ArgFacts DEF IInv
<1>4. ~Arg.eq => Len(Arg.letters) > 0
  <2>1. ~Arg.eq => Arg.letters # <<>>
    BY DEF IsShort
  <2>2. Len(Arg.letters) = 0 => Arg.letters = <<>>
    BY <1>3, EmptySeq
  <2> QED
    BY <1>3, <2>1, <2>2
<1>5. \A j \in 1 .. Len(Arg.letters) : Arg.letters[j] \in Letters
  BY <1>3
<1>6. \A p : Names(Arg, p) <=>
        \E j \in 1 .. Len(Arg.letters) : Arg.letters[j] = p.short /\ Reached(Arg, j)
  BY <1>1, <1>3, Zenon DEF Names
<1> QED
  BY <1>1, <1>2, <1>4, <1>5, <1>6

\* A letter stands for one option.
LEMMA LetterFacts ==
  ASSUME TypeOK, NEW c \in Letters, NEW o \in OptionOf(c)
  PROVE  /\ o \in options /\ o.short = c /\ o.has_arg \in BOOLEAN
         /\ \A p \in options : p.short = c <=> p = o
         /\ IsFlag(c) <=> ~o.has_arg
         /\ TakesValue(c) <=> o.has_arg
<1>1. o \in options /\ o.short = c /\ o.has_arg \in BOOLEAN
  BY DEF OptionOf, TypeOK, OptionTypes
<1>2. \A p \in options : p.short = c <=> p = o
  BY <1>1, SameOption
<1>3. OptionOf(c) = {o}
  BY <1>1, <1>2 DEF OptionOf
<1>4. (IsFlag(c) <=> ~o.has_arg) /\ (TakesValue(c) <=> o.has_arg)
  BY <1>3, Zenon DEF IsFlag, TakesValue
<1> QED
  BY <1>1, <1>2, <1>4

LEMMA ShortWithSignInv == IInv /\ ShortWithSign => IInv'
<1> SUFFICES ASSUME IInv, ShortWithSign PROVE IInv'
  OBVIOUS
<1> PICK c : c = Arg.letters[1]
  OBVIOUS
<1>1. /\ Looping /\ state = "parsing" /\ IsShort(Arg) /\ Arg.eq
      /\ UNCHANGED <<options, calls, argv, positional>>
  BY DEF ShortWithSign, Looping, fixed
<1>2. /\ Len(argv) \in Nat /\ i \in Nat /\ i \in 1 .. Len(argv) /\ Arg = argv[i]
      /\ Arg.value \in Seq(Letters) /\ Len(Arg.letters) \in Nat
      /\ DOMAIN Arg.letters = 1 .. Len(Arg.letters)
  BY <1>1, ArgFacts DEF IInv
<1>3. /\ ~IsLong(Arg) /\ ~IsEnd(Arg) /\ IsOption(Arg) /\ Reached(Arg, 1)
      /\ \A j \in 1 .. Len(Arg.letters) : Arg.letters[j] \in Letters
      /\ \A p : Names(Arg, p) <=>
           \E j \in 1 .. Len(Arg.letters) : Arg.letters[j] = p.short /\ Reached(Arg, j)
  BY <1>1, ShortFacts
<1>4. /\ value \in [ValueKeys -> Texts] /\ set \subseteq Keys /\ \A o \in options : o.key \in Keys
  BY <1>1, ValueStays DEF IInv
<1>5. ~WantsNext(Arg)
  BY <1>1 DEF WantsNext
<1>6. Len(Arg.letters) = 1 => c \in Letters /\ \A p : Names(Arg, p) <=> p.short = c
  BY <1>2, <1>3
<1>7. ASSUME Len(Arg.letters) = 1, TakesValue(c), NEW o \in OptionOf(c),
             Give(o, Word(Arg.value), 1), set_flags({o.key})
      PROVE  IInv'
  <2>1. o \in options /\ o.short = c /\ o.has_arg /\ \A p \in options : p.short = c <=> p = o
    BY <1>6, <1>7, LetterFacts DEF IInv
  <2>2. \A p \in options : (Names(Arg, p) <=> p = o) /\ (Names(Arg, p) <=> p.key \in {o.key})
    BY <1>6, <1>7, <2>1, SameOption DEF IInv
  <2>3. ~Malformed(Arg)
    <3>1. \A j \in DOMAIN Arg.letters : OptionOf(Arg.letters[j]) # {}
      BY <1>2, <1>7
    <3> QED
      BY <1>7, <2>1, <2>2, <3>1 DEF Malformed
  <2>4. ~Wrong(i) /\ After(i) = i + 1 /\ i' = i + 1 /\ state' = state /\ set' = set \cup {o.key}
    BY <1>2, <1>3, <1>5, <1>7, <2>3 DEF Wrong, After, Give, set_flags
  <2>5. Word(Arg.value) \in Texts /\ set_value(o, Word(Arg.value))
    BY <1>2, <1>7, WordType DEF Give
  <2>6. Gives(i, o, Word(Arg.value))
    BY <1>1, <1>2 DEF Gives
  <2>7. i' = After(i) /\ i' \in {i + 1, i + 2} /\ i' <= Len(argv) + 1 /\ {o.key} \in SUBSET Keys
    BY <1>2, <1>4, <2>1, <2>4
  <2> QED
    BY <1>1, <1>3, <2>1, <2>2, <2>4, <2>5, <2>6, <2>7, GivesValue, Zenon
<1>8. CASE ~(Len(Arg.letters) = 1 /\ TakesValue(c)) /\ throw /\ UNCHANGED set
  <2>1. Malformed(Arg)
    <3>1. CASE Len(Arg.letters) # 1
      BY <1>1, <3>1 DEF Malformed
    <3>2. CASE Len(Arg.letters) = 1 /\ OptionOf(c) = {}
      BY <1>1, <1>2, <1>3, <3>2 DEF Malformed
    <3>3. CASE Len(Arg.letters) = 1 /\ OptionOf(c) # {}
      <4>1. PICK o : o \in OptionOf(c)
        BY <3>3
      <4>2. o \in options /\ o.short = c /\ ~o.has_arg
        BY <1>6, <1>8, <3>3, <4>1, LetterFacts DEF IInv
      <4> QED
        BY <1>1, <1>6, <3>3, <4>2 DEF Malformed
    <3> QED
      BY <3>1, <3>2, <3>3
  <2>2. Wrong(i)
    BY <1>2, <1>3, <2>1 DEF Wrong
  <2> QED
    BY <1>1, <1>4, <1>8, <2>2, Throws DEF throw
<1> QED
  BY <1>7, <1>8, Zenon DEF ShortWithSign

\* The keys of the flags before the letter at stop.
LEMMA FlagKeys ==
  ASSUME IInv, Looping, IsShort(Arg), NEW stop \in 1 .. Len(Arg.letters) + 1
  PROVE  /\ KeysOf(SubSeq(Arg.letters, 1, stop - 1)) \in SUBSET Keys
         /\ \A p \in options : p.key \in KeysOf(SubSeq(Arg.letters, 1, stop - 1)) <=>
              \E j \in 1 .. stop - 1 : Arg.letters[j] = p.short
<1> PICK l : l = Arg.letters
  OBVIOUS
<1> PICK q : q = SubSeq(l, 1, stop - 1)
  BY Zenon
<1>1. l \in Seq(Letters) /\ Len(l) \in Nat /\ \A j \in 1 .. Len(l) : l[j] \in Letters
  BY ArgFacts, ShortFacts DEF IInv
<1>2. DOMAIN q = 1 .. stop - 1 /\ \A j \in 1 .. stop - 1 : q[j] = l[j] /\ l[j] \in Letters
  BY <1>1
<1> PICK named : named = UNION {OptionOf(q[j]) : j \in DOMAIN q}
  BY Zenon
<1>3. /\ \A k : k \in KeysOf(q) <=> \E o \in named : k = o.key
      /\ \A o : o \in named <=> \E j \in DOMAIN q : o \in OptionOf(q[j])
  BY DEF KeysOf
<1>4. \A j : OptionOf(q[j]) \in SUBSET options
  BY DEF OptionOf
<1>5. KeysOf(q) \in SUBSET Keys
  BY <1>3, <1>4, Zenon DEF Keys
<1>6. ASSUME NEW p \in options, NEW j \in 1 .. stop - 1, l[j] = p.short
      PROVE  p.key \in KeysOf(q)
  <2>1. p \in OptionOf(q[j]) /\ j \in DOMAIN q
    BY <1>2, <1>6 DEF OptionOf
  <2> QED
    BY <1>3, <2>1, Zenon
<1>7. ASSUME NEW p \in options, p.key \in KeysOf(q)
      PROVE  \E j \in 1 .. stop - 1 : l[j] = p.short
  <2>1. PICK j \in DOMAIN q : \E o \in OptionOf(q[j]) : p.key = o.key
    BY <1>3, <1>7
  <2>2. PICK o \in OptionOf(q[j]) : p.key = o.key
    BY <2>1
  <2>3. o \in options /\ o.short = q[j]
    BY DEF OptionOf
  <2>4. o = p
    BY <2>2, <2>3, SameOption DEF IInv
  <2> QED
    BY <1>2, <2>3, <2>4
<1> QED
  BY <1>5, <1>6, <1>7, Zenon

LEMMA ClusterInv == IInv /\ Cluster => IInv'
<1> SUFFICES ASSUME IInv, Cluster PROVE IInv'
  OBVIOUS
<1> PICK l : l = Arg.letters
  OBVIOUS
<1>1. /\ Looping /\ state = "parsing" /\ IsShort(Arg) /\ ~Arg.eq
      /\ UNCHANGED <<options, calls, argv, positional>>
  BY DEF Cluster, Looping, fixed
<1>2. /\ Len(argv) \in Nat /\ i \in Nat /\ i \in 1 .. Len(argv) /\ Arg = argv[i] /\ argv \in Seq(Texts)
      /\ l \in Seq(Letters) /\ Len(l) \in Nat /\ DOMAIN l = 1 .. Len(l)
  BY <1>1, ArgFacts DEF IInv
<1>3. /\ ~IsLong(Arg) /\ ~IsEnd(Arg) /\ IsOption(Arg) /\ Reached(Arg, 1) /\ Len(l) > 0
      /\ \A j \in 1 .. Len(l) : l[j] \in Letters
      /\ \A p : Names(Arg, p) <=> \E j \in 1 .. Len(l) : l[j] = p.short /\ Reached(Arg, j)
  BY <1>1, ShortFacts
<1>4. /\ value \in [ValueKeys -> Texts] /\ set \subseteq Keys /\ \A o \in options : o.key \in Keys
  BY <1>1, ValueStays DEF IInv
<1>5. PICK stop \in 1 .. Len(l) + 1 :
        /\ Reached(Arg, stop)
        /\ \/ stop > Len(l) /\ Flags(KeysOf(SubSeq(l, 1, stop - 1)))
           \/ stop <= Len(l) /\ OptionOf(l[stop]) = {} /\ throw /\ set_flags(KeysOf(SubSeq(l, 1, stop - 1)))
           \/ stop <= Len(l) /\ \E o \in OptionOf(l[stop]) :
                \/ /\ o.has_arg /\ SubSeq(l, stop + 1, Len(l)) # <<>>
                   /\ Give(o, Word(SubSeq(l, stop + 1, Len(l))), 1)
                   /\ set_flags(KeysOf(SubSeq(l, 1, stop - 1)) \cup {o.key})
                \/ /\ o.has_arg /\ SubSeq(l, stop + 1, Len(l)) = <<>>
                   /\ GiveNext(o, KeysOf(SubSeq(l, 1, stop - 1)))
  BY Zenon DEF Cluster
<1>6. PICK flags : flags = KeysOf(SubSeq(l, 1, stop - 1))
  BY Zenon
<1>7. /\ flags \in SUBSET Keys
      /\ \A p \in options : p.key \in flags <=> \E j \in 1 .. stop - 1 : l[j] = p.short
  BY <1>1, <1>6, FlagKeys, Zenon
<1>8. \A j \in 1 .. stop - 1 : IsFlag(l[j]) /\ l[j] \in Letters
  <2>1. ASSUME NEW j \in 1 .. stop - 1
        PROVE  j \in 1 .. Len(l)
    BY <1>2
  <2>2. \A j \in 1 .. stop - 1 : IsFlag(l[j])
    BY <1>5, Zenon DEF Reached
  <2> QED
    BY <1>3, <2>1, <2>2, Zenon
<1>9. \A j \in 1 .. stop : Reached(Arg, j)
  BY <1>2, <1>5 DEF Reached
<1>10. ASSUME NEW p \in options, NEW j \in 1 .. stop - 1, l[j] = p.short
      PROVE  ~p.has_arg
  <2>1. p \in OptionOf(l[j])
    BY <1>10 DEF OptionOf
  <2> QED
    BY <1>8, <2>1, LetterFacts DEF IInv
<1>11. CASE stop > Len(l) /\ Flags(flags)
  <2>1. stop - 1 = Len(l) /\ \A j \in 1 .. Len(l) : Reached(Arg, j)
    <3>1. stop - 1 = Len(l) /\ \A j \in 1 .. Len(l) : j \in 1 .. stop
      BY <1>2, <1>11
    <3> QED
      BY <1>9, <3>1, Zenon
  <2>2. \A p \in options : Names(Arg, p) <=> p.key \in flags
    BY <1>3, <1>7, <2>1
  <2>3. \A p \in options : Names(Arg, p) => ~p.has_arg
    BY <1>3, <1>10, <2>1
  <2>4. \A j \in 1 .. Len(l) : OptionOf(l[j]) # {} /\ ~TakesValue(l[j])
    <3>1. ASSUME NEW j \in 1 .. Len(l)
          PROVE  OptionOf(l[j]) # {} /\ ~TakesValue(l[j])
      <4>1. l[j] \in Letters /\ IsFlag(l[j])
        BY <1>8, <2>1
      <4>2. PICK o : o \in OptionOf(l[j])
        BY <4>1 DEF IsFlag
      <4> QED
        BY <4>1, <4>2, LetterFacts DEF IInv
    <3> QED
      BY <3>1
  <2>5. ~WantsNext(Arg)
    <3>1. Len(l) \in 1 .. Len(l)
      BY <1>2, <1>3
    <3> QED
      BY <1>3, <2>4, <3>1 DEF WantsNext
  <2>6. ~Malformed(Arg)
    <3>1. \E p \in options : Names(Arg, p)
      <4>1. 1 \in 1 .. Len(l)
        BY <1>2, <1>3
      <4>2. PICK o : o \in OptionOf(l[1])
        BY <2>4, <4>1
      <4> QED
        BY <1>3, <2>1, <4>1, <4>2 DEF OptionOf
    <3> QED
      BY <1>1, <1>2, <2>4, <3>1, Zenon DEF Malformed
  <2>7. ~Wrong(i) /\ After(i) = i + 1 /\ i' = i + 1 /\ UNCHANGED <<state, value>> /\ set' = set \cup flags
    BY <1>2, <1>3, <1>11, <2>5, <2>6 DEF Wrong, After, Flags, set_flags
  <2>8. i' = After(i) /\ i' \in {i + 1, i + 2} /\ i' <= Len(argv) + 1
    BY <1>2, <2>7
  <2> QED
    BY <1>1, <1>3, <1>7, <2>2, <2>3, <2>7, <2>8, SetsFlags, Zenon
<1>12. CASE stop <= Len(l) /\ OptionOf(l[stop]) = {} /\ throw /\ set_flags(flags)
  <2>1. stop \in DOMAIN Arg.letters
    BY <1>2, <1>12
  <2>2. Malformed(Arg)
    BY <1>1, <1>5, <1>12, <2>1, Zenon DEF Malformed
  <2>3. Wrong(i)
    BY <1>2, <1>3, <2>2 DEF Wrong
  <2>4. set' \subseteq Keys
    BY <1>4, <1>7, <1>12 DEF set_flags
  <2> QED
    BY <1>1, <1>12, <2>3, <2>4, Throws DEF throw
<1>13. ASSUME stop <= Len(l), NEW o \in OptionOf(l[stop]), o.has_arg,
              \/ /\ SubSeq(l, stop + 1, Len(l)) # <<>>
                 /\ Give(o, Word(SubSeq(l, stop + 1, Len(l))), 1) /\ set_flags(flags \cup {o.key})
              \/ SubSeq(l, stop + 1, Len(l)) = <<>> /\ GiveNext(o, flags)
       PROVE  IInv'
  <2>1. stop \in 1 .. Len(l) /\ l[stop] \in Letters
    BY <1>2, <1>3, <1>13
  <2>2. /\ o \in options /\ o.short = l[stop] /\ ~IsFlag(l[stop]) /\ TakesValue(l[stop])
        /\ \A p \in options : p.short = l[stop] <=> p = o
    BY <1>13, <2>1, LetterFacts DEF IInv
  <2>3. \A j \in 1 .. Len(l) : Reached(Arg, j) <=> j <= stop
    <3>1. ASSUME NEW j \in 1 .. Len(l), j > stop
          PROVE  ~Reached(Arg, j)
      <4>1. stop \in 1 .. j - 1
        BY <2>1, <3>1
      <4> QED
        BY <2>2, <4>1 DEF Reached
    <3> QED
      BY <1>2, <1>9, <2>1, <3>1
  <2>4. \A p : Names(Arg, p) <=> (p.short = l[stop] \/ \E j \in 1 .. stop - 1 : l[j] = p.short)
    BY <1>2, <1>3, <2>1, <2>3
  <2>5. \A p \in options : Names(Arg, p) <=> p.key \in flags \cup {o.key}
    BY <1>7, <2>2, <2>4, SameOption DEF IInv
  <2>6. Names(Arg, o) /\ \A p \in options : Names(Arg, p) /\ p.has_arg => p = o
    BY <1>10, <2>2, <2>4
  <2>7. WantsNext(Arg) <=> stop = Len(l)
    <3>1. Len(l) \in 1 .. Len(l)
      BY <1>2, <1>3
    <3>2. Reached(Arg, Len(l)) <=> stop = Len(l)
      BY <1>2, <2>1, <2>3, <3>1
    <3> QED
      BY <1>1, <1>3, <2>2, <3>2 DEF WantsNext
  <2>8. ~Malformed(Arg)
    <3>1. ASSUME NEW j \in DOMAIN Arg.letters, Reached(Arg, j)
          PROVE  OptionOf(Arg.letters[j]) # {}
      <4>1. j \in 1 .. Len(l) /\ j <= stop
        BY <1>2, <2>3, <3>1
      <4>2. CASE j = stop
        BY <1>13, <4>2
      <4>3. CASE j \in 1 .. stop - 1
        BY <1>8, <4>3 DEF IsFlag
      <4> QED
        BY <1>2, <2>1, <4>1, <4>2, <4>3
    <3> QED
      BY <1>1, <2>2, <2>6, <3>1 DEF Malformed
  <2>9. flags \cup {o.key} \in SUBSET Keys
    BY <1>4, <1>7, <2>2
  <2>10. CASE /\ SubSeq(l, stop + 1, Len(l)) # <<>>
              /\ Give(o, Word(SubSeq(l, stop + 1, Len(l))), 1) /\ set_flags(flags \cup {o.key})
    <3>1. stop # Len(l)
      <4>1. stop + 1 \in Int /\ Len(l) \in Int /\ (stop = Len(l) => Len(l) < stop + 1)
        BY <1>2, <2>1
      <4>2. Len(l) < stop + 1 => SubSeq(l, stop + 1, Len(l)) = <<>>
        BY <4>1, SubSeqEmpty
      <4> QED
        BY <2>10, <4>1, <4>2
    <3>2. PICK v : v = Word(SubSeq(l, stop + 1, Len(l)))
      BY Zenon
    <3>3. /\ ~Wrong(i) /\ After(i) = i + 1 /\ i' = i + 1 /\ state' = state
          /\ set' = set \cup (flags \cup {o.key}) /\ set_value(o, v)
      <4>1. ~Wrong(i) /\ After(i) = i + 1
        BY <1>2, <1>3, <2>7, <2>8, <3>1, Zenon DEF Wrong, After
      <4>2. i' = i + 1 /\ state' = state /\ set' = set \cup (flags \cup {o.key}) /\ set_value(o, v)
        BY <2>10, <3>2, Zenon DEF Give, set_flags
      <4> QED
        BY <4>1, <4>2
    <3>4. v \in Texts
      <4>1. SubSeq(l, stop + 1, Len(l)) \in Seq(Letters)
        BY <1>2, <2>1
      <4> QED
        BY <3>2, <4>1, WordType, Zenon
    <3>5. Gives(i, o, v)
      <4>1. stop \in DOMAIN Arg.letters /\ ~WantsNext(Arg) /\ Reached(Arg, stop) /\ Arg.letters[stop] = o.short
        BY <1>2, <1>5, <2>1, <2>2, <2>7, <3>1, Zenon
      <4> QED
        BY <1>1, <1>2, <3>2, <4>1, Zenon DEF Gives
    <3>6. i' = After(i) /\ i' \in {i + 1, i + 2} /\ i' <= Len(argv) + 1
      BY <1>2, <3>3
    <3> QED
      BY <1>1, <1>3, <1>13, <2>2, <2>5, <2>6, <2>9, <3>3, <3>4, <3>5, <3>6, GivesValue, Zenon
  <2>11. CASE SubSeq(l, stop + 1, Len(l)) = <<>> /\ GiveNext(o, flags)
    <3>1. stop = Len(l)
      <4>1. stop \in Int /\ stop + 1 \in Int /\ Len(l) \in Int /\ \A j \in stop + 1 .. Len(l) : l[j] \in Letters
        BY <1>2, <1>3, <2>1
      <4>2. Len(SubSeq(l, stop + 1, Len(l))) = IF stop + 1 <= Len(l) THEN Len(l) - (stop + 1) + 1 ELSE 0
        BY <4>1, SubSeqProperties
      <4>3. Len(SubSeq(l, stop + 1, Len(l))) = 0
        <5>1. Len(<<>>) = 0
          OBVIOUS
        <5> QED
          BY <2>11, <5>1, Zenon
      <4> QED
        BY <1>2, <2>1, <4>1, <4>2, <4>3
    <3>2. CASE i < Len(argv)
      <4>1. /\ ~Wrong(i) /\ After(i) = i + 2 /\ i' = i + 2 /\ state' = state
            /\ set' = set \cup (flags \cup {o.key}) /\ set_value(o, argv[i + 1])
        <5>1. ~Wrong(i) /\ After(i) = i + 2
          <6>1. i # Len(argv)
            BY <1>2, <3>2
          <6> QED
            BY <1>2, <1>3, <2>7, <2>8, <3>1, <6>1, Zenon DEF Wrong, After
        <5>2. i' = i + 2 /\ state' = state /\ set' = set \cup (flags \cup {o.key}) /\ set_value(o, argv[i + 1])
          BY <2>11, <3>2, Zenon DEF GiveNext, Give, set_flags
        <5> QED
          BY <5>1, <5>2
      <4>2. argv[i + 1] \in Texts
        BY <1>2, <3>2
      <4>3. Gives(i, o, argv[i + 1])
        BY <1>2, <2>7, <3>1 DEF Gives
      <4>4. i' = After(i) /\ i' \in {i + 1, i + 2} /\ i' <= Len(argv) + 1
        BY <1>2, <3>2, <4>1
      <4> QED
        BY <1>1, <1>3, <1>13, <2>2, <2>5, <2>6, <2>9, <4>1, <4>2, <4>3, <4>4, GivesValue, Zenon
    <3>3. CASE ~(i < Len(argv))
      <4>1. Wrong(i)
        BY <1>2, <1>3, <2>7, <3>1, <3>3 DEF Wrong
      <4>2. throw /\ set' = set \cup flags
        BY <2>11, <3>3 DEF GiveNext, set_flags
      <4> QED
        BY <1>1, <1>4, <1>7, <4>1, <4>2, Throws DEF throw
    <3> QED
      BY <3>2, <3>3
  <2> QED
    BY <1>13, <2>10, <2>11
<1> QED
  BY <1>5, <1>6, <1>11, <1>12, <1>13, Zenon

\* The loop goes on behind positional arguments.
LEMMA TakesWords ==
  ASSUME IInv, Looping, UNCHANGED <<options, calls, argv, set, value, state>>, ~IsOption(Arg),
         i' = After(i), i' \in i + 1 .. Len(argv) + 1, positional' \in Seq(Texts),
         \A h : Heads(h, i) /\ InOrder(positional, Words(h, i)) =>
           InOrder(positional', Words(h \cup {i'}, i'))
  PROVE  IInv'
<1> PICK e : e = i
  OBVIOUS
<1> PICK n : n = i'
  OBVIOUS
<1>1. /\ argv \in Seq(Texts) /\ Len(argv) \in Nat /\ e \in Nat /\ e \in 1 .. Len(argv) /\ Arg = argv[e]
      /\ n \in Nat /\ e < n /\ n \in 1 .. Len(argv) + 1 /\ n = After(e) /\ state = "parsing"
  BY ArgFacts DEF IInv, Looping
<1>2. PICK h \in SUBSET (1 .. Len(argv) + 1) : Understood(h, e)
  BY <1>1 DEF IInv, Parsing
<1>3. Heads(h, e) /\ InOrder(positional, Words(h, e)) /\ \A o \in options : OptionRight(h, e, o)
  BY <1>2 DEF Understood
<1>4. Heads(h \cup {n}, n)'
  <2>1. Heads(h \cup {n}, n)
    BY <1>1, <1>3, HeadsMore
  <2> QED
    BY <2>1, ArgumentsStay
<1>5. ~Wrong(e)
  BY <1>1 DEF Wrong
<1>6. \A k \in (h \cup {n}) \ {n} : ~Wrong(k)'
  BY <1>2, <1>5, ArgumentsStay DEF Understood
<1>7. InOrder(positional, Words(h \cup {n}, n))'
  <2> PICK P : P = Words(h \cup {n}, n)
    OBVIOUS
  <2> PICK s : s = positional'
    OBVIOUS
  <2>1. InOrder(s, P)
    BY <1>3
  <2>2. InOrder(s, P)' /\ Words(h \cup {n}, n)' = P
    BY <2>1, ArgumentsStay
  <2> QED
    BY <2>2
<1>8. ASSUME NEW o \in options
      PROVE  OptionRight(h \cup {n}, n, o)'
  <2>1. ~IsOption(argv[e]) /\ OptionRight(h, e, o)
    BY <1>1, <1>3
  <2> QED
    BY <1>1, <1>3, <2>1, NotNamed
<1>9. Understood(h \cup {n}, n)'
  BY <1>4, <1>6, <1>7, <1>8, Zenon DEF Understood
<1>10. Parsing'
  <2>1. h \cup {n} \in SUBSET (1 .. Len(argv) + 1)
    BY <1>1, <1>2, Zenon
  <2> QED
    BY <1>9, <2>1 DEF Parsing
<1>11. TypeOK'
  <2>1. TypeOK /\ i' \in 1 .. Len(argv) + 1
    BY <1>1 DEF IInv
  <2> QED
    BY <2>1, Zenon DEF TypeOK, Keys, ValueKeys
<1>12. ParseExact'
  BY <1>1 DEF ParseExact
<1> QED
  BY <1>10, <1>11, <1>12 DEF IInv

\* The words before place e are before it.
LEMMA WordsBefore ==
  ASSUME NEW h, NEW e
  PROVE  Words(h, e) \in SUBSET (1 .. e - 1)
  BY Zenon DEF Words

LEMMA PositionalInv == IInv /\ Positional => IInv'
<1> SUFFICES ASSUME IInv, Positional PROVE IInv'
  OBVIOUS
<1>1. /\ Looping /\ UNCHANGED <<options, calls, argv, set, value, state>>
      /\ ~IsEnd(Arg) /\ ~IsOption(Arg) /\ positional' = Append(positional, Arg) /\ i' = i + 1
  BY DEF Positional, IsOption
<1>2. /\ argv \in Seq(Texts) /\ Len(argv) \in Nat /\ i \in Nat /\ i \in 1 .. Len(argv)
      /\ Arg = argv[i] /\ Arg \in Texts /\ positional \in Seq(Texts)
  <2>1. TypeOK /\ positional \in Seq(Texts)
    BY Zenon DEF IInv, TypeOK
  <2> QED
    BY <1>1, <2>1, ArgFacts, Zenon
<1>3. i' = After(i) /\ i' \in i + 1 .. Len(argv) + 1
  <2>1. ~WantsNext(Arg)
    BY <1>1 DEF WantsNext, IsOption
  <2> QED
    BY <1>1, <1>2, <2>1 DEF After
<1>4. positional' \in Seq(Texts)
  BY <1>1, <1>2
<1>5. ASSUME NEW h, Heads(h, i), InOrder(positional, Words(h, i))
      PROVE  InOrder(positional', Words(h \cup {i'}, i'))
  <2>1. Words(h \cup {i + 1}, i + 1) = Words(h, i) \cup {i}
    BY <1>1, <1>2, <1>5, WordsWord
  <2>2. InOrder(Append(positional, argv[i]), Words(h, i) \cup {i})
    BY <1>2, <1>5, WordsBefore, InOrderAppend, Zenon
  <2> QED
    BY <1>1, <1>2, <2>1, <2>2, Zenon
<1> QED
  BY <1>1, <1>3, <1>4, <1>5, TakesWords

LEMMA RestInv == IInv /\ Rest => IInv'
<1> SUFFICES ASSUME IInv, Rest PROVE IInv'
  OBVIOUS
<1>1. /\ Looping /\ UNCHANGED <<options, calls, argv, set, value, state>>
      /\ IsEnd(Arg) /\ positional' = positional \o SubSeq(argv, i + 1, Len(argv)) /\ i' = Len(argv) + 1
  BY DEF Rest
<1>2. /\ argv \in Seq(Texts) /\ Len(argv) \in Nat /\ i \in Nat /\ i \in 1 .. Len(argv)
      /\ Arg = argv[i] /\ positional \in Seq(Texts)
  <2>1. TypeOK /\ positional \in Seq(Texts)
    BY Zenon DEF IInv, TypeOK
  <2> QED
    BY <1>1, <2>1, ArgFacts, Zenon
<1>3. ~IsOption(Arg)
  BY <1>1 DEF IsOption, IsLong, IsShort, IsEnd
<1>4. i' = After(i) /\ i' \in i + 1 .. Len(argv) + 1
  BY <1>1, <1>2 DEF After
<1>5. positional' \in Seq(Texts)
  <2>1. SubSeq(argv, i + 1, Len(argv)) \in Seq(Texts)
    <3>1. i + 1 \in Int /\ Len(argv) \in Int /\ \A k \in i + 1 .. Len(argv) : argv[k] \in Texts
      BY <1>2
    <3> QED
      BY <3>1, SubSeqProperties
  <2> QED
    BY <1>1, <1>2, <2>1
<1>6. ASSUME NEW h, Heads(h, i), InOrder(positional, Words(h, i))
      PROVE  InOrder(positional', Words(h \cup {i'}, i'))
  <2>1. Words(h \cup {Len(argv) + 1}, Len(argv) + 1) = Words(h, i) \cup (i + 1 .. Len(argv))
    <3>1. i \in Nat /\ Len(argv) \in Nat /\ i <= Len(argv) /\ IsEnd(argv[i]) /\ Heads(h, i)
      BY <1>1, <1>2, <1>6
    <3> QED
      BY <3>1, WordsRest, Zenon
  <2>2. InOrder(positional \o SubSeq(argv, i + 1, Len(argv)), Words(h, i) \cup (i + 1 .. Len(argv)))
    BY <1>2, <1>6, WordsBefore, InOrderRest
  <2> QED
    BY <1>1, <2>1, <2>2, Zenon
<1> QED
  BY <1>1, <1>3, <1>4, <1>5, <1>6, TakesWords

LEMMA UnderstoodStays ==
  ASSUME UNCHANGED <<options, argv, set, value, positional>>, NEW h, NEW e, Understood(h, e)
  PROVE  Understood(h, e)'
<1>1. \A o : OptionRight(h, e, o)' <=> OptionRight(h, e, o)
  BY ArgumentsStay, Zenon DEF OptionRight
<1> PICK s : s = positional
  OBVIOUS
<1>2. InOrder(s, Words(h, e))'
  BY ArgumentsStay DEF Understood
<1>3. Heads(h, e)' /\ \A k \in h \ {e} : ~Wrong(k)'
  BY ArgumentsStay DEF Understood
<1> QED
  BY <1>1, <1>2, <1>3 DEF Understood

LEMMA ReturnInv == IInv /\ Return => IInv'
<1> SUFFICES ASSUME IInv, Return PROVE IInv'
  OBVIOUS
<1>1. /\ state = "parsing" /\ state' = "parsed" /\ i > Len(argv)
      /\ UNCHANGED <<options, calls, argv, i, set, value, positional>>
  BY DEF Return
<1>2. i = Len(argv) + 1
  BY <1>1 DEF IInv, TypeOK
<1> PICK e : e = i
  OBVIOUS
<1>3. PICK h \in SUBSET (1 .. Len(argv) + 1) : Understood(h, e)
  BY <1>1 DEF IInv, Parsing
<1>4. Understood(h, e)'
  <2>1. UNCHANGED <<options, argv, set, value, positional>>
    BY <1>1
  <2>2. Understood(h, e)
    BY <1>3
  <2> QED
    BY <2>1, <2>2, UnderstoodStays
<1>5. ParseExact'
  BY <1>1, <1>2, <1>4 DEF ParseExact
<1>6. TypeOK'
  BY <1>1 DEF IInv, TypeOK, Keys, ValueKeys
<1>7. Parsing'
  BY <1>1 DEF Parsing
<1> QED
  BY <1>5, <1>6, <1>7 DEF IInv

-----------------------------------------------------------------------------
(* Between the calls *)

LEMMA add_optionInv == ASSUME NEW o \in Options PROVE IInv /\ add_option(o) => IInv'
<1> SUFFICES ASSUME IInv, add_option(o) PROVE IInv'
  OBVIOUS
<1> PICK key : key = IF o.key = <<>> THEN <<o.short>> ELSE o.key
  BY Zenon
<1> PICK p : p = [o EXCEPT !.key = key]
  BY Zenon
<1>1. /\ state = "registering" /\ key \notin Keys /\ (o.key # <<>> \/ o.short # NoLetter)
      /\ o.short # NoLetter => \A q \in options : q.short # o.short
      /\ options' = options \cup {p}
      /\ UNCHANGED <<calls, argv, i, set, value, positional, state>>
  BY DEF add_option
<1>2. o \in OptionTypes
  BY OptionsAssumption
<1>3. key \in Seq(Letters)
  <2>1. CASE o.key = <<>>
    <3>1. o.short \in Letters
      BY <1>1, <1>2, <2>1 DEF OptionTypes
    <3>2. <<o.short>> \in Seq(Letters)
      BY <3>1
    <3> QED
      BY <2>1, <3>2
  <2>2. CASE o.key # <<>>
    BY <1>2, <2>2 DEF OptionTypes
  <2> QED
    BY <2>1, <2>2
<1>4. p \in OptionTypes /\ p.key = key /\ p.short = o.short
  BY <1>2, <1>3, Zenon DEF OptionTypes
<1>5. \A q \in options : q.key # key
  BY <1>1 DEF Keys
<1>6. \A q, r \in options' : q.key = r.key \/ (q.short = r.short /\ q.short # NoLetter) => q = r
  <2>1. \A q, r \in options : q.key = r.key \/ (q.short = r.short /\ q.short # NoLetter) => q = r
    BY DEF IInv, TypeOK
  <2>2. \A q \in options : ~(q.key = p.key \/ (q.short = p.short /\ q.short # NoLetter))
    BY <1>1, <1>4, <1>5, Zenon
  <2>3. ASSUME NEW q \in options \cup {p}, NEW r \in options \cup {p},
               q.key = r.key \/ (q.short = r.short /\ q.short # NoLetter)
        PROVE  q = r
    <3>1. CASE q \in options /\ r \in options
      BY <2>1, <2>3, <3>1, Zenon
    <3>2. CASE q \in options /\ r = p
      BY <2>2, <2>3, <3>2, Zenon
    <3>3. CASE q = p /\ r \in options
      <4>1. r.key = p.key \/ (r.short = p.short /\ r.short # NoLetter)
        BY <2>3, <3>3, Zenon
      <4> QED
        BY <2>2, <3>3, <4>1, Zenon
    <3> QED
      BY <3>1, <3>2, <3>3, Zenon
  <2> QED
    BY <1>1, <2>3, Zenon
<1>7. set' \subseteq Keys'
  BY <1>1 DEF IInv, TypeOK, Keys
<1>8. TypeOK'
  BY <1>1, <1>4, <1>6, <1>7 DEF IInv, TypeOK
<1>9. Parsing' /\ ParseExact'
  BY <1>1 DEF Parsing, ParseExact
<1> QED
  BY <1>8, <1>9 DEF IInv

\* parse() starts with the default values.
LEMMA DefaultValues ==
  ASSUME TypeOK
  PROVE  /\ Defaults \in [ValueKeys -> Texts]
         /\ \A o \in options : o.has_arg => Defaults[o.key] = o.default
<1>1. ASSUME NEW o \in options
      PROVE  (CHOOSE p \in options : p.key = o.key) = o
  <2>1. \A p \in options : p.key = o.key => p = o
    BY SameOption
  <2> QED
    BY <2>1, Zenon
<1>2. ASSUME NEW k \in ValueKeys
      PROVE  \E o \in options : o.has_arg /\ k = o.key
  BY DEF ValueKeys
<1>3. \A o \in options : o.default \in Texts
  BY DEF TypeOK, OptionTypes
<1>4. \A k \in ValueKeys : (CHOOSE o \in options : o.key = k).default \in Texts
  BY <1>1, <1>2, <1>3, Zenon
<1>5. Defaults = [k \in ValueKeys |-> (CHOOSE o \in options : o.key = k).default]
  BY Zenon DEF Defaults, ValueKeys
<1>6. \A o \in options : o.has_arg => o.key \in ValueKeys
  BY DEF ValueKeys
<1>7. Defaults \in [ValueKeys -> Texts]
  BY <1>4, <1>5, Zenon
<1>8. \A o \in options : o.has_arg => Defaults[o.key] = o.default
  BY <1>1, <1>5, <1>6, Zenon
<1> QED
  BY <1>7, <1>8

LEMMA parseInv ==
  ASSUME NEW args, calls < Len(CommandLines), args \in CommandLines[calls + 1]
  PROVE  IInv /\ parse(args) => IInv'
<1> SUFFICES ASSUME IInv, parse(args) PROVE IInv'
  OBVIOUS
<1>1. /\ calls' = calls + 1 /\ argv' = args /\ i' = 1 /\ positional' = <<>> /\ set' = {}
      /\ value' = Defaults /\ state' = "parsing" /\ UNCHANGED options
  BY DEF parse
<1>2. calls \in Nat /\ Len(CommandLines) \in Nat /\ calls + 1 \in 1 .. Len(CommandLines)
  BY CommandLinesAssumption DEF IInv, TypeOK
<1>3. args \in Seq(Texts) /\ Len(args) \in Nat
  <2>1. CommandLines[calls + 1] \in SUBSET Seq(Texts)
    BY <1>2, CommandLinesAssumption
  <2>2. args \in Seq(Texts)
    BY <2>1
  <2> QED
    BY <2>2
<1>4. ValueKeys' = ValueKeys /\ Keys' = Keys
  BY <1>1 DEF ValueKeys, Keys
<1>5. value' \in [ValueKeys' -> Texts]
  BY <1>1, <1>4, DefaultValues, Zenon DEF IInv
<1>6. <<>> \in Seq(Texts)
  OBVIOUS
<1>7. TypeOK'
  BY <1>1, <1>2, <1>3, <1>5, <1>6 DEF IInv, TypeOK
<1>8. Heads({1}, 1)'
  <2>1. {1} \in SUBSET (1 .. 1) /\ {1} \ {1} = {}
    OBVIOUS
  <2> QED
    BY <2>1, Zenon DEF Heads
<1>9. InOrder(positional, Words({1}, 1))'
  <2>1. 1 .. 1 - 1 = {}
    OBVIOUS
  <2>2. Words({1}, 1)' = {}
    BY <2>1, Zenon DEF Words
  <2>3. InOrder(<<>>, {})'
    BY InOrderNone, PTL
  <2> QED
    BY <1>1, <2>2, <2>3, Zenon
<1>10. ASSUME NEW o \in options
       PROVE  OptionRight({1}, 1, o)'
  <2>1. Naming({1}, 1, o)' = {}
    BY DEF Naming
  <2>2. o.key \notin set' /\ (o.has_arg => value'[o.key] = o.default)
    BY <1>1, DefaultValues DEF IInv
  <2> QED
    BY <2>1, <2>2, Zenon DEF OptionRight
<1>11. Understood({1}, 1)'
  <2>1. {1} \ {1} = {}
    OBVIOUS
  <2> QED
    BY <1>1, <1>8, <1>9, <1>10, <2>1, Zenon DEF Understood
<1>12. Parsing'
  <2>1. {1} \in SUBSET (1 .. Len(args) + 1)
    BY <1>3
  <2> QED
    BY <1>1, <1>11, <2>1 DEF Parsing
<1>13. ParseExact'
  BY <1>1 DEF ParseExact
<1> QED
  BY <1>7, <1>12, <1>13 DEF IInv

LEMMA StutterInv == IInv /\ UNCHANGED vars => IInv'
<1> SUFFICES ASSUME IInv, UNCHANGED vars PROVE IInv'
  OBVIOUS
<1>1. UNCHANGED <<options, calls, argv, i, set, value, positional, state>>
  BY DEF vars
<1>2. TypeOK'
  BY <1>1, Zenon DEF IInv, TypeOK, Keys, ValueKeys
<1> PICK e : e = i
  OBVIOUS
<1> PICK n : n = Len(argv) + 1
  OBVIOUS
<1>3. \A h, k : Understood(h, k) => Understood(h, k)'
  BY <1>1, UnderstoodStays
<1>4. Parsing'
  <2>1. state = "parsing" => \E h \in SUBSET (1 .. Len(argv) + 1) : Understood(h, e)'
    BY <1>3, Zenon DEF IInv, Parsing
  <2> QED
    BY <1>1, <2>1, Zenon DEF Parsing
<1>5. ParseExact'
  <2>1. state = "parsed" => \E h \in SUBSET (1 .. Len(argv) + 1) : Understood(h, n)'
    BY <1>3, Zenon DEF IInv, ParseExact
  <2>2. (\A h, k : Heads(h, k)' <=> Heads(h, k)) /\ \A k : Wrong(k)' <=> Wrong(k)
    BY <1>1, ArgumentsStay
  <2>3. state = "error" =>
          \E k \in 1 .. Len(argv), h \in SUBSET (1 .. Len(argv)) :
            Heads(h, k)' /\ Wrong(k)' /\ \A m \in h \ {k} : ~Wrong(m)'
    BY <2>2, Zenon DEF IInv, ParseExact
  <2> QED
    BY <1>1, <2>1, <2>3, Zenon DEF ParseExact
<1> QED
  BY <1>2, <1>4, <1>5 DEF IInv

LEMMA NextInv == IInv /\ [Next]_vars => IInv'
<1> SUFFICES ASSUME IInv, [Next]_vars PROVE IInv'
  OBVIOUS
<1>1. ASSUME NEW o \in Options, add_option(o) PROVE IInv'
  BY <1>1, add_optionInv
<1>2. ASSUME calls < Len(CommandLines), NEW args \in CommandLines[calls + 1], parse(args) PROVE IInv'
  BY <1>2, parseInv
<1>3. CASE Step
  BY <1>3, RestInv, PositionalInv, parse_long_optionInv, ShortWithSignInv, ClusterInv, ReturnInv, Zenon DEF Step
<1>4. CASE UNCHANGED vars
  BY <1>4, StutterInv
<1> QED
  BY <1>1, <1>2, <1>3, <1>4 DEF Next

LEMMA InitInv == Init => IInv
<1> SUFFICES ASSUME Init PROVE IInv
  OBVIOUS
<1>1. <<>> \in Seq(Texts) /\ Len(<<>>) = 0
  OBVIOUS
<1>2. Len(CommandLines) \in Nat
  BY CommandLinesAssumption
<1>3. TypeOK
  BY <1>1, <1>2 DEF Init, TypeOK
<1>4. Parsing /\ ParseExact
  BY DEF Init, Parsing, ParseExact
<1> QED
  BY <1>3, <1>4 DEF IInv

\* In every reachable state the arguments the loop has passed are understood.
THEOREM Invariance == Spec => []IInv
<1>1. Init => IInv
  BY InitInv
<1>2. IInv /\ [Next]_vars => IInv'
  BY NextInv
<1> QED
  BY <1>1, <1>2, PTL DEF Spec

\* add_option keeps keys and letters unique, the index of parse() never leaves the
\* argument list, what is set is registered, and every option that takes a value
\* has one.
THEOREM TypeCorrect == Spec => []TypeOK
<1>1. IInv => TypeOK
  BY DEF IInv
<1> QED
  BY <1>1, Invariance, PTL

\* When parse() returns, every argument has had its one meaning, whatever was
\* parsed before; it throws exactly at the first option argument that is malformed
\* or lacks its value.
THEOREM ArgumentsUnderstood == Spec => []ParseExact
<1>1. IInv => ParseExact
  BY DEF IInv
<1> QED
  BY <1>1, Invariance, PTL
=============================================================================
