---------------------------- MODULE VarintProofs ----------------------------
(***************************************************************************)
(* Proofs about the varint loops, for every base, every word size and      *)
(* every sequence of words.                                                *)
(***************************************************************************)
EXTENDS Varint, RecursionProofs, TLAPS

\* The byte the encoder pushes when its loop variable is r.
ByteOf(r) == IF Continues(r) THEN LowBits(r) + Base ELSE r

\* Where the encoder is after the byte that the entry t of the trail stands for.
After(t) ==
  IF Continues(t.rest)
  THEN [idx |-> t.idx, rest |-> t.rest \div Base]
  ELSE [idx |-> t.idx + 1, rest |-> vals[t.idx + 1]]

\* The trail explains the buffer: each byte is the one pushed for its entry, the
\* first entry is the first word, and each later one is where its predecessor leads.
TrailInv ==
  /\ Len(trail) = Len(buffer)
  /\ \A j \in 1 .. Len(buffer) :
       /\ trail[j].idx <= Len(vals)
       /\ buffer[j] = ByteOf(trail[j].rest)
       /\ j = 1 => trail[j] = [idx |-> 1, rest |-> vals[1]]
       /\ j > 1 => trail[j] = After(trail[j - 1])

\* While encoding, the pair (next, val) is the entry that comes next; after it,
\* the trail ends with the last byte of the last word.
WriterInv ==
  /\ phase = "encode" =>
       /\ next <= Len(vals)
       /\ buffer = <<>> => next = 1 /\ val = vals[1]
       /\ buffer # <<>> => [idx |-> next, rest |-> val] = After(trail[Len(buffer)])
       /\ size = 0 /\ pos = 0 /\ value = 0 /\ weight = 1 /\ out = <<>>
  /\ phase = "sent" => size = 0 /\ pos = 0 /\ value = 0 /\ weight = 1 /\ out = <<>>
  /\ phase # "encode" =>
       /\ buffer = <<>> => vals = <<>>
       /\ buffer # <<>> => /\ trail[Len(buffer)].idx = Len(vals)
                           /\ ~Continues(trail[Len(buffer)].rest)

\* Before each byte it reads, the reader is aligned with the encoder: it is on
\* the same word, and what it has accumulated plus what the encoder had left,
\* at the current weight, is that word.
Aligned ==
  pos < size =>
    /\ trail[pos + 1].idx = Len(out) + 1
    /\ value + trail[pos + 1].rest * weight = vals[Len(out) + 1]
    /\ weight > 1 => trail[pos + 1].rest >= 1

ReaderInv ==
  phase \in {"decode", "done"} =>
    /\ size <= Len(buffer)
    /\ pos <= size
    /\ value < weight
    /\ Aligned
    /\ pos = size /\ size = Len(buffer) => Len(out) = Len(vals)
    /\ phase = "done" => pos = size

IInv == TypeOK /\ TrailInv /\ WriterInv /\ ReaderInv /\ SelfDelimiting

-----------------------------------------------------------------------------
\* val >>= 7 and val & 0x7F split a word into its last digit and the rest.
LEMMA DivMod ==
  ASSUME NEW r \in Nat
  PROVE  /\ r \div Base \in Nat
         /\ r % Base \in 0 .. Base - 1
         /\ r = (r \div Base) * Base + (r % Base)
  BY BaseAssumption, SMT

\* The rest gets smaller or stays zero; it is not zero while the loop continues.
LEMMA DivBounds ==
  ASSUME NEW r \in Nat
  PROVE  /\ r \div Base <= r
         /\ Continues(r) => r \div Base >= 1
  BY BaseAssumption, DivMod, SMT DEF Continues

\* Moving one digit from the rest to the accumulator keeps the represented word.
LEMMA MoveDigit ==
  ASSUME NEW r \in Nat, NEW w \in Nat, NEW v \in Nat
  PROVE  v + r * w = (v + (r % Base) * w) + (r \div Base) * (w * Base)
<1> DEFINE q == r \div Base
           d == r % Base
<1>1. q \in Nat /\ d \in Nat /\ Base \in Nat /\ r = q * Base + d
  BY DivMod, BaseAssumption
<1>2. r * w = d * w + q * (w * Base)
  <2> HIDE DEF q, d
  <2>1. r * w = (q * Base + d) * w
    BY <1>1
  <2>2. @ = (q * Base) * w + d * w
    BY <1>1, SMT
  <2>3. (q * Base) * w = q * (w * Base)
    BY <1>1, SMT
  <2> QED  BY <1>1, <2>1, <2>2, <2>3, SMT
<1>3. (d * w) \in Nat /\ (q * (w * Base)) \in Nat
  BY <1>1, SMT
<1> QED  BY <1>1, <1>2, <1>3, SMT

\* An accumulator below the weight stays below the next weight with one more digit.
LEMMA DigitBelow ==
  ASSUME NEW v \in Nat, NEW w \in Nat, NEW d \in 0 .. Base - 1, v < w
  PROVE  v + d * w < w * Base
<1>1. Base \in Nat /\ d \in Nat /\ d + 1 <= Base
  BY BaseAssumption
<1>2. (d + 1) * w <= Base * w
  BY <1>1, SMT
<1>3. (d + 1) * w = d * w + w /\ Base * w = w * Base
  BY <1>1, SMT
<1>4. d * w \in Nat /\ w * Base \in Nat
  BY <1>1, SMT
<1> QED  BY <1>2, <1>3, <1>4, SMT

\* A number below the modulus is its own remainder.
LEMMA SmallMod ==
  ASSUME NEW n \in Nat, n < Word
  PROVE  n % Word = n
  BY WordAssumption, SMT

\* What a byte of the encoder tells the reader: its digit and whether it is the last.
LEMMA ByteFacts ==
  ASSUME NEW r \in Nat
  PROVE  /\ ByteOf(r) \in 0 .. 2 * Base - 1
         /\ More(ByteOf(r)) <=> Continues(r)
         /\ LowBits(ByteOf(r)) = r % Base
<1>1. CASE Continues(r)
  <2>1. ByteOf(r) = (r % Base) + Base /\ r % Base \in 0 .. Base - 1
    BY <1>1, DivMod DEF ByteOf, LowBits
  <2>2. ((r % Base) + Base) % Base = r % Base
    <3> DEFINE d == r % Base
    <3>1. d \in 0 .. Base - 1 BY DivMod
    <3> HIDE DEF d
    <3>2. (d + Base) % Base = d
      BY <3>1, BaseAssumption, SMT
    <3> QED  BY <3>2 DEF d
  <2> QED  BY <1>1, <2>1, <2>2, BaseAssumption DEF More, LowBits
<1>2. CASE ~Continues(r)
  <2>1. ByteOf(r) = r /\ r \in 0 .. Base - 1
    BY <1>2, BaseAssumption DEF ByteOf, Continues
  <2> QED  BY <1>2, <2>1, BaseAssumption DEF More, LowBits
<1> QED  BY <1>1, <1>2

LEMMA ElementOf ==
  ASSUME NEW S, NEW s \in Seq(S), NEW i \in 1 .. Len(s)
  PROVE  s[i] \in S
  OBVIOUS

\* The word a reader accumulates never leaves the word size: what it adds for the
\* byte at pos is the digit of the encoder at that byte, undisturbed by the mask.
LEMMA ReadStep ==
  ASSUME IInv, phase = "decode", pos < size
  PROVE  LET r == trail[pos + 1].rest
             word == vals[Len(out) + 1]
             acc == value + (r % Base) * weight
         IN  /\ r \in Nat /\ Len(out) + 1 \in 1 .. Len(vals) /\ word \in 0 .. Word - 1
             /\ weight < Word
             /\ ShiftLeft(LowBits(buffer[pos + 1]), weight) = {(r % Base) * weight}
             /\ More(buffer[pos + 1]) <=> Continues(r)
             /\ (r % Base) * weight \in Nat
             /\ acc \in 0 .. Word - 1
             /\ acc + (r \div Base) * (weight * Base) = word
             /\ acc < weight * Base
             /\ Continues(r) => acc < word
             /\ ~Continues(r) => acc = word
<1> DEFINE r == trail[pos + 1].rest
           word == vals[Len(out) + 1]
           d == r % Base
           q == r \div Base
           acc == value + d * weight
<1>0. /\ value \in Nat /\ weight \in Nat /\ weight >= 1 /\ pos \in Nat /\ size \in Nat
      /\ size <= Len(buffer) /\ Len(buffer) \in Nat /\ Len(trail) = Len(buffer)
      /\ value < weight
      /\ Base \in Nat /\ Base >= 2 /\ Word \in Nat /\ Word >= Base
  BY BaseAssumption, WordAssumption, SMTT(20) DEF IInv, TypeOK, TrailInv, ReaderInv
<1>1. /\ pos + 1 \in 1 .. Len(buffer)
      /\ trail[pos + 1].idx = Len(out) + 1
      /\ value + r * weight = word
      /\ weight > 1 => r >= 1
  BY <1>0, SMTT(20) DEF IInv, ReaderInv, Aligned
<1>a. /\ trail[pos + 1].idx <= Len(vals)
      /\ buffer[pos + 1] = ByteOf(r)
  BY <1>1 DEF IInv, TrailInv
<1>2. /\ r \in Nat
      /\ Len(out) + 1 \in 1 .. Len(vals)
      /\ word \in 0 .. Word - 1
  <2>1. trail[pos + 1] \in Entry
    BY <1>0, <1>1 DEF IInv, TypeOK
  <2>2. Len(out) + 1 \in 1 .. Len(vals)
    <3>1. Len(out) \in Nat /\ Len(vals) \in Nat
      BY DEF IInv, TypeOK
    <3> QED  BY <3>1, <1>1, <1>a
  <2>3. vals \in Seq(0 .. Word - 1)
    BY DEF IInv, TypeOK
  <2>4. r \in Nat
    BY <1>0, <2>1 DEF Entry
  <2>5. word \in 0 .. Word - 1
    BY <2>2, <2>3, ElementOf, Zenon
  <2> QED  BY <2>2, <2>4, <2>5
<1>3. /\ d \in 0 .. Base - 1 /\ q \in Nat
      /\ r = q * Base + d
      /\ Continues(r) => q >= 1
      /\ ~Continues(r) => r < Base
  <2>1. r \in Nat  BY <1>2
  <2> HIDE DEF r
  <2>2. ~Continues(r) => r < Base
    BY <1>0, <2>1 DEF Continues
  <2> QED  BY <2>1, <2>2, DivMod, DivBounds
<1>4. acc + q * (weight * Base) = word
  <2>1. r \in Nat /\ word \in Nat /\ value + r * weight = word
    BY <1>0, <1>1, <1>2
  <2> HIDE DEF r, word
  <2> QED  BY <1>0, <2>1, MoveDigit, Zenon
<1>5. /\ More(buffer[pos + 1]) <=> Continues(r)
      /\ LowBits(buffer[pos + 1]) = d
  <2>1. r \in Nat /\ buffer[pos + 1] = ByteOf(r)
    BY <1>a, <1>2
  <2> HIDE DEF r
  <2> QED  BY <2>1, ByteFacts
<1> HIDE DEF r, word, d, q
<1>6. d * weight \in Nat /\ q * (weight * Base) \in Nat /\ weight * Base \in Nat
  BY <1>0, <1>2, <1>3, SMT
<1>7. acc \in 0 .. Word - 1 /\ d * weight < Word
  BY <1>0, <1>2, <1>4, <1>6, SMTT(20)
<1>8. weight < Word
  <2>1. CASE weight = 1
    BY <2>1, <1>0
  <2>2. CASE weight > 1
    <3>1. r >= 1
      BY <1>1, <2>2 DEF r
    <3>2. r * weight >= weight /\ r * weight \in Nat
      BY <3>1, <1>0, <1>2, SMT
    <3>3. value + r * weight = word
      BY <1>1 DEF r, word
    <3> QED  BY <3>2, <3>3, <1>0, <1>2
  <2> QED  BY <2>1, <2>2, <1>0
<1>9. ShiftLeft(LowBits(buffer[pos + 1]), weight) = {d * weight}
  BY <1>5, <1>6, <1>7, <1>8, SmallMod DEF ShiftLeft
<1>10. acc < weight * Base
  BY <1>0, <1>3, DigitBelow
<1>11. Continues(r) => acc < word
  <2> SUFFICES ASSUME Continues(r) PROVE acc < word
    OBVIOUS
  <2>1. weight * Base >= 1
    BY <1>0, SMT
  <2>2. q >= 1
    BY <1>3
  <2>3. q * (weight * Base) >= 1
    BY <2>1, <2>2, <1>3, <1>6, SMT
  <2> QED  BY <2>3, <1>4, <1>6, <1>7, <1>2
<1>12. ~Continues(r) => acc = word
  <2> SUFFICES ASSUME ~Continues(r) PROVE acc = word
    OBVIOUS
  <2>1. q = 0
    BY <1>0, <1>2, <1>3, SMT
  <2>2. q * (weight * Base) = 0
    BY <2>1, <1>0, SMT
  <2> QED  BY <2>2, <1>4, <1>6, <1>7, <1>2
<1> QED  BY <1>2, <1>4, <1>5, <1>6, <1>7, <1>8, <1>9, <1>10, <1>11, <1>12 DEF r, word, d, q

-----------------------------------------------------------------------------
LEMMA InitInv == Init => IInv
<1> SUFFICES ASSUME Init PROVE IInv
  OBVIOUS
<1> USE BaseAssumption, WordAssumption, StreamsAssumption
<1>0. vals \in Seq(0 .. Word - 1)
  BY DEF Init
<1>1. TypeOK
  <2>1. vals # <<>> => vals[1] \in 0 .. Word - 1
    BY <1>0
  <2>2. 0 \in 0 .. Word - 1 /\ 1 \in Nat \ {0}
    OBVIOUS
  <2> QED  BY <1>0, <2>1, <2>2 DEF Init, TypeOK
<1>2. TrailInv
  BY DEF Init, TrailInv
<1>3. WriterInv
  BY <1>0 DEF Init, WriterInv
<1>4. ReaderInv
  BY DEF Init, ReaderInv
<1>5. SelfDelimiting
  BY <1>0 DEF Init, SelfDelimiting
<1> QED  BY <1>1, <1>2, <1>3, <1>4, <1>5 DEF IInv

\* Pushing the byte for the entry (next, val) extends the explanation of the buffer.
LEMMA PushInv ==
  ASSUME IInv, phase = "encode", Push(ByteOf(val)), vals' = vals
  PROVE  /\ TrailInv'
         /\ buffer' \in Seq(0 .. 2 * Base - 1)
         /\ trail' \in Seq(Entry)
         /\ buffer' # <<>> /\ Len(buffer') = Len(buffer) + 1
         /\ trail'[Len(buffer')] = [idx |-> next, rest |-> val]
<1> DEFINE e == [idx |-> next, rest |-> val]
           n == Len(buffer)
<1>1. /\ val \in Nat /\ next \in Nat \ {0} /\ next <= Len(vals) /\ n \in Nat
      /\ e \in Entry
      /\ buffer \in Seq(0 .. 2 * Base - 1) /\ trail \in Seq(Entry) /\ Len(trail) = n
  BY WordAssumption DEF IInv, TypeOK, TrailInv, WriterInv, Entry
<1>2. ByteOf(val) \in 0 .. 2 * Base - 1
  BY <1>1, ByteFacts
<1>3. /\ buffer' = Append(buffer, ByteOf(val))
      /\ trail' = Append(trail, e)
  BY DEF Push
<1>4. /\ buffer' \in Seq(0 .. 2 * Base - 1) /\ trail' \in Seq(Entry)
      /\ Len(buffer') = n + 1 /\ Len(trail') = n + 1
      /\ trail'[n + 1] = e /\ buffer'[n + 1] = ByteOf(val)
      /\ \A j \in 1 .. n : trail'[j] = trail[j] /\ buffer'[j] = buffer[j]
  <2> HIDE DEF e
  <2> QED  BY <1>1, <1>2, <1>3
<1>5. /\ n = 0 => e = [idx |-> 1, rest |-> vals[1]]
      /\ n > 0 => e = After(trail[n])
  BY <1>1 DEF IInv, WriterInv
<1>6. TrailInv'
  <2> SUFFICES ASSUME NEW j \in 1 .. n + 1
               PROVE  /\ trail'[j].idx <= Len(vals)
                      /\ buffer'[j] = ByteOf(trail'[j].rest)
                      /\ j = 1 => trail'[j] = [idx |-> 1, rest |-> vals[1]]
                      /\ j > 1 => trail'[j] = After(trail'[j - 1])
    BY <1>4 DEF TrailInv, After, ByteOf
  <2>1. CASE j \in 1 .. n
    <3>1. j - 1 \in 1 .. n \/ j = 1
      BY <1>1, <2>1
    <3>2. /\ trail[j].idx <= Len(vals)
          /\ buffer[j] = ByteOf(trail[j].rest)
          /\ j = 1 => trail[j] = [idx |-> 1, rest |-> vals[1]]
          /\ j > 1 => trail[j] = After(trail[j - 1])
      BY <2>1 DEF IInv, TrailInv
    <3> HIDE DEF e, n
    <3> QED  BY <1>4, <2>1, <3>1, <3>2, <1>1
  <2>2. CASE j = n + 1
    <3>1. n > 0 => n \in 1 .. n
      BY <1>1
    <3>2. e.idx = next /\ e.rest = val
      OBVIOUS
    <3>3. n > 0 => trail'[j - 1] = trail[n]
      BY <1>1, <1>4, <2>2, <3>1
    <3> HIDE DEF e, n
    <3> QED  BY <1>1, <1>4, <1>5, <2>2, <3>1, <3>2, <3>3
  <2> QED  BY <2>1, <2>2, <1>1
<1>7. buffer' # <<>>
  BY <1>1, <1>4
<1> QED  BY <1>4, <1>6, <1>7

LEMMA EmitMoreInv == IInv /\ EmitMore => IInv'
<1> SUFFICES ASSUME IInv, EmitMore PROVE IInv'
  OBVIOUS
<1>1. Push(ByteOf(val)) /\ vals' = vals /\ phase = "encode" /\ Continues(val)
  BY DEF EmitMore, ByteOf
<1>2. /\ TrailInv'
      /\ buffer' \in Seq(0 .. 2 * Base - 1) /\ trail' \in Seq(Entry)
      /\ buffer' # <<>>
      /\ trail'[Len(buffer')] = [idx |-> next, rest |-> val]
  BY <1>1, PushInv
<1>3. val' \in 0 .. Word - 1
  <2>1. val \in Nat /\ val < Word
    BY WordAssumption DEF IInv, TypeOK
  <2> QED  BY <2>1, DivMod, DivBounds, WordAssumption DEF EmitMore
<1>4. TypeOK'
  BY <1>2, <1>3 DEF EmitMore, IInv, TypeOK, readerVars
<1>5. WriterInv'
  <2>1. [idx |-> next', rest |-> val'] = After(trail[Len(buffer)])'
    BY <1>1, <1>2 DEF EmitMore, After, Continues
  <2> QED  BY <1>1, <1>2, <2>1 DEF EmitMore, IInv, WriterInv, readerVars
<1>6. ReaderInv'
  BY <1>1 DEF EmitMore, ReaderInv
<1>7. SelfDelimiting'
  BY <1>1 DEF EmitMore, IInv, TypeOK, WriterInv, SelfDelimiting, readerVars
<1> QED  BY <1>2, <1>4, <1>5, <1>6, <1>7 DEF IInv

LEMMA EmitLastInv == IInv /\ EmitLast => IInv'
<1> SUFFICES ASSUME IInv, EmitLast PROVE IInv'
  OBVIOUS
<1>1. Push(ByteOf(val)) /\ vals' = vals /\ phase = "encode" /\ ~Continues(val)
  BY DEF EmitLast, ByteOf
<1>2. /\ TrailInv'
      /\ buffer' \in Seq(0 .. 2 * Base - 1) /\ trail' \in Seq(Entry)
      /\ buffer' # <<>>
      /\ trail'[Len(buffer')] = [idx |-> next, rest |-> val]
  BY <1>1, PushInv
<1>3. /\ next \in Nat \ {0} /\ next <= Len(vals) /\ Len(vals) \in Nat
      /\ vals \in Seq(0 .. Word - 1) /\ val \in 0 .. Word - 1
      /\ size = 0 /\ pos = 0 /\ value = 0 /\ weight = 1 /\ out = <<>>
  BY <1>1 DEF IInv, TypeOK, WriterInv
<1>4. CASE next = Len(vals)
  <2>1. phase' = "sent" /\ UNCHANGED <<vals, next, val, readerVars>>
    BY <1>4 DEF EmitLast
  <2>2. TypeOK'
    BY <1>2, <2>1 DEF IInv, TypeOK, readerVars
  <2>3. WriterInv'
    BY <1>1, <1>2, <1>3, <1>4, <2>1 DEF WriterInv, Continues, readerVars
  <2>4. ReaderInv' /\ SelfDelimiting'
    BY <1>3, <2>1 DEF ReaderInv, SelfDelimiting, readerVars
  <2> QED  BY <1>2, <2>2, <2>3, <2>4 DEF IInv
<1>5. CASE next # Len(vals)
  <2>1. phase' = "encode" /\ next' = next + 1 /\ val' = vals[next + 1] /\ UNCHANGED <<vals, readerVars>>
    BY <1>1, <1>5 DEF EmitLast
  <2>2. next' \in Nat \ {0} /\ next' <= Len(vals) /\ val' \in 0 .. Word - 1
    <3>1. next + 1 \in 1 .. Len(vals)
      BY <1>3, <1>5
    <3>2. vals[next + 1] \in 0 .. Word - 1
      <4> DEFINE W == 0 .. Word - 1
      <4>1. vals \in Seq(W)
        BY <1>3
      <4> HIDE DEF W
      <4>2. vals[next + 1] \in W
        BY <3>1, <4>1
      <4> QED  BY <4>2 DEF W
    <3> QED  BY <1>3, <2>1, <3>1, <3>2
  <2>3. TypeOK'
    BY <1>2, <2>1, <2>2 DEF IInv, TypeOK, readerVars
  <2>4. [idx |-> next', rest |-> val'] = After(trail[Len(buffer)])'
    <3>1. trail'[Len(buffer')].idx = next /\ trail'[Len(buffer')].rest = val
      BY <1>2
    <3> QED  BY <1>1, <3>1, <2>1 DEF After, Continues
  <2>5. WriterInv'
    BY <1>2, <1>3, <2>1, <2>2, <2>4 DEF WriterInv, readerVars
  <2>6. ReaderInv' /\ SelfDelimiting'
    BY <1>3, <2>1 DEF ReaderInv, SelfDelimiting, readerVars
  <2> QED  BY <1>2, <2>3, <2>5, <2>6 DEF IInv
<1> QED  BY <1>4, <1>5

LEMMA DeliverInv == IInv /\ Deliver => IInv'
<1> SUFFICES ASSUME IInv, Deliver PROVE IInv'
  OBVIOUS
<1>1. /\ phase = "sent" /\ phase' = "decode"
      /\ UNCHANGED <<vals, next, val, buffer, trail, pos, value, weight, out>>
      /\ size' \in Nat /\ size' <= Len(buffer) /\ Len(buffer) \in Nat
      /\ pos = 0 /\ value = 0 /\ weight = 1 /\ out = <<>>
  BY DEF Deliver, writerVars, IInv, TypeOK, WriterInv
<1>2. TypeOK'
  BY <1>1 DEF IInv, TypeOK
<1>3. TrailInv'
  BY <1>1 DEF IInv, TrailInv, After, ByteOf
<1>4. WriterInv'
  BY <1>1 DEF IInv, WriterInv, Continues
<1>5. SelfDelimiting'
  BY <1>1 DEF IInv, TypeOK, SelfDelimiting
<1>6. Aligned'
  <2> SUFFICES ASSUME 0 < size'
               PROVE  trail[1].idx = 1 /\ 0 + trail[1].rest * 1 = vals[1]
    BY <1>1 DEF Aligned
  <2>1. 1 \in 1 .. Len(buffer)
    BY <1>1
  <2>2. trail[1] = [idx |-> 1, rest |-> vals[1]] /\ trail[1] \in Entry
    BY <2>1 DEF IInv, TypeOK, TrailInv
  <2> QED  BY <2>2, WordAssumption DEF Entry
<1>7. pos' = size' /\ size' = Len(buffer') => Len(out') = Len(vals')
  BY <1>1 DEF IInv, TypeOK, WriterInv
<1>8. ReaderInv'
  BY <1>1, <1>6, <1>7 DEF ReaderInv
<1> QED  BY <1>2, <1>3, <1>4, <1>5, <1>8 DEF IInv

\* Reading changes nothing the writer's part of the invariant speaks of.
LEMMA WriterInvStable ==
  ASSUME IInv, UNCHANGED writerVars, phase \in {"decode", "done"}, phase' \in {"decode", "done"}
  PROVE  TrailInv' /\ WriterInv'
  BY SMTT(20) DEF IInv, TrailInv, WriterInv, After, ByteOf, Continues, writerVars

\* The trail after the byte at pos: the same word with one digit less, the next
\* word, or, at the very end of the buffer, nothing.
LEMMA TrailStep ==
  ASSUME IInv, phase = "decode", pos < size
  PROVE  LET t == trail[pos + 1]
         IN  /\ Continues(t.rest) =>
                  /\ pos + 1 < Len(buffer)
                  /\ trail[pos + 2] = [idx |-> t.idx, rest |-> t.rest \div Base]
             /\ ~Continues(t.rest) =>
                  /\ pos + 1 = Len(buffer) => t.idx = Len(vals)
                  /\ pos + 1 < Len(buffer) =>
                       trail[pos + 2] = [idx |-> t.idx + 1, rest |-> vals[t.idx + 1]]
<1>1. /\ pos \in Nat /\ size \in Nat /\ size <= Len(buffer) /\ Len(buffer) \in Nat
      /\ buffer # <<>>
  BY DEF IInv, TypeOK, ReaderInv
<1>2. pos + 1 = Len(buffer) =>
        trail[pos + 1].idx = Len(vals) /\ ~Continues(trail[pos + 1].rest)
  BY <1>1 DEF IInv, WriterInv
<1>3. pos + 1 < Len(buffer) => trail[pos + 2] = After(trail[pos + 1])
  <2> SUFFICES ASSUME pos + 1 < Len(buffer) PROVE trail[pos + 2] = After(trail[pos + 1])
    OBVIOUS
  <2>1. pos + 2 \in 1 .. Len(buffer) /\ pos + 2 > 1 /\ (pos + 2) - 1 = pos + 1
    BY <1>1
  <2> QED  BY <2>1 DEF IInv, TrailInv
<1> QED  BY <1>1, <1>2, <1>3 DEF After

LEMMA ReadMoreInv == IInv /\ ReadMore => IInv'
<1> SUFFICES ASSUME IInv, ReadMore PROVE IInv'
  OBVIOUS
<1> DEFINE r == trail[pos + 1].rest
           acc == value + (r % Base) * weight
<1>1. /\ phase = "decode" /\ pos < size /\ pos + 1 < size /\ More(buffer[pos + 1])
      /\ pos' = pos + 1 /\ weight' = weight * Base
      /\ UNCHANGED <<vals, next, val, buffer, trail, phase, size, out>>
      /\ \E bits \in ShiftLeft(LowBits(buffer[pos + 1]), weight) : value' = value + bits
  BY DEF ReadMore, writerVars
<1>2. /\ r \in Nat /\ Continues(r) /\ acc \in 0 .. Word - 1 /\ acc < weight * Base
      /\ acc + (r \div Base) * (weight * Base) = vals[Len(out) + 1]
      /\ ShiftLeft(LowBits(buffer[pos + 1]), weight) = {(r % Base) * weight}
  BY <1>1, ReadStep
<1>3. value' = acc
  BY <1>1, <1>2
<1>4. /\ pos \in Nat /\ size \in Nat /\ size <= Len(buffer) /\ Len(buffer) \in Nat
      /\ weight \in Nat \ {0} /\ Base \in Nat /\ Base >= 2
      /\ trail[pos + 1].idx = Len(out) + 1
  BY <1>1, BaseAssumption DEF IInv, TypeOK, ReaderInv, Aligned
<1>5. /\ trail[pos + 2].idx = Len(out) + 1 /\ trail[pos + 2].rest = r \div Base
  BY <1>1, <1>2, <1>4, TrailStep, SMTT(20)
<1>6. r \div Base >= 1
  BY <1>2, DivBounds
<1>7. weight' \in Nat \ {0}
  BY <1>1, <1>4, SMT
<1> HIDE DEF r, acc
<1>8. TypeOK'
  <2>1. value' \in 0 .. Word - 1 /\ pos' \in Nat
    BY <1>1, <1>2, <1>3, <1>4
  <2> QED  BY <1>1, <1>7, <2>1 DEF IInv, TypeOK
<1>9. Aligned'
  <2>1. pos' + 1 = pos + 2
    BY <1>1, <1>4
  <2> QED  BY <2>1, <1>1, <1>2, <1>3, <1>5, <1>6 DEF Aligned
<1>10. ReaderInv'
  BY <1>1, <1>2, <1>3, <1>4, <1>9, SMTT(20) DEF ReaderInv
<1>11. SelfDelimiting'
  BY <1>1, <1>4 DEF IInv, SelfDelimiting, CutShort
<1>12. TrailInv' /\ WriterInv'
  BY <1>1, WriterInvStable DEF writerVars
<1> QED  BY <1>8, <1>10, <1>11, <1>12 DEF IInv

LEMMA ReadLastInv == IInv /\ ReadLast => IInv'
<1> SUFFICES ASSUME IInv, ReadLast PROVE IInv'
  OBVIOUS
<1> DEFINE r == trail[pos + 1].rest
           acc == value + (r % Base) * weight
           n == Len(out)
<1>1. /\ phase = "decode" /\ pos < size
      /\ ~More(buffer[pos + 1]) \/ pos + 1 = size
      /\ pos' = pos + 1 /\ weight' = 1 /\ value' = 0
      /\ UNCHANGED <<vals, next, val, buffer, trail, phase, size>>
      /\ \E bits \in ShiftLeft(LowBits(buffer[pos + 1]), weight) : out' = Append(out, value + bits)
  BY DEF ReadLast, writerVars
<1>2. /\ acc \in 0 .. Word - 1
      /\ n + 1 \in 1 .. Len(vals)
      /\ Continues(r) => acc < vals[n + 1]
      /\ ~Continues(r) => acc = vals[n + 1]
      /\ More(buffer[pos + 1]) <=> Continues(r)
      /\ ShiftLeft(LowBits(buffer[pos + 1]), weight) = {(r % Base) * weight}
  BY <1>1, ReadStep
<1>3. out' = Append(out, acc)
  BY <1>1, <1>2
<1>4. /\ pos \in Nat /\ size \in Nat /\ size <= Len(buffer) /\ Len(buffer) \in Nat
      /\ n \in Nat /\ out \in Seq(0 .. Word - 1)
      /\ trail[pos + 1].idx = n + 1
      /\ vals \in Seq(0 .. Word - 1) /\ Len(vals) \in Nat
      /\ Word \in Nat /\ Word >= 2
  <2>1. trail[pos + 1].idx = n + 1 /\ size <= Len(buffer)
    BY <1>1 DEF IInv, ReaderInv, Aligned
  <2> QED  BY <2>1, BaseAssumption, WordAssumption DEF IInv, TypeOK
<1>5. /\ Continues(r) => pos + 1 < Len(buffer)
      /\ ~Continues(r) =>
           /\ pos + 1 = Len(buffer) => n + 1 = Len(vals)
           /\ pos + 1 < Len(buffer) => trail[pos + 2] = [idx |-> n + 2, rest |-> vals[n + 2]]
  <2>1. (n + 1) + 1 = n + 2
    BY <1>4
  <2> QED  BY <1>1, <1>4, <2>1, TrailStep
<1> HIDE DEF r, acc
<1>6. /\ out' \in Seq(0 .. Word - 1) /\ Len(out') = n + 1
      /\ out'[n + 1] = acc
      /\ \A i \in 1 .. n : out'[i] = out[i]
  BY <1>2, <1>3, <1>4
<1>7. TypeOK'
  BY <1>1, <1>4, <1>6, SMTT(20) DEF IInv, TypeOK
<1>8. Aligned'
  <2> SUFFICES ASSUME pos + 1 < size
               PROVE  /\ trail[pos + 2].idx = n + 2
                      /\ 0 + trail[pos + 2].rest * 1 = vals[n + 2]
    <3>1. pos' + 1 = pos + 2 /\ Len(out') + 1 = n + 2
      BY <1>1, <1>4, <1>6
    <3> QED  BY <3>1, <1>1 DEF Aligned
  <2>1. ~Continues(r) /\ pos + 1 < Len(buffer)
    BY <1>1, <1>2, <1>4
  <2>2. trail[pos + 2] = [idx |-> n + 2, rest |-> vals[n + 2]]
    BY <2>1, <1>5
  <2>3. pos + 2 \in 1 .. Len(buffer)
    BY <2>1, <1>4
  <2>4. trail[pos + 2] \in Entry
    BY <2>3 DEF IInv, TypeOK, TrailInv
  <2> QED  BY <2>2, <2>4, <1>4 DEF Entry
<1>9. ReaderInv'
  BY <1>1, <1>4, <1>5, <1>6, <1>8 DEF ReaderInv
<1>10. SelfDelimiting'
  <2>1. \A i \in 1 .. n : out[i] = vals[i]
    BY <1>1, <1>4 DEF IInv, SelfDelimiting, CutShort
  <2>2. acc = vals[n + 1] \/ (acc < vals[n + 1] /\ pos + 1 = size /\ size < Len(buffer))
    BY <1>1, <1>2, <1>5
  <2>3. \A i \in 1 .. n + 1 : i \in 1 .. n \/ i = n + 1
    BY <1>4
  <2>4. Len(out') <= Len(vals)
    BY <1>2, <1>4, <1>6
  <2>5. ASSUME NEW i \in 1 .. Len(out')
        PROVE  out'[i] = vals[i] \/ CutShort(i)'
    <3>1. CASE i \in 1 .. n
      BY <3>1, <1>6, <2>1
    <3>2. CASE i = n + 1
      BY <3>2, <1>1, <1>6, <2>2 DEF CutShort
    <3> QED  BY <3>1, <3>2, <1>6, <2>3
  <2> QED  BY <2>4, <2>5, <1>1 DEF SelfDelimiting
<1>11. TrailInv' /\ WriterInv'
  BY <1>1, WriterInvStable DEF writerVars
<1> QED  BY <1>7, <1>9, <1>10, <1>11 DEF IInv

LEMMA FinishInv == IInv /\ Finish => IInv'
<1> SUFFICES ASSUME IInv, Finish PROVE IInv'
  OBVIOUS
<1>1. /\ phase = "decode" /\ phase' = "done" /\ pos = size
      /\ UNCHANGED <<vals, next, val, buffer, trail, size, pos, value, weight, out>>
  BY DEF Finish, writerVars, readerVars
<1>2. TypeOK' /\ ReaderInv' /\ SelfDelimiting'
  BY <1>1 DEF IInv, TypeOK, ReaderInv, Aligned, SelfDelimiting, CutShort
<1>3. TrailInv' /\ WriterInv'
  BY <1>1, WriterInvStable DEF writerVars
<1> QED  BY <1>2, <1>3 DEF IInv

LEMMA StutterInv == IInv /\ UNCHANGED vars => IInv'
<1> SUFFICES ASSUME IInv, UNCHANGED vars PROVE IInv'
  OBVIOUS
<1>1. UNCHANGED <<vals, next, val, buffer, trail, phase, size, pos, value, weight, out>>
  BY DEF vars
<1>2. TypeOK'
  BY <1>1 DEF IInv, TypeOK
<1>3. ReaderInv'
  BY <1>1 DEF IInv, ReaderInv, Aligned
<1>4. SelfDelimiting'
  BY <1>1 DEF IInv, SelfDelimiting, CutShort
<1>5. TrailInv'
  BY <1>1 DEF IInv, TrailInv, After, ByteOf, Continues
<1>6. WriterInv'
  BY <1>1 DEF IInv, WriterInv, After, ByteOf, Continues
<1> QED  BY <1>2, <1>3, <1>4, <1>5, <1>6 DEF IInv

\* IInv holds in every reachable state, whatever Base, Word and the words written.
THEOREM Invariance == Spec => []IInv
<1>1. IInv /\ [Next]_vars => IInv'
  BY EmitMoreInv, EmitLastInv, DeliverInv, ReadMoreInv, ReadLastInv, FinishInv, StutterInv
     DEF Next
<1> QED  BY InitInv, <1>1, PTL DEF Spec

\* Every variable of the generated loops keeps its type: bytes are bytes, and
\* the accumulator never exceeds a word.
THEOREM TypeCorrect == Spec => []TypeOK
<1>1. IInv => TypeOK
  BY DEF IInv
<1> QED  BY Invariance, <1>1, PTL

\* Varints are self-delimiting for any number of words and any truncation.
THEOREM ReadsWhatWasWritten == Spec => []SelfDelimiting
<1>1. IInv => SelfDelimiting
  BY DEF IInv
<1> QED  BY Invariance, <1>1, PTL

\* A reader given the whole buffer ends with exactly the words written.
THEOREM RoundTripsWhole == Spec => []WholeRoundTrip
<1>1. IInv => WholeRoundTrip
  <2> SUFFICES ASSUME IInv, phase = "done", size = Len(buffer)
               PROVE  out = vals
    BY DEF WholeRoundTrip
  <2>1. /\ Len(out) = Len(vals)
        /\ out \in Seq(0 .. Word - 1) /\ vals \in Seq(0 .. Word - 1)
    BY DEF IInv, TypeOK, ReaderInv
  <2>2. \A i \in 1 .. Len(out) : out[i] = vals[i]
    BY DEF IInv, TypeOK, SelfDelimiting, CutShort
  <2> QED  BY <2>1, <2>2
<1> QED  BY Invariance, <1>1, PTL

\* The reader of serialized bytes never shifts by the width of the word or more.
THEOREM ShiftsAreDefined == Spec => []ShiftDefined
<1>1. IInv => ShiftDefined
  BY ReadStep DEF ShiftDefined
<1> QED  BY Invariance, <1>1, PTL

-----------------------------------------------------------------------------
(* The loops compute what VarintFormat says of them *)

\* The bytes of the first k words.
Written(k) == FlattenSeq([i \in 1 .. k |-> VarintBytes[vals[i]]])

\* While it is on a word, the encoder has the bytes of VarintBytes for the rest
\* of that word still to push.
WrittenInv ==
  /\ phase = "encode" => buffer \o VarintBytes[val] = Written(next)
  /\ phase # "encode" => buffer = Written(Len(vals))

\* The bytes the reader was given.
Data == SubSeq(buffer, 1, size)

\* What the reader has delivered, the word it is on and the words after it are
\* the words that reading with ReadVarint finds.
DeliveredInv ==
  LET r == ReadVarint(Data, pos)
  IN phase \in {"decode", "done"} =>
       /\ pos = size => WordsFrom(Data, 0) = out
       /\ pos < size =>
            WordsFrom(Data, 0) = out \o (<<value + weight * r.value>> \o WordsFrom(Data, r.pos))

FormatInv == WrittenInv /\ DeliveredInv

LEMMA BytesAreThoseOfWords ==
  BytesOfWords(Base, VarintBytes)
<1>1. \E f : BytesOfWords(Base, f)
  BY BaseAssumption, BytesOfWordsExist
<1> QED  BY <1>1, Zenon DEF VarintBytes, BytesOfWords

LEMMA ReadsVarints ==
  ASSUME NEW data \in Seq(Nat)
  PROVE  \E f : VarintsOf(Base, Word, data, f) /\ \A p : ReadVarint(data, p) = f[p + 1]
<1> DEFINE f == CHOOSE g : VarintsOf(Base, Word, data, g)
<1>1. VarintsOf(Base, Word, data, f)
  BY BaseAssumption, WordAssumption, VarintsExist
<1>2. ASSUME NEW p PROVE ReadVarint(data, p) = f[p + 1]
  BY Zenon DEF ReadVarint, VarintsOf
<1> HIDE DEF f
<1> QED  BY <1>1, <1>2

\* One iteration of the reader's loop, at the end of the data, at the last byte
\* of a word and at another byte.
LEMMA ReadAtEnd ==
  ASSUME NEW data \in Seq(Nat), NEW p \in Nat, p >= Len(data)
  PROVE  ReadVarint(data, p).value = 0 /\ ReadVarint(data, p).pos = p
<1>1. PICK f : VarintsOf(Base, Word, data, f) /\ \A q : ReadVarint(data, q) = f[q + 1]
  BY ReadsVarints
<1>2. p + 1 \in Nat \ {0} /\ p + 1 > Len(data) /\ (p + 1) - 1 = p
  OBVIOUS
<1>3. f[p + 1].value = 0 /\ f[p + 1].pos = (p + 1) - 1
  BY <1>1, <1>2, VarintsEnd
<1> QED  BY <1>1, <1>2, <1>3

LEMMA ReadAtLast ==
  ASSUME NEW data \in Seq(Nat), NEW p \in Nat, p < Len(data), data[p + 1] < Base
  PROVE  ReadVarint(data, p).value = data[p + 1] /\ ReadVarint(data, p).pos = p + 1
<1>1. PICK f : VarintsOf(Base, Word, data, f) /\ \A q : ReadVarint(data, q) = f[q + 1]
  BY ReadsVarints
<1>2. p + 1 \in Nat \ {0} /\ ~(p + 1 > Len(data))
  OBVIOUS
<1>3. f[p + 1].value = data[p + 1] /\ f[p + 1].pos = p + 1
  BY <1>1, <1>2, VarintsLast
<1> QED  BY <1>1, <1>3

LEMMA ReadAtMore ==
  ASSUME NEW data \in Seq(Nat), NEW p \in Nat, p < Len(data), ~(data[p + 1] < Base)
  PROVE  /\ ReadVarint(data, p).value =
              (data[p + 1] % Base) + Base * (ReadVarint(data, p + 1).value % (Word \div Base))
         /\ ReadVarint(data, p).pos = ReadVarint(data, p + 1).pos
<1>1. PICK f : VarintsOf(Base, Word, data, f) /\ \A q : ReadVarint(data, q) = f[q + 1]
  BY ReadsVarints
<1>2. p + 1 \in Nat \ {0} /\ ~(p + 1 > Len(data))
  OBVIOUS
<1>3. /\ f[p + 1].value = (data[p + 1] % Base) + Base * (f[(p + 1) + 1].value % (Word \div Base))
      /\ f[p + 1].pos = f[(p + 1) + 1].pos
  BY <1>1, <1>2, VarintsMore
<1> QED  BY <1>1, <1>3, Zenon

LEMMA ReadType ==
  ASSUME NEW data \in Seq(Nat), NEW p \in Nat, p < Len(data)
  PROVE  ReadVarint(data, p).value \in 0 .. Word - 1 /\ ReadVarint(data, p).pos \in p + 1 .. Len(data)
<1>1. PICK f : VarintsOf(Base, Word, data, f) /\ \A q : ReadVarint(data, q) = f[q + 1]
  BY ReadsVarints
<1>2. p + 1 \in 1 .. Len(data)
  OBVIOUS
<1>3. f[p + 1].value \in 0 .. Word - 1 /\ f[p + 1].pos \in p + 1 .. Len(data)
  BY <1>1, <1>2, BaseAssumption, WordAssumption, VarintsType, SMTT(20)
<1> QED  BY <1>1, <1>3

-----------------------------------------------------------------------------
(* The words found in data *)

\* f lists the words from each position of data on.
WordsOf(data, f) ==
  f = [q \in Nat |-> IF q >= Len(data) THEN <<>>
                     ELSE <<ReadVarint(data, q).value>> \o f[ReadVarint(data, q).pos]]

LEMMA WordsExist ==
  ASSUME NEW data \in Seq(Nat)
  PROVE  \E f \in [Nat -> Seq(Nat)] : WordsOf(data, f)
<1> DEFINE S == Seq(Nat)
           n == Len(data)
           rank == [q \in Nat |-> IF q >= n THEN 0 ELSE n - q]
           G == [p \in Nat \X [Nat -> S] |->
                  IF p[1] >= n THEN <<>>
                  ELSE <<ReadVarint(data, p[1]).value>> \o p[2][ReadVarint(data, p[1]).pos]]
<1>0. n \in Nat
  OBVIOUS
<1>1. rank \in [Nat -> Nat]
  BY <1>0
<1>a. ASSUME NEW q \in Nat, q < n
      PROVE  /\ ReadVarint(data, q).value \in Nat /\ ReadVarint(data, q).pos \in Nat
             /\ q < ReadVarint(data, q).pos /\ ReadVarint(data, q).pos <= n
  <2> DEFINE r == ReadVarint(data, q)
  <2>1. r.value \in 0 .. Word - 1 /\ r.pos \in q + 1 .. n
    BY <1>a, ReadType
  <2> HIDE DEF r, n
  <2>2. r.value \in Nat /\ r.pos \in Nat /\ q < r.pos /\ r.pos <= n
    BY <1>0, <2>1
  <2> QED  BY <2>2 DEF r
<1>2. G \in [Nat \X [Nat -> S] -> S]
  <2> SUFFICES ASSUME NEW q \in Nat, NEW f \in [Nat -> S]
               PROVE  (IF q >= n THEN <<>>
                       ELSE <<ReadVarint(data, q).value>> \o f[ReadVarint(data, q).pos]) \in S
    BY Zenon
  <2>1. <<>> \in S
    OBVIOUS
  <2>2. CASE q < n
    <3> DEFINE r == ReadVarint(data, q)
    <3>1. r.value \in Nat /\ r.pos \in Nat
      BY <1>a, <2>2
    <3> HIDE DEF r
    <3>2. <<r.value>> \in S /\ f[r.pos] \in S
      BY <3>1
    <3>3. <<r.value>> \o f[r.pos] \in S
      BY <3>2, ConcatSeq
    <3> QED  BY <2>1, <3>3, Zenon DEF r
  <2>3. CASE q >= n
    BY <2>1, <2>3, Zenon
  <2> QED  BY <1>0, <2>2, <2>3
<1>3. Descends(Nat, S, rank, G)
  <2> SUFFICES ASSUME NEW q \in Nat, NEW g \in [Nat -> S], NEW h \in [Nat -> S],
                      Agree(Nat, rank, g, h, rank[q])
               PROVE  G[<<q, g>>] = G[<<q, h>>]
    <3> HIDE DEF S, G, rank
    <3> QED  BY DEF Descends
  <2>1. q < n => g[ReadVarint(data, q).pos] = h[ReadVarint(data, q).pos]
    <3> SUFFICES ASSUME q < n PROVE g[ReadVarint(data, q).pos] = h[ReadVarint(data, q).pos]
      OBVIOUS
    <3> DEFINE e == ReadVarint(data, q).pos
    <3>1. e \in Nat /\ q < e /\ e <= n
      BY <1>a, Zenon
    <3> HIDE DEF e, n
    <3>2. rank[e] = (IF e >= n THEN 0 ELSE n - e) /\ rank[q] = n - q
      BY <1>0, <3>1
    <3> HIDE DEF rank
    <3>3. rank[e] < rank[q]
      <4>1. CASE e >= n
        BY <1>0, <3>1, <3>2, <4>1
      <4>2. CASE ~(e >= n)
        BY <1>0, <3>1, <3>2, <4>2
      <4> QED  BY <4>1, <4>2
    <3> QED  BY <3>1, <3>3, Zenon DEF Agree, e
  <2> HIDE DEF S, n
  <2>2. /\ <<q, g>> \in Nat \X [Nat -> S] /\ <<q, g>>[1] = q /\ <<q, g>>[2] = g
        /\ <<q, h>> \in Nat \X [Nat -> S] /\ <<q, h>>[1] = q /\ <<q, h>>[2] = h
    OBVIOUS
  <2>3. CASE q >= n
    BY <2>2, <2>3, Zenon
  <2>4. CASE q < n
    BY <2>1, <2>2, <2>4, Zenon
  <2> QED  BY <1>0, <2>3, <2>4
<1>4. S # {}
  <2>1. <<>> \in S
    OBVIOUS
  <2> QED  BY <2>1
<1>5. PICK f \in [Nat -> S] : Solves(Nat, G, f)
  <2> HIDE DEF S, G, rank
  <2> QED  BY <1>1, <1>2, <1>3, <1>4, Recursion, Zenon
<1>6. ASSUME NEW q \in Nat
      PROVE  f[q] = IF q >= n THEN <<>>
                    ELSE <<ReadVarint(data, q).value>> \o f[ReadVarint(data, q).pos]
  <2>1. f[q] = G[<<q, f>>]
    BY <1>5, Zenon DEF Solves
  <2> HIDE DEF S, n
  <2>2. <<q, f>> \in Nat \X [Nat -> S] /\ <<q, f>>[1] = q /\ <<q, f>>[2] = f
    OBVIOUS
  <2> QED  BY <2>1, <2>2, Zenon
<1>7. WordsOf(data, f)
  <2> HIDE DEF S, G, rank
  <2> QED  BY <1>6, Zenon DEF WordsOf
<1> QED  BY <1>7

LEMMA WordsFromValues ==
  ASSUME NEW data \in Seq(Nat), NEW p \in Nat
  PROVE  /\ p >= Len(data) => WordsFrom(data, p) = <<>>
         /\ p < Len(data) => WordsFrom(data, p) =
                               <<ReadVarint(data, p).value>> \o WordsFrom(data, ReadVarint(data, p).pos)
<1> DEFINE f == CHOOSE g : WordsOf(data, g)
<1>1. WordsOf(data, f)
  BY WordsExist
<1>2. ASSUME NEW q PROVE WordsFrom(data, q) = f[q]
  BY Zenon DEF WordsFrom, WordsOf
<1> HIDE DEF f
<1>3. f[p] = IF p >= Len(data) THEN <<>>
             ELSE <<ReadVarint(data, p).value>> \o f[ReadVarint(data, p).pos]
  BY <1>1, Zenon DEF WordsOf
<1>4. p < Len(data) => ~(p >= Len(data))
  OBVIOUS
<1> QED  BY <1>2, <1>3, <1>4, Zenon

-----------------------------------------------------------------------------
(* The encoder *)

LEMMA BytesType ==
  ASSUME NEW v \in Nat
  PROVE  VarintBytes[v] \in Seq(0 .. 2 * Base - 1)
  BY BaseAssumption, BytesAreThoseOfWords, BytesOfWordsType

LEMMA BytesStep ==
  ASSUME NEW v \in Nat
  PROVE  /\ Continues(v) => VarintBytes[v] = <<LowBits(v) + Base>> \o VarintBytes[v \div Base]
         /\ ~Continues(v) => VarintBytes[v] = <<v>>
<1>1. /\ v > Base - 1 => VarintBytes[v] = <<(v % Base) + Base>> \o VarintBytes[v \div Base]
      /\ v <= Base - 1 => VarintBytes[v] = <<v>>
  BY BaseAssumption, BytesAreThoseOfWords, BytesOfWordsValues, Zenon
<1>2. ~(v > Base - 1) => v <= Base - 1
  BY BaseAssumption
<1> QED  BY <1>1, <1>2, Zenon DEF Continues, LowBits

LEMMA WrittenType ==
  ASSUME NEW k \in Nat, vals \in Seq(Nat), k <= Len(vals)
  PROVE  /\ [i \in 1 .. k |-> VarintBytes[vals[i]]] \in Seq(Seq(0 .. 2 * Base - 1))
         /\ Written(k) \in Seq(0 .. 2 * Base - 1)
<1> DEFINE S == Seq(0 .. 2 * Base - 1)
           ss == [i \in 1 .. k |-> VarintBytes[vals[i]]]
<1>1. \A i \in 1 .. k : VarintBytes[vals[i]] \in S
  <2> SUFFICES ASSUME NEW i \in 1 .. k PROVE VarintBytes[vals[i]] \in S
    OBVIOUS
  <2>1. vals[i] \in Nat
    OBVIOUS
  <2> QED  BY <2>1, BytesType, Zenon
<1>2. ss \in Seq(S)
  <2> HIDE DEF S
  <2> QED  BY <1>1
<1> QED  BY <1>2, FlattenType DEF Written

LEMMA WrittenStep ==
  ASSUME NEW k \in Nat, vals \in Seq(Nat), k + 1 <= Len(vals)
  PROVE  Written(k + 1) = Written(k) \o VarintBytes[vals[k + 1]]
<1> DEFINE S == Seq(0 .. 2 * Base - 1)
           Bytes(n) == [i \in 1 .. n |-> VarintBytes[vals[i]]]
           s == VarintBytes[vals[k + 1]]
<1>1. Bytes(k) \in Seq(S)
  BY WrittenType
<1>2. s \in S
  <2>1. vals[k + 1] \in Nat
    OBVIOUS
  <2> QED  BY <2>1, BytesType, Zenon
<1>3. Bytes(k + 1) = Append(Bytes(k), s)
  <2> HIDE DEF S
  <2>1. Append(Bytes(k), s) \in Seq(S) /\ Len(Append(Bytes(k), s)) = k + 1
    BY <1>1, <1>2
  <2>2. ASSUME NEW i \in 1 .. k + 1 PROVE Append(Bytes(k), s)[i] = VarintBytes[vals[i]]
    BY <1>1, <1>2
  <2> DEFINE t == Append(Bytes(k), s)
  <2>3. DOMAIN t = 1 .. k + 1 /\ t = [i \in DOMAIN t |-> t[i]]
    <3> HIDE DEF t
    <3>1. t \in Seq(S) /\ Len(t) = k + 1
      BY <2>1 DEF t
    <3> QED  BY <3>1
  <2> HIDE DEF t
  <2>4. \A i \in 1 .. k + 1 : t[i] = VarintBytes[vals[i]]
    BY <2>2 DEF t
  <2> QED  BY <2>3, <2>4, Zenon DEF t
<1>4. FlattenSeq(Append(Bytes(k), s)) = FlattenSeq(Bytes(k)) \o s
  <2> HIDE DEF Bytes, s
  <2> QED  BY <1>1, <1>2, FlattenAppend
<1> QED  BY <1>3, <1>4, Zenon DEF Written

LEMMA WrittenInit == Init => WrittenInv
<1> SUFFICES ASSUME Init PROVE WrittenInv
  OBVIOUS
<1>0. vals \in Seq(0 .. Word - 1) /\ buffer = <<>>
  BY StreamsAssumption DEF Init
<1>z. Written(0) = <<>>
  <2>1. [i \in 1 .. 0 |-> VarintBytes[vals[i]]] = <<>>
    OBVIOUS
  <2> QED  BY <2>1, FlattenEmpty DEF Written
<1>1. CASE vals = <<>>
  <2>1. phase = "sent" /\ Len(vals) = 0
    BY <1>1 DEF Init
  <2> QED  BY <1>0, <1>z, <2>1 DEF WrittenInv
<1>2. CASE vals # <<>>
  <2>1. phase = "encode" /\ next = 1 /\ val = vals[1]
    BY <1>2 DEF Init
  <2>2. vals \in Seq(Nat) /\ 0 + 1 <= Len(vals)
    BY <1>0, <1>2, WordAssumption
  <2>3. Written(1) = Written(0) \o VarintBytes[vals[1]]
    BY <2>2, WrittenStep
  <2> QED  BY <1>0, <1>z, <2>1, <2>3, Zenon DEF WrittenInv
<1> QED  BY <1>1, <1>2

LEMMA WrittenNext == IInv /\ WrittenInv /\ [Next]_vars => WrittenInv'
<1> SUFFICES ASSUME IInv, WrittenInv, [Next]_vars PROVE WrittenInv'
  OBVIOUS
<1> DEFINE S == 0 .. 2 * Base - 1
<1>0. vals \in Seq(0 .. Word - 1) /\ buffer \in Seq(S) /\ val \in 0 .. Word - 1
  BY DEF IInv, TypeOK
<1>a. vals \in Seq(Nat) /\ val \in Nat
  BY <1>0, WordAssumption
<1>1. CASE EmitMore
  <2>1. /\ phase = "encode" /\ phase' = "encode" /\ next' = next /\ vals' = vals
        /\ buffer' = Append(buffer, LowBits(val) + Base) /\ val' = val \div Base /\ Continues(val)
    BY <1>1 DEF EmitMore, Push
  <2>2. VarintBytes[val] = <<LowBits(val) + Base>> \o VarintBytes[val \div Base]
    BY <1>a, <2>1, BytesStep, Zenon
  <2>3. val \div Base \in Nat /\ LowBits(val) + Base \in S
    <3>1. val \div Base \in Nat /\ val % Base \in 0 .. Base - 1
      BY <1>a, DivMod, Zenon
    <3> QED  BY <3>1, BaseAssumption DEF LowBits
  <2>4. VarintBytes[val \div Base] \in Seq(S)
    BY <2>3, BytesType, Zenon
  <2> DEFINE b == LowBits(val) + Base
             t == VarintBytes[val \div Base]
  <2>5. Append(buffer, b) \o t = buffer \o (<<b>> \o t)
    <3> HIDE DEF b, t, S
    <3>1. b \in S /\ t \in Seq(S)
      BY <2>3, <2>4 DEF b, t
    <3>2. Append(buffer, b) = buffer \o <<b>> /\ <<b>> \in Seq(S)
      BY <1>0, <3>1
    <3> QED  BY <1>0, <3>1, <3>2, ConcatAssociative
  <2>6. Written(next)' = Written(next)
    BY <2>1 DEF Written
  <2> QED  BY <2>1, <2>2, <2>5, <2>6, Zenon DEF WrittenInv
<1>2. CASE EmitLast
  <2>1. /\ phase = "encode" /\ vals' = vals /\ ~Continues(val)
        /\ buffer' = Append(buffer, val)
        /\ next = Len(vals) => phase' = "sent"
        /\ next # Len(vals) => phase' = "encode" /\ next' = next + 1 /\ val' = vals[next + 1]
    BY <1>2 DEF EmitLast, Push
  <2>2. VarintBytes[val] = <<val>> /\ val \in S
    <3>1. VarintBytes[val] = <<val>>
      BY <1>a, <2>1, BytesStep, Zenon
    <3>2. val \in S
      BY <1>a, <2>1, BaseAssumption DEF Continues
    <3> QED  BY <3>1, <3>2
  <2>3. buffer' = Written(next)
    <3>1. Append(buffer, val) = buffer \o <<val>>
      BY <1>0, <2>2
    <3> QED  BY <2>1, <2>2, <3>1 DEF WrittenInv
  <2>4. \A k : Written(k)' = Written(k)
    BY <2>1 DEF Written
  <2>5. CASE next = Len(vals)
    BY <2>1, <2>3, <2>4, <2>5 DEF WrittenInv
  <2>6. CASE next # Len(vals)
    <3>1. next \in Nat /\ next + 1 <= Len(vals)
      BY <2>1, <2>6 DEF IInv, TypeOK, WriterInv
    <3>2. Written(next + 1) = Written(next) \o VarintBytes[vals[next + 1]]
      BY <1>a, <3>1, WrittenStep
    <3> QED  BY <2>1, <2>3, <2>4, <2>6, <3>2, Zenon DEF WrittenInv
  <2> QED  BY <2>5, <2>6
<1>3. CASE Deliver \/ ReadMore \/ ReadLast \/ Finish
  <2>1. phase # "encode" /\ phase' # "encode" /\ buffer' = buffer /\ vals' = vals
    BY <1>3 DEF Deliver, ReadMore, ReadLast, Finish, writerVars
  <2> QED  BY <2>1 DEF WrittenInv, Written
<1>4. CASE UNCHANGED vars
  BY <1>4, Zenon DEF vars, WrittenInv, Written
<1> QED  BY <1>1, <1>2, <1>3, <1>4 DEF Next

-----------------------------------------------------------------------------
(* The reader *)

LEMMA DataFacts ==
  ASSUME IInv, phase \in {"decode", "done"}
  PROVE  /\ size \in Nat /\ pos \in Nat /\ pos <= size /\ size <= Len(buffer) /\ Len(buffer) \in Nat
         /\ Data \in Seq(Nat) /\ Len(Data) = size
         /\ \A k \in 1 .. size : Data[k] = buffer[k]
<1>1. /\ buffer \in Seq(0 .. 2 * Base - 1) /\ size \in Nat /\ size <= Len(buffer)
      /\ pos \in Nat /\ pos <= size
  BY DEF IInv, TypeOK, ReaderInv
<1>2. buffer \in Seq(Nat)
  BY <1>1, BaseAssumption
<1> QED  BY <1>1, <1>2 DEF Data

\* The byte of the data after p, and where the trail goes from there.
LEMMA ByteAt ==
  ASSUME IInv, phase \in {"decode", "done"}, NEW p \in Nat, p < size
  PROVE  LET r == trail[p + 1].rest
         IN  /\ r \in 0 .. Word - 1
             /\ Data[p + 1] = ByteOf(r)
             /\ Continues(r) /\ p + 1 < size => trail[p + 2].rest = r \div Base
<1> DEFINE r == trail[p + 1].rest
<1>1. /\ p + 1 \in 1 .. Len(buffer) /\ Data[p + 1] = buffer[p + 1]
      /\ size <= Len(buffer) /\ Len(buffer) \in Nat /\ size \in Nat
  BY DataFacts
<1>2. trail[p + 1] \in Entry
  BY <1>1 DEF IInv, TypeOK, TrailInv
<1>3. r \in 0 .. Word - 1
  BY <1>2 DEF Entry
<1>4. buffer[p + 1] = ByteOf(r)
  BY <1>1 DEF IInv, TrailInv
<1>5. p + 1 < size => trail[p + 2] = After(trail[p + 1])
  <2> SUFFICES ASSUME p + 1 < size PROVE trail[p + 2] = After(trail[p + 1])
    OBVIOUS
  <2>1. p + 2 \in 1 .. Len(buffer) /\ p + 2 > 1 /\ (p + 2) - 1 = p + 1
    BY <1>1
  <2> QED  BY <2>1 DEF IInv, TrailInv
<1> QED  BY <1>1, <1>3, <1>4, <1>5 DEF After

\* A number of whole digits below a word is below the number of such digits.
LEMMA BelowDigits ==
  ASSUME NEW v \in Nat, NEW r \in 0 .. Word - 1, v <= r \div Base
  PROVE  v % (Word \div Base) = v
<1> DEFINE m == Word \div Base
           q == r \div Base
<1>1. Word = m * Base /\ m \in Nat
  BY BaseAssumption, WordAssumption, DigitAssumption, Division
<1>2. q \in Nat /\ q * Base <= r /\ r \in Nat
  <2>1. r \in Nat
    BY WordAssumption
  <2>2. q \in Nat /\ r % Base \in Nat /\ r = q * Base + (r % Base)
    BY <2>1, BaseAssumption, DivMod
  <2> HIDE DEF q
  <2>3. q * Base \in Nat
    BY <2>2, BaseAssumption, SMT
  <2> QED  BY <2>1, <2>2, <2>3
<1> HIDE DEF m, q
<1>3. q < m
  <2> SUFFICES ASSUME q >= m PROVE FALSE
    BY <1>1, <1>2
  <2>1. q * Base >= m * Base
    BY <1>1, <1>2, BaseAssumption, SMT
  <2>2. q * Base \in Nat /\ m * Base \in Nat
    BY <1>1, <1>2, BaseAssumption, SMT
  <2> QED  BY <1>1, <1>2, <2>1, <2>2, WordAssumption
<1>4. v < m
  BY <1>1, <1>2, <1>3 DEF q
<1>5. v % m = v
  BY <1>1, <1>4, SMT
<1> QED  BY <1>5 DEF m

\* What ReadVarint finds from p on is no more than what the encoder had left.
LEMMA ReadBelow ==
  ASSUME IInv, phase \in {"decode", "done"}, NEW p \in Nat, p < size
  PROVE  ReadVarint(Data, p).value \in Nat /\ ReadVarint(Data, p).value <= trail[p + 1].rest
<1> DEFINE Good(q) == ReadVarint(Data, q).value \in Nat /\ ReadVarint(Data, q).value <= trail[q + 1].rest
           T == {i \in Nat : i < size => Good(size - 1 - i)}
<1>0. size \in Nat /\ Data \in Seq(Nat) /\ Len(Data) = size
  BY DataFacts
<1>1. ASSUME NEW q \in Nat, q < size, q + 1 < size => Good(q + 1) PROVE Good(q)
  <2> DEFINE r == trail[q + 1].rest
  <2>1. /\ r \in 0 .. Word - 1 /\ Data[q + 1] = ByteOf(r)
        /\ Continues(r) /\ q + 1 < size => trail[q + 2].rest = r \div Base
    BY <1>1, ByteAt
  <2>2. r \in Nat
    BY <2>1, WordAssumption
  <2> HIDE DEF r
  <2>3. (More(ByteOf(r)) <=> Continues(r)) /\ LowBits(ByteOf(r)) = r % Base
    BY <2>2, ByteFacts
  <2>4. CASE ~Continues(r)
    <3>1. Data[q + 1] < Base /\ Data[q + 1] = r
      BY <2>1, <2>2, <2>4, BaseAssumption DEF ByteOf, Continues
    <3>2. ReadVarint(Data, q).value = r
      BY <1>0, <1>1, <3>1, ReadAtLast
    <3> QED  BY <2>2, <3>2 DEF r
  <2>5. CASE Continues(r)
    <3> DEFINE v == ReadVarint(Data, q + 1).value
               d == r % Base
    <3>1. ~(Data[q + 1] < Base) /\ Data[q + 1] % Base = d
      <4>1. More(Data[q + 1]) /\ LowBits(Data[q + 1]) = d
        BY <2>1, <2>3, <2>5
      <4>2. Data[q + 1] \in Nat
        BY <1>0, <1>1
      <4> QED  BY <4>1, <4>2, BaseAssumption DEF More, LowBits
    <3>2. ReadVarint(Data, q).value = d + Base * (v % (Word \div Base))
      BY <1>0, <1>1, <3>1, ReadAtMore
    <3>3. d \in Nat /\ r \div Base \in Nat /\ r = (r \div Base) * Base + d
      BY <2>2, DivMod, BaseAssumption
    <3>4. v \in Nat /\ v <= r \div Base
      <4>1. CASE q + 1 < size
        <5>1. trail[(q + 1) + 1].rest = r \div Base
          BY <2>1, <2>5, <4>1
        <5> QED  BY <1>1, <4>1, <5>1
      <4>2. CASE ~(q + 1 < size)
        <5>1. q + 1 >= Len(Data)
          BY <1>0, <1>1, <4>2
        <5>2. v = 0
          BY <1>0, <5>1, ReadAtEnd
        <5> QED  BY <3>3, <5>2
      <4> QED  BY <4>1, <4>2
    <3>5. v % (Word \div Base) = v
      BY <2>1, <3>4, BelowDigits
    <3> DEFINE z == r \div Base
    <3> HIDE DEF v, d, z
    <3>6. Base * v <= z * Base /\ Base * v \in Nat /\ z * Base \in Nat
      BY <3>3, <3>4, BaseAssumption, SMT DEF z
    <3>7. d + Base * v \in Nat /\ d + Base * v <= r
      BY <2>2, <3>3, <3>6 DEF z
    <3> QED  BY <3>2, <3>5, <3>7 DEF r
  <2> QED  BY <2>4, <2>5
<1>2. 0 \in T
  <2> SUFFICES ASSUME 0 < size PROVE Good(size - 1 - 0)
    OBVIOUS
  <2>1. size - 1 - 0 = size - 1 /\ size - 1 \in Nat /\ size - 1 < size /\ ~((size - 1) + 1 < size)
    BY <1>0
  <2> HIDE DEF Good
  <2> QED  BY <1>1, <2>1
<1>3. ASSUME NEW i \in Nat, i \in T PROVE i + 1 \in T
  <2> SUFFICES ASSUME i + 1 < size PROVE Good(size - 1 - (i + 1))
    OBVIOUS
  <2> DEFINE q == size - 1 - (i + 1)
  <2>1. q \in Nat /\ q < size /\ q + 1 = size - 1 - i /\ i < size
    BY <1>0
  <2>2. Good(q + 1)
    BY <1>3, <2>1
  <2> HIDE DEF Good, q
  <2>3. Good(q)
    BY <1>1, <2>1, <2>2
  <2> QED  BY <2>3 DEF q
<1>4. \A i \in Nat : i \in T
  <2> HIDE DEF T
  <2> QED  BY <1>2, <1>3, Induction
<1>5. size - 1 - p \in Nat /\ size - 1 - p < size /\ size - 1 - (size - 1 - p) = p
  BY <1>0
<1>6. Good(p)
  BY <1>4, <1>5
<1> QED  BY <1>6

\* The words read from inside the data on, and from the end on.
LEMMA WordsFromType ==
  ASSUME NEW data \in Seq(Nat), NEW p \in Nat
  PROVE  WordsFrom(data, p) \in Seq(Nat)
<1> DEFINE n == Len(data)
           T == {i \in Nat : \A q \in Nat : n - q <= i => WordsFrom(data, q) \in Seq(Nat)}
<1>0. n \in Nat /\ <<>> \in Seq(Nat)
  OBVIOUS
<1>1. 0 \in T
  <2> SUFFICES ASSUME NEW q \in Nat, n - q <= 0 PROVE WordsFrom(data, q) \in Seq(Nat)
    OBVIOUS
  <2>1. q >= Len(data)
    BY <1>0
  <2> QED  BY <1>0, <2>1, WordsFromValues, Zenon
<1>2. ASSUME NEW i \in Nat, i \in T PROVE i + 1 \in T
  <2> SUFFICES ASSUME NEW q \in Nat, n - q <= i + 1 PROVE WordsFrom(data, q) \in Seq(Nat)
    OBVIOUS
  <2>1. CASE q >= n
    BY <1>0, <2>1, WordsFromValues, Zenon
  <2>2. CASE q < n
    <3> DEFINE r == ReadVarint(data, q)
    <3>1. r.value \in 0 .. Word - 1 /\ r.pos \in q + 1 .. n
      BY <2>2, ReadType
    <3> HIDE DEF r
    <3>2. r.value \in Nat /\ r.pos \in Nat /\ n - r.pos <= i
      BY <1>0, <3>1, WordAssumption
    <3>3. WordsFrom(data, r.pos) \in Seq(Nat) /\ <<r.value>> \in Seq(Nat)
      BY <1>2, <3>2
    <3>4. <<r.value>> \o WordsFrom(data, r.pos) \in Seq(Nat)
      BY <3>3, ConcatSeq
    <3> QED  BY <2>2, <3>4, WordsFromValues, Zenon DEF r
  <2> QED  BY <1>0, <2>1, <2>2
<1>3. \A i \in Nat : i \in T
  <2> HIDE DEF T
  <2> QED  BY <1>1, <1>2, Induction, Zenon
<1>4. n - p <= n
  BY <1>0
<1> QED  BY <1>0, <1>3, <1>4

LEMMA DeliveredByDeliver ==
  ASSUME IInv, Deliver
  PROVE  DeliveredInv'
<1>1. phase' = "decode" /\ pos' = 0 /\ value' = 0 /\ weight' = 1 /\ out' = <<>>
  BY DEF Deliver, IInv, WriterInv
<1>2. size' \in Nat /\ Data' \in Seq(Nat) /\ Len(Data') = size'
  <2>1. buffer' = buffer /\ buffer \in Seq(0 .. 2 * Base - 1) /\ size' \in 0 .. Len(buffer)
    BY DEF Deliver, writerVars, IInv, TypeOK
  <2>2. buffer \in Seq(Nat)
    BY <2>1, BaseAssumption
  <2>3. \A n \in 0 .. Len(buffer) : SubSeq(buffer, 1, n) \in Seq(Nat) /\ Len(SubSeq(buffer, 1, n)) = n
    BY <2>2
  <2>4. Data' = SubSeq(buffer, 1, size')
    BY <2>1 DEF Data
  <2>5. size' \in Nat
    BY <2>1
  <2> QED  BY <2>1, <2>3, <2>4, <2>5, Zenon
<1> DEFINE r == ReadVarint(Data', 0)
<1>3. CASE size' = 0
  <2>1. WordsFrom(Data', 0) = <<>>
    <3>1. 0 \in Nat /\ 0 >= Len(Data')
      BY <1>2, <1>3
    <3> QED  BY <1>2, <3>1, WordsFromValues, Zenon
  <2> QED  BY <1>1, <1>3, <2>1 DEF DeliveredInv
<1>4. CASE size' # 0
  <2>1. 0 < Len(Data') /\ 0 \in Nat /\ 0 < size'
    BY <1>2, <1>4
  <2>2. WordsFrom(Data', 0) = <<r.value>> \o WordsFrom(Data', r.pos)
    BY <1>2, <2>1, WordsFromValues
  <2>3. r.value \in 0 .. Word - 1 /\ r.pos \in 0 + 1 .. Len(Data')
    BY <1>2, <2>1, ReadType
  <2>4. 0 + 1 * r.value = r.value /\ r.value \in Nat /\ r.pos \in Nat
    BY <1>2, <2>3, WordAssumption
  <2>5. <<r.value>> \o WordsFrom(Data', r.pos) \in Seq(Nat)
    BY <1>2, <2>2, WordsFromType, Zenon
  <2>6. <<>> \o (<<r.value>> \o WordsFrom(Data', r.pos)) = <<r.value>> \o WordsFrom(Data', r.pos)
    BY <2>5
  <2>7. WordsFrom(Data', 0) = <<>> \o (<<0 + 1 * r.value>> \o WordsFrom(Data', r.pos))
    BY <2>2, <2>4, <2>6
  <2> QED  BY <1>1, <1>4, <2>7 DEF DeliveredInv
<1> QED  BY <1>3, <1>4

LEMMA DeliveredByReadMore ==
  ASSUME IInv, DeliveredInv, ReadMore
  PROVE  DeliveredInv'
<1> DEFINE r == trail[pos + 1].rest
           d == r % Base
           v == ReadVarint(Data, pos + 1).value
<1>1. /\ phase = "decode" /\ pos < size /\ pos + 1 < size /\ More(buffer[pos + 1])
      /\ pos' = pos + 1 /\ weight' = weight * Base
      /\ phase' = "decode" /\ size' = size /\ out' = out /\ buffer' = buffer
      /\ \E bits \in ShiftLeft(LowBits(buffer[pos + 1]), weight) : value' = value + bits
  BY DEF ReadMore, writerVars
<1>2. /\ size \in Nat /\ pos \in Nat /\ Data \in Seq(Nat) /\ Len(Data) = size
      /\ Data[pos + 1] = buffer[pos + 1]
  BY <1>1, DataFacts
<1>3. /\ r \in Nat /\ Continues(r) /\ d * weight \in Nat
      /\ ShiftLeft(LowBits(buffer[pos + 1]), weight) = {d * weight}
  BY <1>1, ReadStep, SMTT(20)
<1>4. value' = value + d * weight
  BY <1>1, <1>3
<1>5. /\ r \in 0 .. Word - 1 /\ Data[pos + 1] = ByteOf(r)
      /\ trail[pos + 2].rest = r \div Base
  BY <1>1, <1>2, <1>3, ByteAt
<1>6. ~(Data[pos + 1] < Base) /\ Data[pos + 1] % Base = d
  <2>1. More(Data[pos + 1]) /\ LowBits(Data[pos + 1]) = d
    BY <1>3, <1>5, ByteFacts
  <2>2. Data[pos + 1] \in Nat
    BY <1>1, <1>2
  <2> QED  BY <2>1, <2>2, BaseAssumption DEF More, LowBits
<1>7. /\ ReadVarint(Data, pos).value = d + Base * (v % (Word \div Base))
      /\ ReadVarint(Data, pos).pos = ReadVarint(Data, pos + 1).pos
  BY <1>1, <1>2, <1>6, ReadAtMore, SMTT(20)
<1>8. v \in Nat /\ v <= r \div Base
  <2>1. pos + 1 \in Nat /\ (pos + 1) + 1 = pos + 2
    BY <1>2
  <2> QED  BY <1>1, <1>5, <2>1, ReadBelow
<1>9. v % (Word \div Base) = v
  BY <1>5, <1>8, BelowDigits
<1>10. value + weight * (d + Base * v) = (value + d * weight) + (weight * Base) * v
  <2>1. value \in Nat /\ weight \in Nat /\ d \in Nat
    <3>1. value \in Nat /\ weight \in Nat
      BY WordAssumption, SMT DEF IInv, TypeOK
    <3>2. d \in Nat
      <4>1. d \in 0 .. Base - 1
        BY <1>3, DivMod, Zenon
      <4> HIDE DEF d
      <4> QED  BY <4>1, BaseAssumption
    <3> QED  BY <3>1, <3>2
  <2> HIDE DEF d, v
  <2>2. weight * (d + Base * v) = weight * d + weight * (Base * v)
    BY <1>8, <2>1, BaseAssumption, SMT
  <2>3. weight * d = d * weight /\ weight * (Base * v) = (weight * Base) * v
    BY <1>8, <2>1, BaseAssumption, SMT
  <2>4. d * weight \in Nat /\ (weight * Base) * v \in Nat
    BY <1>8, <2>1, BaseAssumption, SMT
  <2> QED  BY <2>1, <2>2, <2>3, <2>4
<1>11. value + weight * ReadVarint(Data, pos).value = value' + weight' * v
  BY <1>1, <1>4, <1>7, <1>9, <1>10
<1>12. WordsFrom(Data, 0) =
         out \o (<<value' + weight' * v>> \o WordsFrom(Data, ReadVarint(Data, pos + 1).pos))
  BY <1>1, <1>7, <1>11, Zenon DEF DeliveredInv
<1>13. Data' = Data /\ pos' < size' /\ pos' # size'
  BY <1>1, <1>2 DEF Data
<1> QED  BY <1>1, <1>12, <1>13 DEF DeliveredInv

LEMMA DeliveredByReadLast ==
  ASSUME IInv, DeliveredInv, ReadLast
  PROVE  DeliveredInv'
<1> DEFINE r == trail[pos + 1].rest
           d == r % Base
           rv == ReadVarint(Data, pos)
           nx == ReadVarint(Data, pos + 1)
           w == value + d * weight
<1>1. /\ phase = "decode" /\ pos < size
      /\ ~More(buffer[pos + 1]) \/ pos + 1 = size
      /\ pos' = pos + 1 /\ weight' = 1 /\ value' = 0
      /\ phase' = "decode" /\ size' = size /\ buffer' = buffer
      /\ \E bits \in ShiftLeft(LowBits(buffer[pos + 1]), weight) : out' = Append(out, value + bits)
  BY DEF ReadLast, writerVars
<1>2. /\ size \in Nat /\ pos \in Nat /\ Data \in Seq(Nat) /\ Len(Data) = size
      /\ Data[pos + 1] = buffer[pos + 1]
  BY <1>1, DataFacts
<1>3. /\ r \in Nat /\ d * weight \in Nat /\ w \in 0 .. Word - 1
      /\ ShiftLeft(LowBits(buffer[pos + 1]), weight) = {d * weight}
      /\ More(buffer[pos + 1]) <=> Continues(r)
  BY <1>1, ReadStep, SMTT(20)
<1>4. out' = Append(out, w)
  BY <1>1, <1>3
<1>5. r \in 0 .. Word - 1 /\ Data[pos + 1] = ByteOf(r)
  BY <1>1, <1>2, ByteAt
<1>6. value \in Nat /\ weight \in Nat /\ d \in Nat /\ out \in Seq(Nat)
  <2>1. d \in Nat
    BY <1>3, DivMod, BaseAssumption
  <2> QED  BY <2>1, WordAssumption DEF IInv, TypeOK
<1>7. rv.value = d /\ rv.pos = pos + 1
  <2>1. CASE ~Continues(r)
    <3>1. Data[pos + 1] < Base /\ Data[pos + 1] = r /\ r % Base = r
      BY <1>3, <1>5, <2>1, BaseAssumption DEF ByteOf, Continues
    <3> QED  BY <1>1, <1>2, <3>1, ReadAtLast, Zenon
  <2>2. CASE Continues(r)
    <3>1. ~(Data[pos + 1] < Base) /\ Data[pos + 1] % Base = d
      <4>1. More(Data[pos + 1]) /\ LowBits(Data[pos + 1]) = d
        BY <1>3, <1>5, <2>2, ByteFacts
      <4>2. Data[pos + 1] \in Nat
        BY <1>1, <1>2
      <4> QED  BY <4>1, <4>2, BaseAssumption DEF More, LowBits
    <3>2. rv.value = d + Base * (nx.value % (Word \div Base)) /\ rv.pos = nx.pos
      BY <1>1, <1>2, <3>1, ReadAtMore, SMTT(20)
    <3>3. pos + 1 \in Nat /\ pos + 1 >= Len(Data)
      BY <1>1, <1>2, <1>3, <2>2
    <3>4. nx.value = 0 /\ nx.pos = pos + 1
      BY <1>2, <3>3, ReadAtEnd
    <3>5. 0 % (Word \div Base) = 0
      <4>1. 0 \in 0 .. Word - 1 /\ 0 <= 0 \div Base
        BY BaseAssumption, WordAssumption
      <4> QED  BY <4>1, BelowDigits
    <3>6. Base * 0 = 0 /\ d + 0 = d
      BY <1>6, BaseAssumption
    <3> HIDE DEF rv, nx, d
    <3> QED  BY <3>2, <3>4, <3>5, <3>6
  <2> QED  BY <2>1, <2>2
<1>8. value + weight * rv.value = w
  <2> HIDE DEF d, rv
  <2>1. weight * d = d * weight
    BY <1>6, SMT
  <2> QED  BY <1>7, <2>1
<1>9. WordsFrom(Data, 0) = out \o (<<w>> \o WordsFrom(Data, pos + 1))
  <2> HIDE DEF w
  <2> QED  BY <1>1, <1>7, <1>8, SMTT(20) DEF DeliveredInv
<1>10. WordsFrom(Data, 0) = out' \o WordsFrom(Data, pos + 1)
  <2>1. <<w>> \in Seq(Nat) /\ w \in Nat
    BY <1>3, WordAssumption
  <2>2. WordsFrom(Data, pos + 1) \in Seq(Nat)
    BY <1>2, WordsFromType
  <2> DEFINE X == WordsFrom(Data, pos + 1)
  <2> HIDE DEF w, X
  <2>3. out' = out \o <<w>>
    <3>1. Append(out, w) = out \o <<w>>
      BY <1>6, <2>1, AppendIsConcat
    <3> QED  BY <1>4, <3>1
  <2>4. (out \o <<w>>) \o X = out \o (<<w>> \o X)
    BY <1>6, <2>1, <2>2, ConcatAssociative DEF X
  <2> QED  BY <1>9, <2>3, <2>4, Zenon DEF X
<1>11. Data' = Data /\ out' \in Seq(Nat)
  <2>1. w \in Nat
    BY <1>3, WordAssumption
  <2> HIDE DEF w
  <2> QED  BY <1>1, <1>4, <1>6, <2>1 DEF Data
<1>12. CASE pos + 1 = size
  <2>1. WordsFrom(Data, pos + 1) = <<>>
    <3>1. pos + 1 \in Nat /\ pos + 1 >= Len(Data)
      BY <1>2, <1>12
    <3> QED  BY <1>2, <3>1, WordsFromValues, Zenon
  <2>2. out' \o <<>> = out'
    BY <1>11
  <2>3. WordsFrom(Data, 0) = out'
    BY <1>10, <2>1, <2>2, Zenon
  <2>4. pos' = size' /\ ~(pos' < size')
    BY <1>1, <1>2, <1>12
  <2> QED  BY <1>11, <2>3, <2>4 DEF DeliveredInv
<1>13. CASE pos + 1 # size
  <2>1. pos + 1 \in Nat /\ pos + 1 < Len(Data)
    BY <1>1, <1>2, <1>13
  <2>2. WordsFrom(Data, pos + 1) = <<nx.value>> \o WordsFrom(Data, nx.pos)
    BY <1>2, <2>1, WordsFromValues, Zenon
  <2>3. nx.value \in 0 .. Word - 1
    BY <1>2, <2>1, ReadType
  <2>4. 0 + 1 * nx.value = nx.value
    BY <2>3, WordAssumption
  <2>5. WordsFrom(Data, 0) = out' \o (<<0 + 1 * nx.value>> \o WordsFrom(Data, nx.pos))
    BY <1>10, <2>2, <2>4, Zenon
  <2>6. pos' # size'
    BY <1>1, <1>13
  <2> QED  BY <1>1, <1>11, <2>5, <2>6, SMTT(20) DEF DeliveredInv
<1> QED  BY <1>12, <1>13

LEMMA DeliveredNext == IInv /\ DeliveredInv /\ [Next]_vars => DeliveredInv'
<1> SUFFICES ASSUME IInv, DeliveredInv, [Next]_vars PROVE DeliveredInv'
  OBVIOUS
<1>1. CASE EmitMore \/ EmitLast
  <2>1. phase' \in {"encode", "sent"}
    BY <1>1 DEF EmitMore, EmitLast
  <2> QED  BY <2>1 DEF DeliveredInv
<1>2. CASE Deliver
  BY <1>2, DeliveredByDeliver
<1>3. CASE ReadMore
  BY <1>3, DeliveredByReadMore
<1>4. CASE ReadLast
  BY <1>4, DeliveredByReadLast
<1>5. CASE Finish \/ UNCHANGED vars
  <2>1. /\ phase' \in {"decode", "done"} => phase \in {"decode", "done"}
        /\ UNCHANGED <<buffer, size, pos, value, weight, out>>
    BY <1>5 DEF Finish, vars, writerVars, readerVars
  <2> QED  BY <2>1 DEF DeliveredInv, Data
<1> QED  BY <1>1, <1>2, <1>3, <1>4, <1>5 DEF Next

\* The generated loops compute the format the codec is modelled with: the bytes
\* pushed are VarintBytes of the words, and the words delivered, from data cut
\* anywhere, are those ReadVarint finds.
THEOREM LoopsAreTheFormat == Spec => []LoopsComputeWire
<1>1. Init => FormatInv
  <2>1. Init => DeliveredInv
    BY DEF Init, DeliveredInv
  <2> QED  BY <2>1, WrittenInit DEF FormatInv
<1>2. IInv /\ FormatInv /\ [Next]_vars => FormatInv'
  BY WrittenNext, DeliveredNext DEF FormatInv
<1>3. IInv /\ FormatInv => LoopsComputeWire
  <2> SUFFICES ASSUME IInv, FormatInv PROVE LoopsComputeWire
    OBVIOUS
  <2>1. phase = "sent" => buffer = FlattenSeq([k \in DOMAIN vals |-> VarintBytes[vals[k]]])
    <3>1. DOMAIN vals = 1 .. Len(vals)
      BY DEF IInv, TypeOK
    <3> QED  BY <3>1 DEF FormatInv, WrittenInv, Written
  <2>2. phase = "done" => pos = size
    BY DEF IInv, ReaderInv
  <2>3. phase = "done" => out = WordsFrom(SubSeq(buffer, 1, size), 0)
    BY <2>2 DEF FormatInv, DeliveredInv, Data
  <2> QED  BY <2>1, <2>3 DEF LoopsComputeWire
<1> QED  BY Invariance, <1>1, <1>2, <1>3, PTL DEF Spec
=============================================================================
