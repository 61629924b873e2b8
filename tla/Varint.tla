------------------------------- MODULE Varint -------------------------------
(***************************************************************************)
(* The varint loops that codegen.cpp emits into every generated            *)
(* serialize() and deserialize().  A sequence of words is written to one   *)
(* buffer, one pushed byte per step; a prefix of the buffer (all of it, or *)
(* a truncated one) is handed to the reader, which takes one byte per      *)
(* step.  Tags, lengths and scalar payloads are all written and read by    *)
(* these loops, so everything that is said about framing rests on them.    *)
(*                                                                         *)
(* A shift count s is represented by its weight 2^s: shifting right by 7   *)
(* divides by Base, and shift += 7 multiplies the weight by Base.          *)
(***************************************************************************)
EXTENDS VarintFormat, Flatten

CONSTANTS Streams   \* the sequences of words the writer may be asked to write

ASSUME StreamsAssumption == Streams \subseteq Seq(0 .. Word - 1)

VARIABLES
  vals,    \* the words to write, fixed from the start
  phase,   \* "encode", "sent", "decode" or "done"
  next,    \* which word the encoder is on
  val,     \* the encoder's loop variable
  buffer,  \* the bytes pushed so far
  trail,   \* history: for every byte, the word it is of and val when pushed
  size,    \* data.size() at the reader: how much of the buffer arrived
  pos,     \* the reader's position
  value,   \* the reader's accumulator
  weight,  \* 2^shift
  out      \* the words the reader has delivered

vars == <<vals, phase, next, val, buffer, trail, size, pos, value, weight, out>>
writerVars == <<vals, next, val, buffer, trail>>
readerVars == <<size, pos, value, weight, out>>

Init ==
  /\ vals \in Streams
  /\ phase = IF vals = <<>> THEN "sent" ELSE "encode"
  /\ next = 1
  /\ val = IF vals = <<>> THEN 0 ELSE vals[1]
  /\ buffer = <<>>
  /\ trail = <<>>
  /\ size = 0
  /\ pos = 0
  /\ value = 0
  /\ weight = 1
  /\ out = <<>>

-----------------------------------------------------------------------------
(* The writer: while (val > 0x7F) { push((val & 0x7F) | 0x80); val >>= 7; } push(val) *)

\* A mistake in the bound: while (val > 0x80).
ContinuesTooLate(v) == v > Base

Continues(v) == v > Base - 1

\* A mistake in the mask: the low bits are pushed without & 0x7F.
LowBitsUnmasked(v) == v

LowBits(v) == v % Base

Push(byte) ==
  /\ buffer' = Append(buffer, byte)
  /\ trail' = Append(trail, [idx |-> next, rest |-> val])

EmitMore ==
  /\ phase = "encode"
  /\ Continues(val)
  /\ Push(LowBits(val) + Base)
  /\ val' = val \div Base
  /\ UNCHANGED <<vals, phase, next, readerVars>>

EmitLast ==
  /\ phase = "encode"
  /\ ~Continues(val)
  /\ Push(val)
  /\ IF next = Len(vals)
     THEN phase' = "sent" /\ UNCHANGED <<next, val>>
     ELSE next' = next + 1 /\ val' = vals[next + 1] /\ UNCHANGED phase
  /\ UNCHANGED <<vals, readerVars>>

-----------------------------------------------------------------------------
(* The caller hands the reader the whole buffer or a truncated copy of it. *)

Deliver ==
  /\ phase = "sent"
  /\ size' \in 0 .. Len(buffer)
  /\ phase' = "decode"
  /\ UNCHANGED <<writerVars, pos, value, weight, out>>

-----------------------------------------------------------------------------
(* The reader: while (pos < data.size()) { byte = data[pos++];             *)
(*   value |= uint64_t(byte & 0x7F) << shift;                              *)
(*   if ((byte & 0x80) == 0) break;  shift += 7; }                         *)

\* Bits shifted out of the word are lost.  A shift by the width of the word or
\* more has no defined result, so any word may come out of it.
ShiftLeft(digit, w) ==
  IF w < Word THEN {(digit * w) % Word} ELSE 0 .. Word - 1

\* A mistake in the test: a zero digit ends the word.
MoreUnlessZero(byte) == byte > Base

More(byte) == byte >= Base

\* |= is addition here because value only has bits below the shift; that
\* value < weight is part of the invariant proved in VarintProofs.
ReadMore ==
  /\ phase = "decode"
  /\ pos < size
  /\ More(buffer[pos + 1])
  /\ pos + 1 < size
  /\ \E bits \in ShiftLeft(LowBits(buffer[pos + 1]), weight) : value' = value + bits
  /\ pos' = pos + 1
  /\ weight' = weight * Base
  /\ UNCHANGED <<writerVars, phase, size, out>>

\* A mistake: int shift = 0 is declared once, outside the loop over the words.
ReadLastKeepsShift ==
  /\ phase = "decode"
  /\ pos < size
  /\ ~More(buffer[pos + 1]) \/ pos + 1 = size
  /\ \E bits \in ShiftLeft(LowBits(buffer[pos + 1]), weight) :
       out' = Append(out, (value + bits) % Word)
  /\ pos' = pos + 1
  /\ value' = 0
  /\ weight' = weight * Base
  /\ UNCHANGED <<writerVars, phase, size>>

\* A mistake: the reader waits for a last byte that the data may not have.
ReadLastWaits ==
  /\ phase = "decode"
  /\ pos < size
  /\ ~More(buffer[pos + 1])
  /\ \E bits \in ShiftLeft(LowBits(buffer[pos + 1]), weight) :
       out' = Append(out, value + bits)
  /\ pos' = pos + 1
  /\ value' = 0
  /\ weight' = 1
  /\ UNCHANGED <<writerVars, phase, size>>

\* The byte without the high bit ends the word, and so does the end of the data.
ReadLast ==
  /\ phase = "decode"
  /\ pos < size
  /\ ~More(buffer[pos + 1]) \/ pos + 1 = size
  /\ \E bits \in ShiftLeft(LowBits(buffer[pos + 1]), weight) :
       out' = Append(out, value + bits)
  /\ pos' = pos + 1
  /\ value' = 0
  /\ weight' = 1
  /\ UNCHANGED <<writerVars, phase, size>>

Finish ==
  /\ phase = "decode"
  /\ pos = size
  /\ phase' = "done"
  /\ UNCHANGED <<writerVars, readerVars>>

Next == EmitMore \/ EmitLast \/ Deliver \/ ReadMore \/ ReadLast \/ Finish

Spec == Init /\ [][Next]_vars

\* Both loops run to their end: nothing blocks and nobody else runs.
FairSpec == Spec /\ WF_vars(Next)

-----------------------------------------------------------------------------
Entry == [idx : Nat \ {0}, rest : 0 .. Word - 1]

TypeOK ==
  /\ vals \in Seq(0 .. Word - 1)
  /\ phase \in {"encode", "sent", "decode", "done"}
  /\ next \in Nat \ {0}
  /\ val \in 0 .. Word - 1
  /\ buffer \in Seq(0 .. 2 * Base - 1)
  /\ trail \in Seq(Entry)
  /\ size \in Nat
  /\ pos \in Nat
  /\ value \in 0 .. Word - 1
  /\ weight \in Nat \ {0}
  /\ out \in Seq(0 .. Word - 1)

\* A word cut off by the end of the data comes out as a smaller word.
CutShort(i) ==
  /\ i = Len(out)
  /\ pos = size
  /\ size < Len(buffer)
  /\ out[i] < vals[i]

\* Varints are self-delimiting: however many words share the buffer and
\* wherever it is cut, the i-th word the generated loop delivers is the i-th
\* word written.  Only the last word of a truncated buffer may differ, and then
\* it is smaller than what was written: no word is ever invented or swallowed.
SelfDelimiting ==
  /\ Len(out) <= Len(vals)
  /\ \A i \in 1 .. Len(out) : out[i] = vals[i] \/ CutShort(i)

\* A reader that is given everything the writer pushed delivers exactly the
\* words written, zero and the largest word included.
WholeRoundTrip ==
  (phase = "done" /\ size = Len(buffer)) => out = vals

\* On bytes that the generated serializer wrote, cut anywhere, the generated
\* deserializer never shifts by the width of the word or more.
ShiftDefined ==
  (phase = "decode" /\ pos < size) => weight < Word

\* The words that an operator reading one varint finds in data from p on.
WordsFrom(data, p) ==
  LET From[q \in Nat] ==
        IF q >= Len(data) THEN <<>>
        ELSE <<ReadVarint(data, q).value>> \o From[ReadVarint(data, q).pos]
  IN From[p]

\* The loops, byte by byte, compute what VarintFormat says of them in one step:
\* the pushed bytes are VarintBytes of the words, and the words delivered, from
\* truncated data too, are those ReadVarint finds.
LoopsComputeWire ==
  /\ phase = "sent" => buffer = FlattenSeq([k \in DOMAIN vals |-> VarintBytes[vals[k]]])
  /\ phase = "done" => out = WordsFrom(SubSeq(buffer, 1, size), 0)

\* Every call of the generated loops returns.
Terminates == <>(phase = "done")
=============================================================================
