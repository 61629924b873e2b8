---------------------------- MODULE VarintFormat ----------------------------
(***************************************************************************)
(* What the varint loops that codegen.cpp emits into every generated       *)
(* serialize() and deserialize() compute, as operators: the bytes pushed   *)
(* for a word, and the word taken from a position of the data with the     *)
(* position after it.  Varint has the loops themselves, byte by byte; the  *)
(* codec is built on these operators.                                      *)
(***************************************************************************)
EXTENDS Integers, Sequences

CONSTANTS Base,     \* 0x80: a byte carries one digit of this base
          Word      \* 2^64: the number of values of uint64_t

ASSUME BaseAssumption == Base \in Nat /\ Base >= 2
ASSUME WordAssumption == Word \in Nat /\ Word >= Base

\* The word size is a multiple of the digit base: 2^7 divides 2^64.
ASSUME DigitAssumption == Word % Base = 0

VarintBytes[v \in Nat] ==
  IF v > Base - 1 THEN <<(v % Base) + Base>> \o VarintBytes[v \div Base] ELSE <<v>>

\* A mistake: the last byte of a varint that is cut off keeps its high bit.
ReadVarintKeepsHighBit(data, pos) ==
  LET From[k \in Nat \ {0}] ==
        IF k >= Len(data) \/ data[k] < Base THEN [value |-> data[k], pos |-> k]
        ELSE [value |-> (data[k] % Base) + Base * (From[k + 1].value % (Word \div Base)),
              pos |-> From[k + 1].pos]
  IN From[pos + 1]

\* A mistake: a varint cut off by the end of the data is put back.
ReadVarintPutsBack(data, pos) ==
  LET From[k \in Nat \ {0}] ==
        IF k > Len(data) THEN [value |-> 0, pos |-> pos]
        ELSE IF data[k] < Base THEN [value |-> data[k], pos |-> k]
        ELSE [value |-> (data[k] % Base) + Base * (From[k + 1].value % (Word \div Base)),
              pos |-> From[k + 1].pos]
  IN From[pos + 1]

\* The varint loop: up to and including the first byte without the high bit, or
\* to the end of the data.  Bits beyond the word are lost.
ReadVarint(data, pos) ==
  LET From[k \in Nat \ {0}] ==
        IF k > Len(data) THEN [value |-> 0, pos |-> k - 1]
        ELSE IF data[k] < Base THEN [value |-> data[k], pos |-> k]
        ELSE [value |-> (data[k] % Base) + Base * (From[k + 1].value % (Word \div Base)),
              pos |-> From[k + 1].pos]
  IN From[pos + 1]
=============================================================================
