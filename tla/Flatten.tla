------------------------------- MODULE Flatten -------------------------------
(***************************************************************************)
(* The concatenation of a sequence of sequences.  FlattenSeq of the        *)
(* community modules is the same; it has a definition of its own here so   *)
(* that the proofs do not carry the whole of SequencesExt in every         *)
(* obligation.                                                             *)
(***************************************************************************)
EXTENDS Integers, Sequences

FlattenSeq(seqs) ==
  LET first[n \in 0 .. Len(seqs)] == IF n = 0 THEN <<>> ELSE first[n - 1] \o seqs[n]
  IN first[Len(seqs)]
=============================================================================
