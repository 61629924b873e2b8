------------------------------- MODULE MCParser -------------------------------
(* All token sequences up to a length over a small alphabet. *)
EXTENDS Parser

\* Literals in range and above it when MaxInt is 3.
MCLiterals == {1, 4}
=============================================================================
