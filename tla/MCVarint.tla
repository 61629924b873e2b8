------------------------------ MODULE MCVarint ------------------------------
(***************************************************************************)
(* Varint for TLC: digits of base 4 in words of 8 bits, so that a word     *)
(* takes one to four bytes and every digit boundary is met.                *)
(***************************************************************************)
EXTENDS Varint

MCBase == 4
MCWord == 256

\* Every word alone, and every sequence of up to three words taken from both
\* sides of each digit boundary.
MCEdges == {0, 3, 4, 16, 63, 64, 255}
MCStreams == {<<>>} \cup { <<w>> : w \in 0 .. MCWord - 1 }
               \cup (MCEdges \X MCEdges) \cup (MCEdges \X MCEdges \X MCEdges)
=============================================================================
