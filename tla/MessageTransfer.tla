--------------------------- MODULE MessageTransfer ---------------------------
(***************************************************************************)
(* What a transfer of objects promises, without bytes: the records of the  *)
(* sent objects reach the receiving object one at a time and in order.     *)
(* Codec is shown to implement this.                                       *)
(***************************************************************************)
EXTENDS Merge

VARIABLES sch,      \* the receiver's schema
          root,     \* the model that is transferred
          pending,  \* the records that have not been applied
          object    \* the receiving object

transferVars == <<sch, root, pending, object>>

-----------------------------------------------------------------------------
Init ==
  /\ pending = <<>>
  /\ object = Fresh(sch, root)

Send ==
  /\ IsPrefix(pending, pending')
  /\ UNCHANGED <<sch, root, object>>

ApplyNext ==
  /\ pending # <<>>
  /\ object' = Absorb(sch, root, object, Head(pending))
  /\ pending' = Tail(pending)
  /\ UNCHANGED <<sch, root>>

NewObject ==
  /\ pending = <<>>
  /\ object' = Fresh(sch, root)
  /\ UNCHANGED <<sch, root, pending>>

Next == Send \/ ApplyNext \/ NewObject

Spec == Init /\ [][Next]_transferVars
=============================================================================
