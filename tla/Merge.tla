-------------------------------- MODULE Merge --------------------------------
(***************************************************************************)
(* The meaning of a message for the object that receives it, without       *)
(* bytes.  A record the receiver's schema does not know changes nothing; a *)
(* repeated field grows; an optional or plain field is replaced; a plain   *)
(* model is merged field by field.  A reference definition: the generated  *)
(* code never computes it.                                                 *)
(***************************************************************************)
EXTENDS Wire

FieldOf(s, m, n) == CHOOSE f \in ToSet(s.models[m]) : f.number = n

\* The object obj of model m after it took in x: an object, or the part of one
\* that a record carries, as a function from field numbers to their values.
RECURSIVE Absorb(_, _, _, _)
Absorb(s, m, obj, x) ==
  LET Start(f, member) == IF is_single(f) THEN member[1] ELSE Fresh(s, f.type)
      Take(f, member, v) ==
        LET w == IF IsModel(s, f) THEN Absorb(s, f.type, Start(f, member), v) ELSE v
        IN IF is_repeated(f) THEN Append(member, w) ELSE <<w>>
  IN [n \in DOMAIN obj |->
        IF n \notin DOMAIN x THEN obj[n]
        ELSE FoldLeft(LAMBDA member, v : Take(FieldOf(s, m, n), member, v), obj[n], x[n])]

\* The part of an object that a record carries.
Carried(record) == record.number :> record.values

AbsorbAll(s, m, obj, parts) == FoldLeft(LAMBDA o, x : Absorb(s, m, o, x), obj, parts)

=============================================================================
