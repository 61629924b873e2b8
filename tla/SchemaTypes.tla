---------------------------- MODULE SchemaTypes ----------------------------
(***************************************************************************)
(* What a schema says about a field, and the wire type and tag that        *)
(* follow from it.  A field is [number, name, type, mods]: its type is a   *)
(* primitive kind or the name of an enum or model, its mods the set of its *)
(* modifiers.                                                              *)
(***************************************************************************)
EXTENDS Integers

SignedKinds == {"INT8", "INT16", "INT32", "INT64"}
UnsignedKinds == {"UINT8", "UINT16", "UINT32", "UINT64"}
IntKinds == SignedKinds \cup UnsignedKinds
FloatKinds == {"FLOAT", "DOUBLE"}
NumberKinds == IntKinds \cup FloatKinds \cup {"BOOL", "BYTE"}
PrimitiveTypes == NumberKinds \cup {"STRING"}

is_repeated(f) == "repeated" \in f.mods
is_optional(f) == "optional" \in f.mods
is_single(f) == ~is_repeated(f) /\ ~is_optional(f)
is_packed(f) == "packed" \in f.mods
is_bitmap(f) == "bitmap" \in f.mods
is_interned(f) == "interned" \in f.mods

-----------------------------------------------------------------------------
(* Wire types and tags *)

KindWireType(type) ==
  CASE type \in IntKinds \cup {"BOOL"} -> 0
    [] type = "DOUBLE" -> 1
    [] type = "FLOAT" -> 5
    [] OTHER -> 2

get_wire_type_value(f) ==
  CASE is_packed(f) -> 3
    [] ~is_packed(f) /\ is_bitmap(f) -> 7
    [] ~is_packed(f) /\ ~is_bitmap(f) /\ is_interned(f) /\ f.type = "STRING" -> 6
    [] OTHER -> KindWireType(f.type)

Tag(number, wiretype) == number * 8 + wiretype
=============================================================================
